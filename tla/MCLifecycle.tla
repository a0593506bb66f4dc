----------------------------- MODULE MCLifecycle -----------------------------
(* ConnectionLifecycle with the requests of MCConnection.                    *)
EXTENDS ConnectionLifecycle, MCConnection

=============================================================================
