------------------------------ MODULE MCStartup ------------------------------
(* Command lines for model checking Startup.                                 *)
EXTENDS Startup

Option(text) == [text |-> text, number |-> NoNumber]
Number(n) == [text |-> "number", number |-> n]

MCArguments ==
  {Option("--help"), Option("--quiet"), Option("--host"), Option("--port"),
   Option("--idle-timeout"), Option("--max-connections"), Option("word"),
   Number(5), Number(10), Number(19), Number(9999), Number(15000), Number(700000000)}

=============================================================================
