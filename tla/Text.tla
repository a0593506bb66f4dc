-------------------------------- MODULE Text --------------------------------
(***************************************************************************)
(* Texts are sequences of character codes.  What the request, query and    *)
(* router code takes from std::string_view and src/text.cpp.               *)
(***************************************************************************)
EXTENDS Integers, Sequences, SequencesExt

Space == 32   \* or a tab

\* The first c in the text from its i-th character on, or its end.
Find(text, i, c) ==
  LET at == SelectInSubSeq(text, i, Len(text), LAMBDA x : x = c)
  IN  IF at = 0 THEN Len(text) + 1 ELSE at

TrimWhitespace(text) ==
  LET words == {i \in DOMAIN text : text[i] # Space}
      first == CHOOSE i \in words : \A j \in words : i <= j
      final == CHOOSE i \in words : \A j \in words : j <= i
  IN  IF words = {} THEN <<>> ELSE SubSeq(text, first, final)

=============================================================================
