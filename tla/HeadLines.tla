------------------------------ MODULE HeadLines ------------------------------
(***************************************************************************)
(* The line parsers of src/request_parser.cpp, character by character.     *)
(* RequestHead takes their verdict on a line as given.                     *)
(***************************************************************************)
EXTENDS Text

Colon == 58
Slash == 47
Digits == 48 .. 57

\* is_token_char: letters, digits and ! # $ % & ' * + - . ^ _ ` | ~
TokenCharacters ==
  Digits \cup 65 .. 90 \cup 97 .. 122 \cup 35 .. 39 \cup 94 .. 96
  \cup {33, 42, 43, 45, 46, 124, 126}

IsToken(text) == text # <<>> /\ ToSet(text) \subseteq TokenCharacters

\* "HTTP/" DIGIT "." DIGIT
IsVersion(text) ==
  /\ Len(text) = 8
  /\ SubSeq(text, 1, 5) = <<72, 84, 84, 80, Slash>>
  /\ text[6] \in Digits /\ text[7] = 46 /\ text[8] \in Digits

LineError(status) == [status |-> status]

\* Mutant: what follows the third space is ignored.
ParseRequestLineLoose(line) ==
  LET first   == Find(line, 1, Space)
      second  == Find(line, first + 1, Space)
      method  == SubSeq(line, 1, first - 1)
      target  == SubSeq(line, first + 1, second - 1)
      version == SubSeq(line, second + 1, Find(line, second + 1, Space) - 1)
  IN  IF \/ second > Len(line)
         \/ ~ IsToken(method)
         \/ target = <<>> \/ target[1] # Slash \/ ~ ToSet(target) \subseteq 33 .. 126
         \/ ~ IsVersion(version)
      THEN LineError(400)
      ELSE IF version[6] # 49 THEN LineError(505)
      ELSE [status |-> 0, method |-> method, target |-> target,
            version |-> IF version[8] = 48 THEN "1.0" ELSE "1.1"]

ParseRequestLine(line) ==
  LET first   == Find(line, 1, Space)
      second  == Find(line, first + 1, Space)
      method  == SubSeq(line, 1, first - 1)
      target  == SubSeq(line, first + 1, second - 1)
      version == SubSeq(line, second + 1, Len(line))
  IN  IF \/ second > Len(line) \/ Find(line, second + 1, Space) <= Len(line)
         \/ ~ IsToken(method)
         \/ target = <<>> \/ target[1] # Slash \/ ~ ToSet(target) \subseteq 33 .. 126
         \/ ~ IsVersion(version)
      THEN LineError(400)
      ELSE IF version[6] # 49 THEN LineError(505)
      ELSE [status |-> 0, method |-> method, target |-> target,
            version |-> IF version[8] = 48 THEN "1.0" ELSE "1.1"]

\* Mutant: a name is trimmed, like a value.
ParseHeaderLineTrimming(line) ==
  LET colon == Find(line, 1, Colon)
      name  == TrimWhitespace(SubSeq(line, 1, colon - 1))
      value == TrimWhitespace(SubSeq(line, colon + 1, Len(line)))
  IN  IF \/ line[1] = Space
         \/ colon > Len(line)
         \/ ~ IsToken(name)
         \/ \E c \in ToSet(value) : c < 32 \/ c = 127
      THEN LineError(400)
      ELSE [status |-> 0, name |-> name, value |-> value]

\* A line is not empty; in it, Space is a blank or a tab.
ParseHeaderLine(line) ==
  LET colon == Find(line, 1, Colon)
      name  == SubSeq(line, 1, colon - 1)
      value == TrimWhitespace(SubSeq(line, colon + 1, Len(line)))
  IN  IF \/ line[1] = Space
         \/ colon > Len(line)
         \/ ~ IsToken(name)
         \/ \E c \in ToSet(value) : c < 32 \/ c = 127
      THEN LineError(400)
      ELSE [status |-> 0, name |-> name, value |-> value]

=============================================================================
