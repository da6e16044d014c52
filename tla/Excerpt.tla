------------------------------ MODULE Excerpt ------------------------------
(***************************************************************************)
(* What error_handler of deskbar/xml.c prints of the line in which the XML *)
(* parser has stumbled: an excerpt, and a caret below it.  Memory is a     *)
(* sequence of characters, "nl" for \n and \r, "nul" for \0 and "x" for    *)
(* any other, that begins somewhere in front of the parser's buffer, which *)
(* begins at `start'; `at' is where the parser is.                         *)
(***************************************************************************)
EXTENDS Integers, Sequences, FiniteSetsExt

CONSTANT Size  \* of the array content, 81 in the code

ASSUME ExcerptAssumption == Size \in Nat /\ Size > 2

Newlines(memory) == {i \in DOMAIN memory : memory[i] = "nl"}
Nuls(memory)     == {i \in DOMAIN memory : memory[i] = "nul"}
Smaller(a, b) == IF a < b THEN a ELSE b

(* Behind newlines the handler goes back to the end of a line.             *)
LineEnd(memory, at) == Max({i \in 1 .. at : i \notin Newlines(memory)})

(* From there to the newline in front of the line, or Size - 1 characters. *)
(* The test cur > base does not stop it: base is NULL.                     *)
MutBack == Size
Back == Size - 1
StepsTo(memory, at) ==
  Max({LineEnd(memory, at) - Back} \cup
      {i \in Newlines(memory) : i < LineEnd(memory, at)})

(* Where the excerpt begins.                                               *)
Begin(memory, at) ==
  LET i == StepsTo(memory, at)
  IN  IF i \in Newlines(memory) THEN i + 1 ELSE i

Column(memory, at) == at - Begin(memory, at)

(* Up to Size - 1 characters, to the end of the line or the next NUL, of   *)
(* which there is one behind the text.                                     *)
MutLength(memory, at) == Len(memory) + 1 - Begin(memory, at)
Length(memory, at) ==
  LET first == Begin(memory, at)
      ends  == {i \in Newlines(memory) : i > first} \cup
               {i \in Nuls(memory) : i >= first} \cup {Len(memory) + 1}
  IN  Smaller(Size - 1, Min(ends) - first)

(* How far the characters of content are blanked for the caret.            *)
Caret(memory, at) ==
  Smaller(Smaller(Column(memory, at), Size - 2), Length(memory, at))

Report(memory, start, at) ==
  [ memory |-> memory, start |-> start, at |-> at, low |-> StepsTo(memory, at),
    begin |-> Begin(memory, at), length |-> Length(memory, at),
    caret |-> Caret(memory, at) ]
=============================================================================
