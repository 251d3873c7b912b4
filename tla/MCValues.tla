------------------------------ MODULE MCValues ------------------------------
(* Words and NodeText in one run: a behaviour is about numbers or about a text. *)
EXTENDS Words

CONSTANTS LEN, Wide, MaxChars

\* A node has a length, and the wide character is none of the others.
ASSUME TextAssumption == LEN \in Nat /\ Wide \notin {"0", "f", "F", "x", "+"}

VARIABLES subject, text

Text == INSTANCE NodeText

valueVars == <<wordVars, subject, text>>

Numbers ==
  /\ subject = "numbers"
  /\ WordsNext
  /\ UNCHANGED <<subject, text>>

Texts ==
  /\ subject = "text"
  /\ Text!Next
  /\ UNCHANGED <<wordVars, subject>>

ValuesInit ==
  /\ WordsInit
  /\ Text!Init
  /\ subject \in {"numbers", "text"}
  /\ subject = "text" => depth = 1 /\ debug

ValuesSpec == ValuesInit /\ [][Numbers \/ Texts]_valueVars

RoundTrip == Text!RoundTrip
=============================================================================
