------------------------------ MODULE MCLogReg ------------------------------
(***************************************************************************)
(* LogReg on every file of up to MaxLen tokens, with up to two features    *)
(* announced, and dictionaries around that size.                           *)
(***************************************************************************)
EXTENDS LogReg

CONSTANTS MaxLen

Tails(m) == [1 .. m -> {0, 2, Garbage}]

\* A missing file is one without tokens: nothing can be extracted from either.
MCFiles ==
  {<< >>} \cup {<<c>> \o t : c \in {0, 1, 2, Garbage}, t \in UNION {Tails(m) : m \in 0 .. (MaxLen - 1)}}

MCDictionaries == {1, 2}

MCIndeterminate == {1, 9}
=============================================================================
