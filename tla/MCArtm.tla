------------------------------- MODULE MCArtm -------------------------------
(***************************************************************************)
(* Artm on every vector of up to MaxDocs news articles of the kinds that   *)
(* the code tells apart, with good and bad model files.                    *)
(***************************************************************************)
EXTENDS Artm

CONSTANTS MaxDocs, c1, c2, bg

MCCategories == {c1, c2}

Doc(l, known, above) == [lang |-> l, known |-> known, above |-> above]

\* Topic 1 and 2 are categories, topic 3 is the background.
Kinds ==
  { Doc("ru", TRUE, {1}), Doc("ru", FALSE, {}),
    Doc("en", TRUE, {1, 2}), Doc("en", TRUE, {2, 3}) }

MCInputs == UNION {[1 .. m -> Kinds] : m \in 0 .. MaxDocs}

File(present, tokens, topics) == [present |-> present, tokens |-> tokens, topics |-> topics]

Good == File(TRUE, TRUE, <<c1, c2, bg>>)

MCModelFiles ==
  { [ru |-> Good, en |-> f] :
      f \in {Good,
             File(FALSE, TRUE, <<c1, c2, bg>>),      \* missing
             File(TRUE, FALSE, <<c1, c2, bg>>),      \* without tokens
             File(TRUE, TRUE, <<bg, c2, bg>>)} }     \* an unknown category
=============================================================================
