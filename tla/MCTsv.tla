------------------------------- MODULE MCTsv -------------------------------
(* Tables of up to MaxDocs documents that differ in the properties they have. *)
EXTENDS Tsv, TLC

Plain(id, meta) == [meta |-> meta, text |-> Str(id, {"newline"}), links |-> Str(id, {})]

\* An ordinary document, one with separators in its title, one with properties
\* that have the names of columns, one with a separator in a name, and one that
\* was moved out of its slot.
MCDocuments ==
  { Plain("d1", "lang" :> Str("de", {})),
    Plain("d2", "title" :> Str("t", {"tab", "newline"})),
    Plain("d3", ("text" :> Str("other", {})) @@ ("is_news" :> Str("yes", {}))),
    Plain("d4", "a\tb" :> Str("v", {})),
    [meta |-> << >>, text |-> EmptyString, links |-> EmptyString] }

MCFlagValues == {[is_news |-> b, is_news_score |-> b] : b \in {"0", "1"}}

MCDirtyNames == {"a\tb"}
=============================================================================
