--------------------------- MODULE MCHtmlDocument ---------------------------
(* Three objects, one file with a meta property called "path", one that      *)
(* cannot be opened.                                                         *)
EXTENDS HtmlDocument

MCFiles == {"a.html", "b.html", "gone.html"}
MCUnreadable == {"gone.html"}
MCFileMeta == [f \in MCFiles |-> IF f = "a.html" THEN [path |-> "elsewhere"] ELSE << >>]
=============================================================================
