----------------------------- MODULE MCRagelMap -----------------------------
(* Three threads, a table with a gap between its parts.                      *)
EXTENDS RagelMap

A(chr, mapping) == [chr |-> chr, mapping |-> mapping]

\* In the order of the code: the greatest character first.
MCAdds == <<A(6, 160), A(4, 161), A(3, 162), A(2, 163)>>
=============================================================================
