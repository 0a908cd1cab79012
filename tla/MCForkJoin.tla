---------------------------- MODULE MCForkJoin ----------------------------
(* The fork/join loop on all vector lengths up to MaxDocs.                 *)
EXTENDS ForkJoin

CONSTANT MaxDocs

MCSizes == 0 .. MaxDocs
=============================================================================
