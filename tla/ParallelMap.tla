---------------------------- MODULE ParallelMap ----------------------------
(***************************************************************************)
(* What the four parallel stages of tgnews (LoadDocs, RecognizeLanguage,   *)
(* GenerateFeatures, DetectNews) promise to main: a call with a vector of  *)
(* n slots returns after the stage's task body has been applied exactly    *)
(* once to every slot, in any order, or the process is terminated by an    *)
(* uncaught exception.  Threads, ranges and joins do not appear here.      *)
(***************************************************************************)
EXTENDS Naturals

CONSTANT Sizes          \* the vector lengths a caller may pass

VARIABLES
  status,               \* "idle", "running", "returned" or "terminated"
  n,                    \* the length of the vector of the current call
  applied               \* slot -> how often the task body has completed on it

vars == <<status, n, applied>>

Slots == 0 .. (n - 1)

Init ==
  /\ status = "idle"
  /\ n = 0
  /\ applied = [k \in Slots |-> 0]

Call(size) ==
  /\ status \in {"idle", "returned"}
  /\ status' = "running"
  /\ n' = size
  /\ applied' = [k \in 0 .. (size - 1) |-> 0]

Apply(k) ==
  /\ status = "running"
  /\ applied[k] = 0
  /\ applied' = [applied EXCEPT ![k] = 1]
  /\ UNCHANGED <<status, n>>

Return ==
  /\ status = "running"
  /\ \A k \in Slots : applied[k] = 1
  /\ status' = "returned"
  /\ UNCHANGED <<n, applied>>

Terminate ==
  /\ status = "running"
  /\ status' = "terminated"
  /\ UNCHANGED <<n, applied>>

Progress == (\E k \in Slots : Apply(k)) \/ Return

Next ==
  \/ \E size \in Sizes : Call(size)
  \/ Progress
  \/ Terminate

SafeSpec == Init /\ [][Next]_vars

\* A call that does not terminate the process comes to its end.
Spec == SafeSpec /\ WF_vars(Progress)
=============================================================================
