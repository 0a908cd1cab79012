------------------------------ MODULE ForkJoin ------------------------------
(***************************************************************************)
(* The fork/join loop that LoadDocs (io.hpp), RecognizeLanguage            *)
(* (langrec.hpp), GenerateFeatures (features.hpp) and DetectNews           *)
(* (news_det.hpp) share: main cuts the index range of a vector into chunks *)
(* of max(1, size / kNumThreads), starts one std::thread per chunk, each   *)
(* thread runs the task body on the slots of its chunk, and main joins the *)
(* threads in the order it started them.                                   *)
(*                                                                         *)
(* What the body does to a slot is left to the module that uses this one:  *)
(* here a body takes a slot (Enter), and completes on it (Leave) or throws *)
(* (Throw), and visits counts the completions.                             *)
(***************************************************************************)
EXTENDS Naturals, Sequences

CONSTANTS
  kNumThreads,          \* common.h; 8 in the build
  Sizes                 \* the vector lengths a caller may pass

ASSUME kNumThreadsAssumption == kNumThreads \in Nat \ {0}
ASSUME SizesAssumption == Sizes \subseteq Nat

VARIABLES
  pc,                   \* where the calling thread (main) is
  n,                    \* size of the vector of the current call
  start,                \* main's loop variable
  workers,              \* std::vector<std::thread>: chunk and local index of each
  joined,               \* how many of them main has joined
  visits                \* slot -> completed runs of the task body on it

vars == <<pc, n, start, workers, joined, visits>>

Slots == 0 .. (n - 1)

Running == pc \in {"spawn", "join"}

\* Mutant: the chunk size does not depend on the size of the vector.
StepOfOne == 1

\* The chunk size: std::max<size_t>(size / kNumThreads, 1u).
Step == IF n \div kNumThreads > 1 THEN n \div kNumThreads ELSE 1

\* A thread's arguments [begin, end), its index i, and whether it is inside
\* the task body on slot i.
Worker(begin, end) == [begin |-> begin, end |-> end, i |-> begin, busy |-> FALSE]

Init ==
  /\ pc = "idle"
  /\ n = 0
  /\ start = 0
  /\ workers = << >>
  /\ joined = 0
  /\ visits = [k \in Slots |-> 0]

NoVisits(size) == [k \in 0 .. (size - 1) |-> 0]

\* A stage is called on a vector of the given size.
Call(size) ==
  /\ pc \in {"idle", "returned"}
  /\ pc' = "spawn"
  /\ n' = size
  /\ start' = 0
  /\ workers' = << >>
  /\ joined' = 0
  /\ visits' = NoVisits(size)

\* Mutant: the end of a chunk is inclusive.
EndInclusive == IF start + Step + 1 < n THEN start + Step + 1 ELSE n

\* Mutant: the last chunk is not cut at the end of the vector.
EndUnclamped == start + Step

\* The end of the next chunk: std::min(size, start + step).
End == IF start + Step < n THEN start + Step ELSE n

\* One iteration of the loop that starts the threads.
Spawn ==
  /\ pc = "spawn"
  /\ start < n
  /\ workers' = Append(workers, Worker(start, End))
  /\ start' = start + Step
  /\ UNCHANGED <<pc, n, joined, visits>>

\* std::thread's constructor throws std::system_error: the stack unwinds and
\* either destroys joinable threads or leaves main, std::terminate both ways.
SpawnFails ==
  /\ pc = "spawn"
  /\ start < n
  /\ pc' = "terminated"
  /\ UNCHANGED <<n, start, workers, joined, visits>>

SpawnDone ==
  /\ pc = "spawn"
  /\ ~ (start < n)
  /\ pc' = "join"
  /\ UNCHANGED <<n, start, workers, joined, visits>>

\* Thread w takes a reference to its next slot and starts the task body.
Enter(w) ==
  /\ Running
  /\ ~ workers[w].busy
  /\ workers[w].i < workers[w].end
  /\ workers' = [workers EXCEPT ![w] = [workers[w] EXCEPT !.busy = TRUE]]
  /\ UNCHANGED <<pc, n, start, joined, visits>>

\* The thread behind its current slot.
Advanced(wk) == [begin |-> wk.begin, end |-> wk.end, i |-> wk.i + 1, busy |-> FALSE]

\* Mutant: the loop of the thread does not advance.
LeaveInPlace(w) ==
  /\ Running
  /\ workers[w].busy
  /\ workers' = [workers EXCEPT ![w] = [workers[w] EXCEPT !.busy = FALSE]]
  /\ UNCHANGED <<pc, n, start, joined, visits>>

\* The body completes on the slot and the thread advances.
Leave(w) ==
  /\ Running
  /\ workers[w].busy
  /\ visits' = [visits EXCEPT ![workers[w].i] = @ + 1]
  /\ workers' = [workers EXCEPT ![w] = Advanced(workers[w])]
  /\ UNCHANGED <<pc, n, start, joined>>

\* An exception leaves the thread's function: std::terminate.
Throw(w) ==
  /\ Running
  /\ workers[w].busy
  /\ pc' = "terminated"
  /\ UNCHANGED <<n, start, workers, joined, visits>>

\* Mutant: a thread is given up (detached) instead of joined.
FinishedAlways(w) == TRUE

\* Thread w has run off the end of its chunk and can be joined.
Finished(w) == ~ workers[w].busy /\ ~ (workers[w].i < workers[w].end)

Join ==
  /\ pc = "join"
  /\ joined < Len(workers)
  /\ Finished(joined + 1)
  /\ joined' = joined + 1
  /\ UNCHANGED <<pc, n, start, workers, visits>>

\* Mutant: the stage returns without joining.
ReturnEarly ==
  /\ pc = "join"
  /\ pc' = "returned"
  /\ UNCHANGED <<n, start, workers, joined, visits>>

Return ==
  /\ pc = "join"
  /\ joined = Len(workers)
  /\ pc' = "returned"
  /\ UNCHANGED <<n, start, workers, joined, visits>>

\* The process is gone.
Stopped == pc = "terminated" /\ UNCHANGED vars

MainStep == Spawn \/ SpawnDone \/ Join \/ Return
ThreadStep(w) == Enter(w) \/ Leave(w)

Next ==
  \/ \E size \in Sizes : Call(size)
  \/ MainStep
  \/ SpawnFails
  \/ \E w \in DOMAIN workers : ThreadStep(w) \/ Throw(w)
  \/ Stopped

Spec == Init /\ [][Next]_vars

MaxSize == CHOOSE s \in Sizes : \A t \in Sizes : t <= s

\* Every thread the kernel holds, main included, is eventually scheduled.
\* There are never more threads than slots.
FairSpec ==
  /\ Spec
  /\ WF_vars(MainStep)
  /\ \A w \in 1 .. MaxSize : WF_vars(w \in DOMAIN workers /\ ThreadStep(w))

-----------------------------------------------------------------------------
WorkerType == [begin : Nat, end : Nat, i : Nat, busy : BOOLEAN]

\* Type invariant.
TypeOK ==
  /\ pc \in {"idle", "spawn", "join", "returned", "terminated"}
  /\ n \in Nat
  /\ start \in Nat
  /\ workers \in Seq(WorkerType)
  /\ joined \in Nat
  /\ visits \in [Slots -> Nat]

\* No data race on the vector: two threads are never inside the task body on
\* the same slot, and no thread indexes past the end of the vector (at(i)
\* never throws).  The chunks of io.hpp:35-38 and its three copies.
NoSlotRace ==
  \A v, w \in DOMAIN workers :
    workers[v].busy /\ workers[w].busy =>
      /\ workers[v].i < n
      /\ v # w => workers[v].i # workers[w].i

\* When a stage has returned, the body has completed exactly once on every
\* slot and no thread is still inside the vector that main goes on to move
\* documents out of (langrec.hpp:67-76, news_det.hpp:71-79).
CompleteOnReturn ==
  pc = "returned" =>
    /\ \A k \in Slots : visits[k] = 1
    /\ \A w \in DOMAIN workers : ~ workers[w].busy

\* kNumThreads is not an upper bound on the threads of a stage: the chunk
\* size is rounded down, so up to 2 * kNumThreads - 1 are started, never more,
\* and never a thread without a slot.
ThreadBound ==
  /\ Len(workers) <= 2 * kNumThreads - 1
  /\ Len(workers) <= n

\* The strengthening that makes the safety properties inductive.  A thread is
\* within its chunk; chunks are non-empty, ordered, and together cover what
\* the loop has passed; a slot has been visited exactly when its thread has
\* passed it.
ChunkInv(wk) ==
  /\ wk.begin <= wk.i
  /\ wk.i <= wk.end
  /\ wk.begin < wk.end
  /\ wk.end <= n
  /\ wk.end <= start
  /\ wk.busy => wk.i < wk.end

ChunksInv == \A w \in DOMAIN workers : ChunkInv(workers[w])

OrderInv ==
  \A v, w \in DOMAIN workers : v < w => workers[v].end <= workers[w].begin

CoverInv ==
  \A k \in Slots : k < start =>
    \E w \in DOMAIN workers : workers[w].begin <= k /\ k < workers[w].end

VisitInv ==
  /\ \A w \in DOMAIN workers : \A k \in Slots :
       workers[w].begin <= k /\ k < workers[w].end =>
         visits[k] = IF k < workers[w].i THEN 1 ELSE 0
  /\ \A k \in Slots : ~ (k < start) => visits[k] = 0

JoinInv ==
  /\ joined <= Len(workers)
  /\ \A w \in 1 .. joined : Finished(w)
  /\ pc = "idle" => n = 0
  /\ pc \in {"join", "returned"} => ~ (start < n)
  /\ pc = "returned" => joined = Len(workers)

CountInv ==
  /\ start = Len(workers) * Step
  /\ Len(workers) > 0 => (Len(workers) - 1) * Step < n

IInv == TypeOK /\ ChunksInv /\ OrderInv /\ CoverInv /\ VisitInv /\ JoinInv /\ CountInv

\* Every call comes to an end: no thread waits for another and main's joins
\* all succeed.
CallEnds == Running ~> (pc \in {"returned", "terminated"})

Status == IF Running THEN "running" ELSE pc
Map == INSTANCE ParallelMap WITH status <- Status, applied <- visits

\* The fork/join loop implements the parallel map.
ImplementsMap == Map!Spec
=============================================================================
