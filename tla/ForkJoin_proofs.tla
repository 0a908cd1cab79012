--------------------------- MODULE ForkJoin_proofs ---------------------------
(***************************************************************************)
(* Proofs about the fork/join loop, for every number of threads and every  *)
(* sequence of calls.                                                      *)
(***************************************************************************)
EXTENDS ForkJoin, SequenceTheorems, TLAPS

\* Dividing a size by the number of threads.
LEMMA QuotientType == ASSUME NEW m \in Nat PROVE m \div kNumThreads \in Nat
  BY kNumThreadsAssumption, SMT

\* The chunk size is a positive number.
LEMMA StepType == ASSUME n \in Nat PROVE Step \in Nat /\ Step >= 1
  BY QuotientType DEF Step

\* Counting one more visit.
LEMMA VisitUpdate ==
  ASSUME NEW D, NEW f \in [D -> Nat], NEW k
  PROVE  /\ [f EXCEPT ![k] = f[k] + 1] \in [D -> Nat]
         /\ \A j \in D : [f EXCEPT ![k] = f[k] + 1][j] = IF j = k THEN f[k] + 1 ELSE f[j]
  <1>1. CASE k \in D
    BY <1>1
  <1>2. CASE k \notin D
    <2>1. ASSUME NEW e PROVE [f EXCEPT ![k] = e] = f
      BY <1>2
    <2>2. [f EXCEPT ![k] = f[k] + 1] = f
      BY <2>1
    <2>3. QED
      BY <1>2, <2>2
  <1>3. QED
    BY <1>1, <1>2

\* What overwriting one element of the workers vector leaves in place.
LEMMA WorkerUpdate ==
  ASSUME NEW ws \in Seq(WorkerType), NEW w \in DOMAIN ws, NEW e \in WorkerType
  PROVE  /\ [ws EXCEPT ![w] = e] \in Seq(WorkerType)
         /\ Len([ws EXCEPT ![w] = e]) = Len(ws)
         /\ DOMAIN [ws EXCEPT ![w] = e] = DOMAIN ws
         /\ \A v \in DOMAIN ws : [ws EXCEPT ![w] = e][v] = IF v = w THEN e ELSE ws[v]
  <1>1. DOMAIN ws = 1 .. Len(ws)
    BY LenProperties
  <1>2. QED
    BY <1>1, ExceptSeq

\* A thread that takes a slot only changes its own busy flag.
LEMMA EnterWorkers ==
  ASSUME TypeOK, NEW w \in DOMAIN workers, Enter(w)
  PROVE  /\ workers' \in Seq(WorkerType)
         /\ Len(workers') = Len(workers)
         /\ DOMAIN workers' = DOMAIN workers
         /\ \A v \in DOMAIN workers :
              workers'[v] = IF v = w THEN [workers[w] EXCEPT !.busy = TRUE] ELSE workers[v]
  <1> DEFINE e == [workers[w] EXCEPT !.busy = TRUE]
  <1>1. workers \in Seq(WorkerType)
    BY DEF TypeOK
  <1>2. workers[w] \in WorkerType
    BY <1>1, LenProperties, ElementOfSeq
  <1>3. e \in WorkerType
    BY <1>2 DEF WorkerType
  <1>4. workers' = [workers EXCEPT ![w] = e]
    BY DEF Enter
  <1> HIDE DEF e
  <1>5. /\ workers' \in Seq(WorkerType)
        /\ Len(workers') = Len(workers)
        /\ DOMAIN workers' = DOMAIN workers
        /\ \A v \in DOMAIN workers : workers'[v] = IF v = w THEN e ELSE workers[v]
    BY <1>1, <1>3, <1>4, WorkerUpdate
  <1>6. QED
    BY <1>5 DEF e

\* A thread whose body completes only advances its own index.
LEMMA LeaveWorkers ==
  ASSUME TypeOK, NEW w \in DOMAIN workers, Leave(w)
  PROVE  /\ workers' \in Seq(WorkerType)
         /\ Len(workers') = Len(workers)
         /\ DOMAIN workers' = DOMAIN workers
         /\ \A v \in DOMAIN workers :
              workers'[v] = IF v = w THEN Advanced(workers[w]) ELSE workers[v]
  <1> DEFINE e == Advanced(workers[w])
  <1>1. workers \in Seq(WorkerType)
    BY DEF TypeOK
  <1>2. workers[w] \in WorkerType
    BY <1>1, LenProperties, ElementOfSeq
  <1>3. e \in WorkerType
    BY <1>2 DEF WorkerType, Advanced
  <1>4. workers' = [workers EXCEPT ![w] = e]
    BY DEF Leave
  <1> HIDE DEF e
  <1>5. /\ workers' \in Seq(WorkerType)
        /\ Len(workers') = Len(workers)
        /\ DOMAIN workers' = DOMAIN workers
        /\ \A v \in DOMAIN workers : workers'[v] = IF v = w THEN e ELSE workers[v]
    BY <1>1, <1>3, <1>4, WorkerUpdate
  <1>6. QED
    BY <1>5 DEF e

\* Every step of the loop keeps the variables in their types.
LEMMA TypeStep == TypeOK /\ [Next]_vars => TypeOK'
  <1> SUFFICES ASSUME TypeOK, [Next]_vars PROVE TypeOK'
    OBVIOUS
  <1> USE DEF TypeOK, WorkerType, Slots
  <1>1. ASSUME NEW size \in Sizes, Call(size) PROVE TypeOK'
    BY <1>1, SizesAssumption DEF Call, NoVisits
  <1>2. CASE Spawn
    <2>1. Step \in Nat
      BY StepType
    <2>2. PICK end \in Nat : workers' = Append(workers, Worker(start, end))
      BY <1>2, <2>1 DEF Spawn, End
    <2>3. workers' \in Seq(WorkerType)
      BY <2>2 DEF Worker
    <2>4. QED
      BY <1>2, <2>1, <2>3 DEF Spawn, End
  <1>3. CASE SpawnDone
    BY <1>3 DEF SpawnDone
  <1>4. CASE SpawnFails
    BY <1>4 DEF SpawnFails
  <1>5. ASSUME NEW w \in DOMAIN workers, Enter(w) PROVE TypeOK'
    BY <1>5, EnterWorkers DEF Enter
  <1>6. ASSUME NEW w \in DOMAIN workers, Leave(w) PROVE TypeOK'
    <2>1. visits' \in [Slots -> Nat]
      BY <1>6, VisitUpdate DEF Leave
    <2>2. n' = n /\ workers' \in Seq(WorkerType)
      BY <1>6, LeaveWorkers DEF Leave
    <2>3. QED
      BY <1>6, <2>1, <2>2 DEF Leave
  <1>7. ASSUME NEW w \in DOMAIN workers, Throw(w) PROVE TypeOK'
    BY <1>7 DEF Throw
  <1>8. CASE Join
    BY <1>8 DEF Join
  <1>9. CASE Return
    BY <1>9 DEF Return
  <1>10. CASE UNCHANGED vars
    BY <1>10 DEF vars
  <1>11. QED
    BY <1>1, <1>2, <1>3, <1>4, <1>5, <1>6, <1>7, <1>8, <1>9, <1>10
       DEF Next, MainStep, ThreadStep, Stopped

\* The type invariant of the loop (the variables of LoadDocs and its copies).
THEOREM TypeCorrect == Spec => []TypeOK
  <1>1. Init => TypeOK
    BY DEF Init, TypeOK, Slots, WorkerType
  <1>2. QED
    BY <1>1, TypeStep, PTL DEF Spec

-----------------------------------------------------------------------------
\* A thread's record, component by component.
LEMMA WorkerFields ==
  ASSUME TypeOK, NEW w \in DOMAIN workers
  PROVE  /\ workers[w] \in WorkerType
         /\ workers[w].begin \in Nat
         /\ workers[w].end \in Nat
         /\ workers[w].i \in Nat
         /\ workers[w].busy \in BOOLEAN
  <1>1. workers[w] \in WorkerType
    BY LenProperties, ElementOfSeq DEF TypeOK
  <1>2. QED
    BY <1>1 DEF WorkerType

\* The chunk a thread is started with, and what the start leaves in place.
LEMMA SpawnWorkers ==
  ASSUME TypeOK, Spawn
  PROVE  \E end \in Nat :
           /\ end = IF start + Step < n THEN start + Step ELSE n
           /\ workers' \in Seq(WorkerType)
           /\ Len(workers') = Len(workers) + 1
           /\ DOMAIN workers' = DOMAIN workers \cup {Len(workers) + 1}
           /\ \A v \in DOMAIN workers : workers'[v] = workers[v]
           /\ workers'[Len(workers) + 1] = Worker(start, end)
  <1> DEFINE end == IF start + Step < n THEN start + Step ELSE n
  <1>1. end \in Nat
    BY StepType DEF TypeOK
  <1>2. workers' = Append(workers, Worker(start, end))
    BY DEF Spawn, End
  <1> HIDE DEF end
  <1>3. workers \in Seq(WorkerType) /\ Worker(start, end) \in WorkerType
    BY <1>1 DEF TypeOK, Worker, WorkerType
  <1>4. DOMAIN workers = 1 .. Len(workers) /\ Len(workers) \in Nat
    BY <1>3, LenProperties
  <1>5. workers' \in Seq(WorkerType) /\ Len(workers') = Len(workers) + 1
    BY <1>2, <1>3, AppendProperties
  <1>6. DOMAIN workers' = 1 .. (Len(workers) + 1)
    BY <1>5, LenProperties
  <1>7. \A v \in DOMAIN workers : workers'[v] = workers[v]
    BY <1>2, <1>3, <1>4, AppendProperties
  <1>8. workers'[Len(workers) + 1] = Worker(start, end)
    BY <1>2, <1>3, AppendProperties
  <1>9. DOMAIN workers' = DOMAIN workers \cup {Len(workers) + 1}
    BY <1>4, <1>6
  <1>10. QED
    BY <1>1, <1>5, <1>7, <1>8, <1>9 DEF end

\* A step either starts a call, starts a thread, moves a thread through its
\* chunk, or leaves the vector, the threads and the counts alone.
LEMMA StepCases ==
  ASSUME [Next]_vars
  PROVE  \/ \E size \in Sizes : Call(size)
         \/ Spawn
         \/ \E w \in DOMAIN workers : Enter(w)
         \/ \E w \in DOMAIN workers : Leave(w)
         \/ UNCHANGED <<n, start, workers, visits>>
  BY DEF Next, MainStep, ThreadStep, Stopped, vars, SpawnDone, SpawnFails, Throw, Join, Return

\* A fresh call has no chunks yet.
LEMMA CallInv ==
  ASSUME NEW size \in Sizes, Call(size)
  PROVE  /\ ChunksInv' /\ OrderInv' /\ CoverInv' /\ VisitInv'
         /\ n' \in Nat /\ start' = 0 /\ Len(workers') = 0 /\ joined' = 0 /\ pc' = "spawn"
  <1> USE SizesAssumption
  <1>1. /\ workers' = << >> /\ start' = 0 /\ n' = size /\ joined' = 0 /\ pc' = "spawn"
        /\ visits' = [k \in 0 .. (size - 1) |-> 0]
    BY DEF Call, NoVisits
  <1>2. DOMAIN workers' = {} /\ Len(workers') = 0
    BY <1>1
  <1>3. CoverInv'
    BY <1>1 DEF CoverInv, Slots
  <1>4. VisitInv'
    BY <1>1, <1>2 DEF VisitInv, Slots
  <1>5. QED
    BY <1>1, <1>2, <1>3, <1>4 DEF ChunksInv, OrderInv

\* Chunks stay inside the vector and threads inside their chunks.
LEMMA ChunksStep == IInv /\ [Next]_vars => ChunksInv'
  <1> SUFFICES ASSUME IInv, [Next]_vars PROVE ChunksInv'
    OBVIOUS
  <1>0. TypeOK /\ ChunksInv /\ n \in Nat /\ start \in Nat
    BY DEF IInv, TypeOK
  <1>1. ASSUME NEW size \in Sizes, Call(size) PROVE ChunksInv'
    BY <1>1, CallInv
  <1>2. CASE Spawn
    <2>1. PICK end \in Nat :
            /\ end = IF start + Step < n THEN start + Step ELSE n
            /\ DOMAIN workers' = DOMAIN workers \cup {Len(workers) + 1}
            /\ \A v \in DOMAIN workers : workers'[v] = workers[v]
            /\ workers'[Len(workers) + 1] = Worker(start, end)
      BY <1>0, <1>2, SpawnWorkers
    <2>2. start < n /\ start' = start + Step /\ n' = n
      BY <1>2 DEF Spawn, End
    <2>3. Step \in Nat /\ Step >= 1
      BY <1>0, StepType
    <2>4. QED
      BY <1>0, <2>1, <2>2, <2>3, WorkerFields DEF ChunksInv, ChunkInv, Worker
  <1>3. ASSUME NEW w \in DOMAIN workers, Enter(w) PROVE ChunksInv'
    BY <1>0, <1>3, EnterWorkers, WorkerFields DEF Enter, ChunksInv, ChunkInv, WorkerType
  <1>4. ASSUME NEW w \in DOMAIN workers, Leave(w) PROVE ChunksInv'
    BY <1>0, <1>4, LeaveWorkers, WorkerFields DEF Leave, ChunksInv, ChunkInv, Advanced
  <1>5. CASE UNCHANGED <<n, start, workers, visits>>
    BY <1>0, <1>5 DEF ChunksInv, ChunkInv
  <1>6. QED
    BY <1>1, <1>2, <1>3, <1>4, <1>5, StepCases

\* Chunks stay in order, so no two of them meet.
LEMMA OrderStep == IInv /\ [Next]_vars => OrderInv'
  <1> SUFFICES ASSUME IInv, [Next]_vars PROVE OrderInv'
    OBVIOUS
  <1>0. TypeOK /\ ChunksInv /\ OrderInv /\ n \in Nat /\ start \in Nat
    BY DEF IInv, TypeOK
  <1>1. ASSUME NEW size \in Sizes, Call(size) PROVE OrderInv'
    BY <1>1, CallInv
  <1>2. CASE Spawn
    <2>1. PICK end \in Nat :
            /\ end = IF start + Step < n THEN start + Step ELSE n
            /\ DOMAIN workers' = DOMAIN workers \cup {Len(workers) + 1}
            /\ \A v \in DOMAIN workers : workers'[v] = workers[v]
            /\ workers'[Len(workers) + 1] = Worker(start, end)
      BY <1>0, <1>2, SpawnWorkers
    <2>2. start < n /\ start' = start + Step /\ n' = n /\ visits' = visits
      BY <1>2 DEF Spawn, End
    <2>3. Step \in Nat /\ Step >= 1
      BY <1>0, StepType
    <2>4. DOMAIN workers = 1 .. Len(workers) /\ Len(workers) \in Nat
      BY <1>0, LenProperties DEF TypeOK
    <2>5. QED
      BY <1>0, <2>1, <2>2, <2>4, WorkerFields DEF OrderInv, ChunksInv, ChunkInv, Worker
  <1>3. ASSUME NEW w \in DOMAIN workers, Enter(w) PROVE OrderInv'
    <2>1. DOMAIN workers' = DOMAIN workers
      BY <1>0, <1>3, EnterWorkers
    <2>2. \A v \in DOMAIN workers :
            workers'[v].begin = workers[v].begin /\ workers'[v].end = workers[v].end
      BY <1>0, <1>3, EnterWorkers, WorkerFields DEF WorkerType
    <2>3. QED
      BY <1>0, <2>1, <2>2 DEF OrderInv
  <1>4. ASSUME NEW w \in DOMAIN workers, Leave(w) PROVE OrderInv'
    <2>1. DOMAIN workers' = DOMAIN workers
      BY <1>0, <1>4, LeaveWorkers
    <2>2. \A v \in DOMAIN workers :
            workers'[v].begin = workers[v].begin /\ workers'[v].end = workers[v].end
      <3>1. ASSUME NEW v \in DOMAIN workers
            PROVE  workers'[v] = IF v = w THEN Advanced(workers[w]) ELSE workers[v]
        BY <1>0, <1>4, LeaveWorkers
      <3>2. QED
        BY <3>1 DEF Advanced
    <2>3. QED
      BY <1>0, <2>1, <2>2 DEF OrderInv
  <1>5. CASE UNCHANGED <<n, start, workers, visits>>
    BY <1>0, <1>5 DEF OrderInv
  <1>6. QED
    BY <1>1, <1>2, <1>3, <1>4, <1>5, StepCases

\* Every slot the loop has passed is in some thread's chunk.
LEMMA CoverStep == IInv /\ [Next]_vars => CoverInv'
  <1> SUFFICES ASSUME IInv, [Next]_vars PROVE CoverInv'
    OBVIOUS
  <1>0. TypeOK /\ CoverInv /\ n \in Nat /\ start \in Nat
    BY DEF IInv, TypeOK
  <1>1. ASSUME NEW size \in Sizes, Call(size) PROVE CoverInv'
    BY <1>1, CallInv
  <1>2. CASE Spawn
    <2>1. PICK end \in Nat :
            /\ end = IF start + Step < n THEN start + Step ELSE n
            /\ DOMAIN workers' = DOMAIN workers \cup {Len(workers) + 1}
            /\ \A v \in DOMAIN workers : workers'[v] = workers[v]
            /\ workers'[Len(workers) + 1] = Worker(start, end)
      BY <1>0, <1>2, SpawnWorkers
    <2>2. start < n /\ start' = start + Step /\ n' = n /\ visits' = visits
      BY <1>2 DEF Spawn, End
    <2>3. Step \in Nat /\ Step >= 1
      BY <1>0, StepType
    <2>4. ASSUME NEW k \in Slots, k < start + Step
          PROVE  \E w \in DOMAIN workers' : workers'[w].begin <= k /\ k < workers'[w].end
      <3>1. CASE k < start
        BY <1>0, <2>1, <3>1 DEF CoverInv
      <3>2. CASE ~ (k < start)
        BY <1>0, <2>1, <2>2, <2>3, <2>4, <3>2 DEF Worker, Slots
      <3>3. QED
        BY <3>1, <3>2
    <2>5. QED
      BY <2>2, <2>4 DEF CoverInv, Slots
  <1>3. ASSUME NEW w \in DOMAIN workers, Enter(w) PROVE CoverInv'
    BY <1>0, <1>3, EnterWorkers, WorkerFields DEF Enter, CoverInv, Slots, WorkerType
  <1>4. ASSUME NEW w \in DOMAIN workers, Leave(w) PROVE CoverInv'
    BY <1>0, <1>4, LeaveWorkers, WorkerFields DEF Leave, CoverInv, Slots, Advanced
  <1>5. CASE UNCHANGED <<n, start, workers, visits>>
    BY <1>0, <1>5 DEF CoverInv, Slots
  <1>6. QED
    BY <1>1, <1>2, <1>3, <1>4, <1>5, StepCases

\* A slot is visited when, and only when, its thread passes it.
LEMMA VisitStep == IInv /\ [Next]_vars => VisitInv'
  <1> SUFFICES ASSUME IInv, [Next]_vars PROVE VisitInv'
    OBVIOUS
  <1>0. /\ TypeOK /\ ChunksInv /\ OrderInv /\ VisitInv
        /\ n \in Nat /\ start \in Nat /\ visits \in [Slots -> Nat]
    BY DEF IInv, TypeOK
  <1>1. ASSUME NEW size \in Sizes, Call(size) PROVE VisitInv'
    BY <1>1, CallInv
  <1>2. CASE Spawn
    <2>1. PICK end \in Nat :
            /\ end = IF start + Step < n THEN start + Step ELSE n
            /\ DOMAIN workers' = DOMAIN workers \cup {Len(workers) + 1}
            /\ \A v \in DOMAIN workers : workers'[v] = workers[v]
            /\ workers'[Len(workers) + 1] = Worker(start, end)
      BY <1>0, <1>2, SpawnWorkers
    <2>2. start < n /\ start' = start + Step /\ n' = n /\ visits' = visits
      BY <1>2 DEF Spawn, End
    <2>3. Step \in Nat /\ Step >= 1
      BY <1>0, StepType
    <2>4. Slots' = Slots /\ \A k \in Slots : k \in Nat /\ (~ (k < start) => visits'[k] = 0)
      BY <1>0, <2>2 DEF VisitInv, Slots
    <2>5. ASSUME NEW v \in DOMAIN workers', NEW k \in Slots,
                 workers'[v].begin <= k, k < workers'[v].end
          PROVE  visits'[k] = IF k < workers'[v].i THEN 1 ELSE 0
      <3>1. CASE v \in DOMAIN workers
        BY <1>0, <2>1, <2>2, <2>5, <3>1 DEF VisitInv
      <3>2. CASE v = Len(workers) + 1
        <4>1. workers'[v].begin = start /\ workers'[v].i = start
          BY <2>1, <3>2 DEF Worker
        <4>2. QED
          BY <1>0, <2>4, <2>5, <4>1
      <3>3. QED
        BY <2>1, <3>1, <3>2
    <2>6. ASSUME NEW k \in Slots, ~ (k < start') PROVE visits'[k] = 0
      BY <1>0, <2>2, <2>3, <2>4, <2>6
    <2>7. QED
      BY <2>4, <2>5, <2>6 DEF VisitInv
  <1>3. ASSUME NEW w \in DOMAIN workers, Enter(w) PROVE VisitInv'
    BY <1>0, <1>3, EnterWorkers, WorkerFields DEF Enter, VisitInv, Slots, WorkerType
  <1>4. ASSUME NEW w \in DOMAIN workers, Leave(w) PROVE VisitInv'
    <2> DEFINE j == workers[w].i
    <2>1. DOMAIN workers = 1 .. Len(workers) /\ Len(workers) \in Nat
      BY <1>0, LenProperties DEF TypeOK
    <2>2. /\ n' = n /\ start' = start /\ DOMAIN workers' = DOMAIN workers
          /\ \A v \in DOMAIN workers :
               workers'[v] = IF v = w THEN Advanced(workers[w]) ELSE workers[v]
      BY <1>0, <1>4, LeaveWorkers DEF Leave
    <2>3. /\ j \in Slots /\ workers[w].begin <= j /\ j < workers[w].end
          /\ workers[w].end <= start
      BY <1>0, <1>4, WorkerFields DEF Leave, ChunksInv, ChunkInv, Slots
    <2>4. /\ visits[j] = 0
          /\ \A k \in Slots : visits'[k] = IF k = j THEN visits[j] + 1 ELSE visits[k]
      BY <1>0, <1>4, <2>3, VisitUpdate, WorkerFields DEF Leave, VisitInv
    <2>5. ASSUME NEW v \in DOMAIN workers, v # w
          PROVE  ~ (workers[v].begin <= j /\ j < workers[v].end)
      <3>1. v \in Nat /\ w \in Nat /\ j \in Nat
        BY <1>0, <2>1, <2>3 DEF Slots
      <3>2. /\ workers[v].begin \in Nat /\ workers[v].end \in Nat
            /\ workers[w].begin \in Nat /\ workers[w].end \in Nat
        BY <1>0, WorkerFields
      <3> HIDE DEF j
      <3>3. CASE v < w
        BY <1>0, <2>3, <3>1, <3>2, <3>3 DEF OrderInv
      <3>4. CASE w < v
        BY <1>0, <2>3, <3>1, <3>2, <3>4 DEF OrderInv
      <3>5. QED
        BY <2>5, <3>1, <3>3, <3>4
    <2>6. ASSUME NEW v \in DOMAIN workers, NEW k \in Slots,
                 workers[v].begin <= k, k < workers[v].end
          PROVE  visits'[k] = IF k < workers'[v].i THEN 1 ELSE 0
      <3>1. CASE v = w
        BY <1>0, <2>2, <2>3, <2>4, <2>6, <3>1, WorkerFields DEF VisitInv, Advanced, Slots
      <3>2. CASE v # w
        BY <1>0, <2>2, <2>4, <2>5, <2>6, <3>2, WorkerFields DEF VisitInv, Slots
      <3>3. QED
        BY <3>1, <3>2
    <2>7. ASSUME NEW k \in Slots, ~ (k < start) PROVE visits'[k] = 0
      BY <1>0, <2>3, <2>4, <2>7, WorkerFields DEF VisitInv, Slots
    <2> HIDE DEF j
    <2>8. \A v \in DOMAIN workers :
            workers'[v].begin = workers[v].begin /\ workers'[v].end = workers[v].end
      BY <2>2 DEF Advanced
    <2>9. QED
      BY <2>2, <2>6, <2>7, <2>8 DEF VisitInv, Slots
  <1>5. CASE UNCHANGED <<n, start, workers, visits>>
    BY <1>0, <1>5 DEF VisitInv, Slots
  <1>6. QED
    BY <1>1, <1>2, <1>3, <1>4, <1>5, StepCases

\* Main joins threads that have finished, and only leaves the two loops at
\* their ends.
LEMMA JoinStep == IInv /\ [Next]_vars => JoinInv'
  <1> SUFFICES ASSUME IInv, [Next]_vars PROVE JoinInv'
    OBVIOUS
  <1>0. /\ TypeOK /\ JoinInv /\ n \in Nat /\ start \in Nat /\ joined \in Nat
        /\ DOMAIN workers = 1 .. Len(workers) /\ Len(workers) \in Nat
    BY LenProperties DEF IInv, TypeOK
  <1>1. ASSUME NEW size \in Sizes, Call(size) PROVE JoinInv'
    BY <1>1, CallInv DEF JoinInv
  <1>2. CASE Spawn
    <2>1. /\ Len(workers') = Len(workers) + 1
          /\ \A v \in DOMAIN workers : workers'[v] = workers[v]
      BY <1>0, <1>2, SpawnWorkers
    <2>2. pc = "spawn" /\ pc' = pc /\ joined' = joined
      BY <1>2 DEF Spawn, End
    <2>3. ASSUME NEW v \in 1 .. joined PROVE Finished(v)'
      <3>1. Finished(v)
        BY <1>0 DEF JoinInv
      <3>2. v \in DOMAIN workers
        <4>1. joined <= Len(workers)
          BY <1>0 DEF JoinInv
        <4>2. v \in 1 .. Len(workers)
          BY <1>0, <4>1
        <4>3. QED
          BY <1>0, <4>2
      <3>3. QED
        BY <2>1, <3>1, <3>2 DEF Finished
    <2>4. QED
      BY <1>0, <2>1, <2>2, <2>3 DEF JoinInv
  <1>3. ASSUME NEW w \in DOMAIN workers, Enter(w) PROVE JoinInv'
    <2>1. /\ Len(workers') = Len(workers)
          /\ \A v \in DOMAIN workers : v # w => workers'[v] = workers[v]
      BY <1>0, <1>3, EnterWorkers
    <2>2. ~ Finished(w) /\ UNCHANGED <<pc, n, start, joined>>
      BY <1>3 DEF Enter, Finished
    <2>3. ASSUME NEW v \in 1 .. joined PROVE Finished(v)'
      <3>1. Finished(v)
        BY <1>0 DEF JoinInv
      <3>2. v \in DOMAIN workers
        <4>1. joined <= Len(workers)
          BY <1>0 DEF JoinInv
        <4>2. v \in 1 .. Len(workers)
          BY <1>0, <4>1
        <4>3. QED
          BY <1>0, <4>2
      <3>3. v # w
        BY <2>2, <3>1
      <3>4. QED
        BY <2>1, <3>1, <3>2, <3>3 DEF Finished
    <2>4. QED
      BY <1>0, <2>1, <2>2, <2>3 DEF JoinInv
  <1>4. ASSUME NEW w \in DOMAIN workers, Leave(w) PROVE JoinInv'
    <2>1. /\ Len(workers') = Len(workers)
          /\ \A v \in DOMAIN workers : v # w => workers'[v] = workers[v]
      BY <1>0, <1>4, LeaveWorkers
    <2>2. ~ Finished(w) /\ UNCHANGED <<pc, n, start, joined>>
      BY <1>4 DEF Leave, Finished
    <2>3. ASSUME NEW v \in 1 .. joined PROVE Finished(v)'
      <3>1. Finished(v)
        BY <1>0 DEF JoinInv
      <3>2. v \in DOMAIN workers
        <4>1. joined <= Len(workers)
          BY <1>0 DEF JoinInv
        <4>2. v \in 1 .. Len(workers)
          BY <1>0, <4>1
        <4>3. QED
          BY <1>0, <4>2
      <3>3. v # w
        BY <2>2, <3>1
      <3>4. QED
        BY <2>1, <3>1, <3>2, <3>3 DEF Finished
    <2>4. QED
      BY <1>0, <2>1, <2>2, <2>3 DEF JoinInv
  <1>5. CASE SpawnDone
    BY <1>0, <1>5 DEF SpawnDone, JoinInv, Finished
  <1>6. CASE SpawnFails
    BY <1>0, <1>6 DEF SpawnFails, JoinInv, Finished
  <1>7. ASSUME NEW w \in DOMAIN workers, Throw(w) PROVE JoinInv'
    BY <1>0, <1>7 DEF Throw, JoinInv, Finished
  <1>8. CASE Join
    BY <1>0, <1>8 DEF Join, JoinInv, Finished
  <1>9. CASE Return
    BY <1>0, <1>9 DEF Return, JoinInv, Finished
  <1>10. CASE UNCHANGED vars
    BY <1>0, <1>10 DEF vars, JoinInv, Finished
  <1>11. QED
    BY <1>1, <1>2, <1>3, <1>4, <1>5, <1>6, <1>7, <1>8, <1>9, <1>10
       DEF Next, MainStep, ThreadStep, Stopped

\* The loop variable counts the threads started, in units of the chunk size.
LEMMA CountStep == IInv /\ [Next]_vars => CountInv'
  <1> SUFFICES ASSUME IInv, [Next]_vars PROVE CountInv'
    OBVIOUS
  <1>0. /\ TypeOK /\ CountInv /\ n \in Nat /\ start \in Nat
        /\ Len(workers) \in Nat /\ Step \in Nat
    BY LenProperties, StepType DEF IInv, TypeOK
  <1>1. ASSUME NEW size \in Sizes, Call(size) PROVE CountInv'
    <2>1. n' \in Nat /\ start' = 0 /\ Len(workers') = 0
      BY <1>1, CallInv
    <2>2. n' \div kNumThreads \in Nat
      BY <2>1, QuotientType
    <2>3. Step' \in Nat
      BY <2>2 DEF Step
    <2>4. ASSUME NEW m \in Nat PROVE 0 * m = 0
      OBVIOUS
    <2>5. Len(workers') * Step' = 0
      BY <2>1, <2>3, <2>4
    <2>6. start' = Len(workers') * Step' /\ ~ (Len(workers') > 0)
      BY <2>1, <2>5
    <2>7. QED
      BY <2>6 DEF CountInv
  <1>2. CASE Spawn
    <2>1. Len(workers') = Len(workers) + 1
      BY <1>0, <1>2, SpawnWorkers
    <2>2. start < n /\ start' = start + Step /\ n' = n
      BY <1>2 DEF Spawn, End
    <2>3. Step' = Step
      BY <2>2 DEF Step
    <2>4. (Len(workers) + 1) * Step = Len(workers) * Step + Step
      BY <1>0
    <2>5. QED
      BY <1>0, <2>1, <2>2, <2>3, <2>4 DEF CountInv
  <1>3. ASSUME NEW w \in DOMAIN workers, Enter(w) PROVE CountInv'
    BY <1>0, <1>3, EnterWorkers DEF Enter, CountInv, Step
  <1>4. ASSUME NEW w \in DOMAIN workers, Leave(w) PROVE CountInv'
    BY <1>0, <1>4, LeaveWorkers DEF Leave, CountInv, Step
  <1>5. CASE UNCHANGED <<n, start, workers, visits>>
    BY <1>0, <1>5 DEF CountInv, Step
  <1>6. QED
    BY <1>1, <1>2, <1>3, <1>4, <1>5, StepCases

\* The strengthened invariant of the fork/join loop.
THEOREM Invariance == Spec => []IInv
  <1>1. Init => IInv
    <2> SUFFICES ASSUME Init PROVE IInv
      OBVIOUS
    <2>1. TypeOK
      BY DEF Init, TypeOK, Slots, WorkerType
    <2>2. DOMAIN workers = {} /\ Len(workers) = 0 /\ n = 0 /\ start = 0
      BY DEF Init
    <2>3. Step \in Nat
      BY <2>2, StepType
    <2>4. CountInv
      BY <2>2, <2>3 DEF CountInv
    <2>5. ChunksInv /\ OrderInv /\ CoverInv /\ VisitInv /\ JoinInv
      BY <2>2 DEF Init, ChunksInv, OrderInv, CoverInv, VisitInv, JoinInv, Slots
    <2>6. QED
      BY <2>1, <2>4, <2>5 DEF IInv
  <1>2. IInv /\ [Next]_vars => IInv'
    BY TypeStep, ChunksStep, OrderStep, CoverStep, VisitStep, JoinStep, CountStep DEF IInv
  <1>3. QED
    BY <1>1, <1>2, PTL DEF Spec

\* No two threads are ever inside the same slot of the shared vector, and none
\* indexes past its end.
THEOREM NoRace == Spec => []NoSlotRace
  <1>1. IInv => NoSlotRace
    <2> SUFFICES ASSUME IInv, NEW v \in DOMAIN workers, NEW w \in DOMAIN workers,
                        workers[v].busy, workers[w].busy
                 PROVE  /\ workers[v].i < n
                        /\ v # w => workers[v].i # workers[w].i
      BY DEF NoSlotRace
    <2>1. /\ TypeOK /\ ChunksInv /\ OrderInv /\ n \in Nat
          /\ DOMAIN workers = 1 .. Len(workers) /\ Len(workers) \in Nat
      BY LenProperties DEF IInv, TypeOK
    <2>2. /\ workers[v].begin <= workers[v].i /\ workers[v].i < workers[v].end
          /\ workers[w].begin <= workers[w].i /\ workers[w].i < workers[w].end
          /\ workers[v].end <= n
      BY <2>1 DEF ChunksInv, ChunkInv
    <2>3. v < w \/ w < v \/ v = w
      BY <2>1
    <2>4. QED
      BY <2>1, <2>2, <2>3, WorkerFields DEF OrderInv
  <1>2. QED
    BY <1>1, Invariance, PTL

\* Once every thread has been joined, the body has completed on every slot.
LEMMA AllJoined ==
  ASSUME IInv, joined = Len(workers), pc \in {"join", "returned"}
  PROVE  /\ \A k \in Slots : visits[k] = 1
         /\ \A w \in DOMAIN workers : ~ workers[w].busy
  <1>1. /\ TypeOK /\ CoverInv /\ VisitInv /\ n \in Nat /\ start \in Nat
        /\ DOMAIN workers = 1 .. Len(workers)
    BY LenProperties DEF IInv, TypeOK
  <1>2. (\A w \in DOMAIN workers : Finished(w)) /\ ~ (start < n)
    BY <1>1 DEF IInv, JoinInv
  <1>3. ASSUME NEW k \in Slots PROVE visits[k] = 1
    <2>1. PICK w \in DOMAIN workers : workers[w].begin <= k /\ k < workers[w].end
      BY <1>1, <1>2 DEF CoverInv, Slots
    <2>2. k < workers[w].i
      BY <1>1, <1>2, <2>1, WorkerFields DEF Finished, Slots
    <2>3. QED
      BY <1>1, <2>1, <2>2 DEF VisitInv
  <1>4. QED
    BY <1>2, <1>3 DEF Finished

\* A stage returns with every slot done exactly once and no thread left inside
\* the vector, for every size and every number of threads.
THEOREM Completeness == Spec => []CompleteOnReturn
  <1>1. IInv => CompleteOnReturn
    BY AllJoined DEF CompleteOnReturn, IInv, JoinInv
  <1>2. QED
    BY <1>1, Invariance, PTL

-----------------------------------------------------------------------------
\* The chunk size is the quotient of the size by kNumThreads, or 1 for a vector
\* of fewer than 2 * kNumThreads slots.
LEMMA StepBounds ==
  ASSUME n \in Nat
  PROVE  \/ Step = 1 /\ n < 2 * kNumThreads
         \/ /\ Step \in Nat /\ Step >= 2
            /\ n < Step * kNumThreads + kNumThreads
  <1> DEFINE q == n \div kNumThreads
  <1>1. kNumThreads \in Nat /\ kNumThreads >= 1
    BY kNumThreadsAssumption
  <1>2. /\ q \in Nat /\ n % kNumThreads \in Nat /\ n % kNumThreads < kNumThreads
        /\ n = kNumThreads * q + (n % kNumThreads)
    BY <1>1, SMT
  <1>3. Step = IF q > 1 THEN q ELSE 1
    BY DEF Step
  <1> HIDE DEF q
  <1>4. CASE q > 1
    <2>1. Step = q /\ q >= 2
      BY <1>2, <1>3, <1>4
    <2>2. kNumThreads * q = q * kNumThreads
      BY <1>1, <1>2
    <2>3. QED
      BY <1>1, <1>2, <2>1, <2>2
  <1>5. CASE q = 1 \/ q = 0
    <2>1. Step = 1
      BY <1>3, <1>5
    <2>2. kNumThreads * q <= kNumThreads
      BY <1>1, <1>5
    <2>3. QED
      BY <1>1, <1>2, <2>1, <2>2
  <1>6. QED
    BY <1>2, <1>4, <1>5

\* Products of naturals grow with their factors.
LEMMA ProductMonotone ==
  ASSUME NEW a \in Nat, NEW b \in Nat, NEW c \in Nat, a <= b
  PROVE  a * c <= b * c
  BY SMT

\* A stage never has more than 2 * kNumThreads - 1 threads, nor a thread
\* without a slot.
THEOREM ThreadsBounded == Spec => []ThreadBound
  <1>1. IInv => ThreadBound
    <2> SUFFICES ASSUME IInv PROVE ThreadBound
      OBVIOUS
    <2> DEFINE L == Len(workers)
    <2>1. /\ n \in Nat /\ L \in Nat /\ Step \in Nat /\ Step >= 1
          /\ kNumThreads \in Nat /\ kNumThreads >= 1
      BY LenProperties, StepType, kNumThreadsAssumption DEF IInv, TypeOK
    <2>2. L > 0 => (L - 1) * Step < n
      BY DEF IInv, CountInv
    <2> HIDE DEF L
    <2>3. CASE L = 0
      BY <2>1, <2>3 DEF ThreadBound, L
    <2>4. CASE L > 0
      <3>0. L - 1 \in Nat /\ (L - 1) * Step < n
        BY <2>1, <2>2, <2>4
      <3>1. L <= n
        <4>1. 1 * (L - 1) <= Step * (L - 1)
          BY <2>1, <3>0, ProductMonotone
        <4>2. Step * (L - 1) = (L - 1) * Step
          BY <2>1, <3>0
        <4>3. QED
          BY <2>1, <3>0, <4>1, <4>2
      <3>2. CASE Step = 1 /\ n < 2 * kNumThreads
        BY <2>1, <2>4, <3>0, <3>1, <3>2 DEF ThreadBound, L
      <3>3. CASE Step >= 2 /\ n < Step * kNumThreads + kNumThreads
        <4>1. SUFFICES ASSUME L - 1 >= 2 * kNumThreads - 1 PROVE FALSE
          BY <2>1, <3>0, <3>1, <4>1 DEF ThreadBound, L
        <4>2. (2 * kNumThreads - 1) * Step <= (L - 1) * Step
          BY <2>1, <3>0, <4>1, ProductMonotone
        <4>3. (2 * kNumThreads - 1) * Step = Step * kNumThreads + (kNumThreads - 1) * Step
          BY <2>1
        <4>4. (kNumThreads - 1) * 1 <= (kNumThreads - 1) * Step
          <5>1. 1 * (kNumThreads - 1) <= Step * (kNumThreads - 1)
            BY <2>1, ProductMonotone
          <5>2. QED
            BY <2>1, <5>1
        <4>5. QED
          BY <2>1, <3>0, <3>3, <4>2, <4>3, <4>4
      <3>4. QED
        BY <2>1, <3>2, <3>3, StepBounds
    <2>5. QED
      BY <2>1, <2>3, <2>4
  <1>2. QED
    BY <1>1, Invariance, PTL

-----------------------------------------------------------------------------
\* Every step of the fork/join loop is a step of the parallel map or changes
\* nothing it can see.
LEMMA MapStep == IInv /\ [Next]_vars => [Map!Next]_(Map!vars)
  <1> SUFFICES ASSUME IInv, [Next]_vars PROVE Map!Next \/ UNCHANGED Map!vars
    OBVIOUS
  <1>0. /\ TypeOK /\ ChunksInv /\ VisitInv /\ n \in Nat /\ visits \in [Slots -> Nat]
    BY DEF IInv, TypeOK
  <1> USE DEF Map!vars, Status, Running
  <1>1. ASSUME NEW size \in Sizes, Call(size) PROVE Map!Next
    <2>1. Map!Call(size)
      BY <1>1 DEF Call, NoVisits, Map!Call
    <2>2. QED
      BY <2>1 DEF Map!Next
  <1>2. CASE Spawn
    BY <1>2 DEF Spawn, End
  <1>3. CASE SpawnDone
    BY <1>3 DEF SpawnDone
  <1>4. CASE SpawnFails
    BY <1>4 DEF SpawnFails, Map!Next, Map!Terminate
  <1>5. ASSUME NEW w \in DOMAIN workers, Enter(w) PROVE UNCHANGED Map!vars
    BY <1>5 DEF Enter
  <1>6. ASSUME NEW w \in DOMAIN workers, Leave(w) PROVE Map!Next
    <2> DEFINE j == workers[w].i
    <2>1. j \in Slots /\ workers[w].begin <= j /\ j < workers[w].end
      BY <1>0, <1>6, WorkerFields DEF Leave, ChunksInv, ChunkInv, Slots
    <2>2. visits[j] = 0
      BY <1>0, <2>1, WorkerFields DEF VisitInv
    <2>3. visits' = [visits EXCEPT ![j] = visits[j] + 1] /\ UNCHANGED <<pc, n>> /\ Running
      BY <1>6 DEF Leave
    <2> HIDE DEF j
    <2>4. Map!Apply(j)
      BY <2>2, <2>3 DEF Map!Apply
    <2>5. QED
      BY <2>1, <2>4 DEF Map!Next, Map!Progress, Map!Slots, Slots
  <1>7. ASSUME NEW w \in DOMAIN workers, Throw(w) PROVE Map!Next
    BY <1>7 DEF Throw, Map!Next, Map!Terminate
  <1>8. CASE Join
    BY <1>8 DEF Join
  <1>9. CASE Return
    <2>1. \A k \in Slots : visits[k] = 1
      BY <1>9, AllJoined DEF Return
    <2>2. Map!Return
      BY <1>9, <2>1 DEF Return, Map!Return, Map!Slots, Slots
    <2>3. QED
      BY <2>2 DEF Map!Next, Map!Progress
  <1>10. CASE UNCHANGED vars
    BY <1>10 DEF vars
  <1>11. QED
    BY <1>1, <1>2, <1>3, <1>4, <1>5, <1>6, <1>7, <1>8, <1>9, <1>10
       DEF Next, MainStep, ThreadStep, Stopped

\* The fork/join loop implements the parallel map: main can treat each of the
\* four stages as one loop that applies the body once to every slot.
THEOREM Refinement == Spec => Map!SafeSpec
  <1>1. Init => Map!Init
    BY DEF Init, Map!Init, Map!Slots, Slots, Status, Running
  <1>2. QED
    BY <1>1, MapStep, Invariance, PTL DEF Spec, Map!SafeSpec
=============================================================================
