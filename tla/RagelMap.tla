----------------------------- MODULE RagelMap -----------------------------
(***************************************************************************)
(* Up to 2 * kNumThreads - 1 threads construct a FeaturesGenerator at the  *)
(* same time (features.hpp:163).  Each constructor makes UDPipe tokenizers *)
(* that share one static table, ragel_map: it is filled by whoever comes   *)
(* first, behind a spin lock on an atomic_flag, and later read for every   *)
(* character without the lock (ragel_tokenizer.cpp, ragel_tokenizer.h).    *)
(*                                                                         *)
(* The specification is called RMSpec, so that one module can extend this  *)
(* one and Features, whose readers the constructor makes.                  *)
(***************************************************************************)
EXTENDS Integers, Sequences

CONSTANTS
  Threads,      \* the threads of GenerateFeatures
  Calls,        \* calls of initialize_ragel_map in one FeaturesGenerator()
  Ascii,        \* size of the part filled with push_back; 128 in the code
  Other,        \* the entry that stands for "by category"; 128 in the code
  Adds          \* the arguments of ragel_map_add, in order: [chr, mapping]

ASSUME CallsAssumption == Calls \in Nat \ {0}
ASSUME AsciiAssumption == Ascii \in Nat \ {0}
ASSUME OtherAssumption == Other \in Nat
ASSUME AddsAssumption == Adds \in Seq([chr : Nat, mapping : Nat])

\* The additions are of different characters, none of them ASCII
\* (ragel_tokenizer.cpp:384-387).
ASSUME DistinctAssumption ==
  /\ \A a \in DOMAIN Adds : Adds[a].chr >= Ascii
  /\ \A a, b \in DOMAIN Adds : Adds[a].chr = Adds[b].chr => a = b

VARIABLES
  pc,           \* thread -> where it is
  flag,         \* ragel_map_flag
  ragel_map,
  calls,        \* thread -> completed calls of initialize_ragel_map
  pos,          \* thread -> writes of the table it has executed in this call
  seen          \* thread -> the last character it read and the class it got

RMvars == <<pc, flag, ragel_map, calls, pos, seen>>

-----------------------------------------------------------------------------
Nothing == << >>

Writes == Ascii + Len(Adds)

RMInit ==
  /\ pc = [t \in Threads |-> "spin"]
  /\ flag = FALSE
  /\ ragel_map = << >>
  /\ calls = [t \in Threads |-> 0]
  /\ pos = [t \in Threads |-> 0]
  /\ seen = [t \in Threads |-> Nothing]

Goto(t, where) == pc' = [pc EXCEPT ![t] = where]

\* Mutant: the flag is set without being tested.
AlwaysClear == TRUE

FlagClear == flag = FALSE

\* A test_and_set that finds the flag set.
Spin(t) == pc[t] = "spin" /\ ~ FlagClear /\ UNCHANGED RMvars

\* The test_and_set that finds it clear.
Acquire(t) ==
  /\ pc[t] = "spin" /\ FlagClear
  /\ flag' = TRUE
  /\ Goto(t, "check")
  /\ pos' = [pos EXCEPT ![t] = 0]
  /\ UNCHANGED <<ragel_map, calls, seen>>

Check(t) ==
  /\ pc[t] = "check"
  /\ Goto(t, IF ragel_map = << >> THEN "fill" ELSE "clear")
  /\ UNCHANGED <<flag, ragel_map, calls, pos, seen>>

Resized(size) ==
  [c \in 1 .. size |-> IF c \in DOMAIN ragel_map THEN ragel_map[c] ELSE Other]

\* Mutant: the table is not made longer than the character.
AddShort(chr, mapping) ==
  [(IF chr >= Len(ragel_map) THEN Resized(chr) ELSE ragel_map) EXCEPT ![chr + 1] = mapping]

\* ragel_map_add.
Add(chr, mapping) ==
  [(IF chr >= Len(ragel_map) THEN Resized(chr + 1) ELSE ragel_map) EXCEPT ![chr + 1] = mapping]

\* The push_back of an ASCII character or one of the additions behind them.
Fill(t) ==
  /\ pc[t] = "fill" /\ pos[t] < Writes
  /\ ragel_map' = IF pos[t] < Ascii THEN Append(ragel_map, pos[t])
                  ELSE LET a == Adds[pos[t] - Ascii + 1] IN Add(a.chr, a.mapping)
  /\ pos' = [pos EXCEPT ![t] = @ + 1]
  /\ UNCHANGED <<pc, flag, calls, seen>>

FillDone(t) ==
  /\ pc[t] = "fill" /\ pos[t] = Writes
  /\ Goto(t, "clear")
  /\ UNCHANGED <<flag, ragel_map, calls, pos, seen>>

\* Mutant: the flag is left set when the table was already there.
SetUnlessFilled(t) == pos[t] = 0

FlagAfterCall(t) == FALSE

\* Mutant: one call too many.
MoreCallsInclusive(t) == calls[t] < Calls

MoreCalls(t) == calls[t] + 1 < Calls

\* The call returns.  The constructor goes on to its next one, of the same
\* tokenizer or of the next, and after the last one the thread has its readers.
Clear(t) ==
  /\ pc[t] = "clear"
  /\ flag' = FlagAfterCall(t)
  /\ calls' = [calls EXCEPT ![t] = @ + 1]
  /\ Goto(t, IF MoreCalls(t) THEN "spin" ELSE "use")
  /\ UNCHANGED <<ragel_map, pos, seen>>

\* ragel_char: the entry of the table, or the class of the category.
RagelChar(chr) ==
  IF chr < Len(ragel_map) /\ ragel_map[chr + 1] # Other THEN ragel_map[chr + 1] ELSE Other

\* A character of a text is looked up, without the lock.
Read(t, chr) ==
  /\ pc[t] = "use"
  /\ seen' = [seen EXCEPT ![t] = <<chr, RagelChar(chr)>>]
  /\ UNCHANGED <<pc, flag, ragel_map, calls, pos>>

\* The thread has finished its chunk.
Leave(t) ==
  /\ pc[t] = "use"
  /\ Goto(t, "done")
  /\ UNCHANGED <<flag, ragel_map, calls, pos, seen>>

\* All threads have finished.
RMFinished == (\A t \in Threads : pc[t] = "done") /\ UNCHANGED RMvars

Chars == 0 .. (Adds[1].chr + 1)

Construct(t) == Acquire(t) \/ Check(t) \/ Fill(t) \/ FillDone(t) \/ Clear(t)

RMNext ==
  \/ \E t \in Threads : Spin(t) \/ Construct(t) \/ (\E chr \in Chars : Read(t, chr)) \/ Leave(t)
  \/ RMFinished

RMSpec == RMInit /\ [][RMNext]_RMvars

\* The kernel schedules every thread.  Nothing makes the lock fair: a thread that
\* spins may lose it to the others, but only as often as they call.
RMFairSpec == RMSpec /\ \A t \in Threads : WF_RMvars(Construct(t))

-----------------------------------------------------------------------------
Locked == {"check", "fill", "clear"}

\* Type invariant.
RMTypeOK ==
  /\ pc \in [Threads -> Locked \cup {"spin", "use", "done"}]
  /\ flag \in BOOLEAN
  /\ ragel_map \in Seq(Nat)
  /\ calls \in [Threads -> 0 .. Calls]
  /\ pos \in [Threads -> 0 .. Writes]

\* No data race on the static table: while a thread writes it no other thread is
\* where it may read it, in the locked test for emptiness (ragel_tokenizer.cpp:380)
\* or in the unlocked look-up of a character (ragel_tokenizer.h:39), and a thread
\* that looks characters up finds all the writes done.
NoTableRace ==
  \A t, u \in Threads :
    /\ pc[t] = "fill" /\ u # t => pc[u] \notin Locked \cup {"use"}
    /\ pc[u] = "use" => ragel_map # << >>

\* The class a character should get.
Expected(chr) ==
  IF chr < Ascii THEN chr
  ELSE IF \E a \in DOMAIN Adds : Adds[a].chr = chr
       THEN Adds[CHOOSE a \in DOMAIN Adds : Adds[a].chr = chr].mapping
       ELSE Other

\* Every thread, the one that filled the table and the ones that found it, gets
\* the same class for a character: the one of the fully initialised table,
\* although only the first addition makes room and the table is filled once.
ReadsExact ==
  \A t \in Threads : seen[t] # Nothing => seen[t][2] = Expected(seen[t][1])

\* Every thread gets its tokenizers, although the lock is not fair.
AllConstructed == \A t \in Threads : <>(pc[t] \in {"use", "done"})
=============================================================================
