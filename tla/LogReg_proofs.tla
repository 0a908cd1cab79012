---------------------------- MODULE LogReg_proofs ----------------------------
(***************************************************************************)
(* Proofs about LogReg, for every weights file and every dictionary.       *)
(*                                                                         *)
(* The stream and the loop stay in step: as long as the stream is good,    *)
(* the number of tokens consumed says at which element of which triple the *)
(* loop is, and a stream that has failed has consumed all that is stored.  *)
(***************************************************************************)
EXTENDS LogReg, Selection_proofs

-----------------------------------------------------------------------------
Loop == {"weight", "mean", "std", "scale"}

\* How many elements of the current triple have been read.
Offset == IF pc = "weight" THEN 0 ELSE IF pc = "mean" THEN 1 ELSE IF pc = "std" THEN 2 ELSE 3

TypeInv ==
  /\ file \in Files /\ size \in Nat
  /\ pc \in {"count", "resize", "bias", "thrown", "undefined", "infer", "done"} \cup Loop
  /\ pos \in Nat /\ i \in Nat /\ next \in 0 .. Len(file) /\ good \in BOOLEAN
  /\ features_count_ \in Nat

StreamInv ==
  /\ good => next <= Numbers
  /\ ~ good => next = Stored

\* Where the loop is.
PlaceInv ==
  /\ pc = "count" => good /\ next = 0
  /\ pc \in {"resize", "bias"} => next <= 1 /\ (good => next = 1)
  /\ pc \in {"mean", "std", "scale"} => good
  /\ pc \in Loop /\ good => next = 2 + 3 * pos + Offset
  /\ pc = "weight" /\ ~ good => pos = 0 /\ next <= 2
  /\ Loaded => ~ good /\ Numbers < 2 + 3 * (pos + 1) /\ (pos = 0 \/ 2 + 3 * pos <= Numbers)
  /\ pc \in {"count", "resize", "bias"} => pos = 0

\* The members assigned so far.
HeadInv ==
  /\ pc # "count" /\ Stored >= 1 => features_count_ = Number(1)
  /\ pc \in Loop \cup {"infer", "done"} /\ Stored >= 2 => bias_ = Number(2)

\* What the element j of each vector holds.
Weight(j) ==
  IF j < pos \/ Loaded THEN RefWeight(j)
  ELSE IF j = pos /\ pc \in {"mean", "std", "scale"} THEN <<Cell(j, 1), 1>> ELSE <<0, 1>>

Mean(j) == IF j < pos \/ Loaded \/ (j = pos /\ pc \in {"std", "scale"}) THEN Cell(j, 2) ELSE 0

Slots == 0 .. (features_count_ - 1)

VectorsInv ==
  pc \in {"bias", "infer", "done"} \cup Loop =>
    /\ DOMAIN weights_ = Slots /\ DOMAIN mean_ = Slots /\ DOMAIN std_ = Slots
    /\ \A j \in Slots : weights_[j] = Weight(j) /\ mean_[j] = Mean(j)
    /\ pc = "scale" /\ Inside => std_[pos] = Cell(pos, 3)

StrayInv ==
  /\ pc \in Loop \/ Loaded => next <= 2 + 3 * features_count_
  /\ pc = "undefined" => Stored > 2 + 3 * features_count_

InferInv ==
  /\ ~ Loaded => i = 0
  /\ i <= features_count_ \/ i = 0
  /\ terms = {<<j, mean_[j], weights_[j]>> : j \in 0 .. (i - 1)}
  /\ outside = {j \in 0 .. (i - 1) : size <= j}
  /\ pc = "done" => i = features_count_

IInv ==
  TypeInv /\ StreamInv /\ PlaceInv /\ HeadInv /\ VectorsInv /\ StrayInv /\ InferInv

-----------------------------------------------------------------------------
\* The numbers of the file end at its first garbage, or with it.
LEMMA NumbersEnd ==
  ASSUME TypeInv
  PROVE  /\ Len(file) \in Nat /\ Numbers \in 0 .. Len(file)
         /\ Numbers = Len(file) \/ file[Numbers + 1] = Garbage
         /\ \A k \in 1 .. Numbers : file[k] # Garbage /\ file[k] \in Nat
         /\ Stored \in Nat /\ Stored <= Len(file)
         /\ Stored = IF Numbers < Len(file) THEN Numbers + 1 ELSE Numbers
<1> DEFINE T == {k \in 0 .. Len(file) : k = Len(file) \/ file[k + 1] = Garbage}
<1>1. file \in Seq(Nat \cup {Garbage}) /\ Len(file) \in Nat
  BY FilesAssumption DEF TypeInv
<1>2. T \in SUBSET Nat /\ T # {}
  BY <1>1
<1>3. \E m \in T : \A k \in T : m <= k
  <2> HIDE DEF T
  <2> QED
    BY <1>2, Least
<1>4. Numbers \in T /\ \A k \in T : Numbers <= k
  BY <1>3 DEF Numbers, Min
<1>5. ASSUME NEW k \in 1 .. Numbers PROVE file[k] # Garbage /\ file[k] \in Nat
  <2>1. k - 1 \in 0 .. Len(file) /\ ~ (Numbers <= k - 1) /\ k \in 1 .. Len(file) /\ (k - 1) + 1 = k
    BY <1>1, <1>4
  <2>2. k - 1 \notin T
    BY <1>4, <2>1
  <2>3. file[k] # Garbage
    BY <2>1, <2>2
  <2> QED
    BY <1>1, <2>1, <2>3
<1>6. QED
  BY <1>1, <1>4, <1>5 DEF Stored

\* The reference values depend on the file alone.
LEMMA ReferenceFixed ==
  ASSUME UNCHANGED file
  PROVE  /\ Numbers' = Numbers /\ Stored' = Stored
         /\ \A k : Number(k)' = Number(k)
         /\ \A j, k : Cell(j, k)' = Cell(j, k)
         /\ \A j : RefWeight(j)' = RefWeight(j)
<1>1. Numbers' = Numbers
  BY DEF Numbers
<1>2. Stored' = Stored
  BY <1>1 DEF Stored
<1>3. \A k : Number(k)' = Number(k)
  BY <1>1 DEF Number
<1>4. \A j, k : Cell(j, k)' = Cell(j, k)
  BY <1>3 DEF Cell
<1>5. \A j : RefWeight(j)' = RefWeight(j)
  BY <1>1, <1>4 DEF RefWeight, Complete
<1>6. QED
  BY <1>1, <1>2, <1>3, <1>4, <1>5

\* What an extraction yields.
LEMMA Extraction ==
  ASSUME TypeInv, StreamInv, Extract, UNCHANGED file
  PROVE  /\ next' \in 0 .. Len(file) /\ good' \in BOOLEAN /\ StreamInv'
         /\ Fails => ~ good' /\ next' = Stored
         /\ ~ Fails => /\ good /\ good' /\ Stores
                      /\ next' = next + 1 /\ next + 1 <= Numbers
         /\ Fails /\ good => next = Numbers
         /\ Fails /\ Stores => good /\ next' = next + 1
         /\ Stores => Value = Number(next + 1) /\ Value \in Nat
         /\ ~ Stores => Fails /\ next' = next
<1>1. /\ Len(file) \in Nat /\ Numbers \in 0 .. Len(file)
      /\ Numbers = Len(file) \/ file[Numbers + 1] = Garbage
      /\ \A k \in 1 .. Numbers : file[k] # Garbage /\ file[k] \in Nat
      /\ Stored \in Nat /\ Stored <= Len(file)
      /\ Stored = IF Numbers < Len(file) THEN Numbers + 1 ELSE Numbers
  BY NumbersEnd
<1>2. next \in 0 .. Len(file) /\ good \in BOOLEAN
  BY DEF TypeInv
<1>3. (good => next <= Numbers) /\ (~ good => next = Stored)
  BY DEF StreamInv
<1>4. Numbers' = Numbers /\ Stored' = Stored
  BY ReferenceFixed
<1>5. (good' <=> ~ Fails) /\ good' \in BOOLEAN /\ next' = IF Stores THEN next + 1 ELSE next
  BY <1>2 DEF Extract, Fails, Stores
<1>6. CASE ~ good
  BY <1>1, <1>2, <1>3, <1>4, <1>5, <1>6 DEF Stores, Fails, StreamInv
<1>7. CASE good /\ next < Numbers
  <2>1. next + 1 \in 1 .. Numbers /\ file[next + 1] # Garbage
    BY <1>1, <1>2, <1>7
  <2>2. Stores /\ ~ Fails /\ Value = file[next + 1]
    BY <1>1, <1>2, <1>7, <2>1 DEF Stores, Fails, Token, Value
  <2>3. Value = Number(next + 1) /\ Value \in Nat
    BY <2>1, <2>2, <1>1 DEF Number
  <2> QED
    BY <1>1, <1>2, <1>4, <1>5, <1>7, <2>2, <2>3 DEF StreamInv
<1>8. CASE good /\ next = Numbers /\ Numbers < Len(file)
  <2>1. file[next + 1] = Garbage
    BY <1>1, <1>8
  <2>2. Stores /\ Fails /\ Value = 0
    BY <1>1, <1>8, <2>1 DEF Stores, Fails, Token, Value
  <2>3. Value = Number(next + 1)
    BY <1>1, <1>8, <2>2 DEF Number
  <2> QED
    BY <1>1, <1>2, <1>4, <1>5, <1>8, <2>2, <2>3 DEF StreamInv
<1>9. CASE good /\ next = Numbers /\ Numbers = Len(file)
  BY <1>1, <1>2, <1>4, <1>5, <1>9 DEF Stores, Fails, StreamInv
<1>10. QED
  BY <1>1, <1>2, <1>3, <1>6, <1>7, <1>8, <1>9

\* The triples that the numbers of the file do not reach, or not wholly.
LEMMA Unreached ==
  ASSUME Numbers \in Nat, NEW j \in Nat
  PROVE  /\ Numbers < 3 + 3 * j => RefWeight(j) = <<0, 1>> /\ Cell(j, 2) = 0
         /\ Numbers < 4 + 3 * j => Cell(j, 2) = 0
         /\ Numbers < 5 + 3 * j => RefWeight(j) = <<Cell(j, 1), 1>>
         /\ Cell(j, 1) = Number(3 + 3 * j) /\ Cell(j, 2) = Number(4 + 3 * j)
         /\ Cell(j, 3) = Number(5 + 3 * j)
         /\ ~ (Numbers < 5 + 3 * j) => RefWeight(j) = Scaled(<<Cell(j, 1), 1>>, Cell(j, 3))
<1>1. /\ Cell(j, 1) = Number(3 + 3 * j) /\ Cell(j, 2) = Number(4 + 3 * j)
      /\ Cell(j, 3) = Number(5 + 3 * j)
  <2>1. (2 + 3 * j) + 1 = 3 + 3 * j /\ (2 + 3 * j) + 2 = 4 + 3 * j /\ (2 + 3 * j) + 3 = 5 + 3 * j
    OBVIOUS
  <2> QED
    BY <2>1 DEF Cell
<1>2. Numbers < 3 + 3 * j => Number(3 + 3 * j) = 0
  BY DEF Number
<1>3. Numbers < 4 + 3 * j => Number(4 + 3 * j) = 0
  BY DEF Number
<1>4. Complete(j) <=> ~ (Numbers < 5 + 3 * j)
  BY DEF Complete
<1>5. Numbers < 5 + 3 * j => RefWeight(j) = <<Cell(j, 1), 1>>
  BY <1>4 DEF RefWeight
<1>6. ~ (Numbers < 5 + 3 * j) => RefWeight(j) = Scaled(<<Cell(j, 1), 1>>, Cell(j, 3))
  BY <1>4 DEF RefWeight, Scaled
<1>7. Numbers < 3 + 3 * j => Numbers < 4 + 3 * j /\ Numbers < 5 + 3 * j
  OBVIOUS
<1>8. QED
  BY <1>1, <1>2, <1>3, <1>5, <1>6, <1>7

-----------------------------------------------------------------------------
\* The first state satisfies the invariant.
LEMMA InitInv == Init => IInv
<1> SUFFICES ASSUME Init PROVE IInv
  OBVIOUS
<1>1. TypeInv
  <2>1. Len(file) \in Nat
    BY FilesAssumption DEF Init
  <2> QED
    BY <2>1, SizesAssumption DEF Init, TypeInv
<1>2. StreamInv /\ PlaceInv
  BY <1>1, NumbersEnd DEF Init, StreamInv, PlaceInv, Loop, Loaded
<1>3. HeadInv /\ VectorsInv /\ StrayInv
  BY DEF Init, HeadInv, VectorsInv, StrayInv, Loop, Loaded
<1>4. InferInv
  <2>1. 0 .. (0 - 1) = {}
    OBVIOUS
  <2> QED
    BY <2>1 DEF Init, InferInv, Loaded
<1>5. QED
  BY <1>1, <1>2, <1>3, <1>4 DEF IInv

\* The constructor leaves the loop of Infer at its start.
LEMMA InferUntouched ==
  ASSUME InferInv, ~ Loaded, pc' # "done", UNCHANGED inference, UNCHANGED size
  PROVE  InferInv'
<1>1. i = 0 /\ i' = 0 /\ terms' = terms /\ outside' = outside
  BY DEF InferInv, inference
<1>2. 0 .. (0 - 1) = {}
  OBVIOUS
<1>3. terms = {} /\ outside = {}
  BY <1>1, <1>2 DEF InferInv
<1>4. QED
  BY <1>1, <1>2, <1>3 DEF InferInv

\* The extraction of the number of features.
LEMMA ReadCountInv == IInv /\ ReadCount => IInv'
<1> SUFFICES ASSUME IInv, ReadCount PROVE IInv'
  OBVIOUS
<1> USE DEF IInv
<1>1. pc = "count" /\ pc' = "resize" /\ Extract /\ UNCHANGED file /\ UNCHANGED <<size, pos>>
  BY DEF ReadCount
<1>2. good /\ next = 0 /\ pos = 0
  BY <1>1 DEF PlaceInv
<1>3. /\ next' \in 0 .. Len(file) /\ good' \in BOOLEAN /\ StreamInv'
      /\ Fails => ~ good' /\ next' = Stored
      /\ ~ Fails => good' /\ next' = next + 1
      /\ Fails /\ Stores => next' = next + 1
      /\ Stores => Value = Number(next + 1) /\ Value \in Nat
      /\ ~ Stores => Fails /\ next' = next
  BY <1>1, Extraction
<1>4. Numbers' = Numbers /\ Stored' = Stored /\ (\A k : Number(k)' = Number(k))
  BY <1>1, ReferenceFixed
<1>5. TypeInv'
  BY <1>1, <1>3 DEF TypeInv, ReadCount, Assigned, inference
<1>6. PlaceInv'
  BY <1>1, <1>2, <1>3 DEF PlaceInv, Loop, Loaded
<1>7. HeadInv'
  BY <1>1, <1>2, <1>3, <1>4 DEF HeadInv, Loop, ReadCount, Assigned
<1>8. VectorsInv' /\ StrayInv'
  BY <1>1 DEF VectorsInv, StrayInv, Loop, Loaded, ReadCount
<1>9. InferInv'
  BY <1>1, InferUntouched DEF ReadCount, Loaded
<1>10. QED
  BY <1>3, <1>5, <1>6, <1>7, <1>8, <1>9

\* The vectors get their size, with zeros.
LEMMA ResizeInv == IInv /\ Resize => IInv'
<1> SUFFICES ASSUME IInv, Resize PROVE IInv'
  OBVIOUS
<1> USE DEF IInv
<1>1. /\ pc = "resize" /\ pc' \in {"thrown", "bias"} /\ UNCHANGED file
      /\ UNCHANGED <<size, pos, next, good, features_count_, bias_>>
      /\ UNCHANGED inference
  BY DEF Resize, stream
<1>2. Numbers' = Numbers /\ Stored' = Stored /\ (\A k : Number(k)' = Number(k))
  BY <1>1, ReferenceFixed
<1>3. TypeInv' /\ StreamInv' /\ PlaceInv' /\ HeadInv' /\ StrayInv'
  BY <1>1, <1>2 DEF TypeInv, StreamInv, PlaceInv, HeadInv, StrayInv, Loop, Loaded, inference
<1>4. VectorsInv'
  <2>1. CASE pc' = "thrown"
    BY <2>1 DEF VectorsInv, Loop
  <2>2. CASE pc' = "bias"
    <3>1. /\ weights_' = [k \in Slots |-> <<0, 1>>]
          /\ mean_' = [k \in Slots |-> 0] /\ std_' = [k \in Slots |-> 0]
      BY <2>2 DEF Resize, Slots
    <3>2. Slots' = Slots /\ pos' = 0 /\ Slots \subseteq Nat
      BY <1>1 DEF Slots, PlaceInv, TypeInv
    <3>3. \A j \in Slots : Weight(j)' = <<0, 1>> /\ Mean(j)' = 0
      BY <2>2, <3>2 DEF Weight, Mean, Loaded
    <3> QED
      BY <2>2, <3>1, <3>2, <3>3 DEF VectorsInv
  <2> QED
    BY <1>1, <2>1, <2>2
<1>5. InferInv'
  BY <1>1, InferUntouched DEF Loaded
<1>6. QED
  BY <1>3, <1>4, <1>5

\* The extraction of the bias.
LEMMA ReadBiasInv == IInv /\ ReadBias => IInv'
<1> SUFFICES ASSUME IInv, ReadBias PROVE IInv'
  OBVIOUS
<1> USE DEF IInv
<1>1. /\ pc = "bias" /\ pc' = "weight" /\ Extract /\ UNCHANGED file
      /\ UNCHANGED <<size, pos, features_count_, weights_, mean_, std_>>
      /\ UNCHANGED inference
  BY DEF ReadBias, vectors
<1>2. next <= 1 /\ (good => next = 1) /\ pos = 0 /\ next \in Nat
  BY <1>1 DEF PlaceInv, TypeInv
<1>3. /\ next' \in 0 .. Len(file) /\ good' \in BOOLEAN /\ StreamInv'
      /\ Fails => ~ good' /\ next' = Stored
      /\ ~ Fails => good /\ good' /\ next' = next + 1
      /\ Fails /\ Stores => good /\ next' = next + 1
      /\ Stores => Value = Number(next + 1) /\ Value \in Nat
      /\ ~ Stores => Fails /\ next' = next
  BY <1>1, Extraction
<1>4. /\ Numbers' = Numbers /\ Stored' = Stored /\ (\A k : Number(k)' = Number(k))
      /\ (\A j, k : Cell(j, k)' = Cell(j, k)) /\ (\A j : RefWeight(j)' = RefWeight(j))
  BY <1>1, ReferenceFixed
<1>5. next' <= 2 /\ (good' => next' = 2)
  BY <1>2, <1>3
<1>6. TypeInv'
  BY <1>1, <1>3 DEF TypeInv, Loop, inference
<1>7. PlaceInv'
  BY <1>1, <1>2, <1>3, <1>5 DEF PlaceInv, Loop, Loaded, Offset
<1>8. HeadInv'
  <2>1. Stored >= 2 => bias_' = Number(2)
    BY <1>1, <1>2, <1>3 DEF ReadBias, Assigned
  <2> QED
    BY <1>1, <1>4, <2>1 DEF HeadInv, Loop
<1>9. VectorsInv'
  <2>1. Slots' = Slots /\ Slots \subseteq Nat
    BY <1>1 DEF Slots, TypeInv
  <2>2. \A j \in Slots : Weight(j)' = Weight(j) /\ Mean(j)' = Mean(j)
    BY <1>1, <1>2, <2>1, <1>4 DEF Weight, Mean, Loaded
  <2> QED
    BY <1>1, <2>1, <2>2 DEF VectorsInv, Loop
<1>10. StrayInv'
  <2>1. features_count_ \in Nat
    BY DEF TypeInv
  <2>2. next' <= 2 + 3 * features_count_
    BY <1>3, <1>5, <2>1
  <2> QED
    BY <1>1, <2>2 DEF StrayInv, Loop, Loaded
<1>11. InferInv'
  BY <1>1, InferUntouched DEF Loaded
<1>12. QED
  BY <1>3, <1>6, <1>7, <1>8, <1>9, <1>10, <1>11

\* An extraction of the loop, whichever element of the triple it reads: all
\* of the invariant but what it stores.
LEMMA LoopRead ==
  ASSUME IInv, NEW step \in {"weight", "mean", "std"}, NEW then,
         then = IF step = "weight" THEN "mean" ELSE IF step = "mean" THEN "std" ELSE "scale",
         Read(step, then)
  PROVE  /\ TypeInv' /\ StreamInv' /\ PlaceInv' /\ HeadInv' /\ StrayInv' /\ InferInv'
         /\ pc = step /\ pc' = IF Fails THEN "infer" ELSE then
         /\ Stores => good /\ Value = Number(next + 1) /\ next = 2 + 3 * pos + Offset
         /\ ~ Fails => Stores
         /\ Stores => Inside
         /\ Fails => Numbers <= 2 + 3 * pos + Offset
         /\ Numbers \in Nat /\ pos \in Nat /\ UNCHANGED file /\ UNCHANGED <<pos, features_count_>>
<1> USE DEF IInv
<1>1. /\ pc = step /\ pc' = (IF Fails THEN "infer" ELSE then) /\ Extract /\ UNCHANGED file
      /\ UNCHANGED <<size, pos, features_count_, bias_>> /\ UNCHANGED inference
      /\ Stores => Inside
  BY DEF Read
<1>2. /\ next' \in 0 .. Len(file) /\ good' \in BOOLEAN /\ StreamInv'
      /\ Fails => ~ good' /\ next' = Stored
      /\ ~ Fails => good /\ good' /\ Stores /\ next' = next + 1 /\ next + 1 <= Numbers
      /\ Fails /\ good => next = Numbers
      /\ Fails /\ Stores => good /\ next' = next + 1
      /\ Stores => Value = Number(next + 1)
      /\ ~ Stores => Fails /\ next' = next
  BY <1>1, Extraction
<1>3. Numbers \in Nat /\ (~ good => Numbers <= Stored /\ next = Stored)
  BY NumbersEnd DEF StreamInv
<1>4. pos \in Nat /\ next \in Nat /\ features_count_ \in Nat /\ Len(file) \in Nat
  BY NumbersEnd DEF TypeInv
<1>5. good => next = 2 + 3 * pos + Offset
  BY <1>1 DEF PlaceInv, Loop
<1>6. ~ good => step = "weight" /\ pos = 0 /\ next <= 2
  BY <1>1 DEF PlaceInv
<1>7. Offset = (IF step = "weight" THEN 0 ELSE IF step = "mean" THEN 1 ELSE 2) /\ Offset \in 0 .. 2
  BY <1>1 DEF Offset
<1>8. Fails => Numbers <= 2 + 3 * pos + Offset
  BY <1>2, <1>3, <1>4, <1>5, <1>6, <1>7
<1>9. Numbers' = Numbers /\ Stored' = Stored /\ (\A k : Number(k)' = Number(k))
  BY <1>1, ReferenceFixed
<1>10. TypeInv'
  BY <1>1, <1>2 DEF TypeInv, Loop, inference
<1>11. PlaceInv'
  <2>1. CASE Fails
    <3>1. Numbers < 2 + 3 * (pos + 1) /\ (pos = 0 \/ 2 + 3 * pos <= Numbers)
      BY <2>1, <1>2, <1>4, <1>5, <1>6, <1>7, <1>8, <1>3
    <3> QED
      BY <2>1, <3>1, <1>1, <1>2, <1>9 DEF PlaceInv, Loop, Loaded
  <2>2. CASE ~ Fails
    <3>1. Offset' = Offset + 1 /\ pc' \in {"mean", "std", "scale"}
      BY <2>2, <1>1, <1>7 DEF Offset
    <3>2. good' /\ next' = 2 + 3 * pos' + Offset'
      BY <2>2, <3>1, <1>1, <1>2, <1>4, <1>5, <1>7
    <3> QED
      BY <3>1, <3>2 DEF PlaceInv, Loop, Loaded
  <2> QED
    BY <2>1, <2>2
<1>12. HeadInv'
  BY <1>1, <1>9 DEF HeadInv, Loop
<1>13. StrayInv'
  <2>1. next <= 2 + 3 * features_count_
    BY <1>1 DEF StrayInv, Loop
  <2>2. next' <= 2 + 3 * features_count_
    <3>1. CASE ~ Stores
      BY <3>1, <2>1, <1>2
    <3>2. CASE Stores
      <4>1. next' = 3 + 3 * pos + Offset /\ pos < features_count_
        BY <3>2, <1>1, <1>2, <1>4, <1>5, <1>7 DEF Inside
      <4> QED
        BY <4>1, <1>4, <1>7
    <3> QED
      BY <3>1, <3>2
  <2>3. pc' # "undefined"
    BY <1>1
  <2> QED
    BY <2>2, <2>3, <1>1 DEF StrayInv
<1>14. InferInv'
  BY <1>1, InferUntouched DEF Loaded
<1>15. QED
  BY <1>1, <1>2, <1>3, <1>4, <1>5, <1>8, <1>10, <1>11, <1>12, <1>13, <1>14

\* The weight of a triple.
LEMMA ReadWeightInv == IInv /\ ReadWeight => IInv'
<1> SUFFICES ASSUME IInv, ReadWeight PROVE IInv'
  OBVIOUS
<1> USE DEF IInv
<1>1. /\ Read("weight", "mean") /\ UNCHANGED <<mean_, std_>>
      /\ weights_' = IF Stores THEN [weights_ EXCEPT ![pos] = <<Value, 1>>] ELSE weights_
  BY DEF ReadWeight
<1>2. /\ TypeInv' /\ StreamInv' /\ PlaceInv' /\ HeadInv' /\ StrayInv' /\ InferInv'
      /\ pc = "weight" /\ pc' = IF Fails THEN "infer" ELSE "mean"
      /\ Stores => good /\ Value = Number(next + 1) /\ next = 2 + 3 * pos + Offset
      /\ ~ Fails => Stores
      /\ Stores => Inside
      /\ Fails => Numbers <= 2 + 3 * pos + Offset
      /\ Numbers \in Nat /\ pos \in Nat /\ UNCHANGED file /\ UNCHANGED <<pos, features_count_>>
  BY <1>1, LoopRead
<1>3. Offset = 0 /\ Slots' = Slots /\ Slots \subseteq Nat /\ (Inside <=> pos \in Slots)
  BY <1>2 DEF Offset, Slots, Inside, TypeInv
<1>4. /\ (\A j, k : Cell(j, k)' = Cell(j, k)) /\ (\A j : RefWeight(j)' = RefWeight(j))
  BY <1>2, ReferenceFixed
<1>5. /\ DOMAIN weights_ = Slots /\ DOMAIN mean_ = Slots /\ DOMAIN std_ = Slots
      /\ \A j \in Slots : weights_[j] = Weight(j) /\ mean_[j] = Mean(j)
  BY <1>2 DEF VectorsInv, Loop
<1>6. DOMAIN weights_' = Slots /\ DOMAIN mean_' = Slots /\ DOMAIN std_' = Slots
  BY <1>1, <1>5
<1>7. Stores => Value = Cell(pos, 1)
  <2>1. Stores => next + 1 = 3 + 3 * pos
    BY <1>2, <1>3
  <2> QED
    BY <2>1, <1>2, Unreached
<1>8. ASSUME NEW j \in Slots PROVE weights_'[j] = Weight(j)' /\ mean_'[j] = Mean(j)'
  <2>0. j \in Nat
    BY <1>3
  <2>1. weights_[j] = (IF j < pos THEN RefWeight(j) ELSE <<0, 1>>)
        /\ mean_[j] = (IF j < pos THEN Cell(j, 2) ELSE 0)
    BY <1>5, <1>2 DEF Weight, Mean, Loaded
  <2>2. weights_'[j] = IF Stores /\ j = pos THEN <<Cell(pos, 1), 1>> ELSE weights_[j]
    BY <1>1, <1>3, <1>5, <1>7
  <2>3. CASE ~ Fails
    BY <2>0, <2>1, <2>2, <2>3, <1>1, <1>2, <1>4 DEF Weight, Mean, Loaded
  <2>4. CASE Fails
    <3>1. Weight(j)' = RefWeight(j) /\ Mean(j)' = Cell(j, 2)
      BY <2>4, <1>2, <1>4 DEF Weight, Mean, Loaded
    <3>2. CASE j < pos
      BY <3>1, <3>2, <2>0, <2>1, <2>2, <1>1, <1>2
    <3>3. CASE ~ (j < pos)
      <4>1. Numbers < 3 + 3 * j /\ Numbers < 5 + 3 * j
        BY <3>3, <2>0, <2>4, <1>2, <1>3
      <4>2. RefWeight(j) = <<0, 1>> /\ Cell(j, 2) = 0 /\ RefWeight(j) = <<Cell(j, 1), 1>>
        BY <4>1, <2>0, <1>2, Unreached
      <4> QED
        BY <4>2, <3>1, <3>3, <2>1, <2>2, <1>1
    <3> QED
      BY <3>2, <3>3
  <2> QED
    BY <2>3, <2>4
<1>9. VectorsInv'
  BY <1>2, <1>3, <1>6, <1>8 DEF VectorsInv
<1>10. QED
  BY <1>2, <1>9

\* The mean of a triple.
LEMMA ReadMeanInv == IInv /\ ReadMean => IInv'
<1> SUFFICES ASSUME IInv, ReadMean PROVE IInv'
  OBVIOUS
<1> USE DEF IInv
<1>1. /\ Read("mean", "std") /\ UNCHANGED <<weights_, std_>>
      /\ mean_' = IF Stores THEN [mean_ EXCEPT ![pos] = Value] ELSE mean_
  BY DEF ReadMean
<1>2. /\ TypeInv' /\ StreamInv' /\ PlaceInv' /\ HeadInv' /\ StrayInv' /\ InferInv'
      /\ pc = "mean" /\ pc' = IF Fails THEN "infer" ELSE "std"
      /\ Stores => good /\ Value = Number(next + 1) /\ next = 2 + 3 * pos + Offset
      /\ ~ Fails => Stores
      /\ Stores => Inside
      /\ Fails => Numbers <= 2 + 3 * pos + Offset
      /\ Numbers \in Nat /\ pos \in Nat /\ UNCHANGED file /\ UNCHANGED <<pos, features_count_>>
  BY <1>1, LoopRead
<1>3. Offset = 1 /\ Slots' = Slots /\ Slots \subseteq Nat /\ (Inside <=> pos \in Slots)
  BY <1>2 DEF Offset, Slots, Inside, TypeInv
<1>4. /\ (\A j, k : Cell(j, k)' = Cell(j, k)) /\ (\A j : RefWeight(j)' = RefWeight(j))
  BY <1>2, ReferenceFixed
<1>5. /\ DOMAIN weights_ = Slots /\ DOMAIN mean_ = Slots /\ DOMAIN std_ = Slots
      /\ \A j \in Slots : weights_[j] = Weight(j) /\ mean_[j] = Mean(j)
  BY <1>2 DEF VectorsInv, Loop
<1>6. DOMAIN weights_' = Slots /\ DOMAIN mean_' = Slots /\ DOMAIN std_' = Slots
  BY <1>1, <1>5
<1>7. Stores => Value = Cell(pos, 2)
  <2>1. Stores => next + 1 = 4 + 3 * pos
    BY <1>2, <1>3
  <2> QED
    BY <2>1, <1>2, Unreached
<1>8. ASSUME NEW j \in Slots PROVE weights_'[j] = Weight(j)' /\ mean_'[j] = Mean(j)'
  <2>0. j \in Nat
    BY <1>3
  <2>1. /\ weights_[j] = IF j < pos THEN RefWeight(j) ELSE IF j = pos THEN <<Cell(j, 1), 1>> ELSE <<0, 1>>
        /\ mean_[j] = IF j < pos THEN Cell(j, 2) ELSE 0
    BY <1>5, <1>2 DEF Weight, Mean, Loaded
  <2>2. mean_'[j] = IF Stores /\ j = pos THEN Cell(pos, 2) ELSE mean_[j]
    BY <1>1, <1>3, <1>5, <1>7
  <2>3. CASE ~ Fails
    BY <2>0, <2>1, <2>2, <2>3, <1>1, <1>2, <1>4 DEF Weight, Mean, Loaded
  <2>4. CASE Fails
    <3>1. Weight(j)' = RefWeight(j) /\ Mean(j)' = Cell(j, 2)
      BY <2>4, <1>2, <1>4 DEF Weight, Mean, Loaded
    <3>2. CASE j < pos
      BY <3>1, <3>2, <2>0, <2>1, <2>2, <1>1, <1>2
    <3>3. CASE j = pos
      <4>1. Numbers < 4 + 3 * j /\ Numbers < 5 + 3 * j
        BY <3>3, <2>0, <2>4, <1>2, <1>3
      <4>2. Cell(j, 2) = 0 /\ RefWeight(j) = <<Cell(j, 1), 1>>
        BY <4>1, <2>0, <1>2, Unreached
      <4> QED
        BY <4>2, <3>1, <3>3, <2>0, <2>1, <2>2, <1>1
    <3>4. CASE ~ (j < pos) /\ j # pos
      <4>1. Numbers < 3 + 3 * j
        BY <3>4, <2>0, <2>4, <1>2, <1>3
      <4>2. RefWeight(j) = <<0, 1>> /\ Cell(j, 2) = 0
        BY <4>1, <2>0, <1>2, Unreached
      <4> QED
        BY <4>2, <3>1, <3>4, <2>1, <2>2, <1>1
    <3> QED
      BY <3>2, <3>3, <3>4
  <2> QED
    BY <2>3, <2>4
<1>9. VectorsInv'
  BY <1>2, <1>3, <1>6, <1>8 DEF VectorsInv
<1>10. QED
  BY <1>2, <1>9

\* The deviation of a triple.
LEMMA ReadStdInv == IInv /\ ReadStd => IInv'
<1> SUFFICES ASSUME IInv, ReadStd PROVE IInv'
  OBVIOUS
<1> USE DEF IInv
<1>1. /\ Read("std", "scale") /\ UNCHANGED <<weights_, mean_>>
      /\ std_' = IF Stores THEN [std_ EXCEPT ![pos] = Value] ELSE std_
  BY DEF ReadStd
<1>2. /\ TypeInv' /\ StreamInv' /\ PlaceInv' /\ HeadInv' /\ StrayInv' /\ InferInv'
      /\ pc = "std" /\ pc' = IF Fails THEN "infer" ELSE "scale"
      /\ Stores => good /\ Value = Number(next + 1) /\ next = 2 + 3 * pos + Offset
      /\ ~ Fails => Stores
      /\ Stores => Inside
      /\ Fails => Numbers <= 2 + 3 * pos + Offset
      /\ Numbers \in Nat /\ pos \in Nat /\ UNCHANGED file /\ UNCHANGED <<pos, features_count_>>
  BY <1>1, LoopRead
<1>3. Offset = 2 /\ Slots' = Slots /\ Slots \subseteq Nat /\ (Inside <=> pos \in Slots)
  BY <1>2 DEF Offset, Slots, Inside, TypeInv
<1>4. /\ (\A j, k : Cell(j, k)' = Cell(j, k)) /\ (\A j : RefWeight(j)' = RefWeight(j))
  BY <1>2, ReferenceFixed
<1>5. /\ DOMAIN weights_ = Slots /\ DOMAIN mean_ = Slots /\ DOMAIN std_ = Slots
      /\ \A j \in Slots : weights_[j] = Weight(j) /\ mean_[j] = Mean(j)
  BY <1>2 DEF VectorsInv, Loop
<1>6. DOMAIN weights_' = Slots /\ DOMAIN mean_' = Slots /\ DOMAIN std_' = Slots
  BY <1>1, <1>5
<1>7. Stores => Value = Cell(pos, 3)
  <2>1. Stores => next + 1 = 5 + 3 * pos
    BY <1>2, <1>3
  <2> QED
    BY <2>1, <1>2, Unreached
<1>8. ASSUME NEW j \in Slots PROVE weights_'[j] = Weight(j)' /\ mean_'[j] = Mean(j)'
  <2>0. j \in Nat
    BY <1>3
  <2>1. /\ weights_[j] = IF j < pos THEN RefWeight(j) ELSE IF j = pos THEN <<Cell(j, 1), 1>> ELSE <<0, 1>>
        /\ mean_[j] = IF j < pos \/ j = pos THEN Cell(j, 2) ELSE 0
    BY <1>5, <1>2 DEF Weight, Mean, Loaded
  <2>3. CASE ~ Fails
    BY <2>0, <2>1, <2>3, <1>1, <1>2, <1>4 DEF Weight, Mean, Loaded
  <2>4. CASE Fails
    <3>1. Weight(j)' = RefWeight(j) /\ Mean(j)' = Cell(j, 2)
      BY <2>4, <1>2, <1>4 DEF Weight, Mean, Loaded
    <3>2. CASE j < pos
      BY <3>1, <3>2, <2>1, <1>1
    <3>3. CASE j = pos
      <4>1. Numbers < 5 + 3 * j
        BY <3>3, <2>0, <2>4, <1>2, <1>3
      <4>2. RefWeight(j) = <<Cell(j, 1), 1>>
        BY <4>1, <2>0, <1>2, Unreached
      <4> QED
        BY <4>2, <3>1, <3>3, <2>0, <2>1, <1>1
    <3>4. CASE ~ (j < pos) /\ j # pos
      <4>1. Numbers < 3 + 3 * j
        BY <3>4, <2>0, <2>4, <1>2, <1>3
      <4>2. RefWeight(j) = <<0, 1>> /\ Cell(j, 2) = 0
        BY <4>1, <2>0, <1>2, Unreached
      <4> QED
        BY <4>2, <3>1, <3>4, <2>1, <1>1
    <3> QED
      BY <3>2, <3>3, <3>4
  <2> QED
    BY <2>3, <2>4
<1>9. pc' = "scale" /\ Inside' => std_'[pos'] = Cell(pos, 3)'
  <2>1. SUFFICES ASSUME pc' = "scale", Inside' PROVE std_'[pos'] = Cell(pos, 3)'
    OBVIOUS
  <2>2. Stores /\ Inside /\ pos' = pos
    BY <2>1, <1>2 DEF Inside
  <2>3. std_'[pos] = Cell(pos, 3)
    BY <2>2, <1>1, <1>3, <1>5, <1>7
  <2>4. Cell(pos, 3)' = Cell(pos, 3)
    BY <2>2, <1>2, ReferenceFixed DEF Cell, Number
  <2> QED
    BY <2>2, <2>3, <2>4
<1>10. VectorsInv'
  BY <1>2, <1>3, <1>6, <1>8, <1>9 DEF VectorsInv
<1>11. QED
  BY <1>2, <1>10

\* A store outside the vectors: there is more to store than they hold.
LEMMA StoreOutsideInv == IInv /\ StoreOutside => IInv'
<1> SUFFICES ASSUME IInv, StoreOutside PROVE IInv'
  OBVIOUS
<1> USE DEF IInv
<1>1. /\ pc \in {"weight", "mean", "std"} /\ pc' = "undefined" /\ UNCHANGED file
      /\ UNCHANGED <<size, pos, next, good, features_count_, bias_>> /\ UNCHANGED inference
      /\ Stores /\ ~ Inside
  BY DEF StoreOutside, stream
<1>2. Numbers' = Numbers /\ Stored' = Stored /\ (\A k : Number(k)' = Number(k))
  BY <1>1, ReferenceFixed
<1>3. TypeInv' /\ StreamInv' /\ PlaceInv' /\ HeadInv' /\ VectorsInv'
  BY <1>1, <1>2 DEF TypeInv, StreamInv, PlaceInv, HeadInv, VectorsInv, Loop, Loaded, inference
<1>4. StrayInv'
  <2>1. /\ Len(file) \in Nat /\ Numbers \in 0 .. Len(file)
        /\ Stored = IF Numbers < Len(file) THEN Numbers + 1 ELSE Numbers
    BY NumbersEnd
  <2>2. next \in Nat /\ pos \in Nat /\ features_count_ \in Nat /\ ~ (pos < features_count_)
    BY <1>1, <2>1 DEF TypeInv, Inside
  <2>3. good /\ next < Len(file) /\ next <= Numbers
    BY <1>1 DEF Stores, StreamInv
  <2>4. Offset \in 0 .. 2 /\ next = 2 + 3 * pos + Offset
    BY <1>1, <2>3 DEF PlaceInv, Loop, Offset
  <2>5. next + 1 <= Stored
    BY <2>1, <2>2, <2>3
  <2>6. Stored > 2 + 3 * features_count_
    BY <2>1, <2>2, <2>4, <2>5
  <2> QED
    BY <1>1, <1>2, <2>6 DEF StrayInv, Loop, Loaded
<1>5. InferInv'
  BY <1>1, InferUntouched DEF Loaded
<1>6. QED
  BY <1>3, <1>4, <1>5

\* The division, after a whole triple.
LEMMA ScaleInv == IInv /\ Scale => IInv'
<1> SUFFICES ASSUME IInv, Scale PROVE IInv'
  OBVIOUS
<1> USE DEF IInv
<1>1. /\ pc = "scale" /\ pc' = "weight" /\ pos' = pos + 1 /\ UNCHANGED file
      /\ UNCHANGED <<size, next, good, features_count_, bias_, mean_, std_>>
      /\ UNCHANGED inference
      /\ weights_' = [weights_ EXCEPT ![pos] = Scaled(weights_[pos], std_[pos])]
  BY DEF Scale, stream
<1>2. /\ Numbers' = Numbers /\ Stored' = Stored /\ (\A k : Number(k)' = Number(k))
      /\ (\A j, k : Cell(j, k)' = Cell(j, k)) /\ (\A j : RefWeight(j)' = RefWeight(j))
  BY <1>1, ReferenceFixed
<1>3. pos \in Nat /\ Numbers \in Nat /\ features_count_ \in Nat
  BY NumbersEnd DEF TypeInv
<1>4. good /\ next = 5 + 3 * pos /\ next <= Numbers
  BY <1>1, <1>3 DEF PlaceInv, StreamInv, Loop, Offset
<1>5. TypeInv' /\ StreamInv'
  BY <1>1, <1>2, <1>3 DEF TypeInv, StreamInv, Loop, inference
<1>6. PlaceInv'
  <2>1. next' = 2 + 3 * pos' + 0
    BY <1>1, <1>3, <1>4
  <2> QED
    BY <2>1, <1>1, <1>4 DEF PlaceInv, Loop, Loaded, Offset
<1>7. HeadInv' /\ StrayInv'
  BY <1>1, <1>2 DEF HeadInv, StrayInv, Loop, Loaded
<1>8. InferInv'
  BY <1>1, InferUntouched DEF Loaded
<1>9. VectorsInv'
  <2>0. next <= 2 + 3 * features_count_
    BY <1>1 DEF StrayInv, Loop
  <2>1. Slots' = Slots /\ Slots \subseteq Nat /\ pos \in Slots /\ Inside
    BY <1>1, <1>3, <1>4, <2>0 DEF Slots, Inside
  <2>2. /\ DOMAIN weights_ = Slots /\ DOMAIN mean_ = Slots /\ DOMAIN std_ = Slots
        /\ \A j \in Slots : weights_[j] = Weight(j) /\ mean_[j] = Mean(j)
        /\ Inside => std_[pos] = Cell(pos, 3)
    BY <1>1 DEF VectorsInv, Loop
  <2>3. DOMAIN weights_' = Slots /\ DOMAIN mean_' = Slots /\ DOMAIN std_' = Slots
    BY <1>1, <2>2
  <2>4. RefWeight(pos) = Scaled(<<Cell(pos, 1), 1>>, Cell(pos, 3))
    BY <1>3, <1>4, Unreached
  <2>5. ASSUME NEW j \in Slots PROVE weights_'[j] = Weight(j)' /\ mean_'[j] = Mean(j)'
    <3>1. j \in Nat
      BY <2>1
    <3>2. /\ weights_[j] = IF j < pos THEN RefWeight(j) ELSE IF j = pos THEN <<Cell(j, 1), 1>> ELSE <<0, 1>>
          /\ mean_[j] = IF j < pos \/ j = pos THEN Cell(j, 2) ELSE 0
      BY <2>2, <1>1 DEF Weight, Mean, Loaded
    <3>3. /\ Weight(j)' = IF j < pos \/ j = pos THEN RefWeight(j) ELSE <<0, 1>>
          /\ Mean(j)' = IF j < pos \/ j = pos THEN Cell(j, 2) ELSE 0
      BY <3>1, <1>1, <1>2, <1>3 DEF Weight, Mean, Loaded
    <3>4. CASE j = pos
      <4>1. weights_'[j] = Scaled(weights_[j], Cell(j, 3))
        BY <3>4, <1>1, <2>1, <2>2
      <4>2. weights_[j] = <<Cell(j, 1), 1>>
        BY <3>1, <3>2, <3>4
      <4> QED
        BY <4>1, <4>2, <3>2, <3>3, <3>4, <2>4, <1>1
    <3>5. CASE j # pos
      <4>1. weights_'[j] = weights_[j]
        BY <3>5, <1>1, <2>2
      <4> QED
        BY <4>1, <3>2, <3>3, <3>5, <1>1
    <3> QED
      BY <3>4, <3>5
  <2> QED
    BY <1>1, <2>1, <2>3, <2>5 DEF VectorsInv
<1>10. QED
  BY <1>5, <1>6, <1>7, <1>8, <1>9

\* The vectors stay what they are once they are loaded.
LEMMA VectorsKept ==
  ASSUME VectorsInv, Loaded, Loaded', UNCHANGED file, UNCHANGED <<pos, features_count_, weights_, mean_, std_>>
  PROVE  VectorsInv'
<1>1. (\A j, k : Cell(j, k)' = Cell(j, k)) /\ (\A j : RefWeight(j)' = RefWeight(j)) /\ Slots' = Slots
  BY ReferenceFixed DEF Slots
<1>2. \A j \in Slots : Weight(j)' = Weight(j) /\ Mean(j)' = Mean(j)
  BY <1>1 DEF Weight, Mean
<1>3. QED
  BY <1>1, <1>2 DEF VectorsInv, Loaded, Loop

\* A step of the loop of Infer.
LEMMA InferStepInv == IInv /\ Infer => IInv'
<1> SUFFICES ASSUME IInv, Infer PROVE IInv'
  OBVIOUS
<1> USE DEF IInv
<1>1. /\ pc = "infer" /\ pc' = "infer" /\ UNCHANGED file
      /\ UNCHANGED <<size, pos, next, good, features_count_, bias_, weights_, mean_, std_>>
      /\ i' = i + 1 /\ i < features_count_
      /\ terms' = terms \cup {<<i, mean_[i], weights_[i]>>}
      /\ outside' = IF i < size THEN outside ELSE outside \cup {i}
  BY DEF Infer, stream, vectors, MoreFeatures
<1>2. Numbers' = Numbers /\ Stored' = Stored /\ (\A k : Number(k)' = Number(k))
  BY <1>1, ReferenceFixed
<1>3. TypeInv' /\ StreamInv' /\ PlaceInv' /\ HeadInv' /\ StrayInv'
  BY <1>1, <1>2 DEF TypeInv, StreamInv, PlaceInv, HeadInv, StrayInv, Loop, Loaded
<1>4. VectorsInv'
  BY <1>1, VectorsKept DEF Loaded
<1>5. InferInv'
  <2>1. i \in Nat /\ size \in Nat /\ features_count_ \in Nat
    BY DEF TypeInv
  <2>2. 0 .. (i' - 1) = (0 .. (i - 1)) \cup {i}
    BY <1>1, <2>1
  <2>3. terms' = {<<j, mean_'[j], weights_'[j]>> : j \in 0 .. (i' - 1)}
    BY <1>1, <2>2 DEF InferInv
  <2>4. outside' = {j \in 0 .. (i' - 1) : size <= j}
    BY <1>1, <2>1, <2>2 DEF InferInv
  <2> QED
    BY <1>1, <2>1, <2>3, <2>4 DEF InferInv, Loaded
<1>6. QED
  BY <1>3, <1>4, <1>5

\* The return of Infer.
LEMMA InferReturnInv == IInv /\ InferReturn => IInv'
<1> SUFFICES ASSUME IInv, InferReturn PROVE IInv'
  OBVIOUS
<1> USE DEF IInv
<1>1. /\ pc = "infer" /\ pc' = "done" /\ UNCHANGED file
      /\ UNCHANGED <<size, pos, next, good, features_count_, bias_, weights_, mean_, std_>>
      /\ UNCHANGED <<i, terms, outside>> /\ ~ (i < features_count_)
  BY DEF InferReturn, stream, vectors, inference, MoreFeatures
<1>2. Numbers' = Numbers /\ Stored' = Stored /\ (\A k : Number(k)' = Number(k))
  BY <1>1, ReferenceFixed
<1>3. TypeInv' /\ StreamInv' /\ PlaceInv' /\ HeadInv' /\ StrayInv'
  BY <1>1, <1>2 DEF TypeInv, StreamInv, PlaceInv, HeadInv, StrayInv, Loop, Loaded
<1>4. VectorsInv'
  BY <1>1, VectorsKept DEF Loaded
<1>5. InferInv'
  <2>1. i \in Nat /\ features_count_ \in Nat
    BY DEF TypeInv
  <2>2. i = features_count_
    BY <1>1, <2>1 DEF InferInv
  <2> QED
    BY <1>1, <2>2 DEF InferInv, Loaded
<1>6. QED
  BY <1>3, <1>4, <1>5

\* A step that changes nothing.
LEMMA StutterInv == IInv /\ UNCHANGED vars => IInv'
<1> SUFFICES ASSUME IInv, UNCHANGED vars PROVE IInv'
  OBVIOUS
<1>1. /\ UNCHANGED file
      /\ UNCHANGED <<size, pc, pos, next, good, features_count_, bias_>>
      /\ UNCHANGED <<weights_, mean_, std_, i, terms, outside>>
  BY DEF vars, stream, vectors, inference
<1>2. /\ Numbers' = Numbers /\ Stored' = Stored /\ (\A k : Number(k)' = Number(k))
      /\ (\A j, k : Cell(j, k)' = Cell(j, k)) /\ (\A j : RefWeight(j)' = RefWeight(j))
  BY <1>1, ReferenceFixed
<1>3. TypeInv' /\ StreamInv' /\ PlaceInv' /\ HeadInv' /\ StrayInv' /\ InferInv'
  BY <1>1, <1>2 DEF IInv, TypeInv, StreamInv, PlaceInv, HeadInv, StrayInv, InferInv, Loop, Loaded, Offset
<1>4. VectorsInv'
  <2>1. Slots' = Slots /\ (\A j \in Slots : Weight(j)' = Weight(j) /\ Mean(j)' = Mean(j)) /\ (Inside' <=> Inside)
    BY <1>1, <1>2 DEF Slots, Weight, Mean, Loaded, Inside
  <2>2. Cell(pos, 3)' = Cell(pos, 3)
    BY <1>1, <1>2 DEF Cell, Number
  <2> QED
    BY <1>1, <2>1, <2>2 DEF IInv, VectorsInv
<1>5. QED
  BY <1>3, <1>4 DEF IInv

\* The invariant holds in every state that is reached.
LEMMA InvHolds == Spec => []IInv
<1>1. ASSUME IInv, [Next]_vars PROVE IInv'
  BY <1>1, ReadCountInv, ResizeInv, ReadBiasInv, ReadWeightInv, ReadMeanInv, ReadStdInv, StoreOutsideInv, ScaleInv,
     InferStepInv, InferReturnInv, StutterInv DEF Next, Finished
<1>2. QED
  BY <1>1, InitInv, PTL DEF Spec

-----------------------------------------------------------------------------
\* The constructor stores outside its vectors exactly when the file holds more
\* tokens than the triples it announces, for every file: such a file is never
\* loaded, and no other one leads to undefined behaviour (logreg.hpp:19).
THEOREM StoresOutside == Spec => []StrayExactly
<1>1. IInv => StrayExactly
  BY DEF IInv, StrayExactly, StrayInv, PlaceInv, StreamInv
<1>2. QED
  BY <1>1, InvHolds, PTL

\* The members are those that the file holds, wherever it breaks off, for every
\* file that is loaded: by StoresOutside those that do not hold more than they
\* announce (logreg.hpp:12-23).
THEOREM LoadsFile == Spec => []LoadExact
<1>1. ASSUME IInv, Loaded PROVE
        /\ Stored >= 1 => features_count_ = Number(1)
        /\ Stored >= 2 => bias_ = Number(2)
        /\ \A j \in Slots : weights_[j] = RefWeight(j) /\ mean_[j] = Cell(j, 2)
  <2>1. \A j \in Slots : weights_[j] = RefWeight(j) /\ mean_[j] = Cell(j, 2)
    BY <1>1 DEF IInv, VectorsInv, Weight, Mean, Loaded
  <2> QED
    BY <1>1, <2>1 DEF IInv, HeadInv, Loaded
<1>2. IInv => LoadExact
  BY <1>1 DEF LoadExact, Slots
<1>3. QED
  BY <1>2, InvHolds, PTL

\* Infer adds one term per weight, of the triple that the file has for it, and
\* reads outside the features exactly those that the dictionary does not have,
\* for every file that is loaded and every dictionary (logreg.hpp:28-30).
THEOREM InfersOverWeights == Spec => []InferExact
<1>1. ASSUME IInv, pc = "done" PROVE
        /\ terms = {<<j, Cell(j, 2), RefWeight(j)>> : j \in Slots}
        /\ outside = size .. (features_count_ - 1)
  <2>1. \A j \in Slots : weights_[j] = RefWeight(j) /\ mean_[j] = Cell(j, 2)
    BY <1>1 DEF IInv, VectorsInv, Weight, Mean, Loaded
  <2>2. i = features_count_ /\ 0 .. (i - 1) = Slots
    BY <1>1 DEF IInv, InferInv, Slots
  <2>3. terms = {<<j, Cell(j, 2), RefWeight(j)>> : j \in Slots}
    BY <2>1, <2>2, <1>1 DEF IInv, InferInv
  <2>4. size \in Nat /\ features_count_ \in Nat
    BY <1>1 DEF IInv, TypeInv
  <2>5. outside = size .. (features_count_ - 1)
    BY <2>2, <2>4, <1>1 DEF IInv, InferInv, Slots
  <2> QED
    BY <2>3, <2>5
<1>2. IInv => InferExact
  BY <1>1 DEF InferExact, Slots
<1>3. QED
  BY <1>2, InvHolds, PTL
=============================================================================
