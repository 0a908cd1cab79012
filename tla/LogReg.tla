------------------------------- MODULE LogReg -------------------------------
(***************************************************************************)
(* LogisticRegression (logreg.hpp): the constructor reads a weights file   *)
(* token by token with operator>>, whatever their number, and Infer goes   *)
(* over as many features as the file announces, whatever the length of the *)
(* bag of words that GenerateNewsDetFeatures hands to it.                  *)
(*                                                                         *)
(* A token is a number or Garbage.  A weight is a pair: what was read, and *)
(* what it was divided by.  A store outside a vector is undefined          *)
(* behaviour: it writes over whatever the heap holds there, or ends the    *)
(* process, and nothing is said of a run from there on.  A read outside    *)
(* the features is recorded, and what it yields is left open.              *)
(***************************************************************************)
EXTENDS Integers, Sequences, FiniteSets, SequencesExt

CONSTANTS
  Garbage,        \* a token that is not a number
  Files,          \* the weights files, as sequences of tokens
  Dictionaries,   \* the sizes that the dictionary Feats.txt may have
  Indeterminate,  \* what an uninitialized member may hold
  MaxSize         \* the largest size that resize can allocate

ASSUME FilesAssumption == \A f \in Files : f \in Seq(Nat \cup {Garbage})
ASSUME SizesAssumption == Dictionaries \subseteq Nat /\ Indeterminate \subseteq Nat /\ MaxSize \in Nat

VARIABLES
  file, size,                     \* the input: the file, the size of the dictionary
  pc, pos, i,                     \* the next step, and the indices of the two loops
  next, good,                     \* the stream: tokens consumed, not failed
  features_count_, bias_,
  weights_, mean_, std_,
  terms, outside                  \* Infer: the terms added, the features read outside

stream == <<next, good>>
inference == <<i, terms, outside>>
vectors == <<weights_, mean_, std_>>
vars == <<file, size, pc, pos, stream, features_count_, bias_, vectors, inference>>

-----------------------------------------------------------------------------
\* operator>>: nothing is stored at the end of the file or once the stream
\* has failed; a token that is not a number stores 0 and fails the stream.
Stores == good /\ next < Len(file)
Token == file[next + 1]
Fails == ~ Stores \/ Token = Garbage
Value == IF Token = Garbage THEN 0 ELSE Token

\* The value of a member after the extraction.
Assigned(x) == IF Stores THEN Value ELSE x

Extract ==
  /\ good' = ~ Fails
  /\ next' = IF Stores THEN next + 1 ELSE next

\* Mutant: the test of the divisor is dropped.
ScaledAlways(w, s) == <<w[1], s>>

Scaled(w, s) == IF s > 0 THEN <<w[1], s>> ELSE w

\* Mutant: the last triple is left out.
MoreFeaturesShort == i + 1 < features_count_

MoreFeatures == i < features_count_

\* Mutant: the last element is taken to be outside.
InsideShort == pos + 1 < features_count_

Inside == pos < features_count_

-----------------------------------------------------------------------------
Init ==
  /\ file \in Files /\ size \in Dictionaries
  /\ pc = "count" /\ pos = 0 /\ i = 0
  /\ next = 0 /\ good = TRUE
  /\ features_count_ \in Indeterminate /\ bias_ \in Indeterminate
  /\ weights_ = << >> /\ mean_ = << >> /\ std_ = << >>
  /\ terms = {} /\ outside = {}

ReadCount ==
  /\ pc = "count"
  /\ features_count_' = Assigned(features_count_)
  /\ Extract
  /\ pc' = "resize"
  /\ UNCHANGED <<file, size, pos, bias_, vectors, inference>>

\* resize throws std::length_error or std::bad_alloc.
Resize ==
  /\ pc = "resize"
  /\ IF features_count_ > MaxSize
     THEN pc' = "thrown" /\ UNCHANGED vectors
     ELSE LET D == 0 .. (features_count_ - 1)
          IN  /\ weights_' = [k \in D |-> <<0, 1>>]
              /\ mean_' = [k \in D |-> 0]
              /\ std_' = [k \in D |-> 0]
              /\ pc' = "bias"
  /\ UNCHANGED <<file, size, pos, stream, features_count_, bias_, inference>>

ReadBias ==
  /\ pc = "bias"
  /\ bias_' = Assigned(bias_)
  /\ Extract
  /\ pc' = "weight"
  /\ UNCHANGED <<file, size, pos, features_count_, vectors, inference>>

\* One extraction of the loop's condition; a failed one ends the loop.
Read(step, then) ==
  /\ pc = step
  /\ Stores => Inside
  /\ Extract
  /\ pc' = IF Fails THEN "infer" ELSE then
  /\ UNCHANGED <<file, size, pos, features_count_, bias_, inference>>

ReadWeight ==
  /\ Read("weight", "mean")
  /\ weights_' = IF Stores THEN [weights_ EXCEPT ![pos] = <<Value, 1>>] ELSE weights_
  /\ UNCHANGED <<mean_, std_>>

ReadMean ==
  /\ Read("mean", "std")
  /\ mean_' = IF Stores THEN [mean_ EXCEPT ![pos] = Value] ELSE mean_
  /\ UNCHANGED <<weights_, std_>>

ReadStd ==
  /\ Read("std", "scale")
  /\ std_' = IF Stores THEN [std_ EXCEPT ![pos] = Value] ELSE std_
  /\ UNCHANGED <<weights_, mean_>>

\* The extraction stores outside the vector, which is undefined.
StoreOutside ==
  /\ pc \in {"weight", "mean", "std"}
  /\ Stores /\ ~ Inside
  /\ pc' = "undefined"
  /\ UNCHANGED <<file, size, pos, stream, features_count_, bias_, vectors, inference>>

\* The body of the loop, after a whole triple.
Scale ==
  /\ pc = "scale"
  /\ weights_' = [weights_ EXCEPT ![pos] = Scaled(weights_[pos], std_[pos])]
  /\ pos' = pos + 1
  /\ pc' = "weight"
  /\ UNCHANGED <<file, size, stream, features_count_, bias_, mean_, std_, inference>>

\* A step of Infer's loop on the features of a document.
Infer ==
  /\ pc = "infer"
  /\ MoreFeatures
  /\ terms' = terms \cup {<<i, mean_[i], weights_[i]>>}
  /\ outside' = IF i < size THEN outside ELSE outside \cup {i}
  /\ i' = i + 1
  /\ UNCHANGED <<file, size, pc, pos, stream, features_count_, bias_, vectors>>

InferReturn ==
  /\ pc = "infer"
  /\ ~ MoreFeatures
  /\ pc' = "done"
  /\ UNCHANGED <<file, size, pos, stream, features_count_, bias_, vectors, inference>>

Finished == pc \in {"done", "thrown", "undefined"} /\ UNCHANGED vars

Next ==
  \/ ReadCount \/ Resize \/ ReadBias \/ ReadWeight \/ ReadMean \/ ReadStd \/ StoreOutside \/ Scale
  \/ Infer \/ InferReturn \/ Finished

Spec == Init /\ [][Next]_vars

-----------------------------------------------------------------------------
\* What the file says.

\* The numbers before the first token that is not one.
Numbers == Min({k \in 0 .. Len(file) : k = Len(file) \/ file[k + 1] = Garbage})

\* The tokens that are stored: the first garbage stores a 0.
Stored == IF Numbers < Len(file) THEN Numbers + 1 ELSE Numbers

\* Token k as a number, 0 when it is garbage or not there.
Number(k) == IF k <= Numbers THEN file[k] ELSE 0

\* Number k of triple j.
Cell(j, k) == Number(2 + 3 * j + k)

Complete(j) == 2 + 3 * (j + 1) <= Numbers

RefWeight(j) ==
  IF Complete(j) /\ Cell(j, 3) > 0 THEN <<Cell(j, 1), Cell(j, 3)>> ELSE <<Cell(j, 1), 1>>

Loaded == pc \in {"infer", "done"}

\* The constructor stores outside its vectors exactly when the file holds more
\* than the triples it announces: nothing compares pos with features_count_,
\* and only the end of the file stops the loop (logreg.hpp:19).  The failing
\* extraction at the end names the element past the end and stores nothing.
StrayExactly ==
  /\ pc = "undefined" => Stored > 2 + 3 * features_count_
  /\ Loaded => Stored <= 2 + 3 * features_count_

\* Once a file is loaded without a store outside the vectors, the members are
\* those of the file, the weights divided by a positive deviation.  A file that
\* breaks off leaves zeros, and the weight of a triple that was begun is kept
\* undivided.  A member that was never assigned is used only when the stream
\* has nothing for it: the file is missing or empty, or breaks off before it
\* (logreg.hpp:12-23; a count that is not a number is 0, and leaves the bias
\* unassigned).  Of a file that holds more than it announces nothing is claimed.
LoadExact ==
  Loaded =>
    /\ Stored >= 1 => features_count_ = Number(1)
    /\ Stored >= 2 => bias_ = Number(2)
    /\ \A j \in 0 .. (features_count_ - 1) :
         weights_[j] = RefWeight(j) /\ mean_[j] = Cell(j, 2)

\* Over weights that were loaded without a store outside the vectors, Infer
\* adds one term per weight and reads outside the features exactly when the
\* file announces more of them than the dictionary of the bag of words has: the
\* two files are never compared (logreg.hpp:28-30, news_det.hpp:17).
InferExact ==
  pc = "done" =>
    /\ terms = {<<j, Cell(j, 2), RefWeight(j)>> : j \in 0 .. (features_count_ - 1)}
    /\ outside = size .. (features_count_ - 1)
=============================================================================
