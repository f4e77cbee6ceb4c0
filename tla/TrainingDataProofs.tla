--------------------------- MODULE TrainingDataProofs ---------------------------
(***************************************************************************)
(* Theorems about TrainingData: folds of frames of any height, even or     *)
(* ragged, under any configuration; chunks of training sets of any height, *)
(* in any number of passes.                                                *)
(***************************************************************************)
EXTENDS TrainingData, FiniteSetTheorems, TLAPS

-----------------------------------------------------------------------------
(* Numbers *)

\* Euclid's division.
LEMMA DivMod ==
  ASSUME NEW n \in Int, NEW d \in Nat \ {0}
  PROVE  /\ n \div d \in Int /\ n % d \in 0 .. d - 1
         /\ n = d * (n \div d) + (n % d)
  OBVIOUS

\* A ceiling is the least multiple that is not less.
LEMMA CeilIsLeast ==
  ASSUME NEW a \in Int, NEW b \in Nat \ {0}
  PROVE  /\ Ceil(a, b) \in Int
         /\ (Ceil(a, b) - 1) * b < a /\ a <= Ceil(a, b) * b
<1>1. PICK c \in Int : c = a + b - 1
  OBVIOUS
<1>2. PICK q \in Int, r \in 0 .. b - 1 : c = b * q + r /\ q = Ceil(a, b)
  BY <1>1, DivMod DEF Ceil
<1>3. (q - 1) * b = b * q - b /\ q * b = b * q
  OBVIOUS
<1> QED BY <1>1, <1>2, <1>3

LEMMA Times ==
  ASSUME NEW a \in Int, NEW b \in Int, NEW c \in Nat, a <= b
  PROVE  a * c <= b * c
  OBVIOUS

LEMMA Counting ==
  ASSUME NEW a \in Int, NEW b \in Int, a <= b + 1
  PROVE  IsFiniteSet(a .. b) /\ Cardinality(a .. b) = b - a + 1
  BY FS_Interval

-----------------------------------------------------------------------------
(* Chunks *)

\* The rows of an interval in their order.
LEMMA AscendingIsInOrder ==
  ASSUME NEW a \in Int, NEW b \in Int, a <= b
  PROVE  Ascending(a .. b - 1) = [k \in 1 .. b - a |-> a + k - 1]
<1>1. Cardinality(a .. b - 1) = b - a
  BY Counting
<1>2. ASSUME NEW k \in 1 .. b - a
      PROVE  (CHOOSE r \in a .. b - 1 : Cardinality({s \in a .. b - 1 : s <= r}) = k)
               = a + k - 1
  <2>1. ASSUME NEW r \in a .. b - 1
        PROVE  Cardinality({s \in a .. b - 1 : s <= r}) = r - a + 1
    <3>1. {s \in a .. b - 1 : s <= r} = a .. r
      OBVIOUS
    <3>2. r \in Int /\ a <= r + 1
      OBVIOUS
    <3>3. Cardinality(a .. r) = r - a + 1
      BY <3>2, Counting
    <3> QED BY <3>1, <3>3
  <2>2. PICK x \in a .. b - 1 : x = a + k - 1
    OBVIOUS
  <2>3. ASSUME NEW r \in a .. b - 1
        PROVE  Cardinality({s \in a .. b - 1 : s <= r}) = k <=> r = x
    <3>1. Cardinality({s \in a .. b - 1 : s <= r}) = r - a + 1
      BY <2>1
    <3> QED BY <2>2, <3>1
  <2>4. (CHOOSE r \in a .. b - 1 : Cardinality({s \in a .. b - 1 : s <= r}) = k) = x
    BY <2>3
  <2> QED BY <2>2, <2>4
<1> QED BY <1>1, <1>2 DEF Ascending

\* How many chunks there are, and how long they are.
LEMMA BatchesAreFew ==
  ASSUME NEW h \in Nat \ {0}
  PROVE  /\ BatchSize(h) \in Nat \ {0}
         /\ Ceil(h, BatchSize(h)) \in 1 .. BatchCount
<1>1. PICK size \in Nat \ {0} : size = BatchSize(h) /\ h <= BatchCount * size
  <2>1. CASE h < BatchCount
    BY <2>1 DEF BatchSize, BatchCount
  <2>2. CASE h >= BatchCount
    <3>1. /\ Ceil(h, 4) \in Int /\ (Ceil(h, 4) - 1) * 4 < h
          /\ h <= Ceil(h, 4) * 4
      BY CeilIsLeast, 4 \in Nat \ {0}, h \in Int
    <3>2. BatchSize(h) = Ceil(h, 4)
      BY <2>2 DEF BatchSize, BatchCount
    <3> QED BY <2>2, <3>1, <3>2 DEF BatchCount
  <2> QED BY <2>1, <2>2 DEF BatchCount
<1>2. PICK n \in Int : n = Ceil(h, size) /\ (n - 1) * size < h /\ h <= n * size
  BY CeilIsLeast
<1>3. n >= 1
  <2> SUFFICES ASSUME n <= 0 PROVE FALSE
    BY <1>2
  <2>1. n * size <= 0 * size
    BY Times
  <2> QED BY <1>2, <2>1
<1>4. n <= BatchCount
  <2> SUFFICES ASSUME n >= BatchCount + 1 PROVE FALSE
    BY <1>2 DEF BatchCount
  <2>1. BatchCount * size <= (n - 1) * size
    BY Times DEF BatchCount
  <2> QED BY <1>1, <1>2, <2>1 DEF BatchCount
<1>5. Ceil(h, BatchSize(h)) = n
  BY <1>1, <1>2
<1>6. n \in 1 .. BatchCount
  BY <1>3, <1>4 DEF BatchCount
<1> QED BY <1>1, <1>5, <1>6

UpTo(n) == [k \in 1 .. n |-> k - 1]

\* A chunk goes on where the one before it ended.
LEMMA ChunksFollow ==
  ASSUME NEW h \in Nat \ {0}, NEW size \in Nat \ {0}, NEW i \in 1 .. Ceil(h, size)
  PROVE  /\ (i - 1) * size < h
         /\ Least(i * size, h) \in Nat /\ (i - 1) * size < Least(i * size, h)
         /\ Slices(h, size)[i] # {}
         /\ UpTo((i - 1) * size) \o Ascending(Slices(h, size)[i]) = UpTo(Least(i * size, h))
<1>1. PICK a \in Nat : a = (i - 1) * size
  OBVIOUS
<1>2. a < h
  <2>1. PICK n \in Int : n = Ceil(h, size) /\ (n - 1) * size < h
    BY CeilIsLeast, h \in Int
  <2>2. (i - 1) * size <= (n - 1) * size
    BY <2>1, Times, i - 1 \in Int, n - 1 \in Int, i - 1 <= n - 1
  <2> QED BY <1>1, <2>1, <2>2
<1>3. i * size = a + size
  BY <1>1
<1>4. PICK b \in Nat : b = Least(i * size, h) /\ a < b
  BY <1>2, <1>3 DEF Least
<1>5. Slices(h, size)[i] = a .. b - 1
  BY <1>1, <1>4 DEF Slices
<1>6. UpTo(a) \o [k \in 1 .. b - a |-> a + k - 1] = UpTo(b)
  BY <1>4 DEF UpTo
<1>7. Ascending(a .. b - 1) = [k \in 1 .. b - a |-> a + k - 1]
  BY <1>4, AscendingIsInOrder, a \in Int, b \in Int, a <= b
<1>8. a .. b - 1 # {}
  BY <1>4
<1> QED BY <1>1, <1>2, <1>4, <1>5, <1>6, <1>7, <1>8

-----------------------------------------------------------------------------
(* train *)

\* What is handed over before the iterator's position.
Handed(h) == UpTo(Least(idx * BatchSize(h), h))

\* The iterator is where its position says, and has handed over what lies before.
FeedOK ==
  /\ pc \in {"reset", "feed"} => \E h \in Nat \ {0} :
       /\ Height(job.time) = h
       /\ files = Slices(h, BatchSize(h))
       /\ pc = "feed" => /\ idx \in 0 .. Ceil(h, BatchSize(h))
                         /\ fed = Handed(h)
       /\ pc = "reset" /\ passes > 0 => fed = UpTo(h)

ChunksOK ==
  /\ passes \in Nat
  /\ pc \in {"start", "chunk"} => passes = 0
  /\ pc = "chunk" => job.command = "train"
  /\ job.command = "train" => Height(job.time) \in Nat
  /\ files = <<>> \/ \E h \in Nat \ {0} : files = Slices(h, BatchSize(h))

BatchInv == FeedOK /\ ChunksOK

LEMMA SlicesAreFew ==
  ASSUME NEW h \in Nat \ {0}
  PROVE  /\ Len(Slices(h, BatchSize(h))) = Ceil(h, BatchSize(h))
         /\ Len(Slices(h, BatchSize(h))) <= BatchCount
         /\ \A i \in 1 .. Len(Slices(h, BatchSize(h))) : Slices(h, BatchSize(h))[i] # {}
<1>1. PICK size \in Nat \ {0} : size = BatchSize(h) /\ Ceil(h, size) \in 1 .. BatchCount
  BY BatchesAreFew
<1>2. Len(Slices(h, size)) = Ceil(h, size)
  BY <1>1 DEF Slices, BatchCount
<1>3. \A i \in 1 .. Ceil(h, size) : Slices(h, size)[i] # {}
  BY ChunksFollow
<1> QED BY <1>1, <1>2, <1>3 DEF BatchCount

\* Nothing is handed over at the start of a pass, everything at its end.
LEMMA HandedOver ==
  ASSUME NEW h \in Nat \ {0}, NEW i \in 0 .. Ceil(h, BatchSize(h))
  PROVE  /\ UpTo(Least(0 * BatchSize(h), h)) = <<>>
         /\ i = Ceil(h, BatchSize(h)) => Least(i * BatchSize(h), h) = h
         /\ i < Ceil(h, BatchSize(h)) =>
              UpTo(Least((i + 1) * BatchSize(h), h))
                = UpTo(Least(i * BatchSize(h), h)) \o Ascending(Slices(h, BatchSize(h))[i + 1])
<1>1. PICK size \in Nat \ {0} : size = BatchSize(h) /\ Ceil(h, size) \in 1 .. BatchCount
  BY BatchesAreFew
<1>2. UpTo(Least(0 * size, h)) = <<>>
  <2>1. Least(0 * size, h) = 0
    BY DEF Least
  <2> QED BY <2>1 DEF UpTo
<1>3. h <= Ceil(h, size) * size
  BY CeilIsLeast, h \in Int
<1>4. Least(Ceil(h, size) * size, h) = h
  BY <1>1, <1>3 DEF Least, BatchCount
<1>5. ASSUME i < Ceil(h, size)
      PROVE  UpTo(Least((i + 1) * size, h))
               = UpTo(Least(i * size, h)) \o Ascending(Slices(h, size)[i + 1])
  <2>1. PICK j \in 1 .. Ceil(h, size) : j = i + 1 /\ j - 1 = i
    BY <1>1, <1>5 DEF BatchCount
  <2>2. /\ i * size < h
        /\ UpTo(i * size) \o Ascending(Slices(h, size)[j]) = UpTo(Least(j * size, h))
    BY <2>1, ChunksFollow
  <2>3. Least(i * size, h) = i * size
    BY <1>1, <2>2 DEF Least, BatchCount
  <2> QED BY <2>1, <2>2, <2>3
<1> QED BY <1>1, <1>2, <1>4, <1>5

LEMMA BatchesBegin == Init => BatchInv
<1> SUFFICES ASSUME Init PROVE BatchInv
  OBVIOUS
<1>1. ASSUME job.command = "train" PROVE Height(job.time) \in Nat
  <2>1. PICK h \in Heights, big \in BOOLEAN :
          job = [command |-> "train", time |-> [r \in 0 .. h - 1 |-> 0], big |-> big]
    BY <1>1 DEF Init, TuneCalls, TrainCalls
  <2>2. h \in Nat /\ DOMAIN job.time = 0 .. h - 1
    BY <2>1, HeightsAssumption
  <2> QED BY <2>2, Counting DEF Height
<1> QED BY <1>1 DEF Init, BatchInv, FeedOK, ChunksOK

LEMMA BatchesGoOn == BatchInv /\ [Next]_vars => BatchInv'
<1> SUFFICES ASSUME BatchInv, [Next]_vars PROVE BatchInv'
  OBVIOUS
<1>1. CASE /\ UNCHANGED <<job, files, passes, idx, fed>>
           /\ pc' \notin {"start", "chunk", "reset", "feed"}
  BY <1>1 DEF BatchInv, FeedOK, ChunksOK
<1>2. CASE UNCHANGED vars
  BY <1>2 DEF vars, BatchInv, FeedOK, ChunksOK, Handed
<1>3. CASE Gate \/ SplitRaises \/ Split \/ Fit
  BY <1>1, <1>3 DEF Gate, SplitRaises, Split, Fit, Goto
<1>4. CASE SelectIngest
  BY <1>4 DEF SelectIngest, Goto, BatchInv, FeedOK, ChunksOK
<1>5. CASE Chunk
  <2>1. CASE Height(job.time) = 0
    BY <1>1, <1>5, <2>1 DEF Chunk, Goto
  <2>2. CASE Height(job.time) # 0
    <3>1. PICK h \in Nat \ {0} : h = Height(job.time) /\ passes = 0
      BY <1>5, <2>2 DEF Chunk, BatchInv, ChunksOK
    <3>2. /\ files' = Slices(h, BatchSize(h)) /\ pc' = "reset"
          /\ UNCHANGED <<job, idx, fed, passes>>
      BY <1>5, <2>2, <3>1 DEF Chunk, Goto
    <3> QED BY <3>1, <3>2 DEF BatchInv, FeedOK, ChunksOK
  <2> QED BY <2>1, <2>2
<1>6. ASSUME Reset \/ NextBatch \/ PassEnds
      PROVE  BatchInv'
  <2>1. PICK h \in Nat \ {0} :
          /\ Height(job.time) = h /\ files = Slices(h, BatchSize(h))
          /\ pc = "feed" => idx \in 0 .. Ceil(h, BatchSize(h)) /\ fed = Handed(h)
          /\ pc = "reset" /\ passes > 0 => fed = UpTo(h)
    BY <1>6 DEF Reset, NextBatch, PassEnds, BatchInv, FeedOK
  <2>2. Len(files) = Ceil(h, BatchSize(h)) /\ Ceil(h, BatchSize(h)) \in Nat
    BY <2>1, SlicesAreFew, BatchesAreFew DEF BatchCount
  <2>3. UNCHANGED <<job, files>> /\ passes' \in Nat /\ pc' \notin {"start", "chunk"}
    BY <1>6 DEF Reset, NextBatch, PassEnds, Goto, BatchInv, ChunksOK
  <2>4. ChunksOK'
    BY <2>3 DEF BatchInv, ChunksOK
  <2>5. CASE Reset
    <3>1. idx' = 0 /\ fed' = <<>> /\ pc' = "feed"
      BY <2>5 DEF Reset, Goto
    <3>2. fed' = Handed(h)' /\ idx' \in 0 .. Ceil(h, BatchSize(h))
      BY <2>2, <3>1, HandedOver DEF Handed
    <3> QED BY <2>1, <2>3, <2>4, <3>1, <3>2 DEF BatchInv, FeedOK
  <2>6. CASE NextBatch
    <3>1. /\ idx \in 0 .. Ceil(h, BatchSize(h)) - 1 /\ fed = Handed(h)
          /\ idx' = idx + 1 /\ fed' = fed \o Ascending(files[idx + 1]) /\ pc' = "feed"
      BY <2>1, <2>2, <2>6 DEF NextBatch
    <3>2. PICK i \in 0 .. Ceil(h, BatchSize(h)) : i = idx /\ i < Ceil(h, BatchSize(h))
      BY <2>2, <3>1
    <3>3. fed' = UpTo(Least((i + 1) * BatchSize(h), h))
      BY <2>1, <3>1, <3>2, HandedOver DEF Handed
    <3>4. fed' = Handed(h)' /\ idx' \in 0 .. Ceil(h, BatchSize(h))
      BY <2>2, <3>1, <3>2, <3>3 DEF Handed
    <3> QED BY <2>1, <2>3, <2>4, <3>1, <3>4 DEF BatchInv, FeedOK
  <2>7. CASE PassEnds
    <3>1. idx = Ceil(h, BatchSize(h)) /\ fed = Handed(h) /\ fed' = fed /\ pc' = "reset"
      BY <2>1, <2>2, <2>7 DEF PassEnds, Goto
    <3>2. PICK i \in 0 .. Ceil(h, BatchSize(h)) : i = idx /\ i = Ceil(h, BatchSize(h))
      BY <2>2, <3>1
    <3>3. Least(i * BatchSize(h), h) = h
      BY <3>2, HandedOver
    <3>4. fed' = UpTo(h)
      BY <3>1, <3>2, <3>3 DEF Handed
    <3> QED BY <2>1, <2>3, <2>4, <3>1, <3>4 DEF BatchInv, FeedOK
  <2> QED BY <1>6, <2>5, <2>6, <2>7
<1>7. CASE Done
  BY <1>2, <1>7 DEF Done
<1> QED BY <1>2, <1>3, <1>4, <1>5, <1>6, <1>7 DEF Next

\* data/data_iter.py:52-102, training/xgboost/native_adapter.py: every pass over the
\* chunks hands over every training row once and in order, in at most as many
\* chunks as asked for, none of them empty, for training sets of any height.
THEOREM BatchesCover == Spec => []BatchesCoverRows
<1>1. BatchInv => BatchesCoverRows
  <2> SUFFICES ASSUME BatchInv PROVE BatchesCoverRows
    OBVIOUS
  <2>1. pc = "reset" /\ passes > 0 => fed = UpTo(Height(job.time))
    BY DEF BatchInv, FeedOK
  <2>2. Len(files) <= BatchCount /\ \A i \in 1 .. Len(files) : files[i] # {}
    <3>1. CASE files = <<>>
      BY <3>1 DEF BatchCount
    <3>2. CASE \E h \in Nat \ {0} : files = Slices(h, BatchSize(h))
      BY <3>2, SlicesAreFew
    <3> QED BY <3>1, <3>2 DEF BatchInv, ChunksOK
  <2> QED BY <2>1, <2>2 DEF BatchesCoverRows, UpTo
<1> QED BY BatchesBegin, BatchesGoOn, <1>1, PTL DEF Spec

-----------------------------------------------------------------------------
(* Sets of numbers, and medians *)

\* A set of naturals has a least element.
LEMMA LeastNatural ==
  ASSUME NEW T \in SUBSET Nat, T # {}
  PROVE  \E x \in T : \A y \in T : x <= y
<1>1. PICK R : IsWellFoundedOn(R, Nat) /\ R = {p \in Nat \X Nat : p[1] < p[2]}
  BY NatLessThanWellFounded DEF OpToRel
<1>2. PICK x \in T : \A y \in T : <<y, x>> \notin R
  BY <1>1, WFMin
<1>3. ASSUME NEW y \in T, y < x PROVE FALSE
  <2>1. <<y, x>> \in R
    BY <1>1, <1>3
  <2> QED BY <1>2, <2>1
<1>4. \A y \in T : x \in Nat /\ y \in Nat
  OBVIOUS
<1> QED BY <1>3, <1>4

\* A set without one of its members is smaller.
LEMMA Fewer ==
  ASSUME NEW B, IsFiniteSet(B), NEW A \in SUBSET B, NEW x \in B, x \notin A
  PROVE  /\ IsFiniteSet(A) /\ Cardinality(A) \in Nat /\ Cardinality(B) \in Nat
         /\ Cardinality(A) < Cardinality(B)
<1>1. IsFiniteSet(A) /\ Cardinality(A) <= Cardinality(B) /\ Cardinality(A) # Cardinality(B)
  BY FS_Subset
<1>2. Cardinality(A) \in Nat /\ Cardinality(B) \in Nat
  BY <1>1, FS_CardinalityType
<1> QED BY <1>1, <1>2

\* A finite set of integers has a least and a greatest element.
LEMMA LeastInteger ==
  ASSUME NEW S \in SUBSET Int, IsFiniteSet(S), S # {}
  PROVE  \E x \in S : \A y \in S : x <= y
<1>1. PICK below : below = [x \in S |-> {v \in S : v < x}]
  OBVIOUS
<1>2. \A x \in S : IsFiniteSet(below[x]) /\ Cardinality(below[x]) \in Nat
  BY <1>1, FS_Subset, FS_CardinalityType
<1>3. PICK T \in SUBSET Nat : T = {Cardinality(below[x]) : x \in S}
  BY <1>2
<1>4. T # {}
  BY <1>3
<1>5. PICK t \in T : \A n \in T : t <= n
  BY <1>4, LeastNatural
<1>6. PICK x \in S : Cardinality(below[x]) = t
  BY <1>3
<1>7. ASSUME NEW y \in S, y < x PROVE FALSE
  <2>0. /\ x \in Int /\ y \in Int /\ \A v \in S : v \in Int
        /\ below[x] = {v \in S : v < x} /\ below[y] = {v \in S : v < y}
    BY <1>1, S \subseteq Int
  <2>1. below[y] \in SUBSET below[x] /\ y \in below[x] /\ y \notin below[y]
    <3>1. ASSUME NEW v \in below[y] PROVE v \in below[x]
      <4>1. v \in S /\ v \in Int /\ v < y
        BY <2>0
      <4>2. v < x
        BY <1>7, <2>0, <4>1
      <4> QED BY <2>0, <4>1, <4>2
    <3>2. y \in below[x] /\ y \notin below[y]
      BY <1>7, <2>0
    <3> QED BY <3>1, <3>2
  <2>2. Cardinality(below[y]) < Cardinality(below[x])
    BY <1>2, <2>1, Fewer
  <2>3. Cardinality(below[y]) \in T
    BY <1>3
  <2> QED BY <1>2, <1>5, <1>6, <2>2, <2>3
<1> QED BY <1>7, S \subseteq Int

LEMMA GreatestInteger ==
  ASSUME NEW S \in SUBSET Int, IsFiniteSet(S), S # {}
  PROVE  \E x \in S : \A y \in S : y <= x
<1>1. PICK above : above = [x \in S |-> {v \in S : x < v}]
  OBVIOUS
<1>2. \A x \in S : IsFiniteSet(above[x]) /\ Cardinality(above[x]) \in Nat
  BY <1>1, FS_Subset, FS_CardinalityType
<1>3. PICK T \in SUBSET Nat : T = {Cardinality(above[x]) : x \in S}
  BY <1>2
<1>4. T # {}
  BY <1>3
<1>5. PICK t \in T : \A n \in T : t <= n
  BY <1>4, LeastNatural
<1>6. PICK x \in S : Cardinality(above[x]) = t
  BY <1>3
<1>7. ASSUME NEW y \in S, x < y PROVE FALSE
  <2>0. /\ x \in Int /\ y \in Int /\ \A v \in S : v \in Int
        /\ above[x] = {v \in S : x < v} /\ above[y] = {v \in S : y < v}
    BY <1>1, S \subseteq Int
  <2>1. above[y] \in SUBSET above[x] /\ y \in above[x] /\ y \notin above[y]
    <3>1. ASSUME NEW v \in above[y] PROVE v \in above[x]
      <4>1. v \in S /\ v \in Int /\ y < v
        BY <2>0
      <4>2. x < v
        BY <1>7, <2>0, <4>1
      <4> QED BY <2>0, <4>1, <4>2
    <3>2. y \in above[x] /\ y \notin above[y]
      BY <1>7, <2>0
    <3> QED BY <3>1, <3>2
  <2>2. Cardinality(above[y]) < Cardinality(above[x])
    BY <1>2, <2>1, Fewer
  <2>3. Cardinality(above[y]) \in T
    BY <1>3
  <2> QED BY <1>2, <1>5, <1>6, <2>2, <2>3
<1> QED BY <1>7, S \subseteq Int

\* The stamp after one that is not the last.
LEMMA LaterIsNext ==
  ASSUME NEW U \in SUBSET Int, IsFiniteSet(U), NEW u \in U, NEW w \in U, u < w
  PROVE  /\ Later(U, u) \in U /\ u < Later(U, u)
         /\ \A v \in U : u < v => Later(U, u) <= v
<1>1. PICK W \in SUBSET U : W = {v \in U : u < v}
  OBVIOUS
<1>2. \E v \in W : \A x \in W : v <= x
  BY <1>1, LeastInteger, FS_Subset
<1>3. \E v \in U : u < v /\ \A x \in U : u < x => v <= x
  BY <1>1, <1>2
<1> QED BY <1>3 DEF Later

\* Distances between stamps, of which there is one for each but the last.
LEMMA DeltasArePositive ==
  ASSUME NEW U \in SUBSET Int, IsFiniteSet(U), Cardinality(U) >= 2
  PROVE  /\ DOMAIN Deltas(U) # {} /\ DOMAIN Deltas(U) \in SUBSET U
         /\ \A u \in DOMAIN Deltas(U) :
              /\ Deltas(U)[u] = Later(U, u) - u
              /\ Deltas(U)[u] \in Nat \ {0}
         /\ \A u, w \in U : u < w => u \in DOMAIN Deltas(U) /\ u + Deltas(U)[u] <= w
<1>1. DOMAIN Deltas(U) = {v \in U : \E w \in U : v < w}
  BY DEF Deltas
<1>2. ASSUME NEW u \in U, NEW w \in U, u < w
      PROVE  /\ u \in DOMAIN Deltas(U) /\ Deltas(U)[u] = Later(U, u) - u
             /\ Deltas(U)[u] \in Nat \ {0} /\ u + Deltas(U)[u] <= w
  <2>1. u \in DOMAIN Deltas(U) /\ Deltas(U)[u] = Later(U, u) - u
    BY <1>2 DEF Deltas
  <2>2. Later(U, u) \in U /\ u < Later(U, u) /\ Later(U, u) <= w
    BY <1>2, LaterIsNext
  <2>3. u \in Int /\ w \in Int /\ Later(U, u) \in Int
    BY <2>2
  <2> QED BY <2>1, <2>2, <2>3
<1>3. \E u, w \in U : u < w
  <2>1. U # {} /\ ~\E x : U = {x}
    BY FS_EmptySet, FS_Singleton
  <2>2. PICK u \in U : TRUE
    BY <2>1
  <2>3. PICK w \in U : u # w
    <3>1. U # {u}
      BY <2>1
    <3> QED BY <3>1
  <2> QED BY <2>3, U \subseteq Int
<1> QED BY <1>1, <1>2, <1>3

\* What a function takes from a finite set is finite.
LEMMA FiniteRange ==
  ASSUME NEW D, IsFiniteSet(D), NEW Y, NEW f \in [D -> Y]
  PROVE  /\ IsFiniteSet({f[u] : u \in D})
         /\ Cardinality({f[u] : u \in D}) <= Cardinality(D)
<1>1. f \in Surjection(D, {f[u] : u \in D})
  BY DEF Surjection
<1> QED BY <1>1, FS_Surjection

\* The k-th smallest value is one of the values.
LEMMA RankedIsAValue ==
  ASSUME NEW D, IsFiniteSet(D), NEW f \in [D -> Int],
         NEW k \in 1 .. Cardinality(D)
  PROVE  \E u \in D : Ranked(f, k) = f[u]
<1>0. Cardinality(D) \in Nat
  BY FS_CardinalityType
<1>1. PICK V \in SUBSET Int : V = {f[u] : u \in D}
  OBVIOUS
<1>2. IsFiniteSet(V)
  BY <1>1, FiniteRange
<1>3. PICK upto : upto = [x \in Int |-> {u \in D : f[u] <= x}]
  OBVIOUS
<1>4. \A x \in V : Cardinality(upto[x]) \in Nat
  BY <1>3, FS_Subset, FS_CardinalityType
<1>5. PICK W \in SUBSET V : W = {x \in V : k <= Cardinality(upto[x])}
  OBVIOUS
<1>6. W # {}
  <2>1. D # {}
    BY <1>0, FS_EmptySet
  <2>2. PICK g \in V : \A y \in V : y <= g
    BY <1>1, <1>2, <2>1, GreatestInteger
  <2>3. upto[g] = D
    BY <1>1, <1>3, <2>2
  <2> QED BY <1>5, <2>2, <2>3, <1>0
<1>7. PICK x \in W : \A y \in W : x <= y
  BY <1>2, <1>6, FS_Subset, LeastInteger
<1>8. Cardinality({u \in D : f[u] < x}) < k
  <2>0. x \in Int /\ x \in V
    OBVIOUS
  <2>1. PICK B \in SUBSET D : B = {u \in D : f[u] < x}
    OBVIOUS
  <2>2. Cardinality(B) \in Nat
    BY FS_Subset, FS_CardinalityType
  <2>3. SUFFICES ASSUME k <= Cardinality(B) PROVE FALSE
    BY <1>0, <2>1, <2>2
  <2>4. PICK Z \in SUBSET V : Z = {v \in V : v < x}
    OBVIOUS
  <2>5. B # {}
    BY <1>0, <2>2, <2>3, FS_EmptySet
  <2>6. PICK w \in B : w \in D /\ f[w] \in Int /\ f[w] < x
    BY <2>1, <2>5
  <2>7. f[w] \in Z
    BY <1>1, <2>4, <2>6
  <2>8. PICK z \in Z : \A y \in Z : y <= z
    BY <1>2, <2>7, FS_Subset, GreatestInteger
  <2>9. z \in Int /\ z \in V /\ z < x
    BY <2>4
  <2>10. upto[z] = B
    <3>1. ASSUME NEW u \in D PROVE f[u] <= z <=> f[u] < x
      <4>1. f[u] \in V /\ f[u] \in Int
        BY <1>1
      <4>2. f[u] < x => f[u] <= z
        BY <2>4, <2>8, <4>1
      <4> QED BY <2>0, <2>9, <4>1, <4>2
    <3> QED BY <1>3, <2>1, <2>9, <3>1
  <2>11. z \in W
    BY <1>5, <2>3, <2>9, <2>10
  <2> QED BY <1>7, <2>0, <2>9, <2>11
<1>9. k <= Cardinality({u \in D : f[u] <= x})
  BY <1>3, <1>5
<1>10. \E y \in {f[u] : u \in DOMAIN f} :
         /\ Cardinality({u \in DOMAIN f : f[u] < y}) < k
         /\ k <= Cardinality({u \in DOMAIN f : f[u] <= y})
  BY <1>1, <1>7, <1>8, <1>9
<1>11. Ranked(f, k) \in {f[u] : u \in DOMAIN f}
  BY <1>10 DEF Ranked
<1> QED BY <1>11

LEMMA HalfIsPositive ==
  ASSUME NEW x \in Nat \ {0}, NEW y \in Nat \ {0}
  PROVE  (x + y) \div 2 \in Nat \ {0}
  OBVIOUS

LEMMA MiddleRanks ==
  ASSUME NEW n \in Nat \ {0}
  PROVE  (n + 1) \div 2 \in 1 .. n /\ n \div 2 + 1 \in 1 .. n
  OBVIOUS

\* The median of positive numbers is positive.
LEMMA MedianIsPositive ==
  ASSUME NEW D, IsFiniteSet(D), D # {}, NEW f \in [D -> Nat \ {0}]
  PROVE  Median(f) \in Nat \ {0}
<1>1. PICK n \in Nat \ {0} : n = Cardinality(D)
  BY FS_CardinalityType, FS_EmptySet
<1>2. f \in [D -> Int]
  OBVIOUS
<1>3. PICK i \in 1 .. n, j \in 1 .. n : i = (n + 1) \div 2 /\ j = n \div 2 + 1
  BY MiddleRanks
<1>4. Ranked(f, i) \in Nat \ {0} /\ Ranked(f, j) \in Nat \ {0}
  BY <1>1, <1>2, RankedIsAValue
<1>5. Median(f) = (Ranked(f, i) + Ranked(f, j)) \div 2
  BY <1>1, <1>3 DEF Median
<1> QED BY <1>4, <1>5, HalfIsPositive

\* The spacing of at least two timestamps.
LEMMA SpacingIsPositive ==
  ASSUME NEW U \in SUBSET Int, IsFiniteSet(U), Cardinality(U) >= 2
  PROVE  Median(Deltas(U)) \in Nat \ {0}
<1>1. DOMAIN Deltas(U) # {} /\ IsFiniteSet(DOMAIN Deltas(U))
  BY DeltasArePositive, FS_Subset
<1>2. Deltas(U) \in [DOMAIN Deltas(U) -> Nat \ {0}]
  <2>1. Deltas(U) = [u \in DOMAIN Deltas(U) |-> Deltas(U)[u]]
    BY DEF Deltas
  <2>2. \A u \in DOMAIN Deltas(U) : Deltas(U)[u] \in Nat \ {0}
    BY DeltasArePositive
  <2> QED BY <2>1, <2>2
<1> QED BY <1>1, <1>2, MedianIsPositive

\* The ceiling of a count is a count.
LEMMA CeilIsNatural ==
  ASSUME NEW a \in Nat, NEW b \in Nat \ {0}
  PROVE  Ceil(a, b) \in Nat
<1>1. PICK c \in Int : c = Ceil(a, b) /\ a <= c * b
  BY CeilIsLeast
<1>2. c < 0 => c * b <= (0 - 1) * b
  BY Times, 0 - 1 \in Int
<1>3. (0 - 1) * b < 0
  OBVIOUS
<1> QED BY <1>1, <1>2, <1>3

-----------------------------------------------------------------------------
(* Walking forward *)

\* A frame of h rows.
Frames(h) == [0 .. h - 1 -> Int]

LEMMA StampsOfAFrame ==
  ASSUME NEW h \in Nat, NEW time \in Frames(h)
  PROVE  /\ DOMAIN time = 0 .. h - 1 /\ IsFiniteSet(0 .. h - 1)
         /\ Height(time) = h
         /\ Stamps(time) \in SUBSET Int /\ IsFiniteSet(Stamps(time))
         /\ Cardinality(Stamps(time)) \in Nat
<1>1. DOMAIN time = 0 .. h - 1 /\ IsFiniteSet(0 .. h - 1) /\ Cardinality(0 .. h - 1) = h
  BY Counting, 0 <= h - 1 + 1, h - 1 \in Int, h - 1 - 0 + 1 = h DEF Frames
<1>2. Stamps(time) = {time[r] : r \in 0 .. h - 1} /\ Stamps(time) \in SUBSET Int
  BY <1>1 DEF Stamps, Frames
<1>3. IsFiniteSet(Stamps(time))
  <2>1. time \in [0 .. h - 1 -> Int]
    BY DEF Frames
  <2>2. IsFiniteSet({time[r] : r \in 0 .. h - 1})
    BY <1>1, <2>1, FiniteRange
  <2> QED BY <1>2, <2>2
<1>4. Cardinality(Stamps(time)) \in Nat
  BY <1>3, FS_CardinalityType
<1> QED BY <1>1, <1>2, <1>3, <1>4 DEF Height

\* An embargo is a number of rows.
LEMMA EmbargoIsNatural ==
  ASSUME NEW h \in Nat, NEW time \in Frames(h), NEW d \in Nat
  PROVE  EmbargoRows(time, d) \in Nat
<1>1. PICK n \in Nat : n = Cardinality(Stamps(time))
  BY StampsOfAFrame
<1>2. CASE n < 2
  BY <1>1, <1>2 DEF EmbargoRows
<1>3. CASE n >= 2
  <2>1. PICK s \in Nat : s = Ceil(d, Median(Deltas(Stamps(time))))
    BY <1>1, <1>3, StampsOfAFrame, SpacingIsPositive, CeilIsNatural
  <2>2. s * h \in Nat /\ n \in Nat \ {0}
    BY <1>3
  <2>3. EmbargoRows(time, d) = Ceil(s * h, n)
    BY <1>1, <1>3, <2>1, StampsOfAFrame DEF EmbargoRows
  <2> QED BY <2>2, <2>3, CeilIsNatural
<1> QED BY <1>1, <1>2, <1>3

LEMMA DivIsNatural ==
  ASSUME NEW n \in Nat, NEW d \in Nat \ {0}
  PROVE  n \div d \in Nat
  OBVIOUS

\* Walking forward, the gap lies between what trains and what is tested.
LEMMA WalkForwardKeepsGap ==
  ASSUME NEW n \in Nat, NEW k \in Nat \ {0}, NEW gap \in Nat, NEW max \in Nat,
         NEW folds0 \in WalkForward(n, k, gap, max), NEW f \in folds0
  PROVE  /\ gap < n
         /\ \A a \in f.train, b \in f.test :
              a \in 0 .. n - 1 /\ b \in 0 .. n - 1 /\ b - a > gap
<1>1. PICK size \in Nat : size = n \div (k + 1)
  BY DivIsNatural, k + 1 \in Nat \ {0}
<1>2. n - gap - k * size > 0
  BY <1>1 DEF WalkForward
<1>3. PICK first : first = [i \in 0 .. k |-> n - (k - i) * size]
  OBVIOUS
<1>4. PICK begin : begin = [i \in 0 .. k |->
         IF max # 0 /\ max < first[i] - gap THEN first[i] - gap - max ELSE 0]
  OBVIOUS
<1>5. PICK i \in 0 .. k - 1 :
        f = [train |-> begin[i] .. first[i] - gap - 1, test |-> first[i] .. first[i] + size - 1]
  <2>1. folds0 = {[train |-> begin[i] .. first[i] - gap - 1,
                   test |-> first[i] .. first[i] + size - 1] : i \in 0 .. k - 1}
    <3>1. folds0 = {[train |->
                       (IF max # 0 /\ max < n - (k - i) * size - gap
                        THEN n - (k - i) * size - gap - max ELSE 0)
                          .. n - (k - i) * size - gap - 1,
                     test |-> n - (k - i) * size .. n - (k - i) * size + size - 1] :
                      i \in 0 .. k - 1}
      BY <1>1 DEF WalkForward
    <3>2. \A i \in 0 .. k - 1 :
            /\ first[i] = n - (k - i) * size
            /\ begin[i] = IF max # 0 /\ max < n - (k - i) * size - gap
                          THEN n - (k - i) * size - gap - max ELSE 0
      <4>1. \A i \in 0 .. k - 1 : i \in 0 .. k
        OBVIOUS
      <4> QED BY <1>3, <1>4, <4>1
    <3> QED BY <3>1, <3>2
  <2> QED BY <2>1
<1>6. PICK j \in 1 .. k : j = k - i /\ first[i] = n - j * size
  <2>1. i \in 0 .. k /\ k - i \in 1 .. k
    OBVIOUS
  <2> QED BY <1>3, <2>1
<1>7. j * size \in Nat /\ k * size \in Nat /\ j * size >= size /\ j * size <= k * size
  <2>1. 1 * size <= j * size /\ j * size <= k * size
    BY Times
  <2>2. j * size \in Int /\ k * size \in Int
    OBVIOUS
  <2> QED BY <2>1, <2>2
<1>8. PICK t \in Nat, kt \in Nat : t = j * size /\ kt = k * size /\ size <= t /\ t <= kt
  BY <1>7
<1>9. gap < n
  BY <1>2, <1>8
<1>10. begin[i] \in Nat /\ first[i] = n - t
  BY <1>4, <1>6, <1>8
<1>11. ASSUME NEW a \in f.train, NEW b \in f.test
       PROVE  a \in 0 .. n - 1 /\ b \in 0 .. n - 1 /\ b - a > gap
  <2>1. a \in begin[i] .. n - t - gap - 1 /\ b \in n - t .. n - t + size - 1
    BY <1>5, <1>10
  <2> QED BY <1>2, <1>8, <1>10, <2>1
<1> QED BY <1>9, <1>11

-----------------------------------------------------------------------------
(* Embargoes in time *)

RowsOf(time, V) == {r \in DOMAIN time : time[r] \in V}

\* Rows are counted stamp by stamp.
LEMMA RowsAreCounted ==
  ASSUME NEW D, IsFiniteSet(D), NEW f \in [D -> Int],
         NEW V \in SUBSET Int, IsFiniteSet(V), NEW lo \in Nat, NEW hi \in Nat,
         \A u \in V : lo <= RowsAt(f, u) /\ RowsAt(f, u) <= hi
  PROVE  /\ lo * Cardinality(V) <= Cardinality(RowsOf(f, V))
         /\ Cardinality(RowsOf(f, V)) <= hi * Cardinality(V)
<1>1. PICK rows : rows = [W \in SUBSET V |-> {r \in D : f[r] \in W}]
  OBVIOUS
<1>2. \A W \in SUBSET V : /\ IsFiniteSet(W) /\ Cardinality(W) \in Nat
                          /\ IsFiniteSet(rows[W]) /\ Cardinality(rows[W]) \in Nat
  BY <1>1, FS_Subset, FS_CardinalityType
<1>3. PICK bad : bad = {W \in SUBSET V :
         ~(/\ lo * Cardinality(W) <= Cardinality(rows[W])
           /\ Cardinality(rows[W]) <= hi * Cardinality(W))}
  OBVIOUS
<1>4. PICK T \in SUBSET Nat : T = {Cardinality(W) : W \in bad}
  <2>1. \A W \in bad : Cardinality(W) \in Nat
    BY <1>2, <1>3
  <2> QED BY <2>1
<1>5. ASSUME NEW n \in T, \A t \in T : n <= t PROVE FALSE
  <2>1. PICK W \in SUBSET V : W \in bad /\ Cardinality(W) = n
    BY <1>3, <1>4
  <2>2. CASE W = {}
    <3>1. rows[W] = {}
      BY <1>1, <2>2
    <3>2. Cardinality(W) = 0 /\ Cardinality(rows[W]) = 0
      BY <2>2, <3>1, FS_EmptySet
    <3> QED BY <1>3, <2>1, <3>2
  <2>3. CASE W # {}
    <3>1. PICK u \in W : u \in V
      BY <2>3
    <3>2. PICK X \in SUBSET V : X = W \ {u} /\ Cardinality(X) = n - 1
      BY <1>2, <2>1, <3>1, FS_RemoveElement
    <3>3. PICK R \in SUBSET D : R = {r \in D : f[r] = u}
      OBVIOUS
    <3>4. IsFiniteSet(R) /\ Cardinality(R) \in Nat
      BY FS_Subset, FS_CardinalityType
    <3>5. rows[W] = rows[X] \cup R /\ rows[X] \cap R = {}
      BY <1>1, <3>1, <3>2, <3>3
    <3>6. Cardinality(rows[W]) = Cardinality(rows[X]) + Cardinality(R)
      <4>1. Cardinality(rows[X] \cup R)
              = Cardinality(rows[X]) + Cardinality(R) - Cardinality(rows[X] \cap R)
        BY <1>2, <3>4, FS_Union
      <4>2. Cardinality(rows[X] \cap R) = 0
        BY <3>5, FS_EmptySet
      <4> QED BY <1>2, <3>4, <3>5, <4>1, <4>2
    <3>7. X \notin bad
      <4>1. n \in Nat /\ ~(n <= n - 1)
        OBVIOUS
      <4> QED BY <1>4, <1>5, <3>2, <4>1
    <3>8. /\ lo * (n - 1) <= Cardinality(rows[X])
          /\ Cardinality(rows[X]) <= hi * (n - 1)
      BY <1>3, <3>2, <3>7
    <3>9. lo <= Cardinality(R) /\ Cardinality(R) <= hi
      <4>1. RowsAt(f, u) = Cardinality(R)
        BY <3>3 DEF RowsAt
      <4> QED BY <3>1, <4>1
    <3>10. lo * (n - 1) = lo * n - lo /\ hi * (n - 1) = hi * n - hi
           /\ lo * n \in Int /\ hi * n \in Int
      OBVIOUS
    <3>11. lo * n <= Cardinality(rows[W]) /\ Cardinality(rows[W]) <= hi * n
      BY <1>2, <3>4, <3>6, <3>8, <3>9, <3>10
    <3> QED BY <1>3, <2>1, <3>11
  <2> QED BY <2>2, <2>3
<1>6. T = {}
  BY <1>5, LeastNatural
<1>7. V \notin bad
  BY <1>4, <1>6
<1>8. rows[V] = RowsOf(f, V)
  BY <1>1 DEF RowsOf
<1> QED BY <1>3, <1>7, <1>8

\* Numbers that are d apart: so many of them lie between x and y.
LEMMA FewBetween ==
  ASSUME NEW U \in SUBSET Int, NEW d \in Nat \ {0},
         \A u, w \in U : u < w => u + d <= w,
         NEW x \in Int, NEW y \in Int, x <= y
  PROVE  /\ IsFiniteSet({u \in U : x <= u /\ u <= y})
         /\ Cardinality({u \in U : x <= u /\ u <= y}) <= (y - x) \div d + 1
<1>1. PICK V \in SUBSET U : V = {u \in U : x <= u /\ u <= y}
  OBVIOUS
<1>2. PICK q \in Nat : q = (y - x) \div d
  BY DivIsNatural, y - x \in Nat
<1>3. PICK f : f = [u \in V |-> (u - x) \div d]
  OBVIOUS
<1>4. ASSUME NEW u \in V
      PROVE  /\ u \in Int /\ f[u] \in 0 .. q
             /\ \E r \in 0 .. d - 1 : u - x = d * f[u] + r
  <2>1. u \in Int /\ u - x \in Nat /\ u <= y
    BY <1>1
  <2>2. PICK e \in Nat : e = (u - x) \div d
    BY <2>1, DivIsNatural
  <2>3. PICK r \in 0 .. d - 1 : u - x = d * e + r
    BY <2>1, <2>2, DivMod, u - x \in Int
  <2>4. PICK s \in 0 .. d - 1 : y - x = d * q + s
    BY <1>2, DivMod, y - x \in Int
  <2>5. e <= q
    <3> SUFFICES ASSUME q + 1 <= e PROVE FALSE
      BY <2>2
    <3>1. (q + 1) * d <= e * d
      BY Times
    <3>2. (q + 1) * d = d * q + d /\ e * d = d * e /\ d * q \in Int /\ d * e \in Int
      OBVIOUS
    <3> QED BY <2>1, <2>3, <2>4, <3>1, <3>2
  <2> QED BY <1>3, <2>1, <2>2, <2>3, <2>5
<1>5. ASSUME NEW u \in V, NEW w \in V, u < w PROVE f[u] # f[w]
  <2>1. PICK r \in 0 .. d - 1 : u - x = d * f[u] + r
    BY <1>4
  <2>2. PICK s \in 0 .. d - 1 : w - x = d * f[w] + s
    BY <1>4
  <2>3. u \in Int /\ w \in Int /\ u + d <= w
    BY <1>4, <1>5
  <2>4. f[u] \in Int /\ d * f[u] \in Int
    <3>1. f[u] \in Int
      BY <1>4
    <3> QED BY <3>1
  <2> QED BY <2>1, <2>2, <2>3, <2>4
<1>6. f \in Injection(V, 0 .. q)
  <2>1. f \in [V -> 0 .. q]
    BY <1>3, <1>4
  <2>2. \A u, w \in V : f[u] = f[w] => u = w
    BY <1>4, <1>5
  <2> QED BY <2>1, <2>2 DEF Injection, IsInjective
<1>7. IsFiniteSet(0 .. q) /\ Cardinality(0 .. q) = q + 1
  BY Counting, q \in Int
<1> QED BY <1>1, <1>2, <1>6, <1>7, FS_Injection

\* What an even panel looks like: its timestamps one spacing apart, the same
\* number of rows at each but the last, and no more at the last.
LEMMA EvenPanel ==
  ASSUME NEW h \in Nat, NEW time \in Frames(h), Even(time)
  PROVE  \E n \in Nat \ {0}, m \in Nat \ {0}, d \in Nat \ {0} :
           /\ n = Cardinality(Stamps(time)) /\ n > 1
           /\ d = Median(Deltas(Stamps(time)))
           /\ \A u, w \in Stamps(time) : u < w => u + d <= w
           /\ \A u \in Stamps(time) : RowsAt(time, u) \in 0 .. m
           /\ h >= m * (n - 1) + 1
           /\ Whole(time) => h = m * n
<1>1. PICK U \in SUBSET Int : U = Stamps(time) /\ IsFiniteSet(U)
  BY StampsOfAFrame
<1>2. PICK last \in U : last = CHOOSE u \in U : \A w \in U : w <= u
  <2>1. Cardinality(U) > 1
    BY <1>1 DEF Even
  <2>2. U # {}
    BY <2>1, FS_EmptySet
  <2> QED BY <1>1, <2>2, GreatestInteger
<1>3. PICK n \in Nat \ {0} : n = Cardinality(U) /\ n > 1
  BY <1>1, FS_CardinalityType DEF Even
<1>4. PICK d \in Nat \ {0} : d = Median(Deltas(U)) /\ d = Spacing(time)
  BY <1>1, <1>3, SpacingIsPositive DEF Spacing
<1>5. \A u, w \in U : u < w => u + d <= w
  <2>1. \A u \in DOMAIN Deltas(U) : Deltas(U)[u] = d
    BY <1>1, <1>4 DEF Even
  <2> QED BY <1>1, <1>3, <2>1, DeltasArePositive
<1>6. /\ DOMAIN time = 0 .. h - 1 /\ IsFiniteSet(0 .. h - 1) /\ Cardinality(0 .. h - 1) = h
      /\ time \in [0 .. h - 1 -> Int]
  BY StampsOfAFrame DEF Height, Frames
<1>7. PICK rows : rows = [u \in U |-> {r \in 0 .. h - 1 : time[r] = u}]
  OBVIOUS
<1>8. \A u \in U : /\ RowsAt(time, u) = Cardinality(rows[u])
                   /\ IsFiniteSet(rows[u]) /\ Cardinality(rows[u]) \in Nat \ {0}
  <2>1. ASSUME NEW u \in U
        PROVE  /\ RowsAt(time, u) = Cardinality(rows[u])
               /\ IsFiniteSet(rows[u]) /\ Cardinality(rows[u]) \in Nat \ {0}
    <3>1. RowsAt(time, u) = Cardinality(rows[u])
      BY <1>6, <1>7 DEF RowsAt
    <3>2. IsFiniteSet(rows[u]) /\ Cardinality(rows[u]) \in Nat
      BY <1>6, <1>7, FS_Subset, FS_CardinalityType
    <3>3. rows[u] # {}
      BY <1>1, <1>6, <1>7 DEF Stamps
    <3> QED BY <3>1, <3>2, <3>3, FS_EmptySet
  <2> QED BY <2>1
<1>9. PICK V \in SUBSET Int : V = U \ {last} /\ IsFiniteSet(V) /\ Cardinality(V) = n - 1
  <2>1. IsFiniteSet(U \ {last}) /\ Cardinality(U \ {last}) = Cardinality(U) - 1
    <3>1. IsFiniteSet(U) /\ last \in U
      BY <1>1
    <3> QED BY ONLY <3>1, FS_RemoveElement
  <2> QED BY <1>3, <2>1
<1>10. PICK first \in V : first \in U
  <2>1. V # {}
    BY <1>3, <1>9, FS_EmptySet
  <2> QED BY <1>9, <2>1
<1>11. PICK m \in Nat \ {0} : m = Cardinality(rows[first])
  BY <1>8, <1>10
<1>12. \A u \in V : Cardinality(rows[u]) = m
  <2>1. \A u \in V : RowsAt(time, u) = RowsAt(time, first)
    BY <1>1, <1>2, <1>9, <1>10 DEF Even
  <2> QED BY <1>8, <1>9, <1>10, <1>11, <2>1
<1>13. PICK c \in Nat \ {0} : c = Cardinality(rows[last]) /\ c <= m
  <2>1. RowsAt(time, last) <= RowsAt(time, first)
    BY <1>1, <1>2, <1>10 DEF Even
  <2> QED BY <1>2, <1>8, <1>10, <1>11, <2>1
<1>14. Whole(time) => c = m
  BY <1>1, <1>8, <1>10, <1>11, <1>13, <1>2 DEF Whole
<1>15. h = m * (n - 1) + c
  <2>1. PICK R \in SUBSET (0 .. h - 1) : R = {r \in 0 .. h - 1 : time[r] \in V}
    OBVIOUS
  <2>2. IsFiniteSet(R) /\ Cardinality(R) \in Nat
    BY <1>6, FS_Subset, FS_CardinalityType
  <2>3. Cardinality(R) = m * (n - 1)
    <3>1. \A u \in V : m <= RowsAt(time, u) /\ RowsAt(time, u) <= m
      BY <1>8, <1>9, <1>12
    <3>2. m \in Nat /\ V \in SUBSET Int /\ IsFiniteSet(V) /\ IsFiniteSet(0 .. h - 1)
          /\ time \in [0 .. h - 1 -> Int]
      BY <1>6, <1>9
    <3>3. /\ m * Cardinality(V) <= Cardinality(RowsOf(time, V))
          /\ Cardinality(RowsOf(time, V)) <= m * Cardinality(V)
      BY ONLY <3>1, <3>2, RowsAreCounted
    <3>4. RowsOf(time, V) = R
      BY <1>6, <2>1 DEF RowsOf
    <3>5. m * (n - 1) \in Int
      OBVIOUS
    <3> QED BY <1>9, <2>2, <3>3, <3>4, <3>5
  <2>4. 0 .. h - 1 = R \cup rows[last] /\ R \cap rows[last] = {}
    <3>1. \A r \in 0 .. h - 1 : time[r] \in U
      BY <1>1, <1>6 DEF Stamps
    <3> QED BY <1>2, <1>7, <1>9, <2>1, <3>1
  <2>5. Cardinality(R \cup rows[last]) = Cardinality(R) + c - Cardinality(R \cap rows[last])
    BY <1>2, <1>8, <1>13, <2>2, FS_Union
  <2>6. Cardinality(R \cap rows[last]) = 0
    BY <2>4, FS_EmptySet
  <2>7. PICK x \in Int : x = m * (n - 1)
    OBVIOUS
  <2>8. Cardinality(R \cup rows[last]) = x + c
    BY <2>3, <2>5, <2>6, <2>7
  <2> QED BY <1>6, <2>4, <2>7, <2>8
<1>16. m * (n - 1) = m * n - m /\ m * n \in Int
  OBVIOUS
<1>17. h >= m * (n - 1) + 1 /\ (Whole(time) => h = m * n)
  BY <1>14, <1>15, <1>16
<1>18. \A u \in U : RowsAt(time, u) \in 0 .. m
  BY <1>8, <1>9, <1>12, <1>13
<1> QED BY <1>1, <1>3, <1>4, <1>5, <1>17, <1>18

\* Arithmetic of the embargo: a gap of s timestamps is one of s timestamps, or
\* of one less when the last timestamp is cut.  (m rows at a timestamp, n
\* timestamps, h rows, q timestamps from the one row to the other.)
LEMMA GapIsWide ==
  ASSUME NEW m \in Nat \ {0}, NEW n \in Nat \ {0}, NEW h \in Nat, NEW s \in Nat,
         NEW q \in Nat, NEW gap \in Nat,
         s * h <= gap * n, gap < h, gap + 2 <= m * (q + 1),
         h >= m * (n - 1) + 1
  PROVE  /\ h = m * n => s <= q
         /\ s <= q + 1
<1>1. ASSUME h = m * n PROVE s <= q
  <2> SUFFICES ASSUME q + 1 <= s PROVE FALSE
    OBVIOUS
  <2>1. s * (m * n) = (s * m) * n /\ s * m \in Int
    OBVIOUS
  <2>2. s * m <= gap
    <3> SUFFICES ASSUME gap + 1 <= s * m PROVE FALSE
      BY <2>1
    <3>1. (gap + 1) * n <= (s * m) * n
      BY <2>1, Times, gap + 1 \in Int
    <3>2. (gap + 1) * n = gap * n + n /\ gap * n \in Int /\ s * h \in Int
      OBVIOUS
    <3> QED BY <1>1, <2>1, <3>1, <3>2
  <2>3. (q + 1) * m <= s * m
    BY Times
  <2>4. (q + 1) * m = m * (q + 1) /\ m * (q + 1) \in Int
    OBVIOUS
  <2> QED BY <2>1, <2>2, <2>3, <2>4
<1>2. s <= q + 1
  <2> SUFFICES ASSUME q + 1 <= s - 1 PROVE FALSE
    OBVIOUS
  <2>1. s < n
    <3> SUFFICES ASSUME n <= s PROVE FALSE
      OBVIOUS
    <3>1. n * h <= s * h
      BY Times
    <3>2. (gap + 1) * n <= h * n
      BY Times
    <3>3. /\ (gap + 1) * n = gap * n + n /\ h * n = n * h
          /\ gap * n \in Int /\ n * h \in Int /\ s * h \in Int
      OBVIOUS
    <3> QED BY <3>1, <3>2, <3>3
  <2>2. PICK sm \in Nat : sm = s * m
    OBVIOUS
  <2>3. gap + 2 <= sm - m
    <3>1. (q + 1) * m <= (s - 1) * m
      BY Times, q + 1 \in Int, s - 1 \in Int
    <3>2. (q + 1) * m = m * (q + 1) /\ (s - 1) * m = sm - m
      BY <2>2
    <3>3. m * (q + 1) \in Int
      OBVIOUS
    <3> QED BY <2>2, <3>1, <3>2, <3>3
  <2>4. (gap + 2) * n <= (sm - m) * n
    BY <2>3, Times, gap + 2 \in Int, sm - m \in Int
  <2>5. (m * (n - 1) + 1) * s <= h * s
    BY Times, m * (n - 1) + 1 \in Int
  <2>6. sm <= n * m
    BY <2>1, <2>2, Times
  <2>7. PICK smn \in Nat : smn = sm * n
    OBVIOUS
  <2>8. (m * (n - 1) + 1) * s = smn - sm + s
    <3>1. (m * (n - 1) + 1) * s = (m * s) * n - m * s + s
      OBVIOUS
    <3>2. m * s = sm
      BY <2>2
    <3> QED BY <2>7, <3>1, <3>2
  <2>9. (gap + 2) * n = gap * n + 2 * n /\ (sm - m) * n = smn - n * m
    BY <2>7
  <2>10. h * s = s * h /\ h * s \in Int /\ gap * n \in Int /\ n * m \in Int
    OBVIOUS
  <2> QED BY <2>4, <2>5, <2>6, <2>8, <2>9, <2>10
<1> QED BY <1>1, <1>2

\* Rows of an even panel that lie so many rows apart lie as many timestamps apart.
LEMMA RowsApartAreTimesApart ==
  ASSUME NEW h \in Nat, NEW time \in Frames(h), Sorted(time),
         NEW a \in 0 .. h - 1, NEW b \in 0 .. h - 1, a <= b,
         NEW m \in Nat \ {0}, NEW d \in Nat \ {0},
         \A u, w \in Stamps(time) : u < w => u + d <= w,
         \A u \in Stamps(time) : RowsAt(time, u) \in 0 .. m
  PROVE  /\ time[b] - time[a] \in Nat
         /\ b - a + 1 <= m * ((time[b] - time[a]) \div d + 1)
<1>1. /\ DOMAIN time = 0 .. h - 1 /\ IsFiniteSet(0 .. h - 1)
      /\ time \in [0 .. h - 1 -> Int]
  BY StampsOfAFrame DEF Frames
<1>2. PICK x \in Int, y \in Int : x = time[a] /\ y = time[b]
  BY <1>1
<1>3. \A r \in a .. b : r \in 0 .. h - 1 /\ time[r] \in Int /\ x <= time[r] /\ time[r] <= y
  <2>1. ASSUME NEW r \in a .. b
        PROVE  r \in 0 .. h - 1 /\ time[r] \in Int /\ x <= time[r] /\ time[r] <= y
    <3>1. r \in 0 .. h - 1
      OBVIOUS
    <3>2. r = a \/ a < r
      OBVIOUS
    <3>3. r = b \/ r < b
      OBVIOUS
    <3>4. time[r] \in Int
      BY <1>1, <3>1
    <3> QED BY <1>1, <1>2, <3>1, <3>2, <3>3, <3>4 DEF Sorted
  <2> QED BY <2>1
<1>4. x <= y
  BY <1>2, <1>3, a \in a .. b
<1>5. PICK U \in SUBSET Int : U = Stamps(time)
  BY StampsOfAFrame
<1>6. PICK V \in SUBSET Int : V = {u \in U : x <= u /\ u <= y}
  OBVIOUS
<1>7. PICK q \in Nat : q = (y - x) \div d
  BY <1>4, DivIsNatural, y - x \in Nat
<1>8. IsFiniteSet(V) /\ Cardinality(V) \in Nat /\ Cardinality(V) <= q + 1
  <2>1. \A u, w \in U : u < w => u + d <= w
    BY <1>5
  <2>2. IsFiniteSet(V) /\ Cardinality(V) <= q + 1
    BY ONLY <1>4, <1>6, <1>7, <2>1, FewBetween
  <2> QED BY <2>2, FS_CardinalityType
<1>9. PICK R \in SUBSET (0 .. h - 1) : R = {r \in 0 .. h - 1 : time[r] \in V}
  OBVIOUS
<1>10. IsFiniteSet(R) /\ Cardinality(R) \in Nat
  BY <1>1, <1>9, FS_Subset, FS_CardinalityType
<1>11. Cardinality(R) <= m * Cardinality(V)
  <2>1. \A u \in V : 0 <= RowsAt(time, u) /\ RowsAt(time, u) <= m
    BY <1>5, <1>6
  <2>2. m \in Nat /\ 0 \in Nat
    OBVIOUS
  <2>3. Cardinality(RowsOf(time, V)) <= m * Cardinality(V)
    BY ONLY <1>1, <1>8, <2>1, <2>2, V \in SUBSET Int, RowsAreCounted
  <2>4. RowsOf(time, V) = R
    BY <1>1, <1>9 DEF RowsOf
  <2> QED BY <2>3, <2>4
<1>12. Cardinality(a .. b) = b - a + 1
  BY Counting, a \in Int, b \in Int, a <= b + 1
<1>13. a .. b \in SUBSET R
  <2>1. \A r \in a .. b : time[r] \in V
    BY <1>1, <1>3, <1>5, <1>6 DEF Stamps
  <2> QED BY <1>3, <1>9, <2>1
<1>14. Cardinality(a .. b) <= Cardinality(R)
  BY <1>10, <1>13, FS_Subset
<1>15. m * Cardinality(V) <= m * (q + 1) /\ m * Cardinality(V) \in Int /\ m * (q + 1) \in Int
  <2>1. Cardinality(V) * m <= (q + 1) * m
    BY <1>8, Times, q + 1 \in Int
  <2> QED BY <1>8, <2>1
<1>16. b - a + 1 <= m * (q + 1)
  BY <1>10, <1>11, <1>12, <1>14, <1>15
<1> QED BY <1>2, <1>4, <1>7, <1>16

\* An embargo of d time units between rows of an even panel.
LEMMA EmbargoIsKept ==
  ASSUME NEW h \in Nat, NEW time \in Frames(h), Sorted(time), Even(time), NEW d \in Nat,
         EmbargoRows(time, d) < h,
         NEW a \in 0 .. h - 1, NEW b \in 0 .. h - 1, b - a > EmbargoRows(time, d)
  PROVE  time[b] - time[a] + (IF Whole(time) THEN 0 ELSE Spacing(time)) >= d
<1>1. PICK n \in Nat \ {0}, m \in Nat \ {0}, e \in Nat \ {0} :
           /\ n = Cardinality(Stamps(time)) /\ n > 1
           /\ e = Median(Deltas(Stamps(time)))
           /\ \A u, w \in Stamps(time) : u < w => u + e <= w
           /\ \A u \in Stamps(time) : RowsAt(time, u) \in 0 .. m
           /\ h >= m * (n - 1) + 1
           /\ Whole(time) => h = m * n
  BY EvenPanel
<1>2. PICK s \in Nat : s = Ceil(d, e) /\ d <= s * e
  <2>1. Ceil(d, e) \in Nat
    BY CeilIsNatural
  <2> QED BY <2>1, CeilIsLeast
<1>3. PICK gap \in Nat : gap = EmbargoRows(time, d) /\ s * h <= gap * n
  <2>1. EmbargoRows(time, d) = Ceil(s * h, n)
    <3>1. Height(time) = h
      BY StampsOfAFrame
    <3> QED BY <1>1, <1>2, <3>1 DEF EmbargoRows
  <2>2. s * h \in Nat
    OBVIOUS
  <2>3. Ceil(s * h, n) \in Nat
    BY <2>2, CeilIsNatural
  <2>4. s * h <= Ceil(s * h, n) * n
    BY <2>2, CeilIsLeast, s * h \in Int
  <2> QED BY <2>1, <2>3, <2>4
<1>4. PICK t \in Nat : t = time[b] - time[a] /\ b - a + 1 <= m * (t \div e + 1)
  <2>1. a <= b
    BY <1>3
  <2>2. /\ \A u, w \in Stamps(time) : u < w => u + e <= w
        /\ \A u \in Stamps(time) : RowsAt(time, u) \in 0 .. m
        /\ Sorted(time)
    BY <1>1
  <2>3. /\ time[b] - time[a] \in Nat
        /\ b - a + 1 <= m * ((time[b] - time[a]) \div e + 1)
    BY ONLY <2>1, <2>2, RowsApartAreTimesApart
  <2> QED BY <2>3
<1>5. PICK q \in Nat : q = t \div e /\ q * e <= t
  <2>1. t \div e \in Nat
    BY DivIsNatural
  <2>2. PICK r \in 0 .. e - 1 : t = e * (t \div e) + r
    BY DivMod, t \in Int
  <2>3. e * (t \div e) = (t \div e) * e /\ e * (t \div e) \in Int
    BY <2>1
  <2> QED BY <2>1, <2>2, <2>3
<1>6. gap + 2 <= m * (q + 1)
  <2>1. m * (q + 1) \in Int
    OBVIOUS
  <2> QED BY <1>3, <1>4, <1>5, <2>1
<1>7. (h = m * n => s <= q) /\ s <= q + 1
  BY <1>1, <1>3, <1>6, GapIsWide
<1>8. CASE Whole(time)
  <2>1. s * e <= q * e /\ s * e \in Int /\ q * e \in Int
    BY <1>1, <1>7, <1>8, Times
  <2> QED BY <1>2, <1>4, <1>5, <1>8, <2>1
<1>9. CASE ~Whole(time)
  <2>1. s * e <= (q + 1) * e
    BY <1>7, Times, q + 1 \in Int
  <2>2. (q + 1) * e = q * e + e /\ s * e \in Int /\ q * e \in Int
    OBVIOUS
  <2>3. Spacing(time) = e
    BY <1>1 DEF Spacing
  <2>4. t + e >= d
    BY <1>2, <1>5, <2>1, <2>2
  <2> QED BY <1>4, <1>9, <2>3, <2>4
<1> QED BY <1>8, <1>9

-----------------------------------------------------------------------------
(* tune *)

\* A call of tune.
IsTune(cv, time, column, h) ==
  /\ cv \in CVConfigs /\ h \in Nat /\ time \in Frames(h)
  /\ cv.kind \in TemporalKinds => Sorted(time)
  /\ cv.kind \in {"cpcv", "panel_cpcv"} => cv.n_test_folds \in 1 .. cv.n_folds
  /\ DOMAIN column = DOMAIN time

\* What there is of it, and that folds are folds of its splitter.
FoldInv ==
  /\ job.command \in {"tune", "train"}
  /\ job.command = "tune" => \E h \in Nat : IsTune(job.cv, job.time, job.column, h)
  /\ pc = "split" => job.command = "tune"
  /\ \/ folds = {} /\ pc # "folds"
     \/ job.command = "tune" /\ folds \in Families(job.cv, job.time, job.column)

LEMMA FoldsBegin == Init => FoldInv
<1> SUFFICES ASSUME Init PROVE FoldInv
  OBVIOUS
<1>1. CASE TrainCalls
  <2>1. job.command = "train"
    BY <1>1 DEF TrainCalls
  <2>2. pc = "start" /\ folds = {}
    BY DEF Init
  <2> QED BY <2>1, <2>2 DEF FoldInv
<1>2. CASE TuneCalls
  <2>1. PICK t \in Trials : \E cv \in t.cvs, time \in t.frames, big \in BOOLEAN :
          /\ cv.kind \in TemporalKinds => Sorted(time)
          /\ \E column \in [DOMAIN time -> t.values] :
               job = [command |-> "tune", cv |-> cv, time |-> time, column |-> column,
                      big |-> big]
    BY <1>2 DEF TuneCalls
  <2>2. PICK cv \in t.cvs, time \in t.frames, big \in BOOLEAN :
          /\ cv.kind \in TemporalKinds => Sorted(time)
          /\ \E column \in [DOMAIN time -> t.values] :
               job = [command |-> "tune", cv |-> cv, time |-> time, column |-> column,
                      big |-> big]
    BY <2>1
  <2>3. PICK column \in [DOMAIN time -> t.values] :
           job = [command |-> "tune", cv |-> cv, time |-> time, column |-> column,
                  big |-> big]
    BY <2>2
  <2>4. /\ job.command = "tune" /\ job.cv = cv /\ job.time = time /\ job.column = column
    BY <2>3
  <2>5. /\ cv \in CVConfigs /\ Height(time) \in Nat /\ time \in Frames(Height(time))
        /\ cv.kind \in {"cpcv", "panel_cpcv"} => cv.n_test_folds \in 1 .. cv.n_folds
    BY TrialsAssumption DEF Frames
  <2>6. IsTune(job.cv, job.time, job.column, Height(time))
    BY <2>2, <2>4, <2>5 DEF IsTune
  <2>7. pc = "start" /\ folds = {}
    BY DEF Init
  <2> QED BY <2>4, <2>5, <2>6, <2>7 DEF FoldInv
<1> QED BY <1>1, <1>2 DEF Init

LEMMA FoldsGoOn == FoldInv /\ [Next]_vars => FoldInv'
<1> SUFFICES ASSUME FoldInv, [Next]_vars PROVE FoldInv'
  OBVIOUS
<1>1. CASE /\ UNCHANGED <<job, folds>> /\ pc' # "folds"
           /\ pc' = "split" => job.command = "tune"
  BY <1>1 DEF FoldInv
<1>2. CASE UNCHANGED vars
  BY <1>2 DEF vars, FoldInv
<1>3. CASE Split
  <2>1. /\ UNCHANGED job /\ pc' = "folds" /\ job.command = "tune"
        /\ folds' \in Families(job.cv, job.time, job.column)
    BY <1>3 DEF Split, Goto, FoldInv
  <2> QED BY <2>1 DEF FoldInv
<1>4. CASE Gate
  BY <1>1, <1>4 DEF Gate, Goto
<1>5. CASE SelectIngest \/ SplitRaises \/ Reset \/ PassEnds \/ Fit
  BY <1>1, <1>5 DEF SelectIngest, SplitRaises, Reset, PassEnds, Fit, Goto
<1>6. CASE Chunk
  BY <1>1, <1>6 DEF Chunk, Goto
<1>7. CASE NextBatch
  BY <1>1, <1>7 DEF NextBatch, FoldInv
<1>8. CASE Done
  BY <1>2, <1>8 DEF Done
<1> QED BY <1>2, <1>3, <1>4, <1>5, <1>6, <1>7, <1>8 DEF Next

-----------------------------------------------------------------------------
(* Distance between training and test rows *)

LEMMA TrainedAndTested ==
  ASSUME NEW D, NEW f, NEW part, DOMAIN part = D, NEW k \in Int, f \in FoldsOf(part, k)
  PROVE  /\ f.train \cap f.test = {} /\ f.train \cup f.test = D
         /\ \A a \in f.train, b \in f.test : part[a] # part[b]
  BY DEF FoldsOf

\* The k-fold strategies.
LEMMA PartitionsAreApart ==
  ASSUME NEW cv, NEW time, NEW column, DOMAIN column = DOMAIN time,
         cv.kind \in {"kfold", "stratified_kfold", "group_kfold"}, cv.n_splits \in Int,
         NEW F \in Families(cv, time, column), NEW f \in F
  PROVE  /\ f.train \cap f.test = {} /\ f.train \cup f.test = DOMAIN time
         /\ cv.kind = "group_kfold" =>
              \A a \in f.train, b \in f.test : column[a] # column[b]
<1>1. PICK k \in Int : k = cv.n_splits
  OBVIOUS
<1>2. CASE cv.kind = "kfold"
  <2>1. F \in KFoldFamilies(cv, time)
    BY <1>2 DEF Families
  <2>2. PICK p \in [DOMAIN time -> 0 .. k - 1] : F = FoldsOf(p, k)
    BY <1>1, <2>1 DEF KFoldFamilies
  <2> QED BY <1>2, <2>2, TrainedAndTested
<1>3. CASE cv.kind = "stratified_kfold"
  <2>1. F \in StratifiedFamilies(cv, column)
    BY <1>3 DEF Families
  <2>2. PICK p \in [DOMAIN column -> 0 .. k - 1] : F = FoldsOf(p, k)
    BY <1>1, <2>1 DEF StratifiedFamilies
  <2> QED BY <1>3, <2>2, TrainedAndTested
<1>4. CASE cv.kind = "group_kfold"
  <2>1. F \in GroupFamilies(cv, column)
    BY <1>4 DEF Families
  <2>2. PICK p \in [DOMAIN column -> 0 .. k - 1] :
           /\ F = FoldsOf(p, k)
           /\ \A r, s \in DOMAIN p : column[r] = column[s] => p[r] = p[s]
    BY <1>1, <2>1 DEF GroupFamilies
  <2>3. /\ f.train \cap f.test = {} /\ f.train \cup f.test = DOMAIN time
        /\ \A a \in f.train, b \in f.test : p[a] # p[b]
    BY <2>2, TrainedAndTested
  <2> QED BY <2>2, <2>3
<1> QED BY <1>2, <1>3, <1>4

\* CombinatorialPurgedCV: what trains is further from what is tested than the
\* purge, and after it than purge and embargo.
LEMMA CombinatorialIsApart ==
  ASSUME NEW n \in Nat, NEW k, NEW tests, NEW purge \in Nat, NEW embargo \in Nat,
         NEW f \in Combinatorial(n, k, tests, purge, embargo),
         NEW a \in f.train, NEW b \in f.test, b \in Int
  PROVE  /\ a \in 0 .. n - 1
         /\ a < b - purge \/ a > b + purge + embargo
  BY DEF Combinatorial

LEMMA PercentIsNatural ==
  ASSUME NEW n \in Nat, NEW pct \in Nat
  PROVE  Percent(n, pct) \in Nat
  BY DivIsNatural, n * pct \in Nat, 100 \in Nat \ {0} DEF Percent

\* A time series: the gap counted in rows, or the embargo in time.
LEMMA TimeSeriesIsApart ==
  ASSUME NEW h \in Nat, NEW cv, NEW time, NEW column, IsTune(cv, time, column, h),
         cv.kind = "time_series", NEW F \in Families(cv, time, column), NEW f \in F,
         NEW a \in f.train, NEW b \in f.test
  PROVE  /\ a \in 0 .. h - 1 /\ b \in 0 .. h - 1 /\ a < b
         /\ cv.embargo = "none" => b - a > cv.gap
         /\ cv.embargo = "rows" => b - a > cv.embargo_time
         /\ cv.embargo = "time" /\ Even(time) =>
              time[b] - time[a] + (IF Whole(time) THEN 0 ELSE Spacing(time)) >= cv.embargo_time
<1>1. /\ time \in Frames(h) /\ Height(time) = h /\ Sorted(time)
      /\ cv.n_splits \in Int /\ cv.gap \in Nat /\ cv.max_train_size \in Nat
      /\ cv.embargo_time \in Nat /\ cv.embargo \in {"none", "rows", "time"}
  <2>1. time \in Frames(h) /\ Height(time) = h /\ Sorted(time)
    BY StampsOfAFrame DEF IsTune, TemporalKinds
  <2>2. cv \in [kind : {"time_series"}, n_splits : Int, gap : Nat, max_train_size : Nat,
                embargo : {"none", "rows", "time"}, embargo_time : Nat]
    BY DEF IsTune, CVConfigs
  <2> QED BY <2>1, <2>2
<1>2. PICK gap \in Nat : gap = EffectiveGap(cv, time)
  BY <1>1, EmbargoIsNatural DEF EffectiveGap
<1>3. PICK k \in Nat \ {0} : k = cv.n_splits /\ F \in WalkForward(h, k, gap, cv.max_train_size)
  <2>1. Accepted(cv) /\ F \in TimeSeriesFamilies(cv, time)
    BY DEF Families
  <2>2. cv.n_splits >= 2
    BY <2>1 DEF Accepted
  <2> QED BY <1>1, <1>2, <2>1, <2>2 DEF TimeSeriesFamilies
<1>4. gap < h /\ a \in 0 .. h - 1 /\ b \in 0 .. h - 1 /\ b - a > gap
  BY <1>1, <1>3, WalkForwardKeepsGap
<1>5. ASSUME cv.embargo = "time", Even(time)
      PROVE  time[b] - time[a] + (IF Whole(time) THEN 0 ELSE Spacing(time)) >= cv.embargo_time
  <2>1. gap = EmbargoRows(time, cv.embargo_time)
    BY <1>2, <1>5 DEF EffectiveGap
  <2> QED BY <1>1, <1>4, <1>5, <2>1, EmbargoIsKept
<1>6. cv.embargo = "none" => gap = cv.gap
  BY <1>2 DEF EffectiveGap
<1>7. cv.embargo = "rows" => gap = cv.embargo_time
  BY <1>2 DEF EffectiveGap
<1> QED BY <1>4, <1>5, <1>6, <1>7

\* Purged folds over rows.
LEMMA PurgedFoldsAreApart ==
  ASSUME NEW h \in Nat, NEW cv, NEW time, NEW column, IsTune(cv, time, column, h),
         cv.kind = "cpcv", NEW F \in Families(cv, time, column), NEW f \in F
  PROVE  /\ f.train \cap f.test = {}
         /\ \A a \in f.train, b \in f.test :
              /\ cv.purged_size = 0 => b - a \notin 0 .. cv.target_horizon_bars
              /\ b - a \notin 0 .. cv.purged_size
              /\ a - b \notin 0 .. cv.purged_size + cv.embargo_size
              /\ cv.embargo_size = 0 =>
                   a - b \notin 0 .. cv.purged_size + Percent(Height(time), cv.embargo_pct)
<1>1. Height(time) = h
  BY StampsOfAFrame DEF IsTune
<1>2. /\ cv.purged_size \in Nat /\ cv.target_horizon_bars \in Nat
      /\ cv.embargo_size \in Nat /\ cv.embargo_pct \in Nat
      /\ cv.n_folds \in Nat
  <2>1. cv \in [kind : {"cpcv"}, n_folds : Nat, n_test_folds : Nat, purged_size : Nat,
                embargo_size : Nat, target_horizon_bars : Nat, embargo_pct : Nat]
    BY DEF IsTune, CVConfigs
  <2> QED BY <2>1
<1>3. PICK purge \in Nat :
        purge = IF cv.purged_size > 0 THEN cv.purged_size ELSE cv.target_horizon_bars
  BY <1>2
<1>4. PICK pct \in Nat : pct = Percent(h, cv.embargo_pct)
  BY <1>2, PercentIsNatural
<1>5. PICK embargo \in Nat :
        embargo = IF cv.embargo_size > 0 THEN cv.embargo_size ELSE pct
  BY <1>2
<1>6. F = Combinatorial(h, cv.n_folds, cv.n_test_folds, purge, embargo)
  <2>1. F \in CpcvFamilies(cv, time)
    BY DEF Families
  <2> QED BY <1>1, <1>3, <1>4, <1>5, <2>1 DEF CpcvFamilies
<1>7. f.train \cap f.test = {} /\ \A b \in f.test : b \in Int
  <2>1. f.train \cap f.test = {}
    BY <1>6 DEF Combinatorial
  <2>2. PICK T \in SUBSET (0 .. cv.n_folds - 1) :
          f.test = UNION {Block(h, cv.n_folds, i) : i \in T}
    BY <1>6 DEF Combinatorial
  <2>3. \A i \in T : \A b \in Block(h, cv.n_folds, i) : b \in Int
    BY DEF Block
  <2> QED BY <2>1, <2>2, <2>3
<1>8. ASSUME NEW a \in f.train, NEW b \in f.test
      PROVE  /\ cv.purged_size = 0 => b - a \notin 0 .. cv.target_horizon_bars
             /\ b - a \notin 0 .. cv.purged_size
             /\ a - b \notin 0 .. cv.purged_size + cv.embargo_size
             /\ cv.embargo_size = 0 =>
                  a - b \notin 0 .. cv.purged_size + Percent(Height(time), cv.embargo_pct)
  <2>1. /\ a \in Int /\ b \in Int
        /\ a < b - purge \/ a > b + purge + embargo
    <3>1. f \in Combinatorial(h, cv.n_folds, cv.n_test_folds, purge, embargo)
      BY <1>6
    <3>2. b \in Int
      BY <1>7
    <3>3. a \in 0 .. h - 1 /\ (a < b - purge \/ a > b + purge + embargo)
      BY ONLY <3>1, <3>2, h \in Nat, CombinatorialIsApart
    <3> QED BY <3>2, <3>3
  <2>2. /\ cv.purged_size <= purge /\ cv.embargo_size <= embargo
        /\ cv.purged_size = 0 => purge = cv.target_horizon_bars
        /\ cv.embargo_size = 0 => embargo = pct
    BY <1>2, <1>3, <1>5
  <2> QED BY <1>1, <1>2, <1>4, <2>1, <2>2
<1> QED BY <1>7, <1>8

\* Purged folds over timestamps.
LEMMA PanelFoldsAreApart ==
  ASSUME NEW h \in Nat, NEW cv, NEW time, NEW column, IsTune(cv, time, column, h),
         cv.kind = "panel_cpcv", NEW F \in Families(cv, time, column), NEW f \in F
  PROVE  /\ f.train \cap f.test = {}
         /\ \A a \in f.train, b \in f.test :
              /\ IndexOf(time, b) - IndexOf(time, a) \notin 0 .. cv.target_horizon_bars
              /\ IndexOf(time, a) - IndexOf(time, b) \notin
                   0 .. cv.target_horizon_bars
                          + Percent(Cardinality(Stamps(time)), cv.embargo_pct)
<1>1. PICK n \in Nat : n = Cardinality(Stamps(time)) /\ IsFiniteSet(Stamps(time))
  BY StampsOfAFrame DEF IsTune
<1>2. cv.target_horizon_bars \in Nat /\ cv.embargo_pct \in Nat
  <2>1. cv \in [kind : {"panel_cpcv"}, n_folds : Nat, n_test_folds : Nat,
                target_horizon_bars : Nat, embargo_pct : Nat]
    BY DEF IsTune, CVConfigs
  <2> QED BY <2>1
<1>3. PICK purge \in Nat, embargo \in Nat :
        purge = cv.target_horizon_bars /\ embargo = Percent(n, cv.embargo_pct)
  BY <1>2, PercentIsNatural
<1>4. PICK g \in Combinatorial(n, cv.n_folds, cv.n_test_folds, purge, embargo) :
        f = [train |-> {r \in DOMAIN time : IndexOf(time, r) \in g.train},
             test |-> {r \in DOMAIN time : IndexOf(time, r) \in g.test}]
  <2>1. F \in PanelFamilies(cv, time)
    BY DEF Families
  <2> QED BY <1>1, <1>3, <2>1 DEF PanelFamilies
<1>5. g.train \cap g.test = {}
  BY DEF Combinatorial
<1>6. \A r : IndexOf(time, r) \in Int
  <2>1. \A r : {u \in Stamps(time) : u < time[r]} \in SUBSET Stamps(time)
    OBVIOUS
  <2>2. \A r : Cardinality({u \in Stamps(time) : u < time[r]}) \in Nat
    BY <1>1, <2>1, FS_Subset, FS_CardinalityType
  <2> QED BY <2>2 DEF IndexOf
<1>7. ASSUME NEW a \in f.train, NEW b \in f.test
      PROVE  /\ IndexOf(time, b) - IndexOf(time, a) \notin 0 .. purge
             /\ IndexOf(time, a) - IndexOf(time, b) \notin 0 .. purge + embargo
  <2>1. PICK i \in g.train, j \in g.test :
          /\ i = IndexOf(time, a) /\ j = IndexOf(time, b) /\ i \in Int /\ j \in Int
    BY <1>4, <1>6
  <2>2. i < j - purge \/ i > j + purge + embargo
    BY <2>1, CombinatorialIsApart
  <2> QED BY <2>1, <2>2
<1>8. f.train \cap f.test = {}
  BY <1>4, <1>5
<1> QED BY <1>1, <1>3, <1>7, <1>8

LEMMA FoldsThatAreApart ==
  ASSUME FoldInv, NEW f \in folds
  PROVE  /\ f.train \cap f.test = {}
         /\ job.cv.kind = "group_kfold" =>
              \A a \in f.train, b \in f.test : job.column[a] # job.column[b]
         /\ job.cv.kind = "time_series" => WalkForwardIsApart(f.train, f.test)
         /\ job.cv.kind = "cpcv" => PurgedIsApart(f.train, f.test)
         /\ job.cv.kind = "panel_cpcv" => PanelIsApart(f.train, f.test)
         /\ job.cv.kind \in {"kfold", "stratified_kfold"} => f.train \cup f.test = Rows
         /\ job.cv.kind \in {"kfold", "stratified_kfold", "group_kfold",
                             "time_series", "cpcv", "panel_cpcv"}
<1>1. PICK h, cv, time, column :
        /\ h \in Nat
        /\ cv = job.cv /\ time = job.time /\ column = job.column
        /\ IsTune(cv, time, column, h) /\ folds \in Families(cv, time, column)
  BY DEF FoldInv
<1>2. /\ cv.kind \in {"kfold", "stratified_kfold", "group_kfold",
                      "time_series", "cpcv", "panel_cpcv"}
      /\ cv.kind \in {"kfold", "stratified_kfold", "group_kfold"} => cv.n_splits \in Int
      /\ cv.kind = "time_series" => cv.embargo \in {"none", "rows", "time"}
  BY <1>1 DEF IsTune, CVConfigs
<1>3. PICK F \in Families(cv, time, column) : F = folds
  BY <1>1
<1>4. DOMAIN column = DOMAIN time
  BY <1>1 DEF IsTune
<1>5. CASE cv.kind \in {"kfold", "stratified_kfold", "group_kfold"}
  <2>1. /\ f.train \cap f.test = {} /\ f.train \cup f.test = DOMAIN time
        /\ cv.kind = "group_kfold" =>
             \A a \in f.train, b \in f.test : column[a] # column[b]
    BY <1>2, <1>3, <1>4, <1>5, PartitionsAreApart
  <2> QED BY <1>1, <1>2, <1>5, <2>1 DEF Rows
<1>6. CASE cv.kind = "time_series"
  <2>1. ASSUME NEW a \in f.train, NEW b \in f.test
        PROVE  /\ a \in 0 .. h - 1 /\ b \in 0 .. h - 1 /\ a < b
               /\ cv.embargo = "none" => b - a > cv.gap
               /\ cv.embargo = "rows" => b - a > cv.embargo_time
               /\ cv.embargo = "time" /\ Even(time) =>
                    time[b] - time[a] + (IF Whole(time) THEN 0 ELSE Spacing(time))
                      >= cv.embargo_time
    BY <1>1, <1>3, <1>6, TimeSeriesIsApart
  <2>2. f.train \cap f.test = {}
    <3>1. \A a \in f.train \cap f.test : a \in Int /\ a < a
      BY <2>1
    <3> QED BY <3>1
  <2>3. WalkForwardIsApart(f.train, f.test)
    BY <1>1, <1>2, <1>6, <2>1 DEF WalkForwardIsApart, Time
  <2> QED BY <1>1, <1>6, <2>2, <2>3
<1>7. CASE cv.kind = "cpcv"
  <2>1. f.train \cap f.test = {} /\ PurgedIsApart(f.train, f.test)
    BY <1>1, <1>3, <1>7, PurgedFoldsAreApart DEF PurgedIsApart
  <2> QED BY <1>1, <1>7, <2>1
<1>8. CASE cv.kind = "panel_cpcv"
  <2>1. f.train \cap f.test = {} /\ PanelIsApart(f.train, f.test)
    BY <1>1, <1>3, <1>8, PanelFoldsAreApart DEF PanelIsApart, StampOf
  <2> QED BY <1>1, <1>8, <2>1
<1> QED BY <1>2, <1>5, <1>6, <1>7, <1>8

\* data/cv.py: no fold trains on a row it tests, on a row of a tested group, or
\* nearer to a tested row than gap, embargo and horizon allow, for frames of any
\* height and configurations of any size.
THEOREM FoldsAreApart == Spec => []FoldsKeepDistance
<1>1. FoldInv => FoldsKeepDistance
  <2> SUFFICES ASSUME FoldInv, NEW f \in folds
               PROVE  /\ f.train \cap f.test = {}
                      /\ CASE job.cv.kind = "group_kfold" ->
                                \A a \in f.train, b \in f.test : job.column[a] # job.column[b]
                           [] job.cv.kind = "time_series" -> WalkForwardIsApart(f.train, f.test)
                           [] job.cv.kind = "cpcv" -> PurgedIsApart(f.train, f.test)
                           [] job.cv.kind = "panel_cpcv" -> PanelIsApart(f.train, f.test)
                           [] OTHER -> f.train \cup f.test = Rows
    BY DEF FoldsKeepDistance
  <2> QED BY FoldsThatAreApart
<1> QED BY FoldsBegin, FoldsGoOn, <1>1, PTL DEF Spec

-----------------------------------------------------------------------------
(* Counting *)

\* Sets whose members are paired off have as many.
LEMMA PairedOff ==
  ASSUME NEW S, IsFiniteSet(S), NEW R, NEW g,
         \A x \in S : g[x] \in R,
         \A y \in R : \E x \in S : g[x] = y,
         \A x, y \in S : g[x] = g[y] => x = y
  PROVE  IsFiniteSet(R) /\ Cardinality(R) = Cardinality(S)
<1>1. PICK f : f = [x \in S |-> g[x]]
  OBVIOUS
<1>2. f \in [S -> R] /\ \A x, y \in S : f[x] = f[y] => x = y
  BY <1>1
<1>3. \A y \in R : \E x \in S : f[x] = y
  BY <1>1
<1>4. f \in Bijection(S, R)
  BY ONLY <1>2, <1>3 DEF Bijection, Injection, IsInjective, Surjection
<1>5. ExistsBijection(S, R)
  BY <1>4 DEF ExistsBijection
<1> QED BY <1>5, FS_Bijection

LEMMA FirstNumbers ==
  ASSUME NEW k \in Nat
  PROVE  IsFiniteSet(0 .. k - 1) /\ Cardinality(0 .. k - 1) = k
  BY Counting, 0 \in Int, k - 1 \in Int, 0 <= k - 1 + 1

LEMMA OneLess ==
  ASSUME NEW S, IsFiniteSet(S), NEW x \in S
  PROVE  IsFiniteSet(S \ {x}) /\ Cardinality(S \ {x}) = Cardinality(S) - 1
  BY FS_RemoveElement

\* The folds of a family that test a row.
Testing(F, r) == {f \in F : r \in f.test}

SubsetsOfSize(A, m) == {S \in SUBSET A : Cardinality(S) = m}

LEMMA SubsetsAreFinite ==
  ASSUME NEW A, IsFiniteSet(A), NEW m
  PROVE  IsFiniteSet(SubsetsOfSize(A, m))
  BY FS_SUBSET, FS_Subset, SubsetsOfSize(A, m) \in SUBSET (SUBSET A) DEF SubsetsOfSize

\* Sets of one size have equally many subsets of a size.
LEMMA SameManySubsets ==
  ASSUME NEW A, IsFiniteSet(A), NEW B, IsFiniteSet(B), Cardinality(A) = Cardinality(B), NEW m
  PROVE  Cardinality(SubsetsOfSize(A, m)) = Cardinality(SubsetsOfSize(B, m))
<1>1. PICK phi \in Bijection(A, B) : TRUE
  BY FS_SameCardinalityBij DEF ExistsBijection
<1>2. /\ phi \in [A -> B] /\ \A x, y \in A : phi[x] = phi[y] => x = y
      /\ \A b \in B : \E x \in A : phi[x] = b
  BY <1>1 DEF Bijection, Injection, IsInjective, Surjection
<1>3. PICK F : F = [S \in SubsetsOfSize(A, m) |-> {phi[x] : x \in S}]
  OBVIOUS
<1>4. ASSUME NEW S \in SUBSET A
      PROVE  Cardinality({phi[x] : x \in S}) = Cardinality(S)
  <2>1. PICK R : R = {phi[x] : x \in S}
    OBVIOUS
  <2>2. /\ IsFiniteSet(S) /\ \A x \in S : phi[x] \in R
        /\ \A y \in R : \E x \in S : phi[x] = y
        /\ \A x, y \in S : phi[x] = phi[y] => x = y
    BY <1>2, <2>1, FS_Subset
  <2>3. Cardinality(R) = Cardinality(S)
    BY ONLY <2>2, PairedOff
  <2> QED BY <2>1, <2>3
<1>5. F \in [SubsetsOfSize(A, m) -> SubsetsOfSize(B, m)]
  <2>1. ASSUME NEW S \in SubsetsOfSize(A, m)
        PROVE  {phi[x] : x \in S} \in SubsetsOfSize(B, m)
    <3>1. S \in SUBSET A /\ Cardinality(S) = m
      BY DEF SubsetsOfSize
    <3>2. {phi[x] : x \in S} \in SUBSET B
      BY <1>2, <3>1
    <3> QED BY <1>4, <3>1, <3>2 DEF SubsetsOfSize
  <2> QED BY <1>3, <2>1
<1>6. ASSUME NEW S \in SubsetsOfSize(A, m), NEW T \in SubsetsOfSize(A, m), F[S] = F[T]
      PROVE  S = T
  <2>1. S \in SUBSET A /\ T \in SUBSET A /\ {phi[x] : x \in S} = {phi[x] : x \in T}
    BY <1>3, <1>6 DEF SubsetsOfSize
  <2>2. ASSUME NEW x \in S PROVE x \in T
    <3>1. phi[x] \in {phi[y] : y \in T}
      BY <2>1
    <3> QED BY <1>2, <2>1, <3>1
  <2>3. ASSUME NEW x \in T PROVE x \in S
    <3>1. phi[x] \in {phi[y] : y \in S}
      BY <2>1
    <3> QED BY <1>2, <2>1, <3>1
  <2> QED BY <2>2, <2>3
<1>7. ASSUME NEW T \in SubsetsOfSize(B, m)
      PROVE  \E S \in SubsetsOfSize(A, m) : F[S] = T
  <2>1. T \in SUBSET B /\ Cardinality(T) = m
    BY DEF SubsetsOfSize
  <2>2. PICK S \in SUBSET A : S = {x \in A : phi[x] \in T}
    OBVIOUS
  <2>3. {phi[x] : x \in S} = T
    BY <1>2, <2>1, <2>2
  <2>4. S \in SubsetsOfSize(A, m)
    BY <1>4, <2>1, <2>3 DEF SubsetsOfSize
  <2> QED BY <1>3, <2>3, <2>4
<1>8. F \in Bijection(SubsetsOfSize(A, m), SubsetsOfSize(B, m))
  BY <1>5, <1>6, <1>7 DEF Bijection, Injection, IsInjective, Surjection
<1>9. ExistsBijection(SubsetsOfSize(A, m), SubsetsOfSize(B, m))
  BY <1>8 DEF ExistsBijection
<1> QED BY <1>9, SubsetsAreFinite, FS_Bijection

\* Subsets that contain a given member.
LEMMA SubsetsWithMember ==
  ASSUME NEW k \in Nat, NEW A, IsFiniteSet(A), Cardinality(A) = k,
         NEW i \in A, NEW m \in Nat \ {0}
  PROVE  Cardinality({S \in SubsetsOfSize(A, m) : i \in S}) = Binomial(k - 1, m - 1)
<1>1. PICK B \in SUBSET A : B = A \ {i} /\ IsFiniteSet(B) /\ Cardinality(B) = k - 1
  BY FS_RemoveElement
<1>2. PICK g : g = [S \in SubsetsOfSize(B, m - 1) |-> S \cup {i}]
  OBVIOUS
<1>3. \A S \in SubsetsOfSize(B, m - 1) :
         S \in SUBSET B /\ i \notin S /\ IsFiniteSet(S) /\ Cardinality(S) = m - 1
  BY <1>1, FS_Subset DEF SubsetsOfSize
<1>4. \A S, T \in SubsetsOfSize(B, m - 1) : g[S] = g[T] => S = T
  <2>1. \A S \in SubsetsOfSize(B, m - 1) : S = g[S] \ {i}
    BY <1>2, <1>3
  <2> QED BY <2>1
<1>5. PICK Y : Y = {g[S] : S \in SubsetsOfSize(B, m - 1)}
  OBVIOUS
<1>6. Cardinality(Y) = Cardinality(SubsetsOfSize(B, m - 1))
  <2>1. PICK X : X = SubsetsOfSize(B, m - 1)
    OBVIOUS
  <2>2. (\A S \in X : g[S] \in Y) /\ \A y \in Y : \E S \in X : g[S] = y
    BY <1>5, <2>1
  <2>3. IsFiniteSet(X) /\ \A S, T \in X : g[S] = g[T] => S = T
    BY <1>1, <1>4, <2>1, SubsetsAreFinite
  <2>4. Cardinality(Y) = Cardinality(X)
    BY ONLY <2>2, <2>3, PairedOff
  <2> QED BY <2>1, <2>4
<1>7. Y = {S \in SubsetsOfSize(A, m) : i \in S}
  <2>1. ASSUME NEW S \in SubsetsOfSize(B, m - 1)
        PROVE  g[S] \in SubsetsOfSize(A, m) /\ i \in g[S]
    <3>1. g[S] = S \cup {i} /\ g[S] \in SUBSET A
      BY <1>1, <1>2, <1>3
    <3>2. Cardinality(S \cup {i}) = m
      <4>1. Cardinality(S \cup {i}) = Cardinality(S) + 1
        BY <1>3, FS_AddElement
      <4> QED BY <1>3, <4>1
    <3> QED BY <3>1, <3>2 DEF SubsetsOfSize
  <2>2. ASSUME NEW T \in SubsetsOfSize(A, m), i \in T
        PROVE  T \in Y
    <3>1. T \in SUBSET A /\ IsFiniteSet(T) /\ Cardinality(T) = m
      BY FS_Subset DEF SubsetsOfSize
    <3>2. PICK S : S = T \ {i}
      OBVIOUS
    <3>3. Cardinality(S) = m - 1 /\ S \in SUBSET B
      <4>1. Cardinality(T \ {i}) = Cardinality(T) - 1
        BY <2>2, <3>1, FS_RemoveElement
      <4> QED BY <1>1, <3>1, <3>2, <4>1
    <3>4. S \in SubsetsOfSize(B, m - 1) /\ g[S] = T
      BY <1>2, <2>2, <3>2, <3>3 DEF SubsetsOfSize
    <3> QED BY <1>5, <3>4
  <2> QED BY <1>5, <2>1, <2>2
<1>8. Cardinality(SubsetsOfSize(B, m - 1)) = Cardinality(SubsetsOfSize(1 .. k - 1, m - 1))
  <2>1. k - 1 \in Nat
    BY <1>1, FS_CardinalityType
  <2>2. IsFiniteSet(1 .. k - 1) /\ Cardinality(1 .. k - 1) = k - 1
    BY <2>1, Counting, 1 \in Int, k - 1 \in Int, 1 <= k - 1 + 1
  <2> QED BY <1>1, <2>2, SameManySubsets
<1> QED BY <1>6, <1>7, <1>8 DEF Binomial, SubsetsOfSize

-----------------------------------------------------------------------------
(* Blocks *)

LEMMA BlockStarts ==
  ASSUME NEW k \in Nat \ {0}, NEW n \in Nat, k <= n
  PROVE  /\ \A i \in 0 .. k : BlockStart(n, k, i) \in Nat
         /\ BlockStart(n, k, 0) = 0 /\ BlockStart(n, k, k) = n
         /\ \A i, j \in 0 .. k : i < j => BlockStart(n, k, i) < BlockStart(n, k, j)
<1>1. PICK q \in Nat, r \in 0 .. k - 1 : q = n \div k /\ r = n % k /\ n = k * q + r
  BY DivMod, DivIsNatural, n \in Int
<1>2. q >= 1
  <2> SUFFICES ASSUME q = 0 PROVE FALSE
    OBVIOUS
  <2> QED BY <1>1
<1>3. \A i : BlockStart(n, k, i) = i * q + Least(i, r)
  BY <1>1 DEF BlockStart
<1>4. ASSUME NEW i \in 0 .. k PROVE i * q \in Nat /\ Least(i, r) \in Nat
  BY DEF Least
<1>5. ASSUME NEW i \in 0 .. k, NEW j \in 0 .. k, i < j
      PROVE  i * q + Least(i, r) < j * q + Least(j, r)
  <2>1. (i + 1) * q <= j * q
    BY <1>5, Times, i + 1 \in Int, j \in Int
  <2>2. (i + 1) * q = i * q + q
    OBVIOUS
  <2>3. Least(i, r) <= Least(j, r)
    BY <1>5 DEF Least
  <2>4. i * q \in Nat /\ j * q \in Nat /\ Least(i, r) \in Nat /\ Least(j, r) \in Nat
    BY <1>4
  <2> QED BY <1>2, <2>1, <2>2, <2>3, <2>4
<1>6. 0 * q + Least(0, r) = 0 /\ k * q + Least(k, r) = n
  BY <1>1 DEF Least
<1> QED BY <1>3, <1>4, <1>5, <1>6

\* Every position is in one block, and no block is empty.
LEMMA BlocksPartition ==
  ASSUME NEW k \in Nat \ {0}, NEW n \in Nat, k <= n
  PROVE  /\ \A i \in 0 .. k - 1 : /\ Block(n, k, i) \in SUBSET (0 .. n - 1)
                                  /\ Block(n, k, i) # {}
         /\ \A i, j \in 0 .. k - 1 : i # j => Block(n, k, i) \cap Block(n, k, j) = {}
         /\ \A p \in 0 .. n - 1 : \E i \in 0 .. k - 1 : p \in Block(n, k, i)
<1>1. PICK start : start = [i \in 0 .. k |-> BlockStart(n, k, i)]
  OBVIOUS
<1>2. /\ \A i \in 0 .. k : start[i] \in Nat
      /\ start[0] = 0 /\ start[k] = n
      /\ \A i, j \in 0 .. k : i < j => start[i] < start[j]
  BY <1>1, BlockStarts
<1>3. \A i \in 0 .. k - 1 : /\ i \in 0 .. k /\ i + 1 \in 0 .. k
                            /\ Block(n, k, i) = start[i] .. start[i + 1] - 1
  <2>1. \A i \in 0 .. k - 1 : i \in 0 .. k /\ i + 1 \in 0 .. k
    OBVIOUS
  <2> QED BY <1>1, <2>1 DEF Block
<1>4. ASSUME NEW i \in 0 .. k - 1
      PROVE  Block(n, k, i) \in SUBSET (0 .. n - 1) /\ Block(n, k, i) # {}
  <2>1. start[i] < start[i + 1]
    BY <1>2, <1>3
  <2>2. start[i + 1] <= n
    <3>1. i + 1 = k \/ i + 1 < k
      OBVIOUS
    <3> QED BY <1>2, <1>3, <3>1
  <2>3. PICK x \in Nat, y \in Nat : x = start[i] /\ y = start[i + 1] /\ x < y /\ y <= n
    BY <1>2, <1>3, <2>1, <2>2
  <2>4. Block(n, k, i) = x .. y - 1
    BY <1>3, <2>3
  <2>5. x .. y - 1 \in SUBSET (0 .. n - 1) /\ x \in x .. y - 1
    BY <2>3
  <2> QED BY <2>4, <2>5
<1>5. ASSUME NEW i \in 0 .. k - 1, NEW j \in 0 .. k - 1, i < j
      PROVE  Block(n, k, i) \cap Block(n, k, j) = {}
  <2>1. start[i + 1] <= start[j]
    <3>1. i + 1 = j \/ i + 1 < j
      BY <1>5
    <3> QED BY <1>2, <1>3, <3>1
  <2>2. PICK x \in Nat, y \in Nat, z \in Nat, w \in Nat :
          /\ x = start[i] /\ y = start[i + 1] /\ z = start[j] /\ w = start[j + 1] /\ y <= z
    BY <1>2, <1>3, <2>1
  <2>3. Block(n, k, i) = x .. y - 1 /\ Block(n, k, j) = z .. w - 1
    BY <1>3, <2>2
  <2>4. (x .. y - 1) \cap (z .. w - 1) = {}
    BY <2>2
  <2> QED BY <2>3, <2>4
<1>6. ASSUME NEW i \in 0 .. k - 1, NEW j \in 0 .. k - 1, i # j
      PROVE  Block(n, k, i) \cap Block(n, k, j) = {}
  <2>1. i < j \/ j < i
    BY <1>6
  <2> QED BY <1>5, <2>1
<1>7. ASSUME NEW p \in 0 .. n - 1 PROVE \E i \in 0 .. k - 1 : p \in Block(n, k, i)
  <2>1. PICK S \in SUBSET (0 .. k - 1) : S = {i \in 0 .. k - 1 : start[i] <= p}
    OBVIOUS
  <2>2. 0 \in S
    BY <1>2, <2>1
  <2>3. IsFiniteSet(S) /\ S \in SUBSET Int
    <3>1. IsFiniteSet(0 .. k - 1)
      BY FS_Interval, k - 1 \in Int
    <3>2. IsFiniteSet(S)
      BY ONLY <3>1, S \in SUBSET (0 .. k - 1), FS_Subset
    <3> QED BY <3>2
  <2>4. PICK i \in S : \A j \in S : j <= i
    BY <2>2, <2>3, GreatestInteger
  <2>5. i \in 0 .. k - 1 /\ start[i] <= p
    BY <2>1
  <2>6. p < start[i + 1]
    <3>1. CASE i + 1 = k
      BY <1>2, <3>1
    <3>2. CASE i + 1 < k
      <4>1. i + 1 \notin S
        BY <2>4, <2>5
      <4>2. i + 1 \in 0 .. k - 1 /\ start[i + 1] \in Nat
        BY <1>2, <2>5, <3>2
      <4> QED BY <2>1, <4>1, <4>2
    <3> QED BY <2>5, <3>1, <3>2
  <2>7. start[i] \in Nat /\ start[i + 1] \in Nat
    BY <1>2, <1>3, <2>5
  <2> QED BY <1>3, <2>5, <2>6, <2>7
<1> QED BY <1>4, <1>6, <1>7

-----------------------------------------------------------------------------
(* Every row its turn *)

\* A partition into k parts none of which is empty tests every row once.
LEMMA PartitionTestsOnce ==
  ASSUME NEW D, IsFiniteSet(D), NEW k \in Nat \ {0}, NEW p \in [D -> 0 .. k - 1],
         \A i \in 0 .. k - 1 : \E r \in D : p[r] = i
  PROVE  /\ Cardinality(FoldsOf(p, k)) = k
         /\ \A r \in D : Cardinality(Testing(FoldsOf(p, k), r)) = 1
<1>1. PICK g : g = [i \in 0 .. k - 1 |-> [train |-> {r \in D : p[r] # i},
                                          test |-> {r \in D : p[r] = i}]]
  OBVIOUS
<1>2. FoldsOf(p, k) = {g[i] : i \in 0 .. k - 1}
  BY <1>1 DEF FoldsOf
<1>3. \A i \in 0 .. k - 1 : g[i].test = {r \in D : p[r] = i}
  BY <1>1
<1>4. ASSUME NEW i \in 0 .. k - 1, NEW j \in 0 .. k - 1, g[i] = g[j] PROVE i = j
  <2>1. PICK r \in D : p[r] = i
    OBVIOUS
  <2>2. r \in g[i].test
    BY <1>3, <2>1
  <2>3. r \in g[j].test
    BY <1>4, <2>2
  <2> QED BY <1>3, <2>1, <2>3
<1>5. Cardinality(FoldsOf(p, k)) = k
  <2>1. PICK I : I = 0 .. k - 1 /\ IsFiniteSet(I) /\ Cardinality(I) = k
    BY FirstNumbers
  <2>2. PICK Y : Y = FoldsOf(p, k)
    OBVIOUS
  <2>3. /\ IsFiniteSet(I) /\ \A i \in I : g[i] \in Y
        /\ \A y \in Y : \E i \in I : g[i] = y
        /\ \A i, j \in I : g[i] = g[j] => i = j
    BY <1>2, <1>4, <2>1, <2>2
  <2>4. Cardinality(Y) = Cardinality(I)
    BY ONLY <2>3, PairedOff
  <2> QED BY <2>1, <2>2, <2>4
<1>6. ASSUME NEW r \in D
      PROVE  Cardinality(Testing(FoldsOf(p, k), r)) = 1
  <2>1. \A i \in 0 .. k - 1 : r \in g[i].test <=> i = p[r]
    BY <1>3
  <2>2. p[r] \in 0 .. k - 1
    OBVIOUS
  <2>3. Testing(FoldsOf(p, k), r) = {g[p[r]]}
    BY <1>2, <2>1, <2>2 DEF Testing
  <2> QED BY <2>3, FS_Singleton
<1> QED BY <1>5, <1>6

LEMMA EveryBlockIsTested ==
  ASSUME NEW h \in Nat, NEW time \in Frames(h), NEW k \in Nat \ {0}, k <= h,
         NEW p \in [0 .. h - 1 -> 0 .. k - 1],
         \/ \A i \in 0 .. k - 1 : TestSize(p, i) = Cardinality(Block(h, k, i))
         \/ \A r \in DOMAIN p : r \in Block(h, k, p[r]),
         NEW i \in 0 .. k - 1
  PROVE  \E r \in 0 .. h - 1 : p[r] = i
<1>1. PICK x \in 0 .. h - 1 : x \in Block(h, k, i)
  <2>1. Block(h, k, i) \in SUBSET (0 .. h - 1) /\ Block(h, k, i) # {}
    BY BlocksPartition
  <2> QED BY <2>1
<1>2. CASE TestSize(p, i) = Cardinality(Block(h, k, i))
  <2>1. IsFiniteSet(Block(h, k, i)) /\ Block(h, k, i) # {}
    <3>1. IsFiniteSet(0 .. h - 1)
      BY StampsOfAFrame
    <3>2. Block(h, k, i) \in SUBSET (0 .. h - 1)
      BY BlocksPartition
    <3>3. IsFiniteSet(Block(h, k, i))
      BY ONLY <3>1, <3>2, FS_Subset
    <3> QED BY <1>1, <3>3
  <2>2. Cardinality(Block(h, k, i)) # 0
    BY <2>1, FS_EmptySet
  <2>3. {r \in 0 .. h - 1 : p[r] = i} # {}
    <3>1. TestSize(p, i) = Cardinality({r \in 0 .. h - 1 : p[r] = i})
      BY DEF TestSize
    <3> QED BY <1>2, <2>2, <3>1, FS_EmptySet
  <2> QED BY <2>3
<1>3. CASE \A r \in DOMAIN p : r \in Block(h, k, p[r])
  <2>1. x \in Block(h, k, p[x]) /\ p[x] \in 0 .. k - 1
    BY <1>3
  <2>2. p[x] = i
    BY <1>1, <2>1, BlocksPartition
  <2> QED BY <2>2
<1> QED BY <1>2, <1>3

OfClass(label, c) == {r \in DOMAIN label : label[r] = c}
OfClassIn(p, i, label, c) == {r \in DOMAIN p : p[r] = i /\ label[r] = c}

\* If a class has a row for every fold, and folds differ by one row of it at
\* most, then it reaches every fold.
LEMMA AClassReachesEveryFold ==
  ASSUME NEW D, IsFiniteSet(D), NEW k \in Nat \ {0}, NEW p \in [D -> 0 .. k - 1],
         NEW label, DOMAIN label = D, NEW c, ~(Cardinality(OfClass(label, c)) < k),
         \A i, j \in 0 .. k - 1 :
           Cardinality(OfClassIn(p, i, label, c)) - Cardinality(OfClassIn(p, j, label, c)) <= 1,
         NEW j \in 0 .. k - 1
  PROVE  \E r \in D : p[r] = j
<1> SUFFICES ASSUME \A r \in D : p[r] # j PROVE FALSE
  OBVIOUS
<1>a. PICK R \in SUBSET D : R = {r \in D : label[r] = c}
  OBVIOUS
<1>b. R = OfClass(label, c)
  BY <1>a DEF OfClass
<1>1. Cardinality(OfClassIn(p, j, label, c)) = 0
  <2>1. OfClassIn(p, j, label, c) = {}
    BY DEF OfClassIn
  <2> QED BY <2>1, FS_EmptySet
<1>2. IsFiniteSet(R) /\ Cardinality(R) \in Nat
  BY FS_Subset, FS_CardinalityType
<1>3. ASSUME NEW r \in R, NEW s \in R, p[r] = p[s] PROVE r = s
  <2>1. PICK Q \in SUBSET R : Q = OfClassIn(p, p[r], label, c) /\ r \in Q /\ s \in Q
    BY <1>3, <1>a DEF OfClassIn
  <2>2. Cardinality(Q) <= 1
    <3>1. p[r] \in 0 .. k - 1
      OBVIOUS
    <3>2. Cardinality(Q) \in Nat
      BY <1>2, FS_Subset, FS_CardinalityType
    <3>3. Cardinality(Q) - 0 <= 1
      BY <1>1, <2>1, <3>1
    <3> QED BY <3>2, <3>3
  <2>3. IsFiniteSet(Q) /\ Cardinality(Q) \in Nat /\ Cardinality(Q) # 0
    BY <1>2, <2>1, FS_Subset, FS_CardinalityType, FS_EmptySet
  <2>4. Cardinality(Q) = 1
    BY <2>2, <2>3
  <2>5. PICK x : Q = {x}
    BY <2>3, <2>4, FS_Singleton
  <2> QED BY <2>1, <2>5
<1>4. PICK I : I = (0 .. k - 1) \ {j} /\ IsFiniteSet(I) /\ Cardinality(I) = k - 1
  <2>1. IsFiniteSet(0 .. k - 1) /\ Cardinality(0 .. k - 1) = k
    BY FirstNumbers
  <2>2. /\ IsFiniteSet((0 .. k - 1) \ {j})
        /\ Cardinality((0 .. k - 1) \ {j}) = Cardinality(0 .. k - 1) - 1
    BY <2>1, OneLess
  <2> QED BY <2>1, <2>2
<1>5. PICK g : g = [r \in R |-> p[r]]
  OBVIOUS
<1>6. g \in Injection(R, I)
  <2>1. g \in [R -> I]
    BY <1>4, <1>5
  <2>2. \A r, s \in R : g[r] = g[s] => r = s
    BY <1>3, <1>5
  <2> QED BY <2>1, <2>2 DEF Injection, IsInjective
<1>7. Cardinality(R) <= k - 1
  BY <1>4, <1>6, FS_Injection
<1> QED BY <1>2, <1>7, <1>b

\* The k-fold strategies.
LEMMA PartitionsTestEveryRow ==
  ASSUME NEW h \in Nat, NEW cv, NEW time, NEW column, IsTune(cv, time, column, h),
         cv.kind \in {"kfold", "stratified_kfold", "group_kfold"},
         NEW F \in Families(cv, time, column)
  PROVE  /\ Cardinality(F) = cv.n_splits
         /\ \A r \in DOMAIN time : Cardinality(Testing(F, r)) = 1
<1>1. /\ time \in Frames(h) /\ Height(time) = h /\ IsFiniteSet(0 .. h - 1)
      /\ DOMAIN time = 0 .. h - 1 /\ DOMAIN column = 0 .. h - 1
  BY StampsOfAFrame DEF IsTune
<1>2. cv.n_splits \in Int
  <2>1. \/ cv \in [kind : {"kfold", "stratified_kfold"}, n_splits : Int, shuffle : BOOLEAN]
        \/ cv \in [kind : {"group_kfold"}, n_splits : Int]
    BY DEF IsTune, CVConfigs
  <2> QED BY <2>1
<1>3. PICK k \in Nat \ {0} : k = cv.n_splits
  <2>1. cv.n_splits >= 2
    BY DEF Families, Accepted
  <2> QED BY <1>2, <2>1
<1>4. \E p \in [0 .. h - 1 -> 0 .. k - 1] :
        /\ F = FoldsOf(p, k)
        /\ \A i \in 0 .. k - 1 : \E r \in 0 .. h - 1 : p[r] = i
  <2>1. CASE cv.kind = "kfold"
    <3>1. F \in KFoldFamilies(cv, time)
      BY <2>1 DEF Families
    <3>2. PICK p :
            /\ p \in [0 .. h - 1 -> 0 .. k - 1] /\ F = FoldsOf(p, k) /\ k <= h
            /\ \/ \A i \in 0 .. k - 1 : TestSize(p, i) = Cardinality(Block(h, k, i))
               \/ \A r \in DOMAIN p : r \in Block(h, k, p[r])
      BY <1>1, <1>3, <3>1 DEF KFoldFamilies
    <3>3. ASSUME NEW i \in 0 .. k - 1 PROVE \E r \in 0 .. h - 1 : p[r] = i
      <4>1. time \in Frames(h)
        BY <1>1
      <4> QED BY ONLY h \in Nat, k \in Nat \ {0}, i \in 0 .. k - 1, <3>2, <4>1, EveryBlockIsTested
    <3> QED BY <3>2, <3>3
  <2>2. CASE cv.kind = "stratified_kfold"
    <3>1. F \in StratifiedFamilies(cv, column)
      BY <2>2 DEF Families
    <3>2. PICK p :
            /\ p \in [DOMAIN column -> 0 .. cv.n_splits - 1]
            /\ F = FoldsOf(p, cv.n_splits)
            /\ \A c \in {column[r] : r \in DOMAIN column}, i, j \in 0 .. cv.n_splits - 1 :
                 Cardinality({r \in DOMAIN p : p[r] = i /\ column[r] = c})
                   - Cardinality({r \in DOMAIN p : p[r] = j /\ column[r] = c}) <= 1
      BY <3>1 DEF StratifiedFamilies
    <3>3. p \in [0 .. h - 1 -> 0 .. k - 1] /\ DOMAIN p = 0 .. h - 1 /\ F = FoldsOf(p, k)
      BY <1>1, <1>3, <3>2
    <3>4. PICK c : /\ c \in {column[r] : r \in DOMAIN column}
                   /\ ~(Cardinality(OfClass(column, c)) < k)
      BY <1>3, <3>1 DEF StratifiedFamilies, OfClass
    <3>5. \A i, j \in 0 .. k - 1 :
            Cardinality(OfClassIn(p, i, column, c)) - Cardinality(OfClassIn(p, j, column, c)) <= 1
      BY <1>3, <3>2, <3>4 DEF OfClassIn
    <3>6. \A i \in 0 .. k - 1 : \E r \in 0 .. h - 1 : p[r] = i
      <4>1. PICK D : D = 0 .. h - 1 /\ IsFiniteSet(D) /\ DOMAIN column = D
        BY <1>1
      <4>2. /\ IsFiniteSet(D) /\ DOMAIN column = D /\ p \in [D -> 0 .. k - 1]
            /\ ~(Cardinality(OfClass(column, c)) < k)
        BY <3>3, <3>4, <4>1
      <4>3. \A i \in 0 .. k - 1 : \E r \in D : p[r] = i
        BY ONLY k \in Nat \ {0}, <3>5, <4>2, AClassReachesEveryFold
      <4> QED BY <4>1, <4>3
    <3> QED BY <3>3, <3>6
  <2>3. CASE cv.kind = "group_kfold"
    <3>1. F \in GroupFamilies(cv, column)
      BY <2>3 DEF Families
    <3>2. PICK p \in [0 .. h - 1 -> 0 .. k - 1] :
            F = FoldsOf(p, k) /\ \A i \in 0 .. k - 1 : TestSize(p, i) > 0
      BY <1>1, <1>3, <3>1 DEF GroupFamilies
    <3>3. ASSUME NEW i \in 0 .. k - 1 PROVE \E r \in 0 .. h - 1 : p[r] = i
      <4>1. TestSize(p, i) = Cardinality({r \in 0 .. h - 1 : p[r] = i})
        BY DEF TestSize
      <4>2. Cardinality({r \in 0 .. h - 1 : p[r] = i}) # 0
        BY <3>2, <4>1
      <4>3. {r \in 0 .. h - 1 : p[r] = i} # {}
        BY <4>2, FS_EmptySet
      <4> QED BY <4>3
    <3> QED BY <3>2, <3>3
  <2> QED BY <2>1, <2>2, <2>3
<1>5. PICK p :
        /\ p \in [0 .. h - 1 -> 0 .. k - 1]
        /\ F = FoldsOf(p, k)
        /\ \A i \in 0 .. k - 1 : \E r \in 0 .. h - 1 : p[r] = i
  BY <1>4
<1>6. /\ Cardinality(FoldsOf(p, k)) = k
      /\ \A r \in 0 .. h - 1 : Cardinality(Testing(FoldsOf(p, k), r)) = 1
  <2>1. PICK D : D = 0 .. h - 1
    OBVIOUS
  <2>2. IsFiniteSet(D) /\ p \in [D -> 0 .. k - 1] /\ k \in Nat \ {0}
        /\ \A i \in 0 .. k - 1 : \E r \in D : p[r] = i
    BY <1>1, <1>5, <2>1
  <2>3. /\ Cardinality(FoldsOf(p, k)) = k
        /\ \A r \in D : Cardinality(Testing(FoldsOf(p, k), r)) = 1
    BY ONLY <2>2, PartitionTestsOnce
  <2> QED BY <2>1, <2>3
<1> QED BY <1>1, <1>3, <1>5, <1>6

\* What is trained on and tested walking forward, by the number of the fold.
WalkBlocks(F, n, k, size, first, train) ==
  /\ size \in Nat \ {0} /\ first \in [0 .. k - 1 -> Nat]
  /\ train \in [0 .. k - 1 -> SUBSET Int]
  /\ F = {[train |-> train[i], test |-> first[i] .. first[i] + size - 1] : i \in 0 .. k - 1}
  /\ \A i \in 0 .. k - 1 : first[i] = n - (k - i) * size /\ train[i] # {}

\* The blocks tested walking forward: so many, as long as each other, one after
\* the other up to the last row.
LEMMA WalkForwardBlocks ==
  ASSUME NEW n \in Nat, NEW k \in Nat \ {0}, NEW gap \in Nat, NEW max \in Nat,
         NEW F \in WalkForward(n, k, gap, max)
  PROVE  \E size, first, train : WalkBlocks(F, n, k, size, first, train)
<1>1. PICK size \in Nat : size = n \div (k + 1) /\ k + 1 <= n /\ n - gap - k * size > 0
  <2>1. n \div (k + 1) \in Nat
    BY DivIsNatural, k + 1 \in Nat \ {0}
  <2>2. k + 1 <= n /\ n - gap - k * (n \div (k + 1)) > 0
    BY <2>1 DEF WalkForward
  <2> QED BY <2>1, <2>2
<1>2. size >= 1
  <2> SUFFICES ASSUME size = 0 PROVE FALSE
    OBVIOUS
  <2>1. PICK r \in 0 .. k : n = (k + 1) * size + r
    BY <1>1, DivMod, n \in Int, k + 1 \in Nat \ {0}
  <2> QED BY <1>1, <2>1
<1>3. PICK ks \in Nat : ks = k * size
  OBVIOUS
<1>4. ASSUME NEW i \in 0 .. k - 1
      PROVE  n - (k - i) * size \in Nat /\ n - (k - i) * size - gap > 0
  <2>1. (k - i) * size <= k * size
    BY Times, k - i \in Int
  <2>2. (k - i) * size \in Int
    OBVIOUS
  <2> QED BY <1>1, <1>3, <2>1, <2>2
<1>5. PICK first \in [0 .. k - 1 -> Nat] :
        first = [i \in 0 .. k - 1 |-> n - (k - i) * size]
  BY <1>4
<1>6. PICK begin : begin = [i \in 0 .. k - 1 |->
         IF max # 0 /\ max < first[i] - gap THEN first[i] - gap - max ELSE 0]
  OBVIOUS
<1>7. PICK train : train = [i \in 0 .. k - 1 |-> begin[i] .. first[i] - gap - 1]
  OBVIOUS
<1>8. ASSUME NEW i \in 0 .. k - 1
      PROVE  train[i] \in SUBSET Int /\ train[i] # {}
  <2>1. first[i] \in Nat /\ first[i] - gap > 0
    BY <1>4, <1>5
  <2>2. begin[i] \in Nat /\ begin[i] < first[i] - gap
    BY <1>6, <2>1
  <2>3. begin[i] \in train[i]
    BY <1>7, <2>1, <2>2
  <2> QED BY <1>7, <2>3
<1>9. train \in [0 .. k - 1 -> SUBSET Int]
  BY <1>7, <1>8
<1>10. F = {[train |-> train[i], test |-> first[i] .. first[i] + size - 1] : i \in 0 .. k - 1}
  <2>1. F = {[train |->
                (IF max # 0 /\ max < n - (k - i) * size - gap
                 THEN n - (k - i) * size - gap - max ELSE 0)
                   .. n - (k - i) * size - gap - 1,
              test |-> n - (k - i) * size .. n - (k - i) * size + size - 1] :
               i \in 0 .. k - 1}
    BY <1>1 DEF WalkForward
  <2>2. \A i \in 0 .. k - 1 :
          /\ first[i] = n - (k - i) * size
          /\ train[i] = (IF max # 0 /\ max < n - (k - i) * size - gap
                         THEN n - (k - i) * size - gap - max ELSE 0)
                           .. n - (k - i) * size - gap - 1
    BY <1>5, <1>6, <1>7
  <2> QED BY <2>1, <2>2
<1>11. WalkBlocks(F, n, k, size, first, train)
  <2>1. size \in Nat \ {0} /\ first \in [0 .. k - 1 -> Nat]
    BY <1>2
  <2>2. \A i \in 0 .. k - 1 : first[i] = n - (k - i) * size /\ train[i] # {}
    BY <1>5, <1>8
  <2> QED BY ONLY <1>9, <1>10, <2>1, <2>2 DEF WalkBlocks
<1> QED BY <1>11

LEMMA WalkForwardTestsInTurn ==
  ASSUME NEW n \in Nat, NEW k \in Nat \ {0}, NEW gap \in Nat, NEW max \in Nat,
         NEW F \in WalkForward(n, k, gap, max)
  PROVE  /\ Cardinality(F) = k
         /\ \A f, g \in F : f.test # g.test => f.test \cap g.test = {}
         /\ \A f, g \in F : Cardinality(f.test) = Cardinality(g.test)
         /\ \A r \in 0 .. n - 1, f \in F : \A s \in f.test :
              s < r => \E g \in F : r \in g.test
         /\ \A f \in F : f.train # {} /\ f.test # {}
<1>a. PICK size, first, train : WalkBlocks(F, n, k, size, first, train)
  BY WalkForwardBlocks
<1>1. /\ size \in Nat \ {0} /\ first \in [0 .. k - 1 -> Nat]
      /\ F = {[train |-> train[i], test |-> first[i] .. first[i] + size - 1] : i \in 0 .. k - 1}
      /\ \A i \in 0 .. k - 1 : first[i] = n - (k - i) * size /\ train[i] # {}
  BY <1>a DEF WalkBlocks
<1>b. size \in Nat \ {0}
  BY <1>1
<1>2. PICK fold : fold = [i \in 0 .. k - 1 |->
         [train |-> train[i], test |-> first[i] .. first[i] + size - 1]]
  OBVIOUS
<1>3. F = {fold[i] : i \in 0 .. k - 1}
  BY <1>1, <1>2
<1>4. ASSUME NEW i \in 0 .. k - 1
      PROVE  /\ fold[i] \in F /\ first[i] \in Nat
             /\ fold[i].train # {} /\ fold[i].test = first[i] .. first[i] + size - 1
             /\ first[i] \in fold[i].test /\ Cardinality(fold[i].test) = size
  <2>1. /\ fold[i] \in F /\ first[i] \in Nat
        /\ fold[i].train # {} /\ fold[i].test = first[i] .. first[i] + size - 1
    BY <1>1, <1>2, <1>3
  <2>2. PICK a \in Int, b \in Int : a = first[i] /\ b = first[i] + size - 1 /\ a <= b
    BY <1>b, <2>1
  <2>3. Cardinality(a .. b) = b - a + 1 /\ a \in a .. b
    <3>1. a <= b + 1 /\ a \in a .. b
      BY <2>2
    <3> QED BY ONLY <3>1, a \in Int, b \in Int, Counting
  <2>4. b - a + 1 = size
    BY <1>b, <2>1, <2>2
  <2> QED BY <2>1, <2>2, <2>3, <2>4
<1>5. ASSUME NEW i \in 0 .. k - 1, NEW j \in 0 .. k - 1, i < j
      PROVE  first[i] + size <= first[j]
  <2>1. (k - j + 1) * size <= (k - i) * size
    BY <1>b, <1>5, Times, k - j + 1 \in Int, k - i \in Int
  <2>2. (k - j + 1) * size = (k - j) * size + size
    BY <1>b
  <2>3. (k - j) * size \in Int /\ (k - i) * size \in Int
    BY <1>b
  <2>4. first[i] = n - (k - i) * size /\ first[j] = n - (k - j) * size
    BY <1>1
  <2> QED BY <1>b, <2>1, <2>2, <2>3, <2>4
<1>6. ASSUME NEW i \in 0 .. k - 1, NEW j \in 0 .. k - 1, i < j
      PROVE  fold[i].test \cap fold[j].test = {}
  <2>1. PICK a \in Nat, b \in Nat : a = first[i] /\ b = first[j] /\ a + size <= b
    BY <1>4, <1>5, <1>6
  <2>2. (a .. a + size - 1) \cap (b .. b + size - 1) = {}
    BY <1>b, <2>1
  <2> QED BY <1>4, <2>1, <2>2
<1>7. ASSUME NEW i \in 0 .. k - 1, NEW j \in 0 .. k - 1, i # j
      PROVE  fold[i].test \cap fold[j].test = {}
  <2>1. i < j \/ j < i
    BY <1>7
  <2> QED BY <1>6, <2>1
<1>8. Cardinality(F) = k
  <2>1. PICK I : I = 0 .. k - 1
    OBVIOUS
  <2>2. IsFiniteSet(I) /\ Cardinality(I) = k
    BY <2>1, FirstNumbers
  <2>3. /\ \A i \in I : fold[i] \in F
        /\ \A f \in F : \E i \in I : fold[i] = f
    BY <1>3, <2>1
  <2>4. \A i, j \in I : fold[i] = fold[j] => i = j
    <3>1. ASSUME NEW i \in 0 .. k - 1, NEW j \in 0 .. k - 1, fold[i] = fold[j], i # j
          PROVE  FALSE
      <4>1. fold[i].test \cap fold[j].test = {} /\ first[i] \in fold[i].test
        BY <1>4, <1>7, <3>1
      <4> QED BY <3>1, <4>1
    <3> QED BY <2>1, <3>1
  <2>5. IsFiniteSet(I)
    BY <2>2
  <2>6. Cardinality(F) = Cardinality(I)
    BY ONLY <2>3, <2>4, <2>5, PairedOff
  <2> QED BY <2>2, <2>6
<1>9. ASSUME NEW r \in 0 .. n - 1, NEW i \in 0 .. k - 1, NEW s \in fold[i].test, s < r
      PROVE  \E g \in F : r \in g.test
  <2>1. PICK S \in SUBSET (0 .. k - 1) : S = {j \in 0 .. k - 1 : first[j] <= r}
    OBVIOUS
  <2>2. i \in S
    <3>1. first[i] <= s /\ s \in Int /\ first[i] \in Nat
      <4>1. PICK a \in Nat : a = first[i] /\ s \in a .. a + size - 1
        BY <1>4
      <4> QED BY <1>b, <4>1
    <3> QED BY <1>9, <2>1, <3>1
  <2>3. PICK j \in S : \A l \in S : l <= j
    <3>1. IsFiniteSet(0 .. k - 1)
      BY FirstNumbers
    <3>2. IsFiniteSet(S)
      BY ONLY <3>1, S \in SUBSET (0 .. k - 1), FS_Subset
    <3>3. S \in SUBSET Int /\ S # {}
      BY <2>2
    <3> QED BY ONLY <3>2, <3>3, GreatestInteger
  <2>4. j \in 0 .. k - 1 /\ first[j] <= r /\ first[j] \in Nat /\ first[j] = n - (k - j) * size
    BY <1>1, <1>4, <2>1
  <2>a. PICK x \in Int, y \in Nat : x = (k - j) * size /\ y = first[j] /\ y = n - x
    BY <1>b, <2>4
  <2>5. r < y + size
    <3>1. CASE j = k - 1
      <4>1. (k - j) * size = size
        BY <1>b, <3>1
      <4> QED BY <1>b, <2>a, <4>1
    <3>2. CASE j < k - 1
      <4>1. PICK l \in 0 .. k - 1 : l = j + 1
        BY <2>4, <3>2
      <4>2. l \notin S
        BY <2>3, <2>4, <4>1
      <4>3. r < first[l] /\ first[l] \in Nat
        BY <1>4, <2>1, <4>2
      <4>4. first[l] = n - (k - l) * size
        BY <1>1
      <4>5. (k - j) * size = (k - l) * size + size /\ (k - l) * size \in Int
        BY <1>b, <2>4, <4>1
      <4>6. PICK z \in Int, w \in Nat : z = (k - l) * size /\ w = first[l] /\ w = n - z
        BY <4>3, <4>4, <4>5
      <4>7. x = z + size /\ r < w
        BY <2>a, <4>3, <4>5, <4>6
      <4> QED BY ONLY <1>b, <2>a, <4>6, <4>7, n \in Nat, r \in 0 .. n - 1
    <3> QED BY <2>4, <3>1, <3>2
  <2>6. r \in fold[j].test
    <3>1. fold[j].test = y .. y + size - 1 /\ y <= r
      BY <1>4, <2>4, <2>a
    <3> QED BY <1>b, <2>5, <3>1
  <2> QED BY <1>4, <2>4, <2>6
<1>10. \A f, g \in F : f.test # g.test => f.test \cap g.test = {}
  <2>1. \A i, j \in 0 .. k - 1 :
          fold[i].test # fold[j].test => fold[i].test \cap fold[j].test = {}
    BY <1>7
  <2> QED BY <1>3, <2>1
<1>11. \A f, g \in F : Cardinality(f.test) = Cardinality(g.test)
  <2>1. \A i \in 0 .. k - 1 : Cardinality(fold[i].test) = size
    BY <1>4
  <2> QED BY <1>3, <2>1
<1>12. \A f \in F : f.train # {} /\ f.test # {}
  <2>1. \A i \in 0 .. k - 1 : fold[i].train # {} /\ fold[i].test # {}
    BY <1>4
  <2> QED BY <1>3, <2>1
<1>13. \A r \in 0 .. n - 1, f \in F : \A s \in f.test :
              s < r => \E g \in F : r \in g.test
  BY <1>3, <1>9
<1> QED BY <1>8, <1>10, <1>11, <1>12, <1>13

\* Any `tests` of k blocks: so many folds, each with a test of its own, and
\* every position in as many tests.
LEMMA CombinatorialTests ==
  ASSUME NEW k \in Nat \ {0}, NEW n \in Nat, k <= n, NEW tests \in 1 .. k,
         NEW purge, NEW embargo, NEW C, C = Combinatorial(n, k, tests, purge, embargo)
  PROVE  /\ IsFiniteSet(C) /\ Cardinality(C) = Binomial(k, tests)
         /\ \A p \in 0 .. n - 1 : Cardinality(Testing(C, p)) = Binomial(k - 1, tests - 1)
         /\ \A f, g \in C : f.test = g.test => f = g
         /\ \A f \in C : f.test \in SUBSET (0 .. n - 1)
<1>1. PICK I : I = 0 .. k - 1
  OBVIOUS
<1>2. IsFiniteSet(I) /\ Cardinality(I) = k
  BY <1>1, FirstNumbers
<1>3. PICK X : X = SubsetsOfSize(I, tests)
  OBVIOUS
<1>4. IsFiniteSet(X)
  BY <1>2, <1>3, SubsetsAreFinite
<1>5. PICK block : block = [i \in I |-> Block(n, k, i)]
  OBVIOUS
<1>6. /\ \A i \in I : block[i] \in SUBSET (0 .. n - 1) /\ block[i] # {}
      /\ \A i, j \in I : i # j => block[i] \cap block[j] = {}
      /\ \A p \in 0 .. n - 1 : \E i \in I : p \in block[i]
  BY <1>1, <1>5, BlocksPartition
<1>7. PICK g : g = [T \in X |->
         LET test == UNION {Block(n, k, i) : i \in T}
         IN  [train |-> {p \in (0 .. n - 1) \ test :
                           \A t \in test : p < t - purge \/ p > t + purge + embargo},
              test |-> test]]
  OBVIOUS
<1>8. C = {g[T] : T \in X}
  <2>1. X = {S \in SUBSET (0 .. k - 1) : Cardinality(S) = tests}
    BY <1>1, <1>3 DEF SubsetsOfSize
  <2> QED BY <1>7, <2>1 DEF Combinatorial
<1>9. ASSUME NEW T \in X
      PROVE  /\ T \in SUBSET I /\ g[T].test \in SUBSET (0 .. n - 1)
             /\ \A i \in I : \A p \in block[i] : p \in g[T].test <=> i \in T
  <2>1. T \in SUBSET I
    BY <1>3 DEF SubsetsOfSize
  <2>2. g[T].test = UNION {Block(n, k, i) : i \in T}
    BY <1>7
  <2>3. \A p : p \in g[T].test <=> \E i \in T : p \in block[i]
    BY <1>5, <2>1, <2>2
  <2>4. \A i \in I : \A p \in block[i] : p \in g[T].test <=> i \in T
    BY <1>6, <2>1, <2>3
  <2>5. g[T].test \in SUBSET (0 .. n - 1)
    BY <1>6, <2>1, <2>3
  <2> QED BY <2>1, <2>4, <2>5
<1>10. ASSUME NEW S \in X, NEW T \in X, g[S].test = g[T].test PROVE S = T
  <2>1. \A i \in I : i \in S <=> i \in T
    <3>1. ASSUME NEW i \in I PROVE i \in S <=> i \in T
      <4>1. PICK p \in block[i] : TRUE
        BY <1>6
      <4> QED BY <1>9, <1>10, <4>1
    <3> QED BY <3>1
  <2>2. S \in SUBSET I /\ T \in SUBSET I
    BY <1>9
  <2> QED BY <2>1, <2>2
<1>11. IsFiniteSet(C) /\ Cardinality(C) = Cardinality(X)
  <2>1. /\ \A T \in X : g[T] \in C
        /\ \A f \in C : \E T \in X : g[T] = f
        /\ \A S, T \in X : g[S] = g[T] => S = T
    BY <1>8, <1>10
  <2> QED BY ONLY <1>4, <2>1, PairedOff
<1>12. Cardinality(X) = Binomial(k, tests)
  <2>1. IsFiniteSet(1 .. k) /\ Cardinality(1 .. k) = k
    BY FS_Interval, 1 \in Int, k \in Int
  <2>2. Cardinality(SubsetsOfSize(I, tests)) = Cardinality(SubsetsOfSize(1 .. k, tests))
    BY <1>2, <2>1, SameManySubsets
  <2> QED BY <1>3, <2>2 DEF Binomial, SubsetsOfSize
<1>13. ASSUME NEW p \in 0 .. n - 1
       PROVE  Cardinality(Testing(C, p)) = Binomial(k - 1, tests - 1)
  <2>1. PICK i \in I : p \in block[i]
    BY <1>6
  <2>2. PICK Y \in SUBSET X : Y = {T \in SubsetsOfSize(I, tests) : i \in T}
    BY <1>3
  <2>3. Cardinality(Y) = Binomial(k - 1, tests - 1)
    <3>1. k \in Nat /\ tests \in Nat \ {0}
      OBVIOUS
    <3> QED BY <1>2, <2>2, <3>1, SubsetsWithMember
  <2>4. PICK Z : Z = Testing(C, p)
    OBVIOUS
  <2>5. \A T \in X : T \in Y <=> p \in g[T].test
    BY <1>3, <1>9, <2>1, <2>2
  <2>6. /\ \A T \in Y : g[T] \in Z
        /\ \A f \in Z : \E T \in Y : g[T] = f
        /\ \A S, T \in Y : g[S] = g[T] => S = T
    BY <1>8, <1>10, <2>4, <2>5 DEF Testing
  <2>7. IsFiniteSet(Y)
    BY <1>4, FS_Subset
  <2>8. Cardinality(Z) = Cardinality(Y)
    BY ONLY <2>6, <2>7, PairedOff
  <2> QED BY <2>3, <2>4, <2>8
<1>14. \A f, h \in C : f.test = h.test => f = h
  BY <1>8, <1>10
<1>15. \A f \in C : f.test \in SUBSET (0 .. n - 1)
  BY <1>8, <1>9
<1> QED BY <1>11, <1>12, <1>13, <1>14, <1>15

\* The numbers of the stamps are 0 .. n-1.
LEMMA StampsAreNumbered ==
  ASSUME NEW h \in Nat, NEW time \in Frames(h), NEW n \in Nat,
         n = Cardinality(Stamps(time))
  PROVE  /\ \A r \in 0 .. h - 1 : IndexOf(time, r) \in 0 .. n - 1
         /\ \A p \in 0 .. n - 1 : \E r \in 0 .. h - 1 : IndexOf(time, r) = p
<1>1. PICK U : U = Stamps(time) /\ U \in SUBSET Int /\ IsFiniteSet(U) /\ Cardinality(U) = n
  BY StampsOfAFrame
<1>2. U = {time[r] : r \in 0 .. h - 1}
  BY <1>1, StampsOfAFrame DEF Stamps
<1>3. PICK below : below = [u \in U |-> {w \in U : w < u}]
  OBVIOUS
<1>4. PICK rank : rank = [u \in U |-> Cardinality(below[u])]
  OBVIOUS
<1>5. ASSUME NEW u \in U
      PROVE  IsFiniteSet(below[u]) /\ rank[u] \in 0 .. n - 1
  <2>1. below[u] \in SUBSET U /\ u \notin below[u] /\ u \in Int
    BY <1>1, <1>3
  <2>2. /\ IsFiniteSet(below[u]) /\ Cardinality(below[u]) \in Nat
        /\ Cardinality(below[u]) < Cardinality(U)
    BY <1>1, <2>1, Fewer
  <2> QED BY <1>1, <1>4, <2>2
<1>6. ASSUME NEW u \in U, NEW w \in U, u < w PROVE rank[u] # rank[w]
  <2>0. /\ u \in Int /\ w \in Int /\ \A v \in U : v \in Int
        /\ below[u] = {v \in U : v < u} /\ below[w] = {v \in U : v < w}
    BY <1>1, <1>3
  <2>1. ASSUME NEW v \in below[u] PROVE v \in below[w]
    <3>1. v \in U /\ v \in Int /\ v < u
      BY <2>0
    <3>2. v < w
      BY <1>6, <2>0, <3>1
    <3> QED BY <2>0, <3>1, <3>2
  <2>2. u \in below[w] /\ u \notin below[u]
    BY <1>6, <2>0
  <2>3. Cardinality(below[u]) < Cardinality(below[w])
    BY <1>5, <2>1, <2>2, Fewer
  <2>4. Cardinality(below[u]) \in Nat /\ Cardinality(below[w]) \in Nat
    BY <1>5, FS_CardinalityType
  <2> QED BY <1>4, <2>3, <2>4
<1>7. rank \in Surjection(U, 0 .. n - 1)
  <2>1. rank \in [U -> 0 .. n - 1]
    BY <1>4, <1>5
  <2>2. \A u, w \in U : rank[u] = rank[w] => u = w
    <3>1. ASSUME NEW u \in U, NEW w \in U, u # w PROVE rank[u] # rank[w]
      <4>1. u < w \/ w < u
        BY <1>1, <3>1
      <4> QED BY <1>6, <4>1
    <3> QED BY <3>1
  <2>3. rank \in Injection(U, 0 .. n - 1)
    BY <2>1, <2>2 DEF Injection, IsInjective
  <2>4. IsFiniteSet(0 .. n - 1) /\ Cardinality(0 .. n - 1) = Cardinality(U)
    BY <1>1, FirstNumbers
  <2> QED BY <2>3, <2>4, FS_Injection
<1>8. \A r \in 0 .. h - 1 : time[r] \in U /\ IndexOf(time, r) = rank[time[r]]
  BY <1>1, <1>2, <1>3, <1>4 DEF IndexOf
<1>9. \A p \in 0 .. n - 1 : \E u \in U : rank[u] = p
  BY <1>7 DEF Surjection
<1> QED BY <1>2, <1>5, <1>8, <1>9

\* Folds over timestamps as folds over rows.
ByRow(time, C) ==
  {[train |-> {r \in DOMAIN time : IndexOf(time, r) \in f.train},
    test |-> {r \in DOMAIN time : IndexOf(time, r) \in f.test}] : f \in C}

LEMMA PanelTests ==
  ASSUME NEW h \in Nat, NEW time \in Frames(h), NEW n \in Nat,
         n = Cardinality(Stamps(time)),
         NEW C, IsFiniteSet(C), \A f, g \in C : f.test = g.test => f = g,
         \A f \in C : f.test \in SUBSET (0 .. n - 1),
         NEW F, F = ByRow(time, C)
  PROVE  /\ Cardinality(F) = Cardinality(C)
         /\ \A r \in 0 .. h - 1 : /\ IndexOf(time, r) \in 0 .. n - 1
                                  /\ Cardinality(Testing(F, r))
                                       = Cardinality(Testing(C, IndexOf(time, r)))
<1>1. PICK g : g = [f \in C |-> [train |-> {r \in 0 .. h - 1 : IndexOf(time, r) \in f.train},
                                 test |-> {r \in 0 .. h - 1 : IndexOf(time, r) \in f.test}]]
  OBVIOUS
<1>2. F = {g[f] : f \in C}
  BY <1>1, StampsOfAFrame DEF ByRow
<1>3. \A f \in C : \A r \in 0 .. h - 1 : r \in g[f].test <=> IndexOf(time, r) \in f.test
  BY <1>1
<1>4. ASSUME NEW e \in C, NEW f \in C, g[e] = g[f] PROVE e = f
  <2>1. ASSUME NEW p \in 0 .. n - 1 PROVE p \in e.test <=> p \in f.test
    <3>1. PICK r \in 0 .. h - 1 : IndexOf(time, r) = p
      BY StampsAreNumbered
    <3> QED BY <1>3, <1>4, <3>1
  <2>2. e.test = f.test
    BY <2>1
  <2> QED BY <2>2
<1>5. Cardinality(F) = Cardinality(C)
  <2>1. /\ IsFiniteSet(C) /\ \A f \in C : g[f] \in F
        /\ \A e \in F : \E f \in C : g[f] = e
        /\ \A e, f \in C : g[e] = g[f] => e = f
    BY <1>2, <1>4
  <2> QED BY ONLY <2>1, PairedOff
<1>6. ASSUME NEW r \in 0 .. h - 1
      PROVE  Cardinality(Testing(F, r)) = Cardinality(Testing(C, IndexOf(time, r)))
  <2>1. PICK Y \in SUBSET C : Y = Testing(C, IndexOf(time, r))
    BY DEF Testing
  <2>2. PICK Z : Z = Testing(F, r)
    OBVIOUS
  <2>3. \A f \in C : f \in Y <=> r \in g[f].test
    BY <1>3, <2>1 DEF Testing
  <2>4. \A e : e \in Z <=> e \in F /\ r \in e.test
    BY <2>2 DEF Testing
  <2>5. /\ \A f \in Y : g[f] \in Z
        /\ \A e \in Z : \E f \in Y : g[f] = e
        /\ \A e, f \in Y : g[e] = g[f] => e = f
    BY <1>2, <1>4, <2>3, <2>4
  <2>6. IsFiniteSet(Y)
    BY FS_Subset
  <2>7. Cardinality(Z) = Cardinality(Y)
    BY ONLY <2>5, <2>6, PairedOff
  <2> QED BY <2>1, <2>2, <2>7
<1>7. \A r \in 0 .. h - 1 : IndexOf(time, r) \in 0 .. n - 1
  BY StampsAreNumbered
<1> QED BY <1>5, <1>6, <1>7

LEMMA EveryFamilyTestsEveryRow ==
  ASSUME NEW h \in Nat, NEW cv, NEW time, NEW column, IsTune(cv, time, column, h),
         NEW F \in Families(cv, time, column)
  PROVE  /\ Cardinality(F) = NSplits(cv)
         /\ cv.kind \in {"kfold", "stratified_kfold", "group_kfold"} =>
              \A r \in DOMAIN time : Cardinality(Testing(F, r)) = 1
         /\ cv.kind \in {"cpcv", "panel_cpcv"} =>
              \A r \in DOMAIN time : Cardinality(Testing(F, r))
                                       = Binomial(cv.n_folds - 1, cv.n_test_folds - 1)
         /\ cv.kind = "time_series" =>
              /\ \A f, g \in F : f.test # g.test => f.test \cap g.test = {}
              /\ \A f, g \in F : Cardinality(f.test) = Cardinality(g.test)
              /\ \A r \in DOMAIN time, f \in F : \A s \in f.test :
                   s < r => \E g \in F : r \in g.test
              /\ \A f \in F : f.train # {} /\ f.test # {}
<1>1. /\ time \in Frames(h) /\ Height(time) = h /\ DOMAIN time = 0 .. h - 1
      /\ IsFiniteSet(Stamps(time)) /\ Cardinality(Stamps(time)) \in Nat
  BY StampsOfAFrame DEF IsTune
<1>2. CASE cv.kind \in {"kfold", "stratified_kfold", "group_kfold"}
  <2>1. /\ Cardinality(F) = cv.n_splits
        /\ \A r \in DOMAIN time : Cardinality(Testing(F, r)) = 1
    BY <1>2, PartitionsTestEveryRow
  <2> QED BY <1>2, <2>1 DEF NSplits
<1>3. CASE cv.kind = "time_series"
  <2>1. /\ cv.n_splits \in Int /\ cv.gap \in Nat /\ cv.max_train_size \in Nat
        /\ cv.embargo_time \in Nat /\ cv.embargo \in {"none", "rows", "time"}
    <3>1. cv \in [kind : {"time_series"}, n_splits : Int, gap : Nat, max_train_size : Nat,
                  embargo : {"none", "rows", "time"}, embargo_time : Nat]
      BY <1>3 DEF IsTune, CVConfigs
    <3> QED BY <3>1
  <2>2. PICK gap \in Nat : gap = EffectiveGap(cv, time)
    BY <1>1, <2>1, EmbargoIsNatural DEF EffectiveGap
  <2>3. Accepted(cv) /\ F \in TimeSeriesFamilies(cv, time)
    BY <1>3 DEF Families
  <2>4. PICK k \in Nat \ {0}, max \in Nat :
          k = cv.n_splits /\ max = cv.max_train_size /\ F \in WalkForward(h, k, gap, max)
    BY <1>1, <1>3, <2>1, <2>2, <2>3 DEF TimeSeriesFamilies, Accepted
  <2>5. /\ Cardinality(F) = k
        /\ \A f, g \in F : f.test # g.test => f.test \cap g.test = {}
        /\ \A f, g \in F : Cardinality(f.test) = Cardinality(g.test)
        /\ \A r \in 0 .. h - 1, f \in F : \A s \in f.test :
             s < r => \E g \in F : r \in g.test
        /\ \A f \in F : f.train # {} /\ f.test # {}
    BY <2>4, WalkForwardTestsInTurn
  <2> QED BY <1>1, <1>3, <2>4, <2>5 DEF NSplits
<1>4. ASSUME cv.kind \in {"cpcv", "panel_cpcv"}
      PROVE  \E k \in Nat \ {0} :
               k = cv.n_folds /\ cv.n_test_folds \in 1 .. k
  <2>1. /\ cv.n_folds \in Nat /\ cv.n_test_folds \in 1 .. cv.n_folds
    <3>1. \/ cv \in [kind : {"cpcv"}, n_folds : Nat, n_test_folds : Nat, purged_size : Nat,
                     embargo_size : Nat, target_horizon_bars : Nat, embargo_pct : Nat]
          \/ cv \in [kind : {"panel_cpcv"}, n_folds : Nat, n_test_folds : Nat,
                     target_horizon_bars : Nat, embargo_pct : Nat]
      BY <1>4 DEF IsTune, CVConfigs
    <3> QED BY <1>4, <3>1 DEF IsTune
  <2> QED BY <2>1
<1>5. CASE cv.kind = "cpcv"
  <2>a. PICK k \in Nat \ {0} : k = cv.n_folds /\ cv.n_test_folds \in 1 .. k
    BY <1>4, <1>5
  <2>1. PICK tests \in 1 .. k : k = cv.n_folds /\ tests = cv.n_test_folds
    BY <2>a
  <2>2. F \in CpcvFamilies(cv, time)
    BY <1>5 DEF Families
  <2>3. PICK purge, embargo : F = Combinatorial(h, k, tests, purge, embargo) /\ ~(h < k)
    BY <1>1, <2>1, <2>2 DEF CpcvFamilies
  <2>4. k <= h
    BY <2>3
  <2>5. /\ Cardinality(F) = Binomial(k, tests)
        /\ \A p \in 0 .. h - 1 : Cardinality(Testing(F, p)) = Binomial(k - 1, tests - 1)
    <3>1. k \in Nat \ {0} /\ h \in Nat /\ tests \in 1 .. k
      OBVIOUS
    <3> QED BY ONLY <2>3, <2>4, <3>1, CombinatorialTests
  <2> QED BY <1>1, <1>5, <2>1, <2>5 DEF NSplits
<1>6. CASE cv.kind = "panel_cpcv"
  <2>a. PICK k \in Nat \ {0} : k = cv.n_folds /\ cv.n_test_folds \in 1 .. k
    BY <1>4, <1>6
  <2>1. PICK tests \in 1 .. k : k = cv.n_folds /\ tests = cv.n_test_folds
    BY <2>a
  <2>2. PICK n \in Nat : n = Cardinality(Stamps(time))
    BY <1>1
  <2>3. F \in PanelFamilies(cv, time)
    BY <1>6 DEF Families
  <2>4. PICK purge, embargo, C :
          /\ C = Combinatorial(n, k, tests, purge, embargo) /\ ~(n < k)
          /\ F = ByRow(time, C)
    BY <2>1, <2>2, <2>3 DEF PanelFamilies, ByRow
  <2>5. k <= n
    BY <2>4
  <2>6. /\ IsFiniteSet(C) /\ Cardinality(C) = Binomial(k, tests)
        /\ \A p \in 0 .. n - 1 : Cardinality(Testing(C, p)) = Binomial(k - 1, tests - 1)
        /\ \A f, g \in C : f.test = g.test => f = g
        /\ \A f \in C : f.test \in SUBSET (0 .. n - 1)
    <3>1. k \in Nat \ {0} /\ n \in Nat /\ tests \in 1 .. k
      OBVIOUS
    <3> QED BY ONLY <2>4, <2>5, <3>1, CombinatorialTests
  <2>7. /\ Cardinality(F) = Cardinality(C)
        /\ \A r \in 0 .. h - 1 : /\ IndexOf(time, r) \in 0 .. n - 1
                                 /\ Cardinality(Testing(F, r))
                                      = Cardinality(Testing(C, IndexOf(time, r)))
    <3>1. time \in Frames(h) /\ n \in Nat /\ h \in Nat
      BY <1>1
    <3> QED BY ONLY <3>1, <2>2, <2>4, <2>6, PanelTests
  <2> QED BY <1>1, <1>6, <2>1, <2>6, <2>7 DEF NSplits
<1>7. cv.kind \in {"kfold", "stratified_kfold", "group_kfold",
                   "time_series", "cpcv", "panel_cpcv"}
  BY DEF IsTune, CVConfigs
<1> QED BY <1>2, <1>3, <1>5, <1>6, <1>7

\* data/cv.py, get_n_splits and split: as many folds as are announced, and every
\* row tested as often as every other (walking forward: once, and from the first
\* tested row to the last of the frame), for frames of any height and
\* configurations of any size.
THEOREM RowsHaveTheirTurn == Spec => []EveryRowIsTested
<1>1. FoldInv => EveryRowIsTested
  <2> SUFFICES ASSUME FoldInv, pc = "folds" PROVE EveryRowIsTested
    BY DEF EveryRowIsTested
  <2>1. PICK h, cv, time, column :
          /\ h \in Nat
          /\ cv = job.cv /\ time = job.time /\ column = job.column
          /\ IsTune(cv, time, column, h) /\ folds \in Families(cv, time, column)
    BY DEF FoldInv
  <2>2. PICK F \in Families(cv, time, column) : F = folds
    BY <2>1
  <2>3. /\ Cardinality(F) = NSplits(cv)
        /\ cv.kind \in {"kfold", "stratified_kfold", "group_kfold"} =>
             \A r \in DOMAIN time : Cardinality(Testing(F, r)) = 1
        /\ cv.kind \in {"cpcv", "panel_cpcv"} =>
             \A r \in DOMAIN time : Cardinality(Testing(F, r))
                                      = Binomial(cv.n_folds - 1, cv.n_test_folds - 1)
        /\ cv.kind = "time_series" =>
             /\ \A f, g \in F : f.test # g.test => f.test \cap g.test = {}
             /\ \A f, g \in F : Cardinality(f.test) = Cardinality(g.test)
             /\ \A r \in DOMAIN time, f \in F : \A s \in f.test :
                  s < r => \E g \in F : r \in g.test
             /\ \A f \in F : f.train # {} /\ f.test # {}
    BY <2>1, EveryFamilyTestsEveryRow
  <2>4. cv.kind \in {"kfold", "stratified_kfold", "group_kfold",
                     "time_series", "cpcv", "panel_cpcv"}
    BY <2>1 DEF IsTune, CVConfigs
  <2>5. \A r : TestedIn(r) = Cardinality(Testing(F, r))
    BY <2>2 DEF TestedIn, Testing
  <2>6. Rows = DOMAIN time /\ Tests = {f.test : f \in F}
    BY <2>1, <2>2 DEF Rows, Tests
  <2>7. ASSUME cv.kind = "time_series"
        PROVE  /\ \A S, T \in Tests : S # T => S \cap T = {}
               /\ \A S, T \in Tests : Cardinality(S) = Cardinality(T)
               /\ \A r \in Rows, s \in UNION Tests : s < r => r \in UNION Tests
               /\ \A f \in folds : f.train # {} /\ f.test # {}
    <3>1. /\ \A S, T \in Tests : S # T => S \cap T = {}
          /\ \A S, T \in Tests : Cardinality(S) = Cardinality(T)
      BY <2>3, <2>6, <2>7
    <3>2. ASSUME NEW r \in Rows, NEW s \in UNION Tests, s < r PROVE r \in UNION Tests
      <4>1. PICK f \in F : s \in f.test
        BY <2>6
      <4>2. PICK g \in F : r \in g.test
        BY <2>3, <2>6, <2>7, <3>2, <4>1
      <4> QED BY <2>6, <4>2
    <3>3. \A f \in folds : f.train # {} /\ f.test # {}
      BY <2>2, <2>3, <2>7
    <3> QED BY <3>1, <3>2, <3>3
  <2>8. CASE cv.kind = "time_series"
    BY <2>1, <2>2, <2>3, <2>7, <2>8 DEF EveryRowIsTested
  <2>9. CASE cv.kind \in {"cpcv", "panel_cpcv"}
    BY <2>1, <2>2, <2>3, <2>5, <2>6, <2>9 DEF EveryRowIsTested
  <2>10. CASE cv.kind \in {"kfold", "stratified_kfold", "group_kfold"}
    BY <2>1, <2>2, <2>3, <2>5, <2>6, <2>10 DEF EveryRowIsTested
  <2> QED BY <2>4, <2>8, <2>9, <2>10
<1> QED BY FoldsBegin, FoldsGoOn, <1>1, PTL DEF Spec

===============================================================================
