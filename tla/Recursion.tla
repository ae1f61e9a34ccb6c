----------------------------- MODULE Recursion -----------------------------
(***************************************************************************)
(* What the proofs about loops rest on: induction over numbers, for sets   *)
(* instead of predicates, and the existence of the functions that a loop   *)
(* defines recursively.  All of it follows from the least-number           *)
(* principle, which WellFoundedInduction states without an operator as a   *)
(* parameter.                                                              *)
(***************************************************************************)
EXTENDS Integers, Sequences, SequencesExt, SequenceTheorems, WellFoundedInduction, TLAPS
-----------------------------------------------------------------------------
(* Least and greatest elements.                                            *)

\* Every set of naturals that is not empty has a least element.
LEMMA LeastElement ==
  ASSUME NEW T \in SUBSET Nat, T # {}
  PROVE  \E x \in T : \A y \in T : x <= y
<1>1. PICK R : IsWellFoundedOn(R, Nat) /\ \A x, y \in Nat : y < x => <<y, x>> \in R
  <2>1. \A x, y \in Nat : y < x => <<y, x>> \in OpToRel(<, Nat)
    BY DEF OpToRel
  <2> QED
    BY <2>1, NatLessThanWellFounded
<1>2. PICK x \in T : \A y \in T : ~ (<<y, x>> \in R)
  BY <1>1, WFMin
<1>3. ASSUME NEW y \in T PROVE x <= y
  <2>1. x \in Nat /\ y \in Nat
    OBVIOUS
  <2>2. ~ (y < x)
    BY <1>1, <1>2, <2>1
  <2> QED
    BY <2>1, <2>2
<1> QED
  BY <1>3

\* Every set of numbers up to n that is not empty has a greatest element.
LEMMA GreatestElement ==
  ASSUME NEW n \in Nat, NEW T \in SUBSET (0 .. n), T # {}
  PROVE  \E x \in T : \A y \in T : y <= x
<1> DEFINE U == {n - x : x \in T}
<1>1. PICK u \in U : \A v \in U : u <= v
  <2>1. \A x \in T : x \in 0 .. n
    OBVIOUS
  <2>2. U \in SUBSET Nat
    BY <2>1
  <2>3. U # {}
    OBVIOUS
  <2> HIDE DEF U
  <2> QED
    BY <2>2, <2>3, LeastElement
<1>2. PICK x \in T : u = n - x
  OBVIOUS
<1>3. \A y \in T : n - y \in U
  OBVIOUS
<1> QED
  BY <1>1, <1>2, <1>3
-----------------------------------------------------------------------------
(* Induction: upwards, downwards, and from all greater numbers.            *)

\* A set that has 0 and with each i below n also i + 1 has all numbers up to n.
LEMMA UpwardInduction ==
  ASSUME NEW n \in Nat, NEW S, 0 \in S, \A i \in 0 .. n - 1 : i \in S => i + 1 \in S
  PROVE  \A i \in 0 .. n : i \in S
<1> DEFINE T == (0 .. n) \ S
<1> SUFFICES ASSUME T # {} PROVE FALSE
  OBVIOUS
<1>1. PICK x \in T : \A y \in T : x <= y
  <2>1. T \in SUBSET Nat
    OBVIOUS
  <2> HIDE DEF T
  <2> QED
    BY <2>1, LeastElement
<1>2. x - 1 \in 0 .. n - 1 /\ x - 1 \notin T
  BY <1>1
<1> QED
  BY <1>2

\* A set that has n and with each i above 0 also i - 1 has all numbers down to 0.
LEMMA DownwardInduction ==
  ASSUME NEW n \in Nat, NEW S, n \in S, \A i \in 1 .. n : i \in S => i - 1 \in S
  PROVE  \A i \in 0 .. n : i \in S
<1> DEFINE T == (0 .. n) \ S
<1> SUFFICES ASSUME T # {} PROVE FALSE
  OBVIOUS
<1>1. PICK x \in T : \A y \in T : y <= x
  <2>1. T \in SUBSET (0 .. n)
    OBVIOUS
  <2> HIDE DEF T
  <2> QED
    BY <2>1, GreatestElement
<1>2. x + 1 \in 1 .. n /\ x + 1 \notin T
  BY <1>1
<1> QED
  BY <1>2

\* A set that has a number when it has all greater ones has all numbers up to n.
LEMMA InductionFromAbove ==
  ASSUME NEW n \in Nat, NEW S,
         \A i \in 1 .. n : (\A j \in i + 1 .. n : j \in S) => i \in S
  PROVE  \A i \in 1 .. n : i \in S
<1> DEFINE T == (1 .. n) \ S
<1> SUFFICES ASSUME T # {} PROVE FALSE
  OBVIOUS
<1>1. PICK x \in T : \A y \in T : y <= x
  <2>1. T \in SUBSET (0 .. n)
    OBVIOUS
  <2> HIDE DEF T
  <2> QED
    BY <2>1, GreatestElement
<1> QED
  BY <1>1
-----------------------------------------------------------------------------
(* Functions defined by recursion.                                         *)

\* The rounds of a loop that starts with c and makes step[i][v] of v in round i.
Steps(n, V) == [1 .. n -> [V -> V]]

Loops(n, V, c, step) ==
  {g \in [0 .. n -> V] : g[0] = c /\ \A i \in 1 .. n : g[i] = step[i][g[i - 1]]}

\* A loop of n rounds has a value after each round.
LEMMA LoopExists ==
  ASSUME NEW n \in Nat, NEW V, NEW c \in V, NEW step \in Steps(n, V)
  PROVE  Loops(n, V, c, step) # {}
<1> USE DEF Steps
<1> SUFFICES \E g \in [0 .. n -> V] :
               g[0] = c /\ \A i \in 1 .. n : g[i] = step[i][g[i - 1]]
  BY DEF Loops
<1> DEFINE Rounds(g, k) == g[0] = c /\ \A i \in 1 .. k : g[i] = step[i][g[i - 1]]
           T == {k \in 0 .. n : \E g \in [0 .. k -> V] : Rounds(g, k)}
<1>1. 0 \in T
  <2> DEFINE h == [i \in 0 .. 0 |-> c]
  <2>1. h \in [0 .. 0 -> V] /\ Rounds(h, 0)
    OBVIOUS
  <2>2. \E g \in [0 .. 0 -> V] : Rounds(g, 0)
    <3> HIDE DEF h, Rounds
    <3> QED
      BY <2>1
  <2> QED
    BY <2>2
<1>2. ASSUME NEW k \in 0 .. n - 1, k \in T PROVE k + 1 \in T
  <2>1. PICK g \in [0 .. k -> V] : Rounds(g, k)
    BY <1>2
  <2> DEFINE h == [i \in 0 .. k + 1 |-> IF i <= k THEN g[i] ELSE step[k + 1][g[k]]]
  <2>2. g[k] \in V /\ step[k + 1] \in [V -> V]
    OBVIOUS
  <2>3. h \in [0 .. k + 1 -> V]
    BY <2>2
  <2>4. h[0] = c
    BY <2>1
  <2>5. ASSUME NEW i \in 1 .. k + 1 PROVE h[i] = step[i][h[i - 1]]
    <3>1. CASE i <= k
      BY <2>1, <3>1
    <3>2. CASE i = k + 1
      BY <2>1, <3>2
    <3> QED
      BY <3>1, <3>2
  <2>6. Rounds(h, k + 1)
    BY <2>4, <2>5
  <2>7. \E f \in [0 .. k + 1 -> V] : Rounds(f, k + 1)
    <3> HIDE DEF h, Rounds
    <3> QED
      BY <2>3, <2>6
  <2> QED
    BY <2>7
<1>3. n \in T
  <2>1. \A k \in 0 .. n - 1 : k \in T => k + 1 \in T
    BY <1>2
  <2>2. \A k \in 0 .. n : k \in T
    <3> HIDE DEF T
    <3> QED
      BY <1>1, <2>1, UpwardInduction
  <2> QED
    BY <2>2
<1> QED
  BY <1>3

\* What a scan yields from each of its n + 1 positions, if at position i it adds
\* piece[i] and goes on at the greater position next[i].
Pieces(n, X) == [1 .. n -> Seq(X)]

Forward(n) == {next \in [1 .. n -> 1 .. n + 1] : \A i \in 1 .. n : next[i] > i}

Scans(n, X, piece, next) ==
  {g \in [1 .. n + 1 -> Seq(X)] :
     g[n + 1] = <<>> /\ \A i \in 1 .. n : g[i] = piece[i] \o g[next[i]]}

\* A scan yields something from each position.
LEMMA ScanExists ==
  ASSUME NEW n \in Nat, NEW X, NEW piece \in Pieces(n, X), NEW next \in Forward(n)
  PROVE  Scans(n, X, piece, next) # {}
<1>0. \A i \in 1 .. n : next[i] \in i + 1 .. n + 1
  BY DEF Forward
<1> SUFFICES \E g \in [1 .. n + 1 -> Seq(X)] :
               g[n + 1] = <<>> /\ \A i \in 1 .. n : g[i] = piece[i] \o g[next[i]]
  BY DEF Scans
<1> USE DEF Pieces
<1> DEFINE Results(g, k) ==
             g[n + 1] = <<>> /\ \A i \in k .. n : g[i] = piece[i] \o g[next[i]]
           Exists(k) == \E g \in [k .. n + 1 -> Seq(X)] : Results(g, k)
           T == {k \in 0 .. n : Exists(k + 1)}
<1>1. Exists(n + 1)
  <2> DEFINE h == [i \in n + 1 .. n + 1 |-> <<>>]
  <2>1. h \in [n + 1 .. n + 1 -> Seq(X)]
    BY EmptySeq
  <2>2. Results(h, n + 1)
    <3>1. n + 1 .. n = {}
      OBVIOUS
    <3>2. h[n + 1] = <<>>
      OBVIOUS
    <3> HIDE DEF h
    <3> QED
      BY <3>1, <3>2
  <2> HIDE DEF h, Results
  <2> QED
    BY <2>1, <2>2
<1>2. ASSUME NEW k \in 1 .. n, Exists(k + 1) PROVE Exists(k)
  <2>1. PICK g \in [k + 1 .. n + 1 -> Seq(X)] : Results(g, k + 1)
    BY <1>2
  <2> DEFINE h == [i \in k .. n + 1 |-> IF i = k THEN piece[k] \o g[next[k]] ELSE g[i]]
  <2>2. piece[k] \o g[next[k]] \in Seq(X)
    <3>1. piece[k] \in Seq(X) /\ g[next[k]] \in Seq(X)
      BY <1>0
    <3> QED
      BY <3>1, ConcatProperties
  <2>3. h \in [k .. n + 1 -> Seq(X)]
    BY <2>2
  <2>4. h[n + 1] = <<>>
    BY <2>1
  <2>5. ASSUME NEW i \in k .. n PROVE h[i] = piece[i] \o h[next[i]]
    <3>1. next[i] \in k + 1 .. n + 1
      BY <1>0
    <3>2. h[next[i]] = g[next[i]]
      BY <3>1
    <3>3. CASE i = k
      <4>1. h[k] = piece[k] \o g[next[k]]
        OBVIOUS
      <4> HIDE DEF h
      <4> QED
        BY <3>2, <3>3, <4>1
    <3>4. CASE i > k
      <4>0. i \in k + 1 .. n
        BY <3>4
      <4>1. h[i] = g[i]
        BY <3>4
      <4>2. g[i] = piece[i] \o g[next[i]]
        BY <2>1, <4>0
      <4> HIDE DEF h
      <4> QED
        BY <3>2, <4>1, <4>2
    <3>5. i = k \/ i > k
      OBVIOUS
    <3> QED
      BY <3>3, <3>4, <3>5
  <2>6. Results(h, k)
    <3> HIDE DEF h
    <3> QED
      BY <2>4, <2>5
  <2> HIDE DEF h, Results
  <2> QED
    BY <2>3, <2>6
<1> HIDE DEF Exists
<1>3. n \in T
  BY <1>1
<1>4. \A k \in 1 .. n : k \in T => k - 1 \in T
  <2>1. \A k \in 1 .. n : (k - 1) + 1 = k
    OBVIOUS
  <2> QED
    BY <1>2, <2>1
<1>5. 0 \in T
  <2> HIDE DEF T
  <2> QED
    BY <1>3, <1>4, DownwardInduction
<1>6. Exists(0 + 1)
  BY <1>5
<1>7. 0 + 1 = 1
  OBVIOUS
<1>8. Exists(1)
  BY <1>6, <1>7
<1> QED
  BY <1>8 DEF Exists
-----------------------------------------------------------------------------
(* Sequences of sequences.                                                 *)

\* FlattenSeq concatenates from the left.
LEMMA FlattenRounds ==
  ASSUME NEW X, NEW ss \in Seq(Seq(X))
  PROVE  \E g \in [0 .. Len(ss) -> Seq(X)] :
           /\ g[0] = <<>>
           /\ \A i \in 1 .. Len(ss) : g[i] = g[i - 1] \o ss[i]
           /\ FlattenSeq(ss) = g[Len(ss)]
<1>1. PICK n : n = Len(ss)
  OBVIOUS
<1>2. n \in Nat
  BY <1>1, LenProperties
<1>3. \A i \in 1 .. n : ss[i] \in Seq(X)
  BY <1>1, ElementOfSeq
<1>4. PICK g \in [0 .. n -> Seq(X)] :
        g[0] = <<>> /\ \A i \in 1 .. n : g[i] = g[i - 1] \o ss[i]
  <2>1. PICK step \in Steps(n, Seq(X)) :
          \A v \in Seq(X), i \in 1 .. n : step[i][v] = v \o ss[i]
    <3> DEFINE step == [i \in 1 .. n |-> [v \in Seq(X) |-> v \o ss[i]]]
    <3>1. \A v \in Seq(X), i \in 1 .. n : v \o ss[i] \in Seq(X)
      BY <1>3, ConcatProperties
    <3>2. step \in Steps(n, Seq(X))
      BY <3>1 DEF Steps
    <3>3. \A v \in Seq(X), i \in 1 .. n : step[i][v] = v \o ss[i]
      OBVIOUS
    <3> HIDE DEF step
    <3> QED
      BY <3>2, <3>3
  <2>2. <<>> \in Seq(X)
    BY EmptySeq
  <2>3. PICK g : g \in Loops(n, Seq(X), <<>>, step)
    BY <1>2, <2>2, LoopExists
  <2>4. /\ g \in [0 .. n -> Seq(X)] /\ g[0] = <<>>
        /\ \A i \in 1 .. n : g[i] = step[i][g[i - 1]]
    BY <2>3 DEF Loops
  <2>5. \A i \in 1 .. n : g[i - 1] \in Seq(X)
    BY <1>2, <2>4
  <2> QED
    BY <2>1, <2>4, <2>5
<1>5. ASSUME n # 0 PROVE FlattenSeq(ss) = g[n]
  <2> DEFINE Unfolds(f) == f = [i \in 1 .. n |-> IF i = 1 THEN ss[i] ELSE f[i - 1] \o ss[i]]
             flatten == CHOOSE f : Unfolds(f)
             h == [i \in 1 .. n |-> g[i]]
  <2>1. g[1] = ss[1]
    <3>1. 1 \in 1 .. n /\ 1 - 1 = 0
      BY <1>2, <1>5
    <3>2. g[1] = <<>> \o ss[1]
      BY <1>4, <3>1
    <3> QED
      BY <1>3, <3>1, <3>2, ConcatEmptySeq
  <2>2. ASSUME NEW i \in 1 .. n
        PROVE  h[i] = IF i = 1 THEN ss[i] ELSE h[i - 1] \o ss[i]
    <3>1. CASE i = 1
      BY <2>1, <3>1
    <3>2. CASE i # 1
      <4>1. i - 1 \in 1 .. n
        BY <1>2, <3>2
      <4>2. h[i] = g[i] /\ h[i - 1] = g[i - 1]
        BY <4>1
      <4> HIDE DEF h
      <4> QED
        BY <1>4, <3>2, <4>2
    <3> QED
      BY <3>1, <3>2
  <2>3. Unfolds(h)
    <3>1. h = [i \in 1 .. n |-> h[i]]
      OBVIOUS
    <3> HIDE DEF h
    <3> QED
      BY <2>2, <3>1
  <2>4. Unfolds(flatten)
    <3> HIDE DEF Unfolds, h
    <3> QED
      BY <2>3
  <2>5. \A i \in 1 .. n : flatten[i] = IF i = 1 THEN ss[i] ELSE flatten[i - 1] \o ss[i]
    <3> HIDE DEF flatten
    <3> QED
      BY <2>4
  <2> HIDE DEF flatten
  <2> DEFINE S == {0} \cup {i \in 1 .. n : flatten[i] = g[i]}
  <2>6. ASSUME NEW i \in 0 .. n - 1, i \in S PROVE i + 1 \in S
    <3>1. i + 1 \in 1 .. n /\ (i + 1) - 1 = i
      BY <1>2
    <3>2. CASE i = 0
      BY <2>1, <2>5, <3>1, <3>2
    <3>3. CASE i # 0
      <4>1. flatten[i] = g[i]
        BY <2>6, <3>3
      <4>2. flatten[i + 1] = flatten[i] \o ss[i + 1]
        <5>1. \A j \in 1 .. n : j # 1 => flatten[j] = flatten[j - 1] \o ss[j]
          BY <2>5
        <5>2. i + 1 # 1
          BY <3>3
        <5> HIDE DEF S
        <5>3. flatten[i + 1] = flatten[(i + 1) - 1] \o ss[i + 1]
          BY <3>1, <5>1, <5>2
        <5> QED
          BY <3>1, <5>3
      <4>3. g[i + 1] = g[i] \o ss[i + 1]
        BY <1>4, <3>1
      <4> QED
        BY <3>1, <4>1, <4>2, <4>3
    <3> QED
      BY <3>2, <3>3
  <2>7. n \in S
    <3>1. 0 \in S
      OBVIOUS
    <3>2. \A i \in 0 .. n - 1 : i \in S => i + 1 \in S
      BY <2>6
    <3>3. \A i \in 0 .. n : i \in S
      <4> HIDE DEF S
      <4> QED
        BY <1>2, <3>1, <3>2, UpwardInduction
    <3> QED
      BY <1>2, <3>3
  <2>8. flatten[n] = g[n]
    BY <1>5, <2>7
  <2>9. FlattenSeq(ss) = flatten[n]
    BY <1>1, <1>5 DEF FlattenSeq, flatten
  <2> QED
    BY <2>8, <2>9
<1>6. ASSUME n = 0 PROVE FlattenSeq(ss) = g[n]
  <2>1. ss = <<>>
    BY <1>1, <1>6, EmptySeq
  <2> QED
    BY <1>1, <1>4, <1>6, <2>1 DEF FlattenSeq
<1> QED
  BY <1>1, <1>4, <1>5, <1>6

\* Where each sequence of ss ends in FlattenSeq(ss).
Offsets(ss) ==
  {o \in [0 .. Len(ss) -> Nat] :
     o[0] = 0 /\ \A i \in 1 .. Len(ss) : o[i] = o[i - 1] + Len(ss[i])}

\* The elements of t up to o[k] are those of the first k sequences of ss, one after
\* the other.
Consists(ss, o, k, t) ==
  /\ \A i \in 1 .. k, j \in Nat :
       j \in 1 .. Len(ss[i]) => o[i - 1] + j \in 1 .. o[k] /\ t[o[i - 1] + j] = ss[i][j]
  /\ \A m \in 1 .. o[k] : \E i \in 1 .. k : m - o[i - 1] \in 1 .. Len(ss[i])

\* FlattenSeq(ss) consists of the elements of the sequences of ss.
LEMMA FlattenIndex ==
  ASSUME NEW X, NEW ss \in Seq(Seq(X))
  PROVE  /\ FlattenSeq(ss) \in Seq(X)
         /\ \E o \in Offsets(ss) : /\ Len(FlattenSeq(ss)) = o[Len(ss)]
                                   /\ Consists(ss, o, Len(ss), FlattenSeq(ss))
<1>1. PICK n : n = Len(ss)
  OBVIOUS
<1>2. n \in Nat
  BY <1>1, LenProperties
<1>3. \A i \in 1 .. n : ss[i] \in Seq(X) /\ Len(ss[i]) \in Nat
  BY <1>1, ElementOfSeq, LenProperties
<1>4. PICK g \in [0 .. n -> Seq(X)] :
        /\ g[0] = <<>>
        /\ \A i \in 1 .. n : g[i] = g[i - 1] \o ss[i]
        /\ FlattenSeq(ss) = g[n]
  BY <1>1, FlattenRounds
<1>5. \A i \in 0 .. n : g[i] \in Seq(X) /\ Len(g[i]) \in Nat
  BY <1>4, LenProperties
<1>6. PICK o \in [0 .. n -> Nat] : \A i \in 0 .. n : o[i] = Len(g[i])
  <2> DEFINE o == [i \in 0 .. n |-> Len(g[i])]
  <2>1. o \in [0 .. n -> Nat] /\ \A i \in 0 .. n : o[i] = Len(g[i])
    BY <1>5
  <2> HIDE DEF o
  <2> QED
    BY <2>1
<1>7. ASSUME NEW i \in 1 .. n
      PROVE  /\ i - 1 \in 0 .. n /\ i \in 0 .. n
             /\ o[i] = o[i - 1] + Len(ss[i])
             /\ \A m \in 1 .. o[i] :
                  g[i][m] = IF m <= o[i - 1] THEN g[i - 1][m] ELSE ss[i][m - o[i - 1]]
  <2>1. i - 1 \in 0 .. n /\ i \in 0 .. n
    BY <1>2
  <2>2. /\ g[i] = g[i - 1] \o ss[i] /\ g[i - 1] \in Seq(X) /\ ss[i] \in Seq(X)
        /\ o[i] = Len(g[i]) /\ o[i - 1] = Len(g[i - 1])
    BY <1>3, <1>4, <1>5, <1>6, <2>1
  <2>3. /\ Len(g[i - 1] \o ss[i]) = Len(g[i - 1]) + Len(ss[i])
        /\ \A m \in 1 .. Len(g[i - 1]) + Len(ss[i]) :
             (g[i - 1] \o ss[i])[m]
               = IF m <= Len(g[i - 1]) THEN g[i - 1][m] ELSE ss[i][m - Len(g[i - 1])]
    <3>1. g[i - 1] \in Seq(X) /\ ss[i] \in Seq(X)
      BY <2>2
    <3> QED
      BY <3>1, ConcatProperties
  <2>4. o[i] = o[i - 1] + Len(ss[i])
    BY <2>2, <2>3
  <2> QED
    BY <2>1, <2>2, <2>3, <2>4
<1>8. o[0] = 0
  BY <1>2, <1>4, <1>6, EmptySeq
<1>9. o \in Offsets(ss)
  BY <1>1, <1>7, <1>8 DEF Offsets
<1>10. Consists(ss, o, 0, g[0])
  BY <1>8 DEF Consists
<1>11. ASSUME NEW k \in 0 .. n - 1, Consists(ss, o, k, g[k])
       PROVE  Consists(ss, o, k + 1, g[k + 1])
  <2>1. /\ k + 1 \in 1 .. n /\ (k + 1) - 1 = k
        /\ o[k] \in Nat /\ o[k + 1] \in Nat /\ Len(ss[k + 1]) \in Nat
    BY <1>2, <1>3
  <2>2. /\ o[k + 1] = o[k] + Len(ss[k + 1])
        /\ \A m \in 1 .. o[k + 1] :
             g[k + 1][m] = IF m <= o[k] THEN g[k][m] ELSE ss[k + 1][m - o[k]]
    BY <1>7, <2>1
  <2>3. ASSUME NEW i \in 1 .. k + 1, NEW j \in Nat, j \in 1 .. Len(ss[i])
        PROVE  /\ o[i - 1] + j \in 1 .. o[k + 1]
               /\ g[k + 1][o[i - 1] + j] = ss[i][j]
    <3>1. CASE i \in 1 .. k
      <4>1. o[i - 1] + j \in 1 .. o[k] /\ g[k][o[i - 1] + j] = ss[i][j]
        BY <1>11, <2>3, <3>1 DEF Consists
      <4>2. o[i - 1] + j \in 1 .. o[k + 1] /\ o[i - 1] + j <= o[k]
        BY <2>1, <2>2, <4>1
      <4>3. g[k + 1][o[i - 1] + j] = g[k][o[i - 1] + j]
        BY <2>2, <4>2
      <4> QED
        BY <4>1, <4>2, <4>3
    <3>2. CASE i = k + 1
      <4>1. o[k] + j \in 1 .. o[k + 1] /\ ~ (o[k] + j <= o[k]) /\ (o[k] + j) - o[k] = j
        BY <2>1, <2>2, <2>3, <3>2
      <4>2. g[k + 1][o[k] + j] = ss[k + 1][j]
        BY <2>2, <4>1
      <4> QED
        BY <2>1, <3>2, <4>1, <4>2
    <3> QED
      BY <3>1, <3>2
  <2>4. ASSUME NEW m \in 1 .. o[k + 1]
        PROVE  \E i \in 1 .. k + 1 : m - o[i - 1] \in 1 .. Len(ss[i])
    <3>1. CASE m <= o[k]
      <4>1. m \in 1 .. o[k]
        BY <2>1, <3>1
      <4>2. PICK i \in 1 .. k : m - o[i - 1] \in 1 .. Len(ss[i])
        BY <1>11, <4>1 DEF Consists
      <4> QED
        BY <4>2
    <3>2. CASE m > o[k]
      <4>1. m - o[k] \in 1 .. Len(ss[k + 1])
        BY <2>1, <2>2, <3>2
      <4> QED
        BY <2>1, <4>1
    <3> QED
      BY <2>1, <3>1, <3>2
  <2> QED
    BY <2>3, <2>4 DEF Consists
<1>12. Consists(ss, o, n, g[n])
  <2> DEFINE S == {k \in 0 .. n : Consists(ss, o, k, g[k])}
  <2>1. 0 \in S
    BY <1>2, <1>10
  <2>2. \A k \in 0 .. n - 1 : k \in S => k + 1 \in S
    <3>1. ASSUME NEW k \in 0 .. n - 1, k \in S PROVE k + 1 \in S
      <4>1. Consists(ss, o, k, g[k])
        BY <3>1
      <4>2. Consists(ss, o, k + 1, g[k + 1])
        BY <1>11, <4>1
      <4>3. k + 1 \in 0 .. n
        BY <1>2
      <4> QED
        BY <4>2, <4>3
    <3> QED
      BY <3>1
  <2>3. \A k \in 0 .. n : k \in S
    <3> HIDE DEF S
    <3> QED
      BY <1>2, <2>1, <2>2, UpwardInduction
  <2> QED
    BY <1>2, <2>3
<1>13. FlattenSeq(ss) \in Seq(X) /\ Len(FlattenSeq(ss)) = o[n]
  BY <1>2, <1>4, <1>5, <1>6
<1> QED
  BY <1>1, <1>4, <1>9, <1>12, <1>13
=============================================================================
