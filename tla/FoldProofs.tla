----------------------------- MODULE FoldProofs -----------------------------
(***************************************************************************)
(* Induction on numbers, and what the folds of the community modules do     *)
(* with a sequence of any length.                                          *)
(*                                                                         *)
(* A fold is a function that is defined recursively on the sets of          *)
(* positions of the sequence.  Such a function exists (FoldExists), and a   *)
(* set that no step leads out of holds its result (FoldStays).             *)
(***************************************************************************)
EXTENDS Integers, SequencesExt, WellFoundedInduction, TLAPS

-----------------------------------------------------------------------------
(* Induction *)

LEMMA LeastNumber ==
  ASSUME NEW T \in SUBSET Nat, T # {}
  PROVE  \E x \in T : \A y \in T : x <= y
<1>1. PICK x \in T : \A y \in T : ~ (<<y, x>> \in OpToRel(<, Nat))
  BY NatLessThanWellFounded, WFMin
<1>2. \A y \in T : ~(y < x)
  BY <1>1 DEF OpToRel
<1> QED BY <1>2

LEMMA Induction ==
  ASSUME NEW S \in SUBSET Nat, 0 \in S, \A n \in S : n + 1 \in S
  PROVE  S = Nat
<1> SUFFICES ASSUME Nat \ S # {} PROVE FALSE
  OBVIOUS
<1>1. PICK x \in Nat \ S : \A y \in Nat \ S : x <= y
  BY LeastNumber
<1>2. x - 1 \in Nat /\ x - 1 \notin Nat \ S
  BY <1>1
<1> QED BY <1>1, <1>2

LEMMA LastPosition ==
  ASSUME NEW n \in Nat, NEW s \in SUBSET (1 .. n), s # {}
  PROVE  /\ Max(s) \in s
         /\ \A y \in s : y <= Max(s)
<1> DEFINE T == {t \in Nat : n - t \in s}
<1>1. PICK x \in s : TRUE
  OBVIOUS
<1>2. n - x \in T
  BY n - x \in Nat, n - (n - x) = x
<1>3. PICK t \in T : \A y \in T : t <= y
  BY <1>2, LeastNumber
<1>4. \A y \in s : y <= n - t
  <2> TAKE y \in s
  <2>1. n - y \in Nat /\ n - (n - y) = y
    OBVIOUS
  <2>2. n - y \in T
    BY <2>1
  <2> QED BY <2>2, <1>3
<1>5. \E z \in s : \A y \in s : z >= y
  <2>1. n - t \in s /\ n - t \in Int
    BY <1>3
  <2> QED BY <1>4, <2>1
<1> QED BY <1>5 DEF Max

\* Max picks the last of the positions, whichever they are.
LEMMA LastIs ==
  ASSUME NEW n \in Nat, NEW s \in SUBSET (1 .. n), NEW m \in s, \A y \in s : y <= m
  PROVE  Max(s) = m
<1>1. Max(s) \in s /\ m <= Max(s)
  BY LastPosition
<1>2. Max(s) <= m
  BY <1>1
<1>3. \A x, y \in s : x <= y /\ y <= x => x = y
  OBVIOUS
<1> QED BY <1>1, <1>2, <1>3
-----------------------------------------------------------------------------
(* Folds *)

\* f folds the step H over the first n positions of a sequence, from d on.
Folds(f, n, H, d, seq) ==
  /\ f = [s \in SUBSET (1 .. n) |-> f[s]]
  /\ f[{}] = d
  /\ \A s \in SUBSET (1 .. n) : s # {} => f[s] = H[f[s \ {Max(s)}]][seq[Max(s)]]

\* There is such a function.
LEMMA FoldExists ==
  ASSUME NEW D, NEW A, NEW H \in [D -> [A -> D]], NEW d \in D, NEW seq \in Seq(A)
  PROVE  \E f : f \in [SUBSET (1 .. Len(seq)) -> D] /\ Folds(f, Len(seq), H, d, seq)
<1> DEFINE Exists(n) == n <= Len(seq) =>
             \E f : f \in [SUBSET (1 .. n) -> D] /\ Folds(f, n, H, d, seq)
<1>1. Exists(0)
  <2> DEFINE f == [s \in SUBSET (1 .. 0) |-> d]
  <2>1. \A s \in SUBSET (1 .. 0) : s = {}
    OBVIOUS
  <2>2. f \in [SUBSET (1 .. 0) -> D] /\ Folds(f, 0, H, d, seq)
    BY <2>1 DEF Folds
  <2> QED BY <2>2
<1>2. ASSUME NEW n \in Nat, Exists(n) PROVE Exists(n + 1)
  <2> SUFFICES ASSUME n + 1 <= Len(seq)
               PROVE  \E f : f \in [SUBSET (1 .. n + 1) -> D] /\ Folds(f, n + 1, H, d, seq)
    OBVIOUS
  <2>1. n <= Len(seq) /\ seq[n + 1] \in A
    OBVIOUS
  <2>2. PICK g : g \in [SUBSET (1 .. n) -> D] /\ Folds(g, n, H, d, seq)
    BY <2>1, <1>2
  <2> DEFINE f == [s \in SUBSET (1 .. n + 1) |->
                     IF n + 1 \in s THEN H[g[s \ {n + 1}]][seq[n + 1]] ELSE g[s]]
  <2>3. \A s \in SUBSET (1 .. n + 1) : s \ {n + 1} \in SUBSET (1 .. n)
    OBVIOUS
  <2>4. \A s \in SUBSET (1 .. n + 1) : n + 1 \notin s => s \in SUBSET (1 .. n)
    OBVIOUS
  <2>5. ASSUME NEW s \in SUBSET (1 .. n + 1), s # {}
        PROVE  f[s] = H[f[s \ {Max(s)}]][seq[Max(s)]]
    <3>1. CASE n + 1 \in s
      <4>1. n + 1 \in Nat /\ \A y \in s : y <= n + 1
        OBVIOUS
      <4>2. Max(s) = n + 1
        BY <3>1, <4>1, LastIs
      <4>3. f[s \ {n + 1}] = g[s \ {n + 1}]
        BY <2>3
      <4> QED BY <4>2, <4>3, <3>1
    <3>2. CASE n + 1 \notin s
      <4>1. s \in SUBSET (1 .. n)
        BY <3>2, <2>4
      <4>2. Max(s) \in s
        BY <4>1, <2>5, LastPosition
      <4>3. f[s] = g[s] /\ f[s \ {Max(s)}] = g[s \ {Max(s)}]
        BY <4>1, <3>2
      <4>4. g[s] = H[g[s \ {Max(s)}]][seq[Max(s)]]
        BY <2>2, <4>1, <2>5 DEF Folds
      <4> QED BY <4>3, <4>4
    <3> QED BY <3>1, <3>2
  <2>6. f[{}] = d
    BY <2>2 DEF Folds
  <2>7. f \in [SUBSET (1 .. n + 1) -> D]
    <3>1. ASSUME NEW s \in SUBSET (1 .. n + 1) PROVE f[s] \in D
      <4>1. CASE n + 1 \in s
        <5>1. g[s \ {n + 1}] \in D
          BY <2>2, <2>3
        <5> QED BY <5>1, <4>1, <2>1
      <4>2. CASE n + 1 \notin s
        BY <4>2, <2>2, <2>4
      <4> QED BY <4>1, <4>2
    <3> QED BY <3>1
  <2>8. Folds(f, n + 1, H, d, seq)
    <3> HIDE DEF f
    <3>1. f = [s \in SUBSET (1 .. n + 1) |-> f[s]]
      BY <2>7
    <3> QED BY <2>5, <2>6, <3>1 DEF Folds
  <2> QED BY <2>7, <2>8
<1>3. \A n \in Nat : Exists(n)
  <2> HIDE DEF Exists
  <2> DEFINE S == {n \in Nat : Exists(n)}
  <2>1. S \in SUBSET Nat /\ 0 \in S /\ \A n \in S : n + 1 \in S
    BY <1>1, <1>2
  <2>2. S = Nat
    <3> HIDE DEF S
    <3> QED BY <2>1, Induction
  <2> QED BY <2>2
<1>4. Len(seq) \in Nat /\ Len(seq) <= Len(seq)
  OBVIOUS
<1>5. Exists(Len(seq))
  <2> HIDE DEF Exists
  <2> QED BY <1>3, <1>4
<1> QED BY <1>4, <1>5

\* A set that no step of a fold leads out of holds the fold's result.
LEMMA FoldStays ==
  ASSUME NEW D, NEW len \in Nat, NEW f, f[{}] \in D,
         \A s \in SUBSET (1 .. len) : s # {} /\ f[s \ {Max(s)}] \in D => f[s] \in D
  PROVE  f[1 .. len] \in D
<1> DEFINE Stays(n) == n <= len => f[1 .. n] \in D
<1>1. Stays(0)
  <2>1. 1 .. 0 = {}
    OBVIOUS
  <2> QED BY <2>1
<1>2. ASSUME NEW n \in Nat, Stays(n) PROVE Stays(n + 1)
  <2> SUFFICES ASSUME n + 1 <= len PROVE f[1 .. n + 1] \in D
    OBVIOUS
  <2> DEFINE s == 1 .. n + 1
  <2>1. f[1 .. n] \in D
    BY <1>2
  <2>2. n + 1 \in Nat /\ s \in SUBSET (1 .. n + 1) /\ n + 1 \in s /\ \A y \in s : y <= n + 1
    OBVIOUS
  <2>3. Max(s) = n + 1
    <3> HIDE DEF s
    <3> QED BY <2>2, LastIs
  <2>4. s \ {n + 1} = 1 .. n
    <3>1. \A y : y \in s \ {n + 1} <=> y \in 1 .. n
      OBVIOUS
    <3> QED BY <3>1
  <2>5. s \in SUBSET (1 .. len) /\ s # {}
    <3>1. \A y \in s : y \in 1 .. len
      OBVIOUS
    <3> QED BY <2>2, <3>1
  <2> HIDE DEF s
  <2> QED BY <2>1, <2>3, <2>4, <2>5 DEF s
<1>3. \A n \in Nat : Stays(n)
  <2> HIDE DEF Stays
  <2> DEFINE S == {n \in Nat : Stays(n)}
  <2>1. S \in SUBSET Nat /\ 0 \in S /\ \A n \in S : n + 1 \in S
    BY <1>1, <1>2
  <2>2. S = Nat
    <3> HIDE DEF S
    <3> QED BY <2>1, Induction
  <2> QED BY <2>2
<1> QED BY <1>3

\* What holds of a fold's result may depend on how far it got.
LEMMA FoldSteps ==
  ASSUME NEW len \in Nat, NEW D, NEW f, f[{}] \in D[0],
         \A k \in 1 .. len : f[1 .. (k - 1)] \in D[k - 1] => f[1 .. k] \in D[k]
  PROVE  f[1 .. len] \in D[len]
<1> DEFINE Got(n) == n <= len => f[1 .. n] \in D[n]
<1>1. Got(0)
  <2>1. 1 .. 0 = {}
    OBVIOUS
  <2> QED BY <2>1
<1>2. ASSUME NEW n \in Nat, Got(n) PROVE Got(n + 1)
  <2> SUFFICES ASSUME n + 1 <= len PROVE f[1 .. n + 1] \in D[n + 1]
    OBVIOUS
  <2>1. n + 1 \in 1 .. len /\ (n + 1) - 1 = n
    OBVIOUS
  <2> QED BY <2>1, <1>2
<1>3. \A n \in Nat : Got(n)
  <2> HIDE DEF Got
  <2> DEFINE S == {n \in Nat : Got(n)}
  <2>1. S \in SUBSET Nat /\ 0 \in S /\ \A n \in S : n + 1 \in S
    BY <1>1, <1>2
  <2>2. S = Nat
    <3> HIDE DEF S
    <3> QED BY <2>1, Induction
  <2> QED BY <2>2
<1> QED BY <1>3

\* The positions before the last of the first k.
LEMMA LastOfFirst ==
  ASSUME NEW k \in Nat \ {0}
  PROVE  Max(1 .. k) = k /\ (1 .. k) \ {k} = 1 .. (k - 1) /\ 1 .. k # {}
<1> DEFINE s == 1 .. k
<1>1. k \in Nat /\ s \in SUBSET (1 .. k) /\ k \in s /\ \A y \in s : y <= k
  OBVIOUS
<1>2. Max(s) = k
  <2> HIDE DEF s
  <2> QED BY <1>1, LastIs
<1>3. \A y : y \in (1 .. k) \ {k} <=> y \in 1 .. (k - 1)
  OBVIOUS
<1> QED BY <1>1, <1>2, <1>3
=============================================================================
