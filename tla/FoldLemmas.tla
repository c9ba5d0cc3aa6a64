------------------------------- MODULE FoldLemmas -------------------------------
(***************************************************************************)
(* Facts about Max, Min, folds over sequences and FlattenSeq, for proofs   *)
(* about modules that compute with them.                                   *)
(*                                                                         *)
(* A fold is a recursive function chosen by CHOOSE, so nothing is known    *)
(* of it until such a function is shown to exist.  The existence is by     *)
(* induction over the numbers up to the length, in the form of a set of    *)
(* numbers that holds 0 and with n also n + 1 (NatInductionSet): that form *)
(* takes a set where the library's takes an operator.                      *)
(***************************************************************************)
EXTENDS Integers, Sequences, SequencesExt, FiniteSetTheorems, SequenceTheorems, TLAPS

(* A set of numbers that is not empty has a least one. *)
LEMMA LeastNat ==
    ASSUME NEW T, T \subseteq Nat, T # {}
    PROVE  \E x \in T : \A y \in T : x <= y
<1> DEFINE R == {p \in Nat \X Nat : p[1] < p[2]}
<1>1. IsWellFoundedOn(R, Nat)
  BY NatLessThanWellFounded DEF OpToRel
<1>2. PICK x \in T : \A y \in T : ~(<<y, x>> \in R)
  <2> HIDE DEF R
  <2> QED BY <1>1, WFMin
<1>3. ASSUME NEW y \in T PROVE x <= y
  <2>1. x \in Nat /\ y \in Nat /\ <<y, x>> \notin R
    BY <1>2
  <2> QED BY <2>1
<1> QED BY <1>3

(* Induction: a set with 0 and, with each n, n + 1, has every number. *)
LEMMA NatInductionSet ==
    ASSUME NEW S, 0 \in S, \A n \in Nat : n \in S => n + 1 \in S
    PROVE  Nat \subseteq S
<1> DEFINE T == Nat \ S
<1>1. SUFFICES ASSUME T # {} PROVE FALSE
  OBVIOUS
<1>2. PICK x \in T : \A y \in T : x <= y
  <2>1. T \subseteq Nat
    OBVIOUS
  <2> HIDE DEF T
  <2> QED BY <1>1, <2>1, LeastNat
<1>3. x \in Nat /\ x # 0 /\ x \notin S
  OBVIOUS
<1>4. x - 1 \in Nat /\ (x - 1) + 1 = x /\ ~(x <= x - 1)
  BY <1>3
<1> QED BY <1>2, <1>3, <1>4

(* How to recognise a maximum. *)
LEMMA MaxIs ==
    ASSUME NEW t \in SUBSET Int, NEW m \in t, \A y \in t : m >= y
    PROVE  Max(t) = m
<1>1. ASSUME NEW x \in t, \A y \in t : x >= y PROVE x = m
  <2>1. x >= m /\ m >= x /\ x \in Int /\ m \in Int
    BY <1>1
  <2> QED BY <2>1
<1>2. Max(t) \in t /\ \A y \in t : Max(t) >= y
  BY Zenon DEF Max
<1> QED BY <1>1, <1>2

-----------------------------------------------------------------------------
(* f folds g over every set of the numbers 1..n, the largest number last: the
   recursive function of MapThenFoldSet, when it folds over a sequence. *)
IsFold(f, V, base, g, n) ==
    /\ f \in [SUBSET (1..n) -> V]
    /\ \A t \in SUBSET (1..n) :
          f[t] = IF t = {} THEN base ELSE g[<<f[t \ {Max(t)}], Max(t)>>]
    /\ \A t \in SUBSET (1..n) : t # {} => Max(t) \in t

(* Every operation that stays within V can be folded so. *)
LEMMA FoldExists ==
    ASSUME NEW n \in Nat, NEW V, NEW base \in V, NEW g \in [V \X (1..n) -> V]
    PROVE  \E f : IsFold(f, V, base, g, n)
<1> USE DEF IsFold
<1> DEFINE P(k, f) == IsFold(f, V, base, g, k)
           Q(k) == \E f : P(k, f)
           S == {k \in Nat : k <= n => Q(k)}
<1>1. Q(0)
  <2>1. SUBSET (1..0) = {{}}
    OBVIOUS
  <2>2. P(0, [t \in {{}} |-> base])
    BY <2>1
  <2> QED BY <2>2
<1>2. ASSUME NEW k \in Nat, k + 1 <= n, Q(k) PROVE Q(k + 1)
  <2>1. PICK f : P(k, f)
    BY <1>2
  <2> DEFINE h == [t \in SUBSET (1..(k+1)) |->
                     IF k + 1 \in t THEN g[<<f[t \ {k + 1}], k + 1>>] ELSE f[t]]
  <2>2. ASSUME NEW t \in SUBSET (1..(k+1)), k + 1 \in t
        PROVE  /\ Max(t) = k + 1 /\ t \ {k + 1} \in SUBSET (1..k)
    BY <2>2, MaxIs
  <2>3. ASSUME NEW t \in SUBSET (1..(k+1)), k + 1 \notin t
        PROVE  t \in SUBSET (1..k)
    BY <2>3
  <2>4. \A t \in SUBSET (1..k) : k + 1 \notin t /\ t \in SUBSET (1..(k+1)) /\ h[t] = f[t]
    OBVIOUS
  <2>5. h \in [SUBSET (1..(k+1)) -> V]
    BY <1>2, <2>1, <2>2, <2>3
  <2>6. ASSUME NEW t \in SUBSET (1..(k+1))
        PROVE  h[t] = IF t = {} THEN base ELSE g[<<h[t \ {Max(t)}], Max(t)>>]
    <3>1. CASE k + 1 \in t
      <4>1. h[t] = g[<<f[t \ {k + 1}], k + 1>>]
        BY <3>1
      <4>2. h[t \ {k + 1}] = f[t \ {k + 1}]
        BY <2>2, <2>4, <3>1
      <4> HIDE DEF h
      <4> QED BY <2>2, <3>1, <4>1, <4>2
    <3>2. CASE k + 1 \notin t
      <4>1. t \in SUBSET (1..k) /\ t \ {Max(t)} \in SUBSET (1..k)
        BY <2>3, <3>2
      <4>2. h[t] = f[t] /\ h[t \ {Max(t)}] = f[t \ {Max(t)}]
        BY <2>4, <4>1
      <4> HIDE DEF h
      <4> QED BY <2>1, <4>1, <4>2
    <3> QED BY <3>1, <3>2
  <2>7. ASSUME NEW t \in SUBSET (1..(k+1)), t # {}
        PROVE  Max(t) \in t
    BY <2>1, <2>2, <2>3, <2>7
  <2> HIDE DEF h
  <2> QED BY <2>5, <2>6, <2>7
<1>3. Q(n)
  <2> HIDE DEF Q
  <2>1. 0 \in S /\ \A k \in Nat : k \in S => k + 1 \in S
    BY <1>1, <1>2
  <2>2. n \in S
    <3> HIDE DEF S
    <3> QED BY <2>1, NatInductionSet
  <2> QED BY <2>2
<1> QED BY <1>3

(* Induction up to n. *)
LEMMA UpTo ==
    ASSUME NEW n \in Nat, NEW S, 0 \in S, \A i \in 0..(n - 1) : i \in S => i + 1 \in S
    PROVE  \A i \in 0..n : i \in S
<1> DEFINE T == {i \in Nat : i <= n => i \in S}
<1>1. 0 \in T /\ \A i \in Nat : i \in T => i + 1 \in T
  OBVIOUS
<1>2. Nat \subseteq T
  <2> HIDE DEF T
  <2> QED BY <1>1, NatInductionSet
<1> QED BY <1>2

(* The maximum of 1..i, and what is left without it. *)
LEMMA MaxInterval ==
    ASSUME NEW i \in Nat \ {0}
    PROVE  Max(1..i) = i /\ (1..i) \ {Max(1..i)} = 1..(i - 1)
<1>1. 1..i \in SUBSET Int /\ i \in 1..i /\ \A y \in 1..i : i >= y
  OBVIOUS
<1>2. Max(1..i) = i
  BY <1>1, MaxIs, Zenon
<1> QED BY <1>2

(* A set of numbers up to n that is not empty has a maximum. *)
LEMMA MaxExists ==
    ASSUME NEW n \in Nat, NEW t \in SUBSET (0..n), t # {}
    PROVE  Max(t) \in t /\ \A y \in t : y <= Max(t)
<1> DEFINE T == {x \in 0..n : n - x \in t}
<1>1. T \subseteq Nat /\ T # {}
  <2>1. PICK y \in t : TRUE
    OBVIOUS
  <2>2. y \in 0..n /\ n - y \in 0..n /\ n - (n - y) = y
    OBVIOUS
  <2>3. n - y \in T
    BY <2>1, <2>2
  <2> QED BY <2>3
<1>2. PICK x \in T : \A y \in T : x <= y
  <2> HIDE DEF T
  <2> QED BY <1>1, LeastNat
<1> DEFINE m == n - x
<1>3. m \in t /\ x \in Nat
  OBVIOUS
<1>4. ASSUME NEW y \in t PROVE m >= y
  <2>1. y \in 0..n /\ n - y \in 0..n /\ n - (n - y) = y
    OBVIOUS
  <2>2. n - y \in T
    BY <2>1
  <2>3. x <= n - y
    BY <1>2, <2>2
  <2> QED BY <1>3, <2>1, <2>3
<1>5. t \in SUBSET Int
  OBVIOUS
<1>6. Max(t) = m
  <2> HIDE DEF m
  <2> QED BY <1>3, <1>4, <1>5, MaxIs
<1>7. \A y \in t : y <= m
  <2>1. \A y \in t : y \in Int /\ m \in Int
    BY <1>3
  <2> HIDE DEF m
  <2> QED BY <1>4, <2>1
<1> HIDE DEF m
<1> QED BY <1>3, <1>6, <1>7

(* How to recognise a minimum. *)
LEMMA MinIs ==
    ASSUME NEW t \in SUBSET Int, NEW m \in t, \A y \in t : m <= y
    PROVE  Min(t) = m
<1>1. ASSUME NEW x \in t, \A y \in t : x <= y PROVE x = m
  <2>1. x <= m /\ m <= x /\ x \in Int /\ m \in Int
    BY <1>1
  <2> QED BY <2>1
<1>2. Min(t) \in t /\ \A y \in t : Min(t) <= y
  BY Zenon DEF Min
<1> QED BY <1>1, <1>2

-----------------------------------------------------------------------------
(* h holds the values of a fold over 1..i, for every i. *)
IsChain(h, V, base, g, n) ==
    /\ h \in [0..n -> V] /\ h[0] = base
    /\ \A i \in 1..n : h[i] = g[<<h[i - 1], i>>]

(* The values of a fold form such a chain. *)
LEMMA ChainExists ==
    ASSUME NEW n \in Nat, NEW V, NEW base \in V, NEW g \in [V \X (1..n) -> V]
    PROVE  \E h : IsChain(h, V, base, g, n)
<1>1. PICK f : IsFold(f, V, base, g, n)
  BY FoldExists
<1> DEFINE h == [i \in 0..n |-> f[1..i]]
<1>2. \A i \in 0..n : 1..i \in SUBSET (1..n)
  OBVIOUS
<1>3. h \in [0..n -> V]
  BY <1>1, <1>2 DEF IsFold
<1>4. h[0] = base
  <2>1. 1..0 = {} /\ 0 \in 0..n
    OBVIOUS
  <2> QED BY <1>1, <1>2, <2>1 DEF IsFold
<1>5. ASSUME NEW i \in 1..n PROVE h[i] = g[<<h[i - 1], i>>]
  <2>1. i \in Nat \ {0} /\ 1..i # {} /\ i \in 0..n /\ i - 1 \in 0..n
    OBVIOUS
  <2>2. h[i] = f[1..i] /\ h[i - 1] = f[1..(i - 1)]
    BY <2>1
  <2>3. f[1..i] = g[<<f[1..(i - 1)], i>>]
    BY <1>1, <1>2, <2>1, MaxInterval DEF IsFold
  <2> QED BY <2>2, <2>3
<1> HIDE DEF h
<1> QED BY <1>3, <1>4, <1>5 DEF IsChain

-----------------------------------------------------------------------------
(* FlattenSeq appends one sequence after the other. *)
LEMMA FlattenFold ==
    ASSUME NEW S, NEW ps \in Seq(Seq(S))
    PROVE  \E h \in [0..Len(ps) -> Seq(S)] :
               /\ h[0] = <<>>
               /\ \A i \in 1..Len(ps) : h[i] = h[i - 1] \o ps[i]
               /\ FlattenSeq(ps) = h[Len(ps)]
<1> DEFINE n == Len(ps)
           g == [w \in Seq(S) \X (1..n) |-> w[1] \o ps[w[2]]]
<1>1. n \in Nat /\ \A i \in 1..n : ps[i] \in Seq(S)
  OBVIOUS
<1>2. /\ <<>> \in Seq(S)
      /\ g \in [Seq(S) \X (1..n) -> Seq(S)]
      /\ \A v \in Seq(S), i \in 1..n : g[<<v, i>>] = v \o ps[i]
  <2>1. \A v \in Seq(S), i \in 1..n : v \o ps[i] \in Seq(S)
    BY <1>1, ConcatProperties
  <2>2. \A w \in Seq(S) \X (1..n) : w[1] \o ps[w[2]] \in Seq(S)
    BY <2>1, Zenon
  <2> HIDE DEF n
  <2>3. g \in [Seq(S) \X (1..n) -> Seq(S)]
    BY <2>2
  <2>4. \A v \in Seq(S), i \in 1..n : g[<<v, i>>] = v \o ps[i]
    OBVIOUS
  <2>5. <<>> \in Seq(S)
    OBVIOUS
  <2> QED BY <2>3, <2>4, <2>5
<1>3. PICK h : IsChain(h, Seq(S), <<>>, g, n)
  <2> HIDE DEF g, n
  <2> DEFINE V == Seq(S)
             base == <<>>
  <2>1. n \in Nat /\ base \in V /\ g \in [V \X (1..n) -> V]
    BY <1>1, <1>2
  <2>2. \E h : IsChain(h, V, base, g, n)
    <3> HIDE DEF V, base
    <3> QED BY <2>1, ChainExists
  <2> QED BY <2>2
<1>4. /\ h \in [0..n -> Seq(S)] /\ h[0] = <<>>
      /\ \A i \in 1..n : h[i] = h[i - 1] \o ps[i]
  <2>1. h \in [0..n -> Seq(S)] /\ h[0] = <<>>
    BY <1>3 DEF IsChain
  <2>2. ASSUME NEW i \in 1..n PROVE h[i] = h[i - 1] \o ps[i]
    <3>1. i - 1 \in 0..n
      BY <1>1
    <3>2. h[i - 1] \in Seq(S)
      BY <2>1, <3>1
    <3> HIDE DEF g, n
    <3> QED BY <1>2, <1>3, <3>2 DEF IsChain
  <2> QED BY <2>1, <2>2
<1>5. FlattenSeq(ps) = h[n]
  <2>1. CASE n = 0
    BY <1>4, <2>1 DEF FlattenSeq
  <2>2. CASE n # 0
    <3> DEFINE E(f) == f = [i \in 1..n |-> IF i = 1 THEN ps[i] ELSE f[i - 1] \o ps[i]]
               flatten == CHOOSE f : E(f)
    <3>1. FlattenSeq(ps) = flatten[n]
      BY <2>2 DEF FlattenSeq
    <3>2. h[1] = ps[1]
      <4>1. 1 \in 1..n /\ 1 - 1 = 0
        BY <1>1, <2>2
      <4>2. h[1] = <<>> \o ps[1] /\ ps[1] \in Seq(S)
        BY <1>1, <1>4, <4>1
      <4> QED BY <4>2, ConcatEmptySeq
    <3> HIDE DEF n
    <3>3. E([i \in 1..n |-> h[i]])
      <4> DEFINE f == [i \in 1..n |-> h[i]]
      <4>1. ASSUME NEW i \in 1..n
            PROVE  f[i] = IF i = 1 THEN ps[i] ELSE f[i - 1] \o ps[i]
        <5>1. i # 1 => i - 1 \in 1..n
          BY <1>1
        <5> QED BY <1>4, <3>2, <5>1
      <4> QED BY <4>1
    <3>4. E(flatten)
      <4> HIDE DEF E
      <4> QED BY <3>3, Zenon
    <3>5. \A i \in 1..n : flatten[i] = IF i = 1 THEN ps[i] ELSE flatten[i - 1] \o ps[i]
      <4> HIDE DEF flatten
      <4> QED BY <3>4
    <3> HIDE DEF flatten, E
    <3> DEFINE T == {i \in 0..n : i # 0 => flatten[i] = h[i]}
    <3>6. 0 \in T /\ \A i \in 0..(n - 1) : i \in T => i + 1 \in T
      <4>1. ASSUME NEW i \in 0..(n - 1), i \in T PROVE flatten[i + 1] = h[i + 1]
        <5>1. i + 1 \in 1..n /\ (i + 1) - 1 = i
          BY <1>1
        <5>2. CASE i = 0
          BY <3>2, <3>5, <5>1, <5>2
        <5>3. CASE i # 0
          <6>1. flatten[i] = h[i]
            BY <4>1, <5>3
          <6>2. flatten[i + 1] = flatten[i] \o ps[i + 1]
            <7>1. i + 1 # 1
              BY <5>3
            <7> QED BY <3>5, <5>1, <7>1
          <6> HIDE DEF T
          <6> QED BY <1>4, <5>1, <6>1, <6>2
        <5> QED BY <5>2, <5>3
      <4> QED BY <1>1, <4>1
    <3>7. n \in T
      <4>1. n \in 0..n
        BY <1>1
      <4> HIDE DEF T
      <4>2. \A i \in 0..n : i \in T
        BY <1>1, <3>6, UpTo
      <4> QED BY <4>1, <4>2
    <3> QED BY <2>2, <3>1, <3>7
  <2> QED BY <2>1, <2>2
<1> QED BY <1>4, <1>5

(* Appending to the second of two sequences appends to both. *)
LEMMA ConcatAppend ==
    ASSUME NEW S, NEW p \in Seq(S), NEW q \in Seq(S), NEW e \in S
    PROVE  /\ p \o q \in Seq(S)
           /\ p \o Append(q, e) = Append(p \o q, e)
<1> DEFINE l == p \o Append(q, e)
           r == Append(p \o q, e)
<1>1. l \in Seq(S) /\ r \in Seq(S) /\ Len(l) = Len(r)
  OBVIOUS
<1>2. \A i \in 1..Len(l) : l[i] = r[i]
  OBVIOUS
<1> HIDE DEF l, r
<1>3. l = r
  BY <1>1, <1>2, SeqEqual
<1> QED BY <1>3, ConcatProperties DEF l, r

(* No sequences, nothing to flatten. *)
LEMMA FlattenEmpty == FlattenSeq(<<>>) = <<>>
  BY DEF FlattenSeq

(* One more sequence adds its elements at the end. *)
LEMMA FlattenAppend ==
    ASSUME NEW S, NEW ps \in Seq(Seq(S)), NEW p \in Seq(S)
    PROVE  /\ FlattenSeq(ps) \in Seq(S)
           /\ FlattenSeq(Append(ps, p)) = FlattenSeq(ps) \o p
<1> DEFINE n == Len(ps)
           qs == Append(ps, p)
<1>0. n \in Nat
  OBVIOUS
<1>1. /\ qs \in Seq(Seq(S)) /\ Len(qs) = n + 1
      /\ \A i \in 1..n : qs[i] = ps[i]
      /\ qs[n + 1] = p
  OBVIOUS
<1>2. PICK h \in [0..n -> Seq(S)] :
        /\ h[0] = <<>>
        /\ \A i \in 1..n : h[i] = h[i - 1] \o ps[i]
        /\ FlattenSeq(ps) = h[n]
  BY FlattenFold
<1>3. PICK k \in [0..(n + 1) -> Seq(S)] :
        /\ k[0] = <<>>
        /\ \A i \in 1..(n + 1) : k[i] = k[i - 1] \o qs[i]
        /\ FlattenSeq(qs) = k[n + 1]
  <2>1. n + 1 = Len(qs)
    BY <1>1
  <2>2. qs \in Seq(Seq(S))
    BY <1>1
  <2>3. \E k \in [0..Len(qs) -> Seq(S)] :
          /\ k[0] = <<>>
          /\ \A i \in 1..Len(qs) : k[i] = k[i - 1] \o qs[i]
          /\ FlattenSeq(qs) = k[Len(qs)]
    <3> HIDE DEF qs
    <3> QED BY <2>2, FlattenFold
  <2> HIDE DEF qs, n
  <2> QED BY <2>1, <2>3
<1> HIDE DEF n, qs
<1> DEFINE T == {i \in 0..n : k[i] = h[i]}
<1>4. 0 \in T /\ \A i \in 0..(n - 1) : i \in T => i + 1 \in T
  <2>1. ASSUME NEW i \in 0..(n - 1), k[i] = h[i] PROVE k[i + 1] = h[i + 1]
    <3>1. i + 1 \in 1..n /\ i + 1 \in 1..(n + 1) /\ (i + 1) - 1 = i
      BY <1>0
    <3>2. h[i + 1] = h[i] \o ps[i + 1]
      BY <1>2, <3>1
    <3>3. k[i + 1] = k[i] \o qs[i + 1]
      BY <1>3, <3>1
    <3> QED BY <1>1, <2>1, <3>1, <3>2, <3>3
  <2>2. \A i \in 0..(n - 1) : i + 1 \in 0..n
    BY <1>0
  <2>3. 0 \in 0..n /\ k[0] = h[0]
    BY <1>0, <1>2, <1>3
  <2> QED BY <2>1, <2>2, <2>3
<1>5. k[n] = h[n]
  <2>1. n \in 0..n
    BY <1>0
  <2> HIDE DEF T
  <2>2. \A i \in 0..n : i \in T
    BY <1>0, <1>4, UpTo
  <2> QED BY <2>1, <2>2 DEF T
<1>6. n + 1 \in 1..(n + 1) /\ (n + 1) - 1 = n /\ n \in 0..n
  BY <1>0
<1>7. k[n + 1] = k[n] \o qs[n + 1]
  BY <1>3, <1>6
<1>8. FlattenSeq(qs) = FlattenSeq(ps) \o p
  BY <1>1, <1>2, <1>3, <1>5, <1>7
<1> QED BY <1>2, <1>6, <1>8 DEF qs

(* THEOREM: sequences that are not empty are the pieces of their flattening
   between strictly increasing ends. *)
THEOREM FlattenEnds ==
    ASSUME NEW S, NEW ps \in Seq(Seq(S) \ {<<>>})
    PROVE  \E ends \in [0..Len(ps) -> 0..Len(FlattenSeq(ps))] :
             /\ ends[0] = 0 /\ ends[Len(ps)] = Len(FlattenSeq(ps))
             /\ \A i, j \in 0..Len(ps) : i < j => ends[i] < ends[j]
             /\ \A i \in 1..Len(ps) :
                  ps[i] = SubSeq(FlattenSeq(ps), ends[i - 1] + 1, ends[i])
<1> DEFINE n == Len(ps)
           all == FlattenSeq(ps)
<1>0. n \in Nat
  OBVIOUS
<1>1. /\ ps \in Seq(Seq(S))
      /\ \A i \in 1..n : ps[i] \in Seq(S) /\ ps[i] # <<>>
  OBVIOUS
<1>2. PICK h \in [0..n -> Seq(S)] :
        /\ h[0] = <<>>
        /\ \A i \in 1..n : h[i] = h[i - 1] \o ps[i]
        /\ all = h[n]
  BY <1>1, FlattenFold
<1> HIDE DEF n, all
<1> DEFINE Prefix(j, i) == /\ j < i => Len(h[j]) < Len(h[i])
                           /\ \A k \in 1..Len(h[j]) : h[i][k] = h[j][k]
           T == {i \in 0..n : \A j \in 0..i : Prefix(j, i)}
<1>3. \A i \in 0..n : h[i] \in Seq(S) /\ Len(h[i]) \in Nat
  BY <1>2
<1>4. ASSUME NEW i \in 0..(n - 1)
      PROVE  /\ Len(h[i + 1]) = Len(h[i]) + Len(ps[i + 1])
             /\ ps[i + 1] \in Seq(S) /\ Len(ps[i + 1]) \in Nat \ {0}
             /\ \A k \in 1..Len(h[i]) : h[i + 1][k] = h[i][k]
             /\ \A k \in 1..Len(ps[i + 1]) : h[i + 1][Len(h[i]) + k] = ps[i + 1][k]
  <2>1. i + 1 \in 1..n /\ (i + 1) - 1 = i /\ i \in 0..n
    BY <1>0
  <2>2. h[i + 1] = h[i] \o ps[i + 1] /\ h[i] \in Seq(S) /\ ps[i + 1] \in Seq(S)
    BY <1>1, <1>2, <1>3, <2>1
  <2>3. Len(ps[i + 1]) \in Nat \ {0}
    BY <1>1, <2>1, EmptySeq
  <2> DEFINE a == h[i]
             b == ps[i + 1]
  <2>4. a \in Seq(S) /\ b \in Seq(S) /\ h[i + 1] = a \o b /\ Len(b) \in Nat \ {0}
    BY <2>2, <2>3
  <2> HIDE DEF a, b
  <2>5. /\ Len(a \o b) = Len(a) + Len(b)
        /\ \A k \in 1..Len(a) : (a \o b)[k] = a[k]
        /\ \A k \in 1..Len(b) : (a \o b)[Len(a) + k] = b[k]
    BY <2>4
  <2> QED BY <2>4, <2>5 DEF a, b
<1>5. 0 \in T /\ \A i \in 0..(n - 1) : i \in T => i + 1 \in T
  <2>1. ASSUME NEW i \in 0..(n - 1), i \in T, NEW j \in 0..(i + 1)
        PROVE  Prefix(j, i + 1)
    <3>1. CASE j = i + 1
      BY <3>1, <1>0
    <3>2. CASE j \in 0..i
      <4>1. Prefix(j, i)
        BY <2>1, <3>2
      <4>2. i \in 0..n /\ i + 1 \in 0..n /\ j \in 0..n
        BY <1>0, <3>2
      <4>3. Len(h[j]) \in Nat /\ Len(h[i]) \in Nat /\ Len(h[i + 1]) \in Nat
        BY <1>3, <4>2
      <4>4. Len(h[j]) <= Len(h[i])
        BY <4>1, <4>2, <4>3, <3>2
      <4>5. Len(h[i]) < Len(h[i + 1])
        <5>1. /\ Len(h[i + 1]) = Len(h[i]) + Len(ps[i + 1])
              /\ Len(ps[i + 1]) \in Nat \ {0}
          BY <1>4
        <5> DEFINE x == Len(h[i])
                   y == Len(h[i + 1])
                   z == Len(ps[i + 1])
        <5>2. x \in Nat /\ y = x + z /\ z \in Nat \ {0}
          BY <4>3, <5>1
        <5> HIDE DEF x, y, z
        <5>3. x < y
          BY <5>2
        <5> QED BY <5>3 DEF x, y
      <4>6. \A k \in 1..Len(h[j]) : k \in 1..Len(h[i])
        BY <4>3, <4>4
      <4>7. \A k \in 1..Len(h[j]) : h[i + 1][k] = h[j][k]
        BY <1>4, <4>1, <4>6
      <4> QED BY <4>3, <4>4, <4>5, <4>7
    <3> QED BY <1>0, <3>1, <3>2
  <2>2. Prefix(0, 0)
    OBVIOUS
  <2>3. \A i \in 0..(n - 1) : i + 1 \in 0..n
    BY <1>0
  <2>4. \A j \in 0..0 : j = 0
    OBVIOUS
  <2> HIDE DEF Prefix
  <2>5. 0 \in 0..n
    BY <1>0
  <2> QED BY <2>1, <2>2, <2>3, <2>4, <2>5
<1>6. \A i \in 0..n : \A j \in 0..i : Prefix(j, i)
  <2> HIDE DEF T
  <2>1. \A i \in 0..n : i \in T
    BY <1>0, <1>5, UpTo
  <2> HIDE DEF Prefix
  <2> QED BY <2>1 DEF T
<1> DEFINE ends == [i \in 0..n |-> Len(h[i])]
<1>7. all \in Seq(S) /\ n \in 0..n /\ 0 \in 0..n
  BY <1>0, <1>2
<1>8. ASSUME NEW i \in 0..n PROVE Len(h[i]) \in 0..Len(all)
  <2>1. Prefix(i, n) /\ (i = n \/ i < n)
    BY <1>0, <1>6, <1>7
  <2>2. Len(h[i]) \in Nat /\ Len(h[n]) \in Nat
    BY <1>3, <1>7
  <2> QED BY <1>2, <2>1, <2>2
<1>9. ASSUME NEW i \in 1..n PROVE ps[i] = SubSeq(all, Len(h[i - 1]) + 1, Len(h[i]))
  <2>1. i - 1 \in 0..(n - 1) /\ (i - 1) + 1 = i /\ i - 1 \in 0..n /\ i \in 0..n
    BY <1>0
  <2>2. /\ Len(h[i]) = Len(h[i - 1]) + Len(ps[i])
        /\ ps[i] \in Seq(S) /\ Len(ps[i]) \in Nat
        /\ \A k \in 1..Len(ps[i]) : h[i][Len(h[i - 1]) + k] = ps[i][k]
    BY <1>4, <2>1
  <2>3. Len(h[i - 1]) \in Nat /\ Len(h[i]) \in 0..Len(all)
    BY <1>3, <1>8, <2>1
  <2> DEFINE a == Len(h[i - 1])
             b == Len(h[i])
             q == SubSeq(all, a + 1, b)
  <2>4. \A k \in (a + 1)..b : all[k] \in S
    BY <1>7, <2>3
  <2>5. /\ q \in Seq(S) /\ Len(q) = Len(ps[i])
        /\ \A k \in 1..Len(ps[i]) : q[k] = all[a + k]
    <3>1. a + 1 \in Int /\ b \in Int /\ b - (a + 1) + 1 = Len(ps[i])
      BY <2>2, <2>3
    <3>2. /\ q \in Seq(S)
          /\ Len(q) = IF a + 1 <= b THEN b - (a + 1) + 1 ELSE 0
          /\ \A k \in 1..(b - (a + 1) + 1) : q[k] = all[(a + 1) + k - 1]
      <4> HIDE DEF a, b
      <4> QED BY <2>4, <3>1, SubSeqProperties
    <3> DEFINE l == Len(ps[i])
    <3>3. a \in Nat /\ l \in Nat /\ b = a + l
      BY <2>2, <2>3
    <3> HIDE DEF a, b, l, q
    <3> QED BY <3>2, <3>3 DEF l
  <2>6. \A k \in 1..Len(ps[i]) : q[k] = ps[i][k]
    <3>1. Prefix(i, n)
      BY <1>0, <1>6, <1>7, <2>1
    <3>2. \A k \in 1..Len(ps[i]) : a + k \in 1..b
      <4> DEFINE l == Len(ps[i])
      <4>1. a \in Nat /\ l \in Nat /\ b = a + l
        BY <2>2, <2>3
      <4> HIDE DEF a, b, l
      <4> QED BY <4>1 DEF l
    <3>3. \A k \in 1..Len(ps[i]) : all[a + k] = h[i][a + k]
      BY <1>2, <3>1, <3>2
    <3> QED BY <2>2, <2>5, <3>3
  <2> HIDE DEF q
  <2>7. q = ps[i]
    BY <2>2, <2>5, <2>6, SeqEqual
  <2> QED BY <2>7 DEF q
<1>10. ends \in [0..n -> 0..Len(all)]
  BY <1>8
<1>11. ends[0] = 0 /\ ends[n] = Len(all)
  BY <1>2, <1>7
<1>12. \A i, j \in 0..n : i < j => ends[i] < ends[j]
  BY <1>0, <1>6
<1>13. \A i \in 1..n : ps[i] = SubSeq(all, ends[i - 1] + 1, ends[i])
  <2>1. \A i \in 1..n : i - 1 \in 0..n /\ i \in 0..n
    BY <1>0
  <2> QED BY <1>9, <2>1
<1> HIDE DEF ends
<1> QED BY <1>10, <1>11, <1>12, <1>13 DEF n, all
=============================================================================
