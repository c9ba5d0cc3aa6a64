---------------------------- MODULE EventsChunkProofs ----------------------------
(***************************************************************************)
(* Proofs about EventsChunk: Chunk sends every event that fits exactly     *)
(* once and in order, in the fewest requests that the intake's limits      *)
(* allow, within those limits as far as the lengths it counts are those    *)
(* of what is sent.                                                        *)
(*                                                                         *)
(* The sizes and the sequences of the specification are folds, so the      *)
(* first part shows what each fold does with one more element (by the      *)
(* set form of induction of FoldLemmas).  The second part is about         *)
(* sequences of payloads only: one in which no payload could have taken    *)
(* the first event of the next is as short as any.  The third part is the  *)
(* inductive invariant, which says that Chunk's payloads are of this kind. *)
(***************************************************************************)
EXTENDS EventsChunk, FoldLemmas

-----------------------------------------------------------------------------
(* The lengths of an event are numbers. *)
LEMMA EventLengths ==
    ASSUME NEW e \in Events
    PROVE  /\ e.read \in Nat \ {0} /\ e.sent \in Nat \ {0}
           /\ \A form \in {"read", "sent"} : e[form] \in Nat
  BY ConstantsAssumption

(* The size of an array adds up along the array. *)
LEMMA BytesFold ==
    ASSUME NEW form \in {"read", "sent"}, NEW p \in Seq(Events)
    PROVE  \E h \in [0..Len(p) -> Nat] :
               /\ h[0] = 1 + Len(p)
               /\ \A i \in 1..Len(p) : h[i] = h[i - 1] + p[i][form]
               /\ Bytes(form, p) = h[Len(p)]
<1> DEFINE n == Len(p)
           E(f) == f = [t \in SUBSET (1..n) |->
                          IF t = {} THEN 1 + n ELSE f[t \ {Max(t)}] + p[Max(t)][form]]
           iter == CHOOSE f : E(f)
           h == [i \in 0..n |-> iter[1..i]]
<1>1. n \in Nat /\ 1 + n \in Nat /\ DOMAIN p = 1..n /\ \A i \in 1..n : p[i][form] \in Nat
  <2>1. n \in Nat /\ DOMAIN p = 1..n /\ \A i \in 1..n : p[i] \in Events
    OBVIOUS
  <2> HIDE DEF n
  <2> QED BY <2>1, EventLengths
<1>2. Bytes(form, p) = iter[1..n]
  BY <1>1, Zenon DEF Bytes, FoldLeft, MapThenFoldSet
<1>3. E(iter)
  <2> DEFINE g == [w \in Nat \X (1..n) |-> w[1] + p[w[2]][form]]
  <2>1. g \in [Nat \X (1..n) -> Nat] /\ \A v \in Nat, i \in 1..n : g[<<v, i>>] = v + p[i][form]
    BY <1>1
  <2>2. PICK f : IsFold(f, Nat, 1 + n, g, n)
    <3> HIDE DEF g, n
    <3> QED BY <1>1, <2>1, FoldExists
  <2>3. \A t \in SUBSET (1..n) : f[t] =
                      IF t = {} THEN 1 + n ELSE f[t \ {Max(t)}] + p[Max(t)][form]
    <3> HIDE DEF g, n
    <3> QED BY <2>1, <2>2 DEF IsFold
  <2>4. E(f)
    BY <2>2, <2>3 DEF IsFold
  <2> HIDE DEF E
  <2> QED BY <2>4, Zenon
<1>9. \A t \in SUBSET (1..n) : iter[t] = IF t = {} THEN 1 + n ELSE iter[t \ {Max(t)}] + p[Max(t)][form]
  <2> HIDE DEF iter, n
  <2> QED BY <1>3
<1> HIDE DEF iter, E
<1>4. h[0] = 1 + n
  <2>1. 1..0 = {} /\ 0 \in 0..n /\ {} \in SUBSET (1..n)
    BY <1>1
  <2>2. iter[{}] = 1 + n
    BY <2>1, <1>9
  <2> QED BY <2>1, <2>2
<1>5. ASSUME NEW i \in 1..n PROVE h[i] = h[i - 1] + p[i][form]
  <2>1. iter[1..i] = iter[1..(i - 1)] + p[i][form]
    <3>1. i \in Nat \ {0} /\ 1..i \in SUBSET (1..n) /\ 1..i # {}
      BY <1>1
    <3> QED BY <1>9, <3>1, MaxInterval
  <2> QED BY <2>1, <1>1
<1>6. \A i \in 0..n : h[i] \in Nat
  <2> DEFINE S == {i \in 0..n : h[i] \in Nat}
  <2>1. 0 \in S /\ \A i \in 0..(n - 1) : i \in S => i + 1 \in S
    <3> HIDE DEF h
    <3> QED BY <1>1, <1>4, <1>5
  <2> HIDE DEF S
  <2>2. \A i \in 0..n : i \in S
    BY <1>1, <2>1, UpTo
  <2> QED BY <2>2 DEF S
<1>7. h \in [0..n -> Nat]
  BY <1>6
<1>8. Bytes(form, p) = h[n]
  BY <1>1, <1>2
<1> HIDE DEF h
<1> QED BY <1>4, <1>5, <1>7, <1>8

(* Bytes of no events: the two brackets less the comma that n events save. *)
LEMMA BytesEmpty ==
    ASSUME NEW form \in {"read", "sent"}
    PROVE  Bytes(form, <<>>) = 1
<1> DEFINE p == <<>>
<1>1. p \in Seq(Events) /\ Len(p) = 0 /\ 0 \in 0..0
  OBVIOUS
<1> HIDE DEF p
<1>2. PICK h \in [0..Len(p) -> Nat] : h[0] = 1 + Len(p) /\ Bytes(form, p) = h[Len(p)]
  BY <1>1, BytesFold
<1>3. Bytes(form, p) = 1
  BY <1>1, <1>2
<1> QED BY <1>3 DEF p

(* One more event costs its length and a comma: Chunk's addSize. *)
LEMMA BytesAppend ==
    ASSUME NEW form \in {"read", "sent"}, NEW p \in Seq(Events), NEW e \in Events
    PROVE  /\ Bytes(form, p) \in Nat /\ e[form] \in Nat
           /\ Bytes(form, Append(p, e)) = Bytes(form, p) + 1 + e[form]
<1> DEFINE n == Len(p)
           q == Append(p, e)
<1>0. n \in Nat
  OBVIOUS
<1>1. /\ q \in Seq(Events) /\ Len(q) = n + 1
      /\ \A i \in 1..n : q[i] = p[i]
      /\ q[n + 1] = e
  OBVIOUS
<1>2. PICK h \in [0..n -> Nat] :
        /\ h[0] = 1 + n
        /\ \A i \in 1..n : h[i] = h[i - 1] + p[i][form]
        /\ Bytes(form, p) = h[n]
  BY BytesFold
<1>3. PICK k \in [0..(n + 1) -> Nat] :
        /\ k[0] = 1 + (n + 1)
        /\ \A i \in 1..(n + 1) : k[i] = k[i - 1] + q[i][form]
        /\ Bytes(form, q) = k[n + 1]
  <2>1. \E k \in [0..Len(q) -> Nat] :
          /\ k[0] = 1 + Len(q)
          /\ \A i \in 1..Len(q) : k[i] = k[i - 1] + q[i][form]
          /\ Bytes(form, q) = k[Len(q)]
    <3> HIDE DEF q
    <3> QED BY <1>1, BytesFold
  <2>2. Len(q) = n + 1
    BY <1>1
  <2> HIDE DEF q, n
  <2> QED BY <2>1, <2>2
<1>4. e[form] \in Nat /\ \A i \in 1..n : p[i][form] \in Nat
  <2>1. \A i \in 1..n : p[i] \in Events
    OBVIOUS
  <2> HIDE DEF n
  <2> QED BY <2>1, EventLengths
<1> HIDE DEF n, q
<1> DEFINE T == {i \in 0..n : k[i] = h[i] + 1}
<1>5. 0 \in T /\ \A i \in 0..(n - 1) : i \in T => i + 1 \in T
  <2>1. ASSUME NEW i \in 0..(n - 1), k[i] = h[i] + 1 PROVE k[i + 1] = h[i + 1] + 1
    <3>1. i + 1 \in 1..n /\ i + 1 \in 1..(n + 1) /\ (i + 1) - 1 = i /\ i \in 0..n
      BY <1>0
    <3>2. h[i + 1] = h[i] + p[i + 1][form]
      BY <1>2, <3>1
    <3>3. k[i + 1] = k[i] + q[i + 1][form]
      BY <1>3, <3>1
    <3>4. q[i + 1] = p[i + 1] /\ h[i] \in Nat /\ p[i + 1][form] \in Nat
      BY <1>1, <1>2, <1>4, <3>1
    <3> QED BY <2>1, <3>2, <3>3, <3>4
  <2>2. \A i \in 0..(n - 1) : i + 1 \in 0..n
    BY <1>0
  <2>3. 0 \in 0..n /\ k[0] = h[0] + 1
    BY <1>0, <1>2, <1>3
  <2> QED BY <2>1, <2>2, <2>3
<1>6. k[n] = h[n] + 1
  <2>1. n \in 0..n
    BY <1>0
  <2> HIDE DEF T
  <2>2. \A i \in 0..n : i \in T
    BY <1>0, <1>5, UpTo
  <2> QED BY <2>1, <2>2 DEF T
<1>7. n + 1 \in 1..(n + 1) /\ (n + 1) - 1 = n /\ n \in 0..n
  BY <1>0
<1>8. k[n + 1] = k[n] + e[form] /\ h[n] \in Nat
  BY <1>1, <1>2, <1>3, <1>7
<1>9. Bytes(form, q) = Bytes(form, p) + 1 + e[form]
  BY <1>2, <1>3, <1>6, <1>8
<1> QED BY <1>2, <1>4, <1>8, <1>9 DEF q

(* The first event of a payload: what Chunk resets currentSize to. *)
LEMMA BytesOne ==
    ASSUME NEW form \in {"read", "sent"}, NEW e \in Events
    PROVE  Bytes(form, <<e>>) = 2 + e[form]
<1>1. <<>> \in Seq(Events) /\ <<e>> = Append(<<>>, e)
  OBVIOUS
<1> HIDE <1>1
<1>2. Bytes(form, Append(<<>>, e)) = Bytes(form, <<>>) + 1 + e[form] /\ e[form] \in Nat
  BY <1>1, BytesAppend
<1> QED BY <1>1, <1>2, BytesEmpty

(* The size of a payload made of two. *)
LEMMA BytesConcat ==
    ASSUME NEW form \in {"read", "sent"},
           NEW p \in Seq(Events), NEW q \in Seq(Events)
    PROVE  /\ Bytes(form, q) \in Nat \ {0}
           /\ Bytes(form, p \o q) = Bytes(form, p) + Bytes(form, q) - 1
<1> DEFINE Holds(r) == /\ Bytes(form, r) \in Nat \ {0}
                       /\ Bytes(form, p \o r) = Bytes(form, p) + Bytes(form, r) - 1
           T == {n \in Nat : \A r \in Seq(Events) : Len(r) = n => Holds(r)}
<1>0. Bytes(form, p) \in Nat
  <2>1. PICK h \in [0..Len(p) -> Nat] : Bytes(form, p) = h[Len(p)]
    BY BytesFold
  <2>2. Len(p) \in 0..Len(p)
    OBVIOUS
  <2> QED BY <2>1, <2>2
<1>1. \A r \in Seq(Events) : Len(r) = 0 => Holds(r)
  <2> SUFFICES ASSUME NEW r \in Seq(Events), Len(r) = 0 PROVE Holds(r)
    OBVIOUS
  <2>1. r = <<>>
    OBVIOUS
  <2>2. p \o <<>> = p
    BY ConcatEmptySeq
  <2> QED BY <1>0, <2>1, <2>2, BytesEmpty
<1>2. ASSUME NEW n \in Nat, \A r \in Seq(Events) : Len(r) = n => Holds(r)
      PROVE  \A r \in Seq(Events) : Len(r) = n + 1 => Holds(r)
  <2> SUFFICES ASSUME NEW r \in Seq(Events), Len(r) = n + 1 PROVE Holds(r)
    OBVIOUS
  <2>1. PICK f \in Seq(Events), e \in Events : r = Append(f, e)
    <3>1. r # <<>>
      OBVIOUS
    <3> QED BY <3>1, SequenceEmptyOrAppend
  <2>2. Len(f) = n
    BY <2>1
  <2>3. Holds(f)
    BY <1>2, <2>2
  <2>4. Bytes(form, r) = Bytes(form, f) + 1 + e[form] /\ e[form] \in Nat
    BY <2>1, BytesAppend
  <2>5. p \o f \in Seq(Events) /\ p \o r = Append(p \o f, e)
    BY <2>1, ConcatAppend
  <2>6. Bytes(form, p \o r) = Bytes(form, p \o f) + 1 + e[form]
    BY <2>5, BytesAppend
  <2> QED BY <1>0, <2>3, <2>4, <2>6
<1>3. \A r \in Seq(Events) : Len(r) \in Nat
  OBVIOUS
<1> HIDE DEF Holds
<1>4. 0 \in T /\ \A n \in Nat : n \in T => n + 1 \in T
  BY <1>1, <1>2
<1>5. Nat \subseteq T
  <2> HIDE DEF T
  <2> QED BY <1>4, NatInductionSet
<1>6. Holds(q)
  BY <1>3, <1>5
<1> QED BY <1>6 DEF Holds

(* Events that do not get longer when written make no payload longer. *)
LEMMA SentWithin ==
    ASSUME NEW p \in Seq(Events), \A j \in DOMAIN p : ~Grows(p[j])
    PROVE  /\ Bytes("sent", p) \in Nat /\ Bytes("read", p) \in Nat
           /\ Bytes("sent", p) <= Bytes("read", p)
<1> DEFINE n == Len(p)
<1>1. n \in Nat /\ \A i \in 1..n : p[i] \in Events /\ ~Grows(p[i])
  OBVIOUS
<1>2. PICK h \in [0..n -> Nat] :
        /\ h[0] = 1 + n
        /\ \A i \in 1..n : h[i] = h[i - 1] + p[i]["read"]
        /\ Bytes("read", p) = h[n]
  <2> DEFINE form == "read"
  <2>1. form \in {"read", "sent"}
    OBVIOUS
  <2>2. \E f \in [0..Len(p) -> Nat] :
          /\ f[0] = 1 + Len(p)
          /\ \A i \in 1..Len(p) : f[i] = f[i - 1] + p[i][form]
          /\ Bytes(form, p) = f[Len(p)]
    <3> HIDE DEF form
    <3> QED BY <2>1, BytesFold
  <2> QED BY <2>2
<1>3. PICK k \in [0..n -> Nat] :
        /\ k[0] = 1 + n
        /\ \A i \in 1..n : k[i] = k[i - 1] + p[i]["sent"]
        /\ Bytes("sent", p) = k[n]
  <2> DEFINE form == "sent"
  <2>1. form \in {"read", "sent"}
    OBVIOUS
  <2>2. \E f \in [0..Len(p) -> Nat] :
          /\ f[0] = 1 + Len(p)
          /\ \A i \in 1..Len(p) : f[i] = f[i - 1] + p[i][form]
          /\ Bytes(form, p) = f[Len(p)]
    <3> HIDE DEF form
    <3> QED BY <2>1, BytesFold
  <2> QED BY <2>2
<1> HIDE DEF n
<1> DEFINE T == {i \in 0..n : k[i] <= h[i]}
<1>4. ASSUME NEW i \in 0..(n - 1), k[i] <= h[i] PROVE k[i + 1] <= h[i + 1]
  <2>1. i + 1 \in 1..n /\ (i + 1) - 1 = i /\ i \in 0..n
    BY <1>1
  <2>2. /\ h[i + 1] = h[i] + p[i + 1].read /\ k[i + 1] = k[i] + p[i + 1].sent
        /\ h[i] \in Nat /\ k[i] \in Nat
    BY <1>2, <1>3, <2>1
  <2>3. /\ p[i + 1].read \in Nat /\ p[i + 1].sent \in Nat
        /\ ~(p[i + 1].sent > p[i + 1].read)
    BY <1>1, <2>1, EventLengths DEF Grows
  <2> QED BY <1>4, <2>2, <2>3
<1>5. 0 \in T /\ \A i \in 0..(n - 1) : i \in T => i + 1 \in T
  <2>1. 0 \in 0..n /\ k[0] <= h[0] /\ \A i \in 0..(n - 1) : i + 1 \in 0..n
    BY <1>1, <1>2, <1>3
  <2> QED BY <1>4, <2>1
<1>6. n \in T
  <2> HIDE DEF T
  <2>1. \A i \in 0..n : i \in T
    BY <1>1, <1>5, UpTo
  <2> QED BY <1>1, <2>1
<1>7. n \in 0..n
  BY <1>1
<1> QED BY <1>2, <1>3, <1>6, <1>7

(* Part of a payload that fits also fits. *)
LEMMA FitsWithin ==
    ASSUME NEW s \in Seq(Events), NEW a \in 1..Len(s), NEW b \in a..Len(s),
           NEW c \in 1..a, NEW d \in b..Len(s),
           Fits(SubSeq(s, c, d))
    PROVE  Fits(SubSeq(s, a, b))
<1> DEFINE n == Len(s)
           x == SubSeq(s, c, a - 1)
           y == SubSeq(s, a, b)
           z == SubSeq(s, b + 1, d)
<1>0. n \in Nat /\ \A i \in 1..n : s[i] \in Events
  OBVIOUS
<1> HIDE DEF n
<1>1. x \in Seq(Events) /\ y \in Seq(Events) /\ z \in Seq(Events)
  <2>1. \A i \in c..(a - 1) : s[i] \in Events
    BY <1>0 DEF n
  <2>2. \A i \in a..b : s[i] \in Events
    BY <1>0 DEF n
  <2>3. \A i \in (b + 1)..d : s[i] \in Events
    BY <1>0 DEF n
  <2> QED BY <1>0, <2>1, <2>2, <2>3, SubSeqProperties DEF n
<1>2. SubSeq(s, c, d) = (x \o y) \o z
  <2>1. x \o y = SubSeq(s, c, b)
    <3>1. c \in 1..(Len(s) + 1) /\ a - 1 \in (c - 1)..Len(s) /\ b \in (a - 1)..Len(s)
          /\ (a - 1) + 1 = a
      BY <1>0 DEF n
    <3> QED BY <3>1, ConcatAdjacentSubSeq
  <2>2. SubSeq(s, c, b) \o z = SubSeq(s, c, d)
    <3>1. c \in 1..(Len(s) + 1) /\ b \in (c - 1)..Len(s) /\ d \in b..Len(s)
      BY <1>0 DEF n
    <3> QED BY <3>1, ConcatAdjacentSubSeq
  <2> QED BY <2>1, <2>2
<1> HIDE DEF x, y, z
<1>3. /\ Bytes("read", (x \o y) \o z) = Bytes("read", x) + Bytes("read", y) + Bytes("read", z) - 2
      /\ Bytes("read", x) \in Nat \ {0} /\ Bytes("read", y) \in Nat \ {0} /\ Bytes("read", z) \in Nat \ {0}
  <2>1. x \o y \in Seq(Events)
    BY <1>1, ConcatProperties
  <2>2. /\ Bytes("read", x \o y) = Bytes("read", x) + Bytes("read", y) - 1
        /\ Bytes("read", (x \o y) \o z) = Bytes("read", x \o y) + Bytes("read", z) - 1
        /\ Bytes("read", x) \in Nat \ {0} /\ Bytes("read", y) \in Nat \ {0} /\ Bytes("read", z) \in Nat \ {0}
    BY <1>1, <2>1, BytesConcat
  <2> QED BY <2>2
<1>4. /\ Len((x \o y) \o z) = Len(x) + Len(y) + Len(z)
      /\ Len(x) \in Nat /\ Len(y) \in Nat /\ Len(z) \in Nat
  BY <1>1
<1>5. Fits(y)
  <2>1. Bytes("read", (x \o y) \o z) <= MaxBodyBytes /\ Len((x \o y) \o z) <= MaxBatchCount
    BY <1>2 DEF Fits
  <2>2. Bytes("read", y) <= MaxBodyBytes
    <3> DEFINE l == Bytes("read", x)
               m == Bytes("read", y)
               r == Bytes("read", z)
    <3>1. /\ l \in Nat \ {0} /\ m \in Nat \ {0} /\ r \in Nat \ {0}
          /\ l + m + r - 2 <= MaxBodyBytes
      BY <1>3, <2>1
    <3> HIDE DEF l, m, r
    <3>2. m <= MaxBodyBytes
      BY <3>1, ConstantsAssumption
    <3> QED BY <3>2 DEF m
  <2>3. Len(y) <= MaxBatchCount
    <3> DEFINE l == Len(x)
               m == Len(y)
               r == Len(z)
    <3>1. l \in Nat /\ m \in Nat /\ r \in Nat /\ l + m + r <= MaxBatchCount
      BY <1>4, <2>1
    <3> HIDE DEF l, m, r
    <3>2. m <= MaxBatchCount
      BY <3>1, ConstantsAssumption
    <3> QED BY <3>2 DEF m
  <2> QED BY <2>2, <2>3 DEF Fits
<1> QED BY <1>5 DEF y

(* The sendable events of a batch, one event of the batch at a time. *)
LEMMA SendableFold ==
    ASSUME NEW s \in Seq(Events)
    PROVE  \E h \in [0..Len(s) -> Seq(Events)] :
               /\ h[0] = <<>>
               /\ \A i \in 1..Len(s) :
                    h[i] = IF TooLarge(s[i]) THEN h[i - 1] ELSE Append(h[i - 1], s[i])
               /\ Sendable(s) = h[Len(s)]
<1> DEFINE n == Len(s)
           add(k, e) == IF TooLarge(e) THEN k ELSE Append(k, e)
           E(f) == f = [t \in SUBSET (1..n) |->
                          IF t = {} THEN <<>> ELSE add(f[t \ {Max(t)}], s[Max(t)])]
           iter == CHOOSE f : E(f)
           h == [i \in 0..n |-> iter[1..i]]
           V == Seq(Events)
           base == <<>>
<1>0. n \in Nat
  OBVIOUS
<1>1. DOMAIN s = 1..n /\ \A i \in 1..n : s[i] \in Events
  OBVIOUS
<1>2. Sendable(s) = iter[1..n]
  BY <1>1, Zenon DEF Sendable, FoldLeft, MapThenFoldSet
<1>3. base \in V /\ \A k \in V, e \in Events : add(k, e) \in V
  OBVIOUS
<1> HIDE DEF n, add, V, base
<1>4. E(iter)
  <2> DEFINE g == [w \in V \X (1..n) |-> add(w[1], s[w[2]])]
  <2>1. \A w \in V \X (1..n) : add(w[1], s[w[2]]) \in V
    BY <1>1, <1>3
  <2>2. g \in [V \X (1..n) -> V] /\ \A v \in V, i \in 1..n : g[<<v, i>>] = add(v, s[i])
    BY <2>1
  <2>3. PICK f : IsFold(f, V, base, g, n)
    <3> HIDE DEF g
    <3> QED BY <1>0, <1>3, <2>2, FoldExists
  <2>4. \A t \in SUBSET (1..n) : f[t] =
          IF t = {} THEN base ELSE add(f[t \ {Max(t)}], s[Max(t)])
    <3> HIDE DEF g
    <3> QED BY <2>2, <2>3 DEF IsFold
  <2>5. E(f)
    BY <2>3, <2>4 DEF IsFold, base
  <2> HIDE DEF E
  <2> QED BY <2>5, Zenon
<1>5. \A t \in SUBSET (1..n) : iter[t] =
        IF t = {} THEN base ELSE add(iter[t \ {Max(t)}], s[Max(t)])
  <2> HIDE DEF iter
  <2> QED BY <1>4 DEF base
<1> HIDE DEF iter, E
<1>6. h[0] = base
  <2>1. 1..0 = {} /\ 0 \in 0..n /\ {} \in SUBSET (1..n)
    BY <1>0
  <2> QED BY <1>5, <2>1
<1>7. ASSUME NEW i \in 1..n PROVE h[i] = add(h[i - 1], s[i])
  <2>1. i \in Nat \ {0} /\ 1..i \in SUBSET (1..n) /\ 1..i # {}
    <3>1. i \in 1..i /\ i \in Nat \ {0}
      BY <1>0
    <3>2. \A j \in 1..i : j \in 1..n
      BY <1>0
    <3> QED BY <3>1, <3>2
  <2>2. iter[1..i] = add(iter[1..(i - 1)], s[i])
    BY <1>5, <2>1, MaxInterval
  <2>3. i \in 0..n /\ i - 1 \in 0..n
    BY <1>0
  <2> QED BY <2>2, <2>3
<1>8. \A i \in 0..n : h[i] \in V
  <2> DEFINE T == {i \in 0..n : h[i] \in V}
  <2> HIDE DEF h
  <2>1. ASSUME NEW i \in 0..(n - 1), h[i] \in V PROVE i + 1 \in 0..n /\ h[i + 1] \in V
    <3>1. i + 1 \in 1..n /\ (i + 1) - 1 = i /\ i + 1 \in 0..n
      BY <1>0
    <3>2. h[i + 1] = add(h[i], s[i + 1]) /\ s[i + 1] \in Events
      BY <1>1, <1>7, <3>1
    <3> QED BY <1>3, <2>1, <3>1, <3>2
  <2>2. 0 \in T /\ \A i \in 0..(n - 1) : i \in T => i + 1 \in T
    BY <1>0, <1>3, <1>6, <2>1
  <2> HIDE DEF T
  <2>3. \A i \in 0..n : i \in T
    BY <1>0, <2>2, UpTo
  <2> QED BY <2>3 DEF T
<1>9. h \in [0..n -> V] /\ Sendable(s) = h[n]
  BY <1>0, <1>2, <1>8
<1> HIDE DEF h
<1> QED BY <1>6, <1>7, <1>9 DEF n, V, base, add

(* An empty batch has no events to send. *)
LEMMA SendableEmpty == Sendable(<<>>) = <<>>
<1> DEFINE s == <<>>
<1>1. s \in Seq(Events) /\ Len(s) = 0 /\ 0 \in 0..0
  OBVIOUS
<1> HIDE DEF s
<1>2. PICK h \in [0..Len(s) -> Seq(Events)] : h[0] = <<>> /\ Sendable(s) = h[Len(s)]
  BY <1>1, SendableFold
<1>3. Sendable(s) = <<>>
  BY <1>1, <1>2
<1> QED BY <1>3 DEF s

(* The sendable events are events. *)
LEMMA SendableType ==
    ASSUME NEW s \in Seq(Events)
    PROVE  Sendable(s) \in Seq(Events)
<1>1. PICK h \in [0..Len(s) -> Seq(Events)] : Sendable(s) = h[Len(s)]
  BY SendableFold
<1>2. Len(s) \in 0..Len(s)
  OBVIOUS
<1> QED BY <1>1, <1>2

(* One more event of the batch is one more to send, unless it is too large. *)
LEMMA SendableAppend ==
    ASSUME NEW s \in Seq(Events), NEW e \in Events
    PROVE  /\ Sendable(s) \in Seq(Events)
           /\ Sendable(Append(s, e)) =
                IF TooLarge(e) THEN Sendable(s) ELSE Append(Sendable(s), e)
<1> DEFINE n == Len(s)
           q == Append(s, e)
           add(v, x) == IF TooLarge(x) THEN v ELSE Append(v, x)
<1>0. n \in Nat
  OBVIOUS
<1>1. /\ q \in Seq(Events) /\ Len(q) = n + 1
      /\ \A i \in 1..n : q[i] = s[i]
      /\ q[n + 1] = e
  OBVIOUS
<1>2. PICK h \in [0..n -> Seq(Events)] :
        /\ h[0] = <<>>
        /\ \A i \in 1..n : h[i] = add(h[i - 1], s[i])
        /\ Sendable(s) = h[n]
  BY SendableFold
<1>3. PICK k \in [0..(n + 1) -> Seq(Events)] :
        /\ k[0] = <<>>
        /\ \A i \in 1..(n + 1) : k[i] = add(k[i - 1], q[i])
        /\ Sendable(q) = k[n + 1]
  <2>1. \E k \in [0..Len(q) -> Seq(Events)] :
          /\ k[0] = <<>>
          /\ \A i \in 1..Len(q) : k[i] = add(k[i - 1], q[i])
          /\ Sendable(q) = k[Len(q)]
    <3> HIDE DEF q
    <3> QED BY <1>1, SendableFold
  <2>2. Len(q) = n + 1
    BY <1>1
  <2> HIDE DEF q, n, add
  <2> QED BY <2>1, <2>2
<1> HIDE DEF n, q, add
<1> DEFINE T == {i \in 0..n : k[i] = h[i]}
<1>4. 0 \in T /\ \A i \in 0..(n - 1) : i \in T => i + 1 \in T
  <2>1. ASSUME NEW i \in 0..(n - 1), k[i] = h[i] PROVE k[i + 1] = h[i + 1]
    <3>1. i + 1 \in 1..n /\ i + 1 \in 1..(n + 1) /\ (i + 1) - 1 = i
      BY <1>0
    <3>2. h[i + 1] = add(h[i], s[i + 1])
      BY <1>2, <3>1
    <3>3. k[i + 1] = add(k[i], q[i + 1])
      BY <1>3, <3>1
    <3> QED BY <1>1, <2>1, <3>1, <3>2, <3>3
  <2>2. \A i \in 0..(n - 1) : i + 1 \in 0..n
    BY <1>0
  <2>3. 0 \in 0..n /\ k[0] = h[0]
    BY <1>0, <1>2, <1>3
  <2> QED BY <2>1, <2>2, <2>3
<1>5. k[n] = h[n]
  <2>1. n \in 0..n
    BY <1>0
  <2> HIDE DEF T
  <2>2. \A i \in 0..n : i \in T
    BY <1>0, <1>4, UpTo
  <2> QED BY <2>1, <2>2 DEF T
<1>6. n + 1 \in 1..(n + 1) /\ (n + 1) - 1 = n /\ n \in 0..n
  BY <1>0
<1>7. k[n + 1] = add(k[n], e)
  BY <1>1, <1>3, <1>6
<1>8. Sendable(q) = add(Sendable(s), e)
  BY <1>2, <1>3, <1>5, <1>7
<1> QED BY <1>2, <1>6, <1>8 DEF q, add

-----------------------------------------------------------------------------
(* No payload had room for the first event of the next one. *)
Greedy(ps) ==
    \A i \in 1..(Len(ps) - 1) : ~Fits(Append(ps[i], Head(ps[i + 1])))

(* The ways to cut s into payloads that fit. *)
Cuttings(s) == {c \in SUBSET (1..(Len(s) - 1)) : \A p \in Pieces(s, c) : Fits(p)}

(* Events a+1..b+1 do not fit in one payload, so every cutting cuts among
   them. *)
LEMMA CutWithin ==
    ASSUME NEW s \in Seq(Events), NEW cuts \in Cuttings(s),
           NEW a \in 0..Len(s), NEW b \in 0..Len(s), a < b, b < Len(s),
           ~Fits(SubSeq(s, a + 1, b + 1))
    PROVE  \E x \in cuts : a < x /\ x <= b
<1> DEFINE n == Len(s)
           ends == cuts \cup {n}
           Y == {y \in ends : a < y}
           before(y) == {0} \cup {j \in ends : j < y}
<1>0. n \in Nat /\ a \in Nat /\ b \in Nat /\ a < n
  OBVIOUS
<1>1. cuts \subseteq 1..(n - 1) /\ \A p \in Pieces(s, cuts) : Fits(p)
  BY DEF Cuttings
<1> HIDE DEF n
<1>2. ends \subseteq 1..n
  BY <1>0, <1>1
<1>3. PICK y \in Y : \A z \in Y : y <= z
  <2>1. n \in Y
    BY <1>0
  <2>2. Y \subseteq Nat
    BY <1>2
  <2> HIDE DEF Y
  <2> QED BY <2>1, <2>2, LeastNat
<1>4. y \in ends /\ y \in 1..n /\ a < y
  BY <1>2
<1>5. SUFFICES ASSUME y \notin cuts \/ b < y PROVE FALSE
  <2>1. y \in Nat
    BY <1>4
  <2> QED BY <1>0, <1>4, <2>1
<1>6. b + 1 <= y
  BY <1>0, <1>4, <1>5 DEF n
<1>7. Max(before(y)) \in 0..a
  <2>1. before(y) \in SUBSET (0..n) /\ before(y) # {}
    BY <1>0, <1>2
  <2>2. Max(before(y)) \in before(y)
    <3> HIDE DEF before
    <3> QED BY <1>0, <2>1, MaxExists
  <2>3. \A j \in before(y) : j \in 0..a
    <3>1. ASSUME NEW j \in ends, j < y PROVE j \in 0..a
      <4>1. j \in 1..n /\ y \in 1..n
        BY <1>2, <1>4
      <4>2. ~(a < j)
        BY <1>3, <3>1, <4>1
      <4> QED BY <1>0, <4>1, <4>2
    <3> QED BY <1>0, <3>1
  <2> QED BY <2>2, <2>3
<1> DEFINE m == Max(before(y))
<1>8. SubSeq(s, m + 1, y) \in Pieces(s, cuts)
  BY <1>4 DEF Pieces, n
<1>9. Fits(SubSeq(s, m + 1, y))
  BY <1>1, <1>8
<1>10. m \in 0..a
  BY <1>7
<1> HIDE DEF m
<1>11. /\ a + 1 \in 1..Len(s) /\ b + 1 \in (a + 1)..Len(s)
       /\ m + 1 \in 1..(a + 1) /\ y \in (b + 1)..Len(s)
  BY <1>0, <1>4, <1>6, <1>10 DEF n
<1>12. Fits(SubSeq(s, a + 1, b + 1))
  BY <1>9, <1>11, FitsWithin
<1> QED BY <1>12

(* The greedy payloads are the fewest: every cutting has a cut in each of
   them but the last, at or before its end, so it has as many cuts.  This is
   why Chunk's one pass with no look-ahead is enough. *)
THEOREM GreedyIsFewest ==
    ASSUME NEW ps \in Seq(Seq(Events) \ {<<>>}), Greedy(ps),
           \A i \in DOMAIN ps : Fits(ps[i])
    PROVE  Len(ps) = Fewest(FlattenSeq(ps))
<1> DEFINE m == Len(ps)
           s == FlattenSeq(ps)
           n == Len(s)
<1>0. m \in Nat /\ ps \in Seq(Seq(Events)) /\ \A i \in 1..m : ps[i] \in Seq(Events) /\ ps[i] # <<>>
  OBVIOUS
<1>1. PICK ends \in [0..m -> 0..n] :
        /\ ends[0] = 0 /\ ends[m] = n
        /\ \A i, j \in 0..m : i < j => ends[i] < ends[j]
        /\ \A i \in 1..m : ps[i] = SubSeq(s, ends[i - 1] + 1, ends[i])
  BY FlattenEnds
<1>2. s \in Seq(Events) /\ n \in Nat
  <2>1. <<>> \in Seq(Events)
    OBVIOUS
  <2>2. s \in Seq(Events)
    <3> HIDE DEF s
    <3>1. FlattenSeq(ps) \in Seq(Events)
      BY <1>0, <2>1, FlattenAppend
    <3> QED BY <3>1 DEF s
  <2> HIDE DEF s
  <2> QED BY <2>2
<1> HIDE DEF m, n, s
<1>3. CASE m = 0
  <2>1. ps = <<>>
    BY <1>3 DEF m
  <2>2. s = <<>>
    BY <2>1, FlattenEmpty DEF s
  <2> QED BY <1>3, <2>2 DEF Fewest, s, m
<1>4. CASE m # 0
  <2> DEFINE cuts == {ends[i] : i \in 1..(m - 1)}
             Sizes == {Cardinality(c) + 1 : c \in Cuttings(s)}
  <2>0. m \in Nat \ {0} /\ n \in Nat \ {0}
    <3>1. m \in Nat \ {0}
      BY <1>0, <1>4
    <3>2. 0 \in 0..m /\ m \in 0..m /\ 0 < m
      BY <3>1
    <3> QED BY <1>1, <1>2, <3>1, <3>2
  <2>1. s # <<>>
    <3>1. Len(s) # 0
      BY <2>0 DEF n
    <3> QED BY <3>1
  <2>9. /\ \A i \in 0..m : ends[i] \in Nat
        /\ \A i, j \in 0..m : i < j => ends[i] < ends[j]
        /\ \A i, j \in 0..m : i <= j => ends[i] <= ends[j]
    <3>1. \A i \in 0..m : ends[i] \in Nat
      BY <1>1, <2>0
    <3>2. ASSUME NEW i \in 0..m, NEW j \in 0..m, i <= j PROVE ends[i] <= ends[j]
      <4>1. CASE i = j
        BY <3>1, <4>1
      <4>2. CASE i # j
        <5>1. i < j
          BY <2>0, <3>2, <4>2
        <5>2. ends[i] < ends[j]
          BY <1>1, <5>1
        <5> QED BY <3>1, <5>2
      <4> QED BY <4>1, <4>2
    <3>3. \A i, j \in 0..m : i < j => ends[i] < ends[j]
      BY <1>1
    <3> QED BY <3>1, <3>2, <3>3
  <2>2. Fewest(s) = Min(Sizes)
    <3> HIDE DEF s
    <3> QED BY <2>1 DEF Fewest, Cuttings
  <2>3. \A i \in 1..(m - 1) : ends[i] \in 1..(n - 1)
    <3> SUFFICES ASSUME NEW i \in 1..(m - 1) PROVE ends[i] \in 1..(n - 1)
      OBVIOUS
    <3>1. i \in 0..m /\ 0 \in 0..m /\ m \in 0..m /\ 0 < i /\ i < m
      BY <2>0
    <3>2. ends[0] < ends[i] /\ ends[i] < ends[m] /\ ends[i] \in Nat
      BY <2>9, <3>1
    <3>3. 0 < ends[i] /\ ends[i] < n
      BY <1>1, <3>2
    <3> QED BY <2>0, <3>2, <3>3
  <2>4. \A i \in 1..(m - 1) : \A x \in 1..(m - 1) : ends[i] = ends[x] => i = x
    <3> SUFFICES ASSUME NEW i \in 1..(m - 1), NEW x \in 1..(m - 1), i # x
                 PROVE  ends[i] # ends[x]
      OBVIOUS
    <3>1. i \in 0..m /\ x \in 0..m /\ (i < x \/ x < i)
      BY <2>0
    <3>2. ends[i] \in Nat /\ ends[x] \in Nat
      BY <2>9, <3>1
    <3> QED BY <2>9, <3>1, <3>2
  <2>5. Cardinality(cuts) = m - 1
    <3> DEFINE f == [i \in 1..(m - 1) |-> ends[i]]
    <3>1. f \in Bijection(1..(m - 1), cuts)
      BY <2>4 DEF Bijection, Injection, Surjection, IsInjective
    <3>2. ExistsBijection(1..(m - 1), cuts) /\ m - 1 \in Nat
      <4>1. m - 1 \in Nat
        BY <2>0
      <4> HIDE DEF f, cuts
      <4> QED BY <3>1, <4>1 DEF ExistsBijection
    <3> HIDE DEF cuts
    <3> QED BY <3>2, FS_CountingElements
  <2>6. cuts \in Cuttings(s)
    <3> SUFFICES ASSUME NEW p \in Pieces(s, cuts) PROVE Fits(p)
      BY <2>3 DEF Cuttings, n
    <3> DEFINE all == cuts \cup {n}
               before(i) == {0} \cup {j \in all : j < i}
    <3>1. PICK e \in all : p = SubSeq(s, Max(before(e)) + 1, e)
      BY DEF Pieces, n
    <3>2. PICK i \in 1..m : e = ends[i]
      <4>1. CASE e = n
        <5>1. m \in 1..m
          BY <2>0
        <5> QED BY <1>1, <4>1, <5>1
      <4>2. CASE e \in cuts
        <5>1. PICK i \in 1..(m - 1) : e = ends[i]
          BY <4>2
        <5>2. i \in 1..m
          BY <2>0
        <5> QED BY <5>1, <5>2
      <4> QED BY <3>1, <4>1, <4>2
    <3>3. Max(before(e)) = ends[i - 1]
      <4>1. i - 1 \in 0..m /\ i \in 0..m /\ i - 1 < i
        BY <2>0
      <4>2. ends[i - 1] \in Nat /\ ends[i] \in Nat /\ ends[i - 1] < ends[i]
        BY <2>9, <4>1
      <4>3. ends[i - 1] \in before(e)
        <5>1. CASE i = 1
          BY <1>1, <5>1
        <5>2. CASE i # 1
          <6>1. i - 1 \in 1..(m - 1)
            BY <2>0, <5>2
          <6>2. ends[i - 1] \in all
            BY <6>1
          <6> QED BY <3>2, <4>2, <6>2
        <5> QED BY <5>1, <5>2
      <4>4. ASSUME NEW j \in before(e) PROVE j \in Int /\ ends[i - 1] >= j
        <5>1. CASE j = 0
          BY <4>2, <5>1
        <5>2. CASE j # 0
          <6>1. j \in all /\ j < ends[i]
            BY <3>2, <5>2
          <6>2. PICK x \in 1..m : j = ends[x]
            <7>1. CASE j = n
              <8>1. m \in 1..m
                BY <2>0
              <8> QED BY <1>1, <7>1, <8>1
            <7>2. CASE j \in cuts
              <8>1. PICK x \in 1..(m - 1) : j = ends[x]
                BY <7>2
              <8>2. x \in 1..m
                BY <2>0
              <8> QED BY <8>1, <8>2
            <7> QED BY <6>1, <7>1, <7>2
          <6>3. x \in 0..m /\ ends[x] \in Nat
            <7>1. x \in 0..m
              BY <2>0
            <7> QED BY <2>9, <7>1
          <6>4. ~(i <= x)
            <7>1. ASSUME i <= x PROVE FALSE
              <8>1. ends[i] <= ends[x]
                BY <2>9, <4>1, <6>3, <7>1
              <8> QED BY <4>2, <6>1, <6>2, <6>3, <8>1
            <7> QED BY <7>1
          <6>5. x <= i - 1
            BY <4>1, <6>3, <6>4
          <6>6. ends[x] <= ends[i - 1]
            BY <2>9, <4>1, <6>3, <6>5
          <6> QED BY <4>2, <6>2, <6>3, <6>6
        <5> QED BY <5>1, <5>2
      <4>5. before(e) \in SUBSET Int /\ \A j \in before(e) : ends[i - 1] >= j
        BY <4>4
      <4> HIDE DEF before
      <4> QED BY <4>3, <4>5, MaxIs
    <3>4. p = ps[i]
      BY <1>1, <3>1, <3>2, <3>3
    <3> QED BY <3>4 DEF m
  <2>7. ASSUME NEW c \in Cuttings(s)
        PROVE  Cardinality(c) \in Nat /\ m - 1 <= Cardinality(c)
    <3>1. IsFiniteSet(c) /\ Cardinality(c) \in Nat
      <4>1. c \in SUBSET (1..(n - 1)) /\ n - 1 \in Int
        BY <2>0 DEF Cuttings, n
      <4>2. IsFiniteSet(c)
        <5>1. IsFiniteSet(1..(n - 1))
          BY <4>1, FS_Interval
        <5> QED BY <4>1, <5>1, FS_Subset
      <4> QED BY <4>2, FS_CardinalityType
    <3>2. ASSUME NEW i \in 1..(m - 1)
          PROVE  \E x \in c : ends[i - 1] < x /\ x <= ends[i]
      <4>1. i - 1 \in 0..m /\ i \in 0..m /\ i + 1 \in 0..m /\ i + 1 \in 1..m /\ i \in 1..m
            /\ m \in 0..m
        BY <2>0
      <4>2. /\ ends[i - 1] \in 0..n /\ ends[i] \in 0..n /\ ends[i + 1] \in 0..n
            /\ ends[i - 1] < ends[i] /\ ends[i] < ends[i + 1]
            /\ ends[i] < n
        <5>1. i - 1 < i /\ i < i + 1 /\ i < m
          BY <2>0
        <5> QED BY <1>1, <2>9, <4>1, <5>1
      <4>3. Append(ps[i], Head(ps[i + 1])) = SubSeq(s, ends[i - 1] + 1, ends[i] + 1)
        <5> DEFINE a == ends[i - 1]
                   b == ends[i]
                   d == ends[i + 1]
        <5>1. /\ ps[i] = SubSeq(s, a + 1, b)
              /\ ps[i + 1] = SubSeq(s, b + 1, d)
          <6>1. (i + 1) - 1 = i
            BY <2>0
          <6> QED BY <1>1, <4>1, <6>1
        <5>2. a \in Nat /\ b \in Nat /\ d \in 0..n /\ a < b /\ b < d
          BY <4>2
        <5> HIDE DEF a, b, d
        <5>3. b + 1 \in 1..n /\ d \in (b + 1)..n /\ a + 1 \in 1..n /\ b + 1 \in (a + 1)..n
              /\ (b + 1) - 1 = b
          BY <2>0, <5>2
        <5> HIDE DEF s
        <5>4. Head(ps[i + 1]) = s[b + 1]
          BY <1>2, <5>1, <5>3, HeadTailOfSubSeq DEF n
        <5>5. SubSeq(s, a + 1, b + 1) = ps[i] \o <<s[b + 1]>>
          BY <1>2, <5>1, <5>3, SubSeqRecursiveSecond DEF n
        <5>6. ps[i] \in Seq(Events) /\ s[b + 1] \in Events
          <6>1. s[b + 1] \in Events
            BY <1>2, <5>3 DEF n
          <6> QED BY <1>0, <4>1, <6>1
        <5>7. Append(ps[i], s[b + 1]) = ps[i] \o <<s[b + 1]>>
          BY <5>6, AppendIsConcat
        <5> QED BY <5>4, <5>5, <5>7 DEF a, b
      <4>4. ~Fits(SubSeq(s, ends[i - 1] + 1, ends[i] + 1))
        BY <4>3 DEF Greedy, m
      <4> HIDE DEF s
      <4> QED BY <1>2, <4>2, <4>4, CutWithin DEF n
    <3> DEFINE f == [i \in 1..(m - 1) |->
                       CHOOSE x \in c : ends[i - 1] < x /\ x <= ends[i]]
    <3>3. ASSUME NEW i \in 1..(m - 1)
          PROVE  f[i] \in c /\ ends[i - 1] < f[i] /\ f[i] <= ends[i]
      <4>1. PICK z \in c : ends[i - 1] < z /\ z <= ends[i]
        BY <3>2
      <4>2. f[i] = CHOOSE x \in c : ends[i - 1] < x /\ x <= ends[i]
        OBVIOUS
      <4> HIDE DEF f
      <4> QED BY <4>1, <4>2, Zenon
    <3> HIDE DEF f
    <3>4. ASSUME NEW i \in 1..(m - 1), NEW x \in 1..(m - 1), i < x
          PROVE  f[i] # f[x]
      <4>1. x - 1 \in 0..m /\ i \in 0..m /\ i <= x - 1
        BY <2>0, <3>4
      <4>2. ends[i] <= ends[x - 1] /\ ends[i] \in Nat /\ ends[x - 1] \in Nat
        BY <2>9, <4>1
      <4>3. f[i] <= ends[i] /\ ends[x - 1] < f[x] /\ f[i] \in Int /\ f[x] \in Int
        <5>1. c \subseteq Int
          BY DEF Cuttings, n
        <5> QED BY <3>3, <5>1
      <4> QED BY <4>2, <4>3
    <3>5. f \in Injection(1..(m - 1), c)
      <4>1. f \in [1..(m - 1) -> c]
        BY <3>3 DEF f
      <4>2. \A i, x \in 1..(m - 1) : f[i] = f[x] => i = x
        <5>1. \A i, x \in 1..(m - 1) : i = x \/ i < x \/ x < i
          BY <2>0
        <5> QED BY <3>4, <5>1
      <4> QED BY <4>1, <4>2 DEF Injection, IsInjective
    <3>6. Cardinality(1..(m - 1)) = m - 1
      <4>1. 1 \in Int /\ m - 1 \in Int
        BY <2>0
      <4> QED BY <2>0, <4>1, FS_Interval
    <3> QED BY <3>1, <3>5, <3>6, FS_Injection
  <2>8. Min(Sizes) = m
    <3>1. \A v \in Sizes : v \in Int /\ m <= v
      BY <2>0, <2>7
    <3>2. m \in Sizes
      <4>1. Cardinality(cuts) + 1 \in Sizes
        <5> HIDE DEF cuts
        <5> QED BY <2>6
      <4>2. Cardinality(cuts) + 1 = m
        BY <2>0, <2>5
      <4> QED BY <4>1, <4>2
    <3> HIDE DEF Sizes
    <3> QED BY <3>1, <3>2, MinIs
  <2> QED BY <2>2, <2>8 DEF m, s
<1> QED BY <1>3, <1>4

(* Chunk opens a payload for an event only when the last one has no room:
   the payloads stay greedy. *)
LEMMA OpenPayload ==
    ASSUME NEW ps \in Seq(Seq(Events) \ {<<>>}), NEW e \in Events,
           \A i \in DOMAIN ps : Fits(ps[i]), Greedy(ps), Fits(<<e>>),
           ps # <<>> => ~Fits(Append(ps[Len(ps)], e))
    PROVE  /\ \A i \in DOMAIN Append(ps, <<e>>) : Fits(Append(ps, <<e>>)[i])
           /\ Greedy(Append(ps, <<e>>))
           /\ FlattenSeq(Append(ps, <<e>>)) = Append(FlattenSeq(ps), e)
<1> DEFINE n == Len(ps)
           p == <<e>>
           qs == Append(ps, p)
<1>0. n \in Nat
  OBVIOUS
<1>1. DOMAIN ps = 1..n /\ ps \in Seq(Seq(Events))
  OBVIOUS
<1>2. p \in Seq(Events) /\ Head(p) = e /\ Fits(p)
  OBVIOUS
<1>3. /\ DOMAIN qs = 1..(n + 1) /\ Len(qs) = n + 1
      /\ \A i \in 1..n : qs[i] = ps[i]
      /\ qs[n + 1] = p
  OBVIOUS
<1>4. ps # <<>> <=> n # 0
  OBVIOUS
<1>5. FlattenSeq(qs) = FlattenSeq(ps) \o p /\ FlattenSeq(ps) \in Seq(Events)
  <2> HIDE DEF p
  <2> QED BY <1>1, <1>2, FlattenAppend
<1>6. FlattenSeq(ps) \o p = Append(FlattenSeq(ps), e)
  <2> DEFINE f == FlattenSeq(ps)
  <2>1. f \in Seq(Events)
    BY <1>5
  <2> HIDE DEF f
  <2> QED BY <2>1, AppendIsConcat DEF f
<1> HIDE DEF p, qs
<1>7. \A i \in DOMAIN qs : Fits(qs[i])
  <2> HIDE DEF n
  <2>1. \A i \in 1..(n + 1) : i \in 1..n \/ i = n + 1
    BY <1>0
  <2> QED BY <1>1, <1>2, <1>3, <2>1
<1>8. Greedy(qs)
  <2> SUFFICES ASSUME NEW i \in 1..n PROVE ~Fits(Append(qs[i], Head(qs[i + 1])))
    <3>1. Len(qs) - 1 = n
      BY <1>0, <1>3
    <3> HIDE DEF n
    <3> QED BY <3>1 DEF Greedy
  <2>1. CASE i = n
    <3>1. n # 0
      BY <1>0
    <3> QED BY <1>2, <1>3, <1>4, <2>1, <3>1
  <2>2. CASE i # n
    <3>1. i \in 1..(n - 1) /\ i + 1 \in 1..n
      <4> HIDE DEF n
      <4> QED BY <1>0, <2>2
    <3>2. ~Fits(Append(ps[i], Head(ps[i + 1])))
      BY <3>1 DEF Greedy
    <3> HIDE DEF n
    <3> QED BY <1>3, <3>1, <3>2
  <2> QED BY <2>1, <2>2
<1> QED BY <1>5, <1>6, <1>7, <1>8 DEF p, qs

(* Chunk adds an event that fits to the last payload: they stay greedy. *)
LEMMA GrowPayload ==
    ASSUME NEW ps \in Seq(Seq(Events) \ {<<>>}), NEW p \in Seq(Events) \ {<<>>}, NEW e \in Events,
           \A i \in DOMAIN Append(ps, p) : Fits(Append(ps, p)[i]),
           Greedy(Append(ps, p)), Fits(Append(p, e))
    PROVE  /\ \A i \in DOMAIN Append(ps, Append(p, e)) : Fits(Append(ps, Append(p, e))[i])
           /\ Greedy(Append(ps, Append(p, e)))
           /\ FlattenSeq(Append(ps, Append(p, e))) = Append(FlattenSeq(Append(ps, p)), e)
<1> DEFINE n == Len(ps)
           r == Append(p, e)
           old == Append(ps, p)
           qs == Append(ps, r)
<1>0. n \in Nat
  OBVIOUS
<1>1. ps \in Seq(Seq(Events))
  OBVIOUS
<1>2. r \in Seq(Events) /\ Head(r) = Head(p)
  OBVIOUS
<1>3. /\ DOMAIN qs = 1..(n + 1) /\ Len(qs) = n + 1
      /\ DOMAIN old = 1..(n + 1) /\ Len(old) = n + 1
      /\ \A i \in 1..n : qs[i] = ps[i] /\ old[i] = ps[i]
      /\ qs[n + 1] = r /\ old[n + 1] = p
  OBVIOUS
<1>4. /\ FlattenSeq(qs) = FlattenSeq(ps) \o r /\ FlattenSeq(ps) \in Seq(Events)
      /\ FlattenSeq(old) = FlattenSeq(ps) \o p
  <2> HIDE DEF r
  <2> QED BY <1>1, <1>2, FlattenAppend
<1>5. FlattenSeq(ps) \o r = Append(FlattenSeq(ps) \o p, e)
  <2> DEFINE f == FlattenSeq(ps)
  <2>1. f \in Seq(Events)
    BY <1>4
  <2> HIDE DEF f
  <2> QED BY <2>1, ConcatAppend DEF f
<1>6. Fits(r)
  OBVIOUS
<1> HIDE DEF r, qs, old
<1>7. \A i \in DOMAIN qs : Fits(qs[i])
  <2> HIDE DEF n
  <2>1. \A i \in 1..(n + 1) : i \in 1..n \/ i = n + 1
    BY <1>0
  <2>2. \A i \in 1..n : i \in 1..(n + 1)
    BY <1>0
  <2>3. \A i \in 1..n : Fits(ps[i])
    BY <1>3, <2>2 DEF old
  <2> QED BY <1>3, <1>6, <2>1, <2>3
<1>8. Greedy(qs)
  <2>1. Len(qs) - 1 = n /\ Len(old) - 1 = n
    BY <1>0, <1>3
  <2>2. \A i \in 1..n : ~Fits(Append(old[i], Head(old[i + 1])))
    BY <2>1 DEF Greedy, old
  <2> SUFFICES ASSUME NEW i \in 1..n PROVE ~Fits(Append(qs[i], Head(qs[i + 1])))
    <3> HIDE DEF n
    <3> QED BY <2>1 DEF Greedy
  <2>3. qs[i] = old[i]
    BY <1>3
  <2>4. Head(qs[i + 1]) = Head(old[i + 1])
    <3> HIDE DEF n
    <3>1. i + 1 \in 1..n \/ i + 1 = n + 1
      BY <1>0
    <3> QED BY <1>2, <1>3, <3>1
  <2> QED BY <2>2, <2>3, <2>4
<1> QED BY <1>4, <1>5, <1>7, <1>8 DEF r, qs, old

(* The part v of a batch d that is left, and what happens when its head goes. *)
LEMMA SeenStep ==
    ASSUME NEW d \in Seq(Events), NEW v \in Seq(Events), v # <<>>,
           d = SubSeq(d, 1, Len(d) - Len(v)) \o v
    PROVE  LET s == SubSeq(d, 1, Len(d) - Len(v))
               t == SubSeq(d, 1, Len(d) - Len(Tail(v)))
           IN  /\ s \in Seq(Events) /\ Len(t) = Len(s) + 1
               /\ t = Append(s, Head(v)) /\ d = t \o Tail(v)
<1> DEFINE l == Len(d)
           k == Len(v)
           m == l - k
           s == SubSeq(d, 1, m)
           t == SubSeq(d, 1, l - Len(Tail(v)))
           h == Head(v)
           w == Tail(v)
<1>1. /\ h \in Events /\ w \in Seq(Events) /\ Len(w) = k - 1
      /\ k \in Nat \ {0} /\ l \in Nat
  <2>1. h \in Events /\ w \in Seq(Events) /\ Len(w) = k - 1
    BY HeadTailProperties
  <2>2. k \in Nat \ {0}
    BY EmptySeq
  <2>3. l \in Nat
    OBVIOUS
  <2> QED BY <2>1, <2>2, <2>3
<1>2. v = <<h>> \o w
  <2>1. /\ Len(<<h>> \o w) = k /\ <<h>> \o w \in Seq(Events)
        /\ \A i \in 1..k : (<<h>> \o w)[i] = v[i]
    OBVIOUS
  <2> QED BY <2>1, SeqEqual
<1>3. \A i \in 1..m : d[i] \in Events
  <2>1. \A i \in 1..l : d[i] \in Events
    OBVIOUS
  <2>2. \A i \in 1..m : i \in 1..l
    <3> HIDE DEF l, k
    <3> QED BY <1>1
  <2> QED BY <2>1, <2>2
<1>4. s \in Seq(Events) /\ Len(s) = IF 1 <= m THEN m ELSE 0
  <2>1. m \in Int
    BY <1>1
  <2> HIDE DEF m
  <2>2. s \in Seq(Events) /\ Len(s) = IF 1 <= m THEN m - 1 + 1 ELSE 0
    BY <1>3, <2>1, SubSeqProperties
  <2> HIDE DEF s
  <2> QED BY <2>1, <2>2
<1>5. d = s \o v
  OBVIOUS
<1> HIDE DEF s
<1>6. l = Len(s) + k
  BY <1>4, <1>5
<1> HIDE DEF h, w, l, k
<1>7. Len(s) = m /\ m \in Nat /\ l = m + k
  BY <1>1, <1>4, <1>6
<1>8. t = SubSeq(d, 1, m + 1)
  <2>1. l - Len(w) = m + 1
    BY <1>1, <1>7
  <2> QED BY <2>1 DEF w
<1>9. s \o <<h>> = t /\ s \o <<h>> = Append(s, h)
  <2>1. d[m + 1] = h
    <3>1. s \in Seq(Events) /\ 1 \in 1..Len(v)
      BY <1>1, <1>4 DEF k
    <3>2. (s \o v)[Len(s) + 1] = v[1]
      BY <3>1
    <3>3. v[1] = h
      BY DEF h
    <3> QED BY <1>5, <1>7, <3>2, <3>3
  <2>2. 1 \in 1..Len(d) /\ m + 1 \in 1..Len(d) /\ (m + 1) - 1 = m
    BY <1>1, <1>7 DEF l
  <2>3. SubSeq(d, 1, m + 1) = SubSeq(d, 1, m) \o <<d[m + 1]>>
    <3> HIDE DEF m
    <3> QED BY <2>2, SubSeqRecursiveSecond
  <2>4. s \o <<h>> = Append(s, h)
    BY <1>1, <1>4, AppendIsConcat
  <2> QED BY <1>8, <2>1, <2>3, <2>4 DEF s
<1>10. d = t \o w
  <2>1. <<h>> \in Seq(Events)
    BY <1>1
  <2>2. (s \o <<h>>) \o w = s \o (<<h>> \o w)
    BY <1>1, <1>4, <2>1, ConcatAssociative
  <2> QED BY <1>2, <1>5, <1>9, <2>2
<1>11. Len(t) = Len(s) + 1
  <2>1. Len(Append(s, h)) = Len(s) + 1
    BY <1>1, <1>4
  <2> QED BY <1>9, <2>1
<1> QED BY <1>4, <1>9, <1>10, <1>11 DEF s, t, h, w, l, k, m

-----------------------------------------------------------------------------
(* The events of the batch that Chunk has looked at. *)
Seen == SubSeq(batch, 1, Len(batch) - Len(events))

(* The types of the variables. *)
Types ==
    /\ msgs \in Seq(Events \cup {Bad}) /\ events \in Seq(Events)
    /\ current \in Seq(Events) /\ payloads \in Seq(Seq(Events) \ {<<>>})
    /\ batch \in Seq(Events \cup {Bad}) /\ dropped \in Nat
    /\ pc \in {"decode", "chunk", "done", "error"}

(* currentSize is the size of the payload being built; 2 before its first event. *)
SizeRight == currentSize = IF current = <<>> THEN 2 ELSE Bytes("read", current)

(* Chunk has done nothing while Decode runs. *)
NotStarted ==
    pc \in {"decode", "error"} => payloads = <<>> /\ current = <<>> /\ dropped = 0

(* Decode takes the messages one by one, and only events go on to Chunk. *)
BatchKept ==
    /\ pc = "decode" => batch = events \o msgs
    /\ pc \in {"chunk", "done"} => batch \in Seq(Events)

(* The bound on a batch. *)
BatchBounded == Len(batch) <= MaxMessages

(* The payloads, with the one being built, hold the sendable events seen so
   far in order, and dropped counts the others. *)
Accounted ==
    pc \in {"chunk", "done"} =>
        /\ batch = Seen \o events
        /\ FlattenSeq(Flushed) = Sendable(Seen)
        /\ dropped + Len(Sendable(Seen)) = Len(Seen)

(* Every payload fits, the one being built included. *)
WithinLimits == \A i \in DOMAIN Flushed : Fits(Flushed[i])

(* A finished Chunk has nothing left, and a payload is empty only before the
   first event that fits. *)
Edges ==
    /\ pc = "done" => events = <<>> /\ current = <<>>
    /\ pc = "chunk" /\ current = <<>> => payloads = <<>>

(* The inductive invariant.  NothingLost and FewestPayloads speak of the end
   only: Accounted and Greedy(Flushed) are what Chunk keeps on the way. *)
IInv ==
    /\ Types /\ SizeRight /\ NotStarted /\ BatchKept /\ BatchBounded
    /\ Accounted /\ WithinLimits /\ Greedy(Flushed) /\ Edges

(* An event that is not too large fits alone. *)
LEMMA FitsAlone ==
    ASSUME NEW e \in Events, ~TooLarge(e)
    PROVE  Fits(<<e>>)
<1>1. Bytes("read", <<e>>) = 2 + e.read /\ Len(<<e>>) = 1 /\ e.read \in Nat
  BY BytesOne, EventLengths
<1> QED BY <1>1, ConstantsAssumption DEF Fits, TooLarge

(* flush yields payloads that are not empty. *)
LEMMA FlushedType ==
    ASSUME Types
    PROVE  Flushed \in Seq(Seq(Events) \ {<<>>})
  BY DEF Types, Flushed

(* Chunk's test for room, made on its running size, agrees with the size of
   the payload. *)
LEMMA RoomIsFit ==
    ASSUME Types, SizeRight, NEW e \in Events, current # <<>>
    PROVE  NoRoom(e) <=> ~Fits(Append(current, e))
<1>1. current \in Seq(Events) /\ e.read \in Nat
  BY EventLengths DEF Types
<1>2. Bytes("read", current) \in Nat /\ Bytes("read", Append(current, e)) = Bytes("read", current) + 1 + e.read
  BY <1>1, BytesAppend
<1>3. Len(Append(current, e)) = Len(current) + 1 /\ Len(current) \in Nat
  BY <1>1
<1>4. currentSize = Bytes("read", current)
  BY DEF SizeRight
<1>5. AddSize(e) = e.read + 1
  BY DEF AddSize
<1> DEFINE b == Bytes("read", current)
           c == Bytes("read", Append(current, e))
           l == Len(current)
           k == Len(Append(current, e))
<1>6. /\ NoRoom(e) <=> b + (e.read + 1) > MaxBodyBytes \/ l + 1 > MaxBatchCount
      /\ Fits(Append(current, e)) <=> c <= MaxBodyBytes /\ k <= MaxBatchCount
      /\ b \in Nat /\ l \in Nat /\ c = b + 1 + e.read /\ k = l + 1
  BY <1>2, <1>3, <1>4, <1>5 DEF NoRoom, Fits
<1> HIDE DEF b, c, l, k
<1> QED BY <1>1, <1>6, ConstantsAssumption

(* A payload just opened has room for any event that is not too large. *)
LEMMA RoomWhenEmpty ==
    ASSUME SizeRight, NEW e \in Events, ~TooLarge(e), current = <<>>
    PROVE  ~NoRoom(e)
<1>1. e.read \in Nat /\ currentSize = 2 /\ AddSize(e) = e.read + 0 /\ Len(current) = 0
  BY EventLengths DEF SizeRight, AddSize
<1> QED BY <1>1, ConstantsAssumption DEF NoRoom, TooLarge

(* What adding an event does to the payloads. *)
LEMMA AddEventFlushed ==
    ASSUME Types, SizeRight, WithinLimits, Greedy(Flushed), Edges, AddEvent
    PROVE  /\ Types' /\ SizeRight' /\ WithinLimits' /\ Greedy(Flushed)' /\ Edges'
           /\ FlattenSeq(Flushed)' = Append(FlattenSeq(Flushed), Head(events))
<1> DEFINE e == Head(events)
<1>1. /\ pc = "chunk" /\ events # <<>> /\ ~TooLarge(e)
      /\ events' = Tail(events) /\ pc' = "chunk"
      /\ UNCHANGED <<msgs, dropped, batch>>
  BY DEF AddEvent
<1>2. e \in Events /\ e.read \in Nat /\ events' \in Seq(Events) /\ Fits(<<e>>)
  <2>1. events \in Seq(Events)
    BY DEF Types
  <2>2. e \in Events /\ events' \in Seq(Events)
    BY <1>1, <2>1
  <2> HIDE DEF e
  <2> QED BY <1>1, <2>2, EventLengths, FitsAlone
<1>3. /\ current \in Seq(Events) /\ payloads \in Seq(Seq(Events) \ {<<>>})
      /\ Flushed \in Seq(Seq(Events) \ {<<>>})
  BY FlushedType DEF Types
<1>4. \A i \in DOMAIN Flushed : Fits(Flushed[i])
  BY DEF WithinLimits
<1>5. ASSUME NEW p \in Seq(Events) \ {<<>>}, current' = p, payloads' \in Seq(Seq(Events) \ {<<>>}),
             currentSize' = Bytes("read", p)
      PROVE  Types' /\ SizeRight' /\ Edges' /\ Flushed' = Append(payloads', p)
  <2>1. Types'
    BY <1>1, <1>2, <1>5 DEF Types
  <2>2. SizeRight' /\ Edges'
    BY <1>1, <1>5 DEF SizeRight, Edges
  <2> QED BY <1>5, <2>1, <2>2 DEF Flushed
<1>6. Bytes("read", <<e>>) = 2 + e.read /\ <<e>> \in Seq(Events) \ {<<>>}
  <2> HIDE DEF e
  <2> QED BY <1>2, BytesOne
<1>7. ASSUME NEW qs, Flushed' = qs, \A i \in DOMAIN qs : Fits(qs[i]), Greedy(qs)
      PROVE  WithinLimits' /\ Greedy(Flushed)'
  BY <1>7 DEF WithinLimits, Greedy
<1>8. CASE NoRoom(e)
  <2>1. /\ payloads' = Flushed /\ current' = <<e>> /\ currentSize' = 2 + e.read
    BY <1>8 DEF AddEvent
  <2>2. current # <<>>
    <3> HIDE DEF e
    <3> QED BY <1>1, <1>2, <1>8, RoomWhenEmpty
  <2>3. Flushed = Append(payloads, current)
    BY <2>2 DEF Flushed
  <2>4. Flushed # <<>> => ~Fits(Append(Flushed[Len(Flushed)], e))
    <3>1. Flushed[Len(Flushed)] = current
      BY <1>3, <2>3
    <3> HIDE DEF e
    <3> QED BY <1>2, <1>8, <2>2, <3>1, RoomIsFit
  <2>5. payloads' \in Seq(Seq(Events) \ {<<>>})
    BY <2>1, FlushedType
  <2> HIDE DEF e
  <2>6. Types' /\ SizeRight' /\ Edges' /\ Flushed' = Append(Flushed, <<e>>)
    BY <1>5, <1>6, <2>1, <2>5
  <2>7. /\ \A i \in DOMAIN Append(Flushed, <<e>>) : Fits(Append(Flushed, <<e>>)[i])
        /\ Greedy(Append(Flushed, <<e>>))
        /\ FlattenSeq(Append(Flushed, <<e>>)) = Append(FlattenSeq(Flushed), e)
    BY <1>2, <1>3, <1>4, <2>4, OpenPayload
  <2> QED BY <1>7, <2>6, <2>7 DEF e
<1>9. CASE ~NoRoom(e) /\ current = <<>>
  <2>1. /\ payloads' = payloads /\ current' = Append(current, e)
        /\ currentSize' = currentSize + AddSize(e)
    BY <1>9 DEF AddEvent
  <2>2. current' = <<e>>
    BY <1>2, <1>9, <2>1
  <2>3. currentSize' = 2 + e.read
    BY <1>2, <1>9, <2>1 DEF SizeRight, AddSize
  <2>4. Flushed = payloads /\ payloads = <<>>
    BY <1>1, <1>9 DEF Flushed, Edges
  <2> HIDE DEF e
  <2>5. Types' /\ SizeRight' /\ Edges' /\ Flushed' = Append(Flushed, <<e>>)
    BY <1>3, <1>5, <1>6, <2>1, <2>2, <2>3, <2>4
  <2>6. /\ \A i \in DOMAIN Append(Flushed, <<e>>) : Fits(Append(Flushed, <<e>>)[i])
        /\ Greedy(Append(Flushed, <<e>>))
        /\ FlattenSeq(Append(Flushed, <<e>>)) = Append(FlattenSeq(Flushed), e)
    BY <1>2, <1>3, <1>4, <2>4, OpenPayload
  <2> QED BY <1>7, <2>5, <2>6 DEF e
<1>10. CASE ~NoRoom(e) /\ current # <<>>
  <2>1. /\ payloads' = payloads /\ current' = Append(current, e)
        /\ currentSize' = currentSize + AddSize(e)
    BY <1>10 DEF AddEvent
  <2> HIDE DEF e
  <2>2. Fits(Append(current, e))
    BY <1>2, <1>10, RoomIsFit
  <2>3. Flushed = Append(payloads, current)
    BY <1>10 DEF Flushed
  <2>4. Append(current, e) \in Seq(Events) \ {<<>>}
    <3>1. e \in Events /\ current \in Seq(Events)
      BY <1>2, <1>3
    <3> QED BY <3>1, AppendProperties
  <2>5. currentSize' = Bytes("read", Append(current, e))
    <3>1. Bytes("read", current) \in Nat /\ Bytes("read", Append(current, e)) = Bytes("read", current) + 1 + e.read
      BY <1>2, <1>3, BytesAppend
    <3>2. currentSize' = Bytes("read", current) + (e.read + 1)
      BY <1>10, <2>1 DEF SizeRight, AddSize
    <3> QED BY <1>2, <3>1, <3>2
  <2>6. Types' /\ SizeRight' /\ Edges' /\ Flushed' = Append(payloads, Append(current, e))
    BY <1>3, <1>5, <2>1, <2>4, <2>5
  <2>7. /\ \A i \in DOMAIN Append(payloads, Append(current, e)) :
             Fits(Append(payloads, Append(current, e))[i])
        /\ Greedy(Append(payloads, Append(current, e)))
        /\ FlattenSeq(Append(payloads, Append(current, e))) = Append(FlattenSeq(Flushed), e)
    <3>1. current \in Seq(Events) \ {<<>>}
      BY <1>3, <1>10
    <3>2. /\ \A i \in DOMAIN Append(payloads, current) : Fits(Append(payloads, current)[i])
          /\ Greedy(Append(payloads, current))
      BY <1>4, <2>3
    <3> QED BY <1>2, <1>3, <2>2, <2>3, <3>1, <3>2, GrowPayload
  <2> QED BY <1>7, <2>6, <2>7 DEF e
<1> QED BY <1>8, <1>9, <1>10

(* The first state. *)
LEMMA InitIInv == Init => IInv
<1> SUFFICES ASSUME Init PROVE IInv
  OBVIOUS
<1>1. /\ events = <<>> /\ current = <<>> /\ currentSize = 2 /\ payloads = <<>>
      /\ dropped = 0 /\ pc = "decode" /\ msgs = batch
  BY DEF Init
<1>2. msgs \in Seq(Events \cup {Bad}) /\ Len(msgs) <= MaxMessages
  <2>1. msgs \in BoundedSeq(Events \cup {Bad}, MaxMessages)
    BY <1>1 DEF Init
  <2>2. PICK n \in 0..MaxMessages : msgs \in [1..n -> Events \cup {Bad}]
    BY <2>1, Zenon DEF BoundedSeq, SeqOf
  <2>3. n \in Nat /\ n <= MaxMessages
    BY ConstantsAssumption
  <2> QED BY <2>2, <2>3
<1>3. Types
  BY <1>1, <1>2 DEF Types
<1>4. Flushed = <<>>
  BY <1>1 DEF Flushed
<1>5. SizeRight /\ NotStarted /\ Accounted /\ Edges
  BY <1>1 DEF SizeRight, NotStarted, Accounted, Edges
<1>6. BatchKept /\ BatchBounded
  <2>1. msgs = <<>> \o msgs
    BY <1>2, ConcatEmptySeq
  <2> QED BY <1>1, <1>2, <2>1 DEF BatchKept, BatchBounded
<1>7. WithinLimits /\ Greedy(Flushed)
  BY <1>4 DEF WithinLimits, Greedy
<1> QED BY <1>3, <1>5, <1>6, <1>7 DEF IInv

(* Steps that leave the payloads alone. *)
LEMMA SameFlushed ==
    ASSUME UNCHANGED <<payloads, current>>, WithinLimits, Greedy(Flushed)
    PROVE  /\ Flushed' = Flushed /\ WithinLimits' /\ Greedy(Flushed)'
  BY DEF Flushed, WithinLimits, Greedy

(* Decode takes a message. *)
LEMMA DecodeStep ==
    ASSUME IInv, Decode
    PROVE  IInv'
<1> USE DEF IInv
<1>1. /\ pc = "decode" /\ msgs # <<>> /\ msgs' = Tail(msgs)
      /\ UNCHANGED <<current, currentSize, payloads, dropped, batch>>
      /\ pc' \in {"decode", "error"}
      /\ \/ /\ Head(msgs) \in Events /\ events' = Append(events, Head(msgs))
         \/ pc' = "error" /\ events' = events
  BY DEF Decode
<1>2. /\ msgs \in Seq(Events \cup {Bad}) /\ events \in Seq(Events)
      /\ msgs' \in Seq(Events \cup {Bad}) /\ Len(msgs') = Len(msgs) - 1
      /\ Len(msgs) \in Nat
  <2>1. msgs \in Seq(Events \cup {Bad}) /\ events \in Seq(Events)
    BY DEF Types
  <2>2. msgs' \in Seq(Events \cup {Bad}) /\ Len(msgs') = Len(msgs) - 1
    BY <1>1, <2>1, HeadTailProperties
  <2> QED BY <2>1, <2>2
<1>3. events' \in Seq(Events)
  <2>1. CASE events' = events
    BY <1>2, <2>1
  <2>2. ASSUME NEW e \in Events, events' = Append(events, e) PROVE events' \in Seq(Events)
    BY <1>2, <2>2, AppendProperties
  <2> QED BY <1>1, <2>1, <2>2
<1>4. Types'
  BY <1>1, <1>2, <1>3 DEF Types
<1>5. SizeRight' /\ NotStarted' /\ Accounted' /\ Edges'
  BY <1>1 DEF SizeRight, NotStarted, Accounted, Edges
<1>6. BatchBounded'
  BY <1>1 DEF BatchBounded
<1>7. BatchKept'
  <2>1. ASSUME pc' = "decode" PROVE batch' = events' \o msgs'
    <3> DEFINE e == Head(msgs)
               B == Events \cup {Bad}
    <3>1. /\ events' = Append(events, e) /\ <<e>> \in Seq(B) /\ e \in B
      BY <1>1, <2>1
    <3>2. events \in Seq(B) /\ msgs' \in Seq(B)
      BY <1>2
    <3>5. msgs = <<e>> \o msgs'
      BY <1>1, <1>2
    <3> HIDE DEF e, B
    <3>3. events \o (<<e>> \o msgs') = (events \o <<e>>) \o msgs'
      BY <3>1, <3>2, ConcatAssociative
    <3>4. events' = events \o <<e>>
      BY <3>1, <3>2, AppendIsConcat
    <3> QED BY <1>1, <3>3, <3>4, <3>5 DEF BatchKept
  <2> QED BY <1>1, <2>1 DEF BatchKept
<1>8. WithinLimits' /\ Greedy(Flushed)'
  BY <1>1, SameFlushed
<1> QED BY <1>4, <1>5, <1>6, <1>7, <1>8

(* Decode hands the batch to Chunk. *)
LEMMA DecodedStep ==
    ASSUME IInv, Decoded
    PROVE  IInv'
<1> USE DEF IInv
<1>1. /\ pc = "decode" /\ msgs = <<>> /\ pc' = "chunk"
      /\ UNCHANGED <<msgs, events, current, currentSize, payloads, dropped, batch>>
  BY DEF Decoded
<1>0. batch = events
  <2>1. batch = events \o <<>> /\ events \in Seq(Events)
    BY <1>1 DEF BatchKept, Types
  <2> QED BY <2>1, ConcatEmptySeq
<1>2. events \in Seq(Events) /\ payloads = <<>> /\ current = <<>> /\ dropped = 0
  BY <1>1 DEF Types, NotStarted
<1>3. Types' /\ SizeRight' /\ NotStarted' /\ Edges'
  BY <1>1, <1>2 DEF Types, SizeRight, NotStarted, Edges
<1>4. BatchKept' /\ BatchBounded'
  BY <1>0, <1>1, <1>2 DEF BatchKept, BatchBounded
<1>5. Seen' = <<>> /\ Flushed' = <<>>
  <2>1. Len(events) - Len(events) = 0
    BY <1>2
  <2>2. SubSeq(events, 1, 0) = <<>>
    BY SubSeqEmpty
  <2>3. Seen' = SubSeq(events, 1, Len(events) - Len(events))
    BY <1>0, <1>1 DEF Seen
  <2>4. Flushed' = <<>>
    BY <1>1, <1>2 DEF Flushed
  <2> QED BY <2>1, <2>2, <2>3, <2>4
<1>6. Accounted'
  <2>1. events = <<>> \o events
    BY <1>2, ConcatEmptySeq
  <2>2. batch' = Seen' \o events'
    BY <1>0, <1>1, <1>5, <2>1
  <2>3. FlattenSeq(Flushed') = Sendable(Seen')
    BY <1>5, FlattenEmpty, SendableEmpty
  <2>4. dropped' + Len(Sendable(Seen')) = Len(Seen')
    BY <1>1, <1>2, <1>5, SendableEmpty
  <2> QED BY <2>2, <2>3, <2>4 DEF Accounted
<1>7. WithinLimits' /\ Greedy(Flushed)'
  BY <1>1, SameFlushed
<1> QED BY <1>3, <1>4, <1>6, <1>7

(* Chunk looks at one more event. *)
LEMMA NextSeen ==
    ASSUME IInv, pc = "chunk", events # <<>>, events' = Tail(events), batch' = batch
    PROVE  /\ Seen \in Seq(Events) /\ Seen' = Append(Seen, Head(events))
           /\ Len(Seen') = Len(Seen) + 1 /\ batch = Seen' \o events'
           /\ FlattenSeq(Flushed) = Sendable(Seen)
           /\ dropped + Len(Sendable(Seen)) = Len(Seen)
           /\ Head(events) \in Events /\ events' \in Seq(Events)
<1>1. events \in Seq(Events) /\ batch \in Seq(Events)
  BY DEF IInv, Types, BatchKept
<1>2. /\ batch = SubSeq(batch, 1, Len(batch) - Len(events)) \o events
      /\ FlattenSeq(Flushed) = Sendable(Seen)
      /\ dropped + Len(Sendable(Seen)) = Len(Seen)
  BY DEF IInv, Accounted, Seen
<1>3. Seen' = SubSeq(batch, 1, Len(batch) - Len(Tail(events)))
  BY DEF Seen
<1>4. /\ Seen \in Seq(Events) /\ Seen' = Append(Seen, Head(events))
      /\ Len(Seen') = Len(Seen) + 1 /\ batch = Seen' \o Tail(events)
  BY <1>1, <1>2, <1>3, SeenStep DEF Seen
<1>5. Head(events) \in Events /\ Tail(events) \in Seq(Events)
  BY <1>1, HeadTailProperties
<1> QED BY <1>2, <1>4, <1>5

(* Chunk drops an event too large to be sent. *)
LEMMA DropEventStep ==
    ASSUME IInv, DropEvent
    PROVE  IInv'
<1> USE DEF IInv
<1>1. /\ pc = "chunk" /\ events # <<>> /\ TooLarge(Head(events))
      /\ dropped' = dropped + 1 /\ events' = Tail(events)
      /\ UNCHANGED <<msgs, current, currentSize, payloads, pc, batch>>
  BY DEF DropEvent
<1>2. /\ Seen \in Seq(Events) /\ Seen' = Append(Seen, Head(events))
      /\ Len(Seen') = Len(Seen) + 1 /\ batch = Seen' \o events'
      /\ FlattenSeq(Flushed) = Sendable(Seen)
      /\ dropped + Len(Sendable(Seen)) = Len(Seen)
      /\ Head(events) \in Events /\ events' \in Seq(Events)
  BY <1>1, NextSeen
<1>3. Types' /\ SizeRight' /\ NotStarted' /\ BatchKept' /\ BatchBounded' /\ Edges'
  BY <1>1, <1>2 DEF Types, SizeRight, NotStarted, BatchKept, BatchBounded, Edges
<1>4. Flushed' = Flushed /\ WithinLimits' /\ Greedy(Flushed)'
  BY <1>1, SameFlushed
<1>5. Sendable(Seen') = Sendable(Seen) /\ Sendable(Seen) \in Seq(Events)
  BY <1>1, <1>2, SendableAppend
<1>6. Accounted'
  <2>1. dropped' + Len(Sendable(Seen')) = Len(Seen')
    <3> DEFINE k == Len(Sendable(Seen))
               l == Len(Seen)
    <3>1. k \in Nat /\ l \in Nat /\ dropped \in Nat /\ dropped + k = l
      BY <1>2, <1>5 DEF Types
    <3>2. Len(Sendable(Seen')) = k /\ Len(Seen') = l + 1 /\ dropped' = dropped + 1
      BY <1>1, <1>2, <1>5
    <3> HIDE DEF k, l
    <3> QED BY <3>1, <3>2
  <2> QED BY <1>1, <1>2, <1>4, <1>5, <2>1 DEF Accounted
<1> QED BY <1>3, <1>4, <1>6

(* Chunk adds an event, to the payload being built or to a new one. *)
LEMMA AddEventStep ==
    ASSUME IInv, AddEvent
    PROVE  IInv'
<1> USE DEF IInv
<1>1. /\ pc = "chunk" /\ events # <<>> /\ ~TooLarge(Head(events))
      /\ events' = Tail(events) /\ pc' = "chunk"
      /\ UNCHANGED <<msgs, dropped, batch>>
  BY DEF AddEvent
<1>2. /\ Seen \in Seq(Events) /\ Seen' = Append(Seen, Head(events))
      /\ Len(Seen') = Len(Seen) + 1 /\ batch = Seen' \o events'
      /\ FlattenSeq(Flushed) = Sendable(Seen)
      /\ dropped + Len(Sendable(Seen)) = Len(Seen)
      /\ Head(events) \in Events /\ events' \in Seq(Events)
  BY <1>1, NextSeen
<1>3. /\ Types' /\ SizeRight' /\ WithinLimits' /\ Greedy(Flushed)' /\ Edges'
      /\ FlattenSeq(Flushed') = Append(FlattenSeq(Flushed), Head(events))
  BY AddEventFlushed
<1>4. NotStarted' /\ BatchKept' /\ BatchBounded'
  BY <1>1 DEF NotStarted, BatchKept, BatchBounded
<1>5. /\ Sendable(Seen') = Append(Sendable(Seen), Head(events))
      /\ Sendable(Seen) \in Seq(Events)
  BY <1>1, <1>2, SendableAppend
<1>6. Accounted'
  <2>1. dropped' + Len(Sendable(Seen')) = Len(Seen')
    <3> DEFINE k == Len(Sendable(Seen))
               l == Len(Seen)
    <3>1. k \in Nat /\ l \in Nat /\ dropped \in Nat /\ dropped + k = l
      BY <1>2, <1>5 DEF Types
    <3>2. Len(Sendable(Seen')) = k + 1 /\ Len(Seen') = l + 1 /\ dropped' = dropped
      BY <1>1, <1>2, <1>5
    <3> HIDE DEF k, l
    <3> QED BY <3>1, <3>2
  <2> QED BY <1>1, <1>2, <1>3, <1>5, <2>1 DEF Accounted
<1> QED BY <1>3, <1>4, <1>6

(* Chunk's flush after its loop. *)
LEMMA LastFlushStep ==
    ASSUME IInv, LastFlush
    PROVE  IInv'
<1> USE DEF IInv
<1>1. /\ pc = "chunk" /\ events = <<>> /\ payloads' = Flushed
      /\ current' = <<>> /\ currentSize' = 2 /\ pc' = "done"
      /\ UNCHANGED <<msgs, events, dropped, batch>>
  BY DEF LastFlush
<1>2. Flushed' = Flushed /\ Seen' = Seen
  BY <1>1 DEF Flushed, Seen
<1>3. Flushed \in Seq(Seq(Events) \ {<<>>})
  BY FlushedType
<1>4. Types'
  BY <1>1, <1>3 DEF Types
<1>5. SizeRight' /\ NotStarted' /\ BatchKept' /\ BatchBounded' /\ Edges'
  BY <1>1 DEF SizeRight, NotStarted, BatchKept, BatchBounded, Edges
<1>6. Accounted'
  BY <1>1, <1>2 DEF Accounted
<1>7. WithinLimits' /\ Greedy(Flushed)'
  BY <1>2 DEF WithinLimits, Greedy
<1> QED BY <1>4, <1>5, <1>6, <1>7

(* THEOREM: Decode and Chunk keep the inductive invariant. *)
THEOREM ChunkInvariance == Spec => []IInv
<1>1. IInv /\ [Next]_vars => IInv'
  <2> SUFFICES ASSUME IInv, [Next]_vars PROVE IInv'
    OBVIOUS
  <2>1. CASE Decode     BY <2>1, DecodeStep
  <2>2. CASE Decoded    BY <2>2, DecodedStep
  <2>3. CASE DropEvent  BY <2>3, DropEventStep
  <2>4. CASE AddEvent   BY <2>4, AddEventStep
  <2>5. CASE LastFlush  BY <2>5, LastFlushStep
  <2>6. CASE UNCHANGED vars
    <3>1. UNCHANGED <<msgs, events, current, currentSize, payloads, dropped, pc, batch>>
      BY <2>6 DEF vars
    <3>2. Flushed' = Flushed /\ Seen' = Seen
      BY <3>1 DEF Flushed, Seen
    <3> QED BY <3>1, <3>2 DEF IInv, Types, SizeRight, NotStarted, BatchKept, BatchBounded,
                             Accounted, WithinLimits, Greedy, Edges
  <2> QED BY <2>1, <2>2, <2>3, <2>4, <2>5, <2>6 DEF Next
<1> QED BY InitIInv, <1>1, PTL DEF Spec

(* What the invariant says of a finished Chunk. *)
LEMMA AtTheEnd ==
    ASSUME IInv, pc = "done"
    PROVE  /\ batch \in Seq(Events) /\ payloads = Flushed
           /\ FlattenSeq(payloads) = Kept
           /\ dropped + Len(Kept) = Len(batch)
<1>1. /\ events = <<>> /\ current = <<>> /\ batch \in Seq(Events)
  BY DEF IInv, Edges, Types, BatchKept
<1>2. Seen = batch
  <2>1. Len(batch) - Len(events) = Len(batch)
    BY <1>1
  <2>2. SubSeq(batch, 1, Len(batch)) = batch
    BY <1>1, SubSeqFull
  <2> QED BY <2>1, <2>2 DEF Seen
<1>3. Flushed = payloads
  BY <1>1 DEF Flushed
<1>4. FlattenSeq(Flushed) = Sendable(Seen) /\ dropped + Len(Sendable(Seen)) = Len(Seen)
  BY DEF IInv, Accounted
<1> QED BY <1>1, <1>2, <1>3, <1>4 DEF Kept

(* THEOREM: the variables keep their types, the size Chunk keeps is the size
   of the payload it builds, and it drops no more events than the batch has. *)
THEOREM TypeCorrect == Spec => []TypeOK
<1>1. IInv => TypeOK
  <2> SUFFICES ASSUME IInv PROVE TypeOK
    OBVIOUS
  <2>1. /\ Types /\ SizeRight /\ NotStarted /\ BatchKept /\ BatchBounded /\ Accounted
    BY DEF IInv
  <2>2. dropped \in 0..MaxMessages
    <3>1. CASE pc \in {"decode", "error"}
      BY <2>1, <3>1, ConstantsAssumption DEF NotStarted
    <3>2. CASE pc \in {"chunk", "done"}
      <4>1. /\ events \in Seq(Events) /\ batch \in Seq(Events) /\ dropped \in Nat
            /\ batch = Seen \o events /\ dropped + Len(Sendable(Seen)) = Len(Seen)
            /\ Len(batch) <= MaxMessages
        BY <2>1, <3>2 DEF Types, Accounted, BatchKept, BatchBounded
      <4>2. Seen \in Seq(Events)
        <5>1. \A i \in 1..(Len(batch) - Len(events)) : batch[i] \in Events
          BY <4>1
        <5>2. Len(batch) - Len(events) \in Int
          BY <4>1
        <5> QED BY <5>1, <5>2, SubSeqProperties DEF Seen
      <4>3. Len(batch) = Len(Seen) + Len(events)
        BY <4>1, <4>2
      <4>4. Sendable(Seen) \in Seq(Events)
        BY <4>2, SendableType
      <4> DEFINE a == Len(Seen)
                 b == Len(events)
                 c == Len(Sendable(Seen))
                 l == Len(batch)
      <4>5. a \in Nat /\ b \in Nat /\ c \in Nat /\ l = a + b /\ dropped + c = a
            /\ l <= MaxMessages
        BY <4>1, <4>2, <4>3, <4>4
      <4> HIDE DEF a, b, c, l
      <4> QED BY <4>1, <4>5, ConstantsAssumption
    <3> QED BY <2>1, <3>1, <3>2 DEF Types
  <2> QED BY <2>1, <2>2 DEF TypeOK, Types, SizeRight
<1> QED BY <1>1, ChunkInvariance, PTL

(* THEOREM: when Chunk returns, its payloads hold every event of the batch that
   can be sent, exactly once and in order, and dropped counts all the others:
   no flush loses or repeats the event that caused it.  Of a batch with a
   message that does not decode nothing goes out. *)
THEOREM NothingIsLost == Spec => []NothingLost
<1>1. IInv => NothingLost
  <2>0. IInv /\ pc = "error" => payloads = <<>>
    BY DEF IInv, NotStarted
  <2> SUFFICES ASSUME IInv, pc = "done" PROVE FlattenSeq(payloads) = Kept
                                     /\ dropped = Len(batch) - Len(Kept)
    BY <2>0 DEF NothingLost
  <2>1. /\ batch \in Seq(Events) /\ FlattenSeq(payloads) = Kept
        /\ dropped + Len(Kept) = Len(batch)
    BY AtTheEnd
  <2>2. Kept \in Seq(Events) /\ dropped \in Nat
    BY <2>1, SendableType DEF Kept, IInv, Types
  <2>3. Len(Kept) \in Nat /\ Len(batch) \in Nat
    BY <2>1, <2>2
  <2> QED BY <2>1, <2>2, <2>3
<1> QED BY <1>1, ChunkInvariance, PTL

(* THEOREM: every payload Chunk builds has no more events than the intake
   takes, and what is sent for it has no more bytes than the intake takes,
   unless writing it has made one of its events longer than it was read. *)
THEOREM PayloadsAlwaysFit == Spec => []PayloadsFit
<1>1. IInv => PayloadsFit
  <2> SUFFICES ASSUME IInv, NEW i \in DOMAIN payloads
               PROVE  LET p == payloads[i] IN
                      /\ Len(p) <= MaxBatchCount
                      /\ Bytes("sent", p) > MaxBodyBytes
                            => \E j \in DOMAIN p : Grows(p[j])
    BY Zenon DEF PayloadsFit
  <2> DEFINE p == payloads[i]
  <2>1. payloads \in Seq(Seq(Events) \ {<<>>}) /\ current \in Seq(Events)
    BY DEF IInv, Types
  <2>2. i \in DOMAIN Flushed /\ Flushed[i] = p /\ p \in Seq(Events)
    BY <2>1 DEF Flushed
  <2>3. Bytes("read", p) <= MaxBodyBytes /\ Len(p) <= MaxBatchCount
    <3>1. Fits(Flushed[i])
      BY <2>2 DEF IInv, WithinLimits
    <3> QED BY <2>2, <3>1 DEF Fits
  <2>4. ASSUME \A j \in DOMAIN p : ~Grows(p[j]) PROVE ~(Bytes("sent", p) > MaxBodyBytes)
    <3> DEFINE a == Bytes("sent", p)
               b == Bytes("read", p)
    <3>1. a \in Nat /\ b \in Nat /\ a <= b
      <4> HIDE DEF p
      <4> QED BY <2>2, <2>4, SentWithin
    <3>2. b <= MaxBodyBytes
      BY <2>3
    <3> HIDE DEF a, b
    <3>3. ~(a > MaxBodyBytes)
      BY <3>1, <3>2, ConstantsAssumption
    <3> QED BY <3>3 DEF a
  <2> QED BY <2>3, <2>4
<1> QED BY <1>1, ChunkInvariance, PTL

(* THEOREM: no other way to cut the batch in order would need fewer requests
   than Chunk's. *)
THEOREM PayloadsAreFewest == Spec => []FewestPayloads
<1>1. IInv => FewestPayloads
  <2> SUFFICES ASSUME IInv, pc = "done" PROVE Len(payloads) = Fewest(Kept)
    BY DEF FewestPayloads
  <2>1. payloads = Flushed /\ FlattenSeq(payloads) = Kept
    BY AtTheEnd
  <2>2. payloads \in Seq(Seq(Events) \ {<<>>})
    BY DEF IInv, Types
  <2>3. Greedy(payloads) /\ \A i \in DOMAIN payloads : Fits(payloads[i])
    BY <2>1 DEF IInv, WithinLimits
  <2>4. Len(payloads) = Fewest(FlattenSeq(payloads))
    BY <2>2, <2>3, GreedyIsFewest
  <2> QED BY <2>1, <2>4
<1> QED BY <1>1, ChunkInvariance, PTL
=============================================================================
