---------------------------- MODULE BackfillProofs ----------------------------
(***************************************************************************)
(* Proofs about Backfill, for any number of workers, objects and names per *)
(* page, any set of malformed payloads and any set of disturbances: the    *)
(* inductive invariant IInv, the safety properties it implies, and that    *)
(* the run implements PayloadStore.  Each lemma named ...Step proves that  *)
(* one conjunct of IInv is preserved, one step per action or per group of  *)
(* actions that treat that conjunct alike.                                 *)
(***************************************************************************)
EXTENDS Backfill, FiniteSetTheorems, TLAPS

(* The assumption the arithmetic of the proofs needs. *)
LEMMA MaxObjectsNat == MaxObjects \in Nat
BY ConstantsAssumption DEF ConstantsAssumption

(* Counting an outcome keeps the summary well typed. *)
LEMMA SummaryCount ==
    ASSUME TypeOK, NEW c \in Outcomes
    PROVE  [summary EXCEPT ![c] = @ + 1] \in [Outcomes -> Nat]
BY DEF TypeOK

(* The three ways the code moves its goroutines keep the pool well typed. *)
LEMMA GotoPool ==
    ASSUME PoolType, NEW w \in Workers, NEW p \in WorkerPCs, Goto(w, p)
    PROVE  PoolType'
BY DEF PoolType, Goto

LEMMA NextObjectPool ==
    ASSUME PoolType, NEW w \in Workers, NextObject(w)
    PROVE  PoolType'
BY MaxObjectsNat DEF PoolType, NextObject, WorkerPCs

LEMMA NewPoolPool ==
    ASSUME NEW p \in WorkerPCs, NewPool(p)
    PROVE  PoolType'
BY MaxObjectsNat DEF PoolType, NewPool

(* A busy worker holds an object. *)
LEMMA Holds ==
    ASSUME TypeOK, WorkerInv, NEW w \in Workers, pc[w] \in Busy
    PROVE  obj[w] \in Objects
<1>1. obj[w] \in 0..MaxObjects /\ obj[w] # 0
  BY DEF TypeOK, PoolType, WorkerInv
<1> QED BY <1>1, MaxObjectsNat DEF Objects

(* Another run removes an object that it has delivered or decided to drop. *)
LEMMA OtherRunRemoves ==
    ASSUME NEW o \in Objects, OtherRun(o)
    PROVE  /\ bucket' = bucket \ {o}
           /\ UNCHANGED <<lastPut, keyFresh, prodVars, cancel, workers, account>>
           /\ \/ accepted' = accepted \cup {o} /\ UNCHANGED gaveUp
              \/ /\ \E why \in Reasons : gaveUp' = [gaveUp EXCEPT ![o] = why]
                 /\ UNCHANGED accepted
<1>1. DropReasons(o) \subseteq Reasons
  BY DEF DropReasons, Reasons
<1> QED BY <1>1 DEF OtherRun

(* A failed replay, retried or settled, keeps the state well typed. *)
LEMMA FailureType ==
    ASSUME TypeOK, WorkerInv, NEW w \in Workers, pc[w] \in Busy,
           NEW s \in Reasons \cup Retryable, ReplayFailed(w, s)
    PROVE  /\ PoolType'
           /\ gaveUp' \in [Objects -> Reasons \cup {"no"}]
           /\ ctxDone' \in BOOLEAN /\ fatal' \in BOOLEAN
<1>1. CASE Retry(w, s, 2) /\ UNCHANGED <<gaveUp, cancel>>
  BY <1>1 DEF Retry, TypeOK, PoolType, WorkerPCs, cancel
<1>2. CASE Settle(w, s)
  <2>1. PoolType'
    <3>1. PICK p \in {"exit", "drop"} : Goto(w, p)
      BY <1>2 DEF Settle
    <3> QED BY <3>1, GotoPool DEF TypeOK, WorkerPCs
  <2>2. obj[w] \in Objects
    BY Holds
  <2>3. gaveUp' \in [Objects -> Reasons \cup {"no"}]
    BY <1>2, <2>2 DEF Settle, TypeOK
  <2>4. ctxDone' \in BOOLEAN /\ fatal' \in BOOLEAN
    BY <1>2 DEF Settle, TypeOK, cancel
  <2> QED BY <2>1, <2>3, <2>4
<1> QED BY <1>1, <1>2 DEF ReplayFailed

(* Every step keeps the state well typed: an object is counted, accepted or
   dropped by a worker that holds one. *)
LEMMA TypeStep == IInv /\ [Next]_vars => TypeOK'
<1> SUFFICES ASSUME IInv, [Next]_vars PROVE TypeOK'
  OBVIOUS
<1> USE MaxObjectsNat DEF IInv, TypeOK, PoolType, StoreInv, Objects,
       WorkerPCs, Reasons
<1>1. CASE ListPage
  BY <1>1 DEF ListPage, store, prodVars, workers, cancel, account, Listed,
       IsPage, FollowsPage
<1>2. CASE ListFails \/ StopFeeding \/ PageDone \/ Return
  BY <1>2 DEF ListFails, StopFeeding, PageDone, Return, store, prodVars,
       workers, cancel, account
<1>3. CASE Invoke
  <2>1. summary' \in [Outcomes -> Nat]
    BY <1>3 DEF Invoke, NoSummary
  <2>2. PoolType'
    BY <1>3, NewPoolPool DEF Invoke, WorkerPCs
  <2>3. /\ keyFresh' \in BOOLEAN /\ ctxDone' \in BOOLEAN
        /\ fatal' \in BOOLEAN /\ listFailed' \in BOOLEAN
    BY <1>3 DEF Invoke
  <2>4. /\ producer' = "list" /\ start' = 0 /\ nextStart' = 0 /\ page' = {}
        /\ present' = bucket /\ handed' = {} /\ left' = {}
        /\ UNCHANGED store
    BY <1>3 DEF Invoke
  <2> HIDE DEF PoolType
  <2> QED BY <2>1, <2>2, <2>3, <2>4 DEF store
<1>4. CASE Crash
  <2>1. summary' \in [Outcomes -> Nat]
    BY <1>4 DEF Crash, NoSummary
  <2>2. PoolType'
    BY <1>4, NewPoolPool DEF Crash, WorkerPCs
  <2> HIDE DEF PoolType
  <2> QED BY <1>4, <2>1, <2>2 DEF Crash, store, cancel
<1>5. CASE Persist
  BY <1>5 DEF Persist, store, prodVars, workers, cancel, account
<1>6. CASE RotateKey \/ Expire
  BY <1>6 DEF RotateKey, Expire, store, prodVars, workers, cancel, account
<1>7. ASSUME NEW w \in Workers, HandOut(w) PROVE TypeOK'
  BY <1>7 DEF HandOut, store, prodVars, workers, cancel, account, At, Goto,
       NextObject
<1>8. ASSUME NEW w \in Workers,
             NoMoreNames(w) \/ GetObject(w) \/ BeginSend(w) \/ RefreshKey(w)
             \/ BackoffEnds(w)
      PROVE  TypeOK'
  <2>1. CASE NoMoreNames(w) \/ GetObject(w) \/ BackoffEnds(w)
    <3>1. PICK p \in WorkerPCs : Goto(w, p)
      BY <2>1 DEF NoMoreNames, GetObject, BackoffEnds
    <3>2. PoolType'
      BY <3>1, GotoPool
    <3> HIDE DEF PoolType
    <3> QED
      BY <2>1, <3>2 DEF NoMoreNames, GetObject, BackoffEnds, store, prodVars,
         cancel, account
  <2>2. CASE BeginSend(w)
    BY <2>2 DEF BeginSend, store, prodVars, cancel, account
  <2>3. CASE RefreshKey(w)
    BY <2>3 DEF RefreshKey, store, prodVars, cancel, account
  <2> QED BY <1>8, <2>1, <2>2, <2>3
<1>9. ASSUME NEW w \in Workers, GetFails(w) PROVE TypeOK'
  <2>1. summary' \in [Outcomes -> Nat]
    BY <1>9, SummaryCount DEF GetFails, Outcomes
  <2>2. obj[w] \in Objects
    BY <1>9, Holds DEF GetFails, At, Busy
  <2>3. PoolType'
    BY <1>9, GotoPool, NextObjectPool DEF GetFails, WorkerPCs
  <2> HIDE DEF PoolType
  <2> QED
    BY <1>9, <2>1, <2>2, <2>3 DEF GetFails, store, prodVars, cancel, account,
       At
<1>10. ASSUME NEW w \in Workers,
             CannotSend(w) \/ Refused(w) \/ Forbidden(w)
             \/ Unauthorized(w) \/ RefreshFails(w)
      PROVE  TypeOK'
  <2>1. /\ UNCHANGED <<bucket, lastPut, accepted, keyFresh, prodVars, account>>
        /\ pc[w] \in Busy
    BY <1>10 DEF CannotSend, Refused, Forbidden, Unauthorized, RefreshFails, At, Busy
  <2>2. \/ \E s \in Reasons \cup Retryable : ReplayFailed(w, s)
        \/ Goto(w, "refresh") /\ UNCHANGED <<gaveUp, cancel>>
    BY <1>10 DEF CannotSend, Refused, Forbidden, Unauthorized, RefreshFails, Retryable
  <2>3. CASE \E s \in Reasons \cup Retryable : ReplayFailed(w, s)
    <3>1. PICK s \in Reasons \cup Retryable : ReplayFailed(w, s)
      BY <2>3
    <3>2. /\ PoolType'
          /\ gaveUp' \in [Objects -> Reasons \cup {"no"}]
          /\ ctxDone' \in BOOLEAN /\ fatal' \in BOOLEAN
      BY <2>1, <3>1, FailureType
    <3> HIDE DEF PoolType, Objects
    <3> QED BY <2>1, <3>2 DEF prodVars, account
  <2>4. CASE Goto(w, "refresh") /\ UNCHANGED <<gaveUp, cancel>>
    <3>1. PoolType'
      BY <2>4, GotoPool
    <3> HIDE DEF PoolType
    <3> QED BY <2>1, <2>4, <3>1 DEF prodVars, account, cancel
  <2> QED BY <2>2, <2>3, <2>4
<1>11. ASSUME NEW w \in Workers, Delivered(w) PROVE TypeOK'
  <2>1. summary' \in [Outcomes -> Nat]
    BY <1>11, SummaryCount DEF Delivered, Outcomes
  <2>2. obj[w] \in Objects
    BY <1>11, Holds DEF Delivered, At, Busy
  <2>3. PoolType'
    BY <1>11, GotoPool, NextObjectPool DEF Delivered, WorkerPCs
  <2> HIDE DEF PoolType
  <2> QED
    BY <1>11, <2>1, <2>2, <2>3 DEF Delivered, store, prodVars, cancel, account,
       At, Acceptable
<1>12. ASSUME NEW w \in Workers, NoAnswer(w) PROVE TypeOK'
  <2>1. /\ UNCHANGED <<bucket, lastPut, keyFresh, prodVars, account>>
        /\ pc[w] \in Busy /\ ReplayFailed(w, "transport")
    BY <1>12 DEF NoAnswer, At, Busy
  <2>2. obj[w] \in Objects
    BY <2>1, Holds
  <2>3. accepted' \subseteq Objects
    <3>1. accepted' = accepted \/ accepted' = accepted \cup {obj[w]}
      BY <1>12 DEF NoAnswer
    <3>2. accepted \subseteq Objects
      OBVIOUS
    <3> HIDE DEF IInv, TypeOK, PoolType, StoreInv, Objects
    <3> QED BY <2>2, <3>1, <3>2
  <2>4. /\ PoolType'
        /\ gaveUp' \in [Objects -> Reasons \cup {"no"}]
        /\ ctxDone' \in BOOLEAN /\ fatal' \in BOOLEAN
    BY <2>1, FailureType DEF Retryable
  <2> HIDE DEF PoolType, Objects
  <2> QED BY <2>1, <2>3, <2>4 DEF prodVars, account
<1>13. ASSUME NEW w \in Workers, DeleteDelivered(w) PROVE TypeOK'
  <2>1. summary' \in [Outcomes -> Nat]
    BY <1>13, SummaryCount DEF DeleteDelivered, Outcomes
  <2>2. obj[w] \in Objects
    BY <1>13, Holds DEF DeleteDelivered, At, Busy
  <2>3. PoolType'
    BY <1>13, GotoPool, NextObjectPool DEF DeleteDelivered, WorkerPCs
  <2> HIDE DEF PoolType
  <2> QED
    BY <1>13, <2>1, <2>2, <2>3 DEF DeleteDelivered, store, prodVars, cancel,
       account, At, DeleteCall
<1>14. ASSUME NEW w \in Workers, DeleteDropped(w) PROVE TypeOK'
  <2>1. summary' \in [Outcomes -> Nat]
    BY <1>14, SummaryCount DEF DeleteDropped, Outcomes
  <2>2. obj[w] \in Objects
    BY <1>14, Holds DEF DeleteDropped, At, Busy
  <2>3. PoolType'
    BY <1>14, GotoPool, NextObjectPool DEF DeleteDropped, WorkerPCs
  <2> HIDE DEF PoolType
  <2> QED
    BY <1>14, <2>1, <2>2, <2>3 DEF DeleteDropped, store, prodVars, cancel,
       account, At, DeleteCall
<1>15. ASSUME NEW o \in Objects, OtherRun(o) PROVE TypeOK'
  <2>1. /\ bucket' = bucket \ {o}
        /\ UNCHANGED <<lastPut, keyFresh, prodVars, cancel, workers, account>>
    BY <1>15, OtherRunRemoves
  <2>2. CASE accepted' = accepted \cup {o} /\ UNCHANGED gaveUp
    BY <2>1, <2>2 DEF prodVars, workers, cancel, account
  <2>3. ASSUME NEW why \in Reasons, gaveUp' = [gaveUp EXCEPT ![o] = why],
               UNCHANGED accepted
        PROVE  TypeOK'
    BY <2>1, <2>3 DEF prodVars, workers, cancel, account
  <2> QED BY <1>15, <2>2, <2>3, OtherRunRemoves
<1>16. CASE UNCHANGED vars
  BY <1>16 DEF vars, store, prodVars, workers, cancel, account
<1> QED
  BY <1>1, <1>2, <1>3, <1>4, <1>5, <1>6, <1>7, <1>8, <1>9, <1>10,
     <1>11, <1>12, <1>13, <1>14, <1>15, <1>16
     DEF Next, ProducerStep, WorkerStep, Replay, Environment

(* Only objects that were persisted are stored, listed or remembered. *)
LEMMA StoreStep == IInv /\ [Next]_vars => StoreInv'
<1> SUFFICES ASSUME IInv, [Next]_vars PROVE StoreInv'
  OBVIOUS
<1> USE MaxObjectsNat DEF IInv, TypeOK, PoolType, Objects, StoreInv
<1>1. CASE ListPage
  BY <1>1 DEF ListPage, store, prodVars, workers, cancel, account, Listed,
       IsPage, FollowsPage
<1>2. CASE ListFails \/ StopFeeding \/ PageDone \/ Return
  BY <1>2 DEF ListFails, StopFeeding, PageDone, Return, store, prodVars,
       workers, cancel, account
<1>3. CASE Invoke
  BY <1>3 DEF Invoke, store, prodVars, workers, cancel, account, NewPool,
       NoSummary, Outcomes
<1>4. CASE Crash
  BY <1>4 DEF Crash, store, prodVars, workers, cancel, account, NewPool,
       NoSummary, Outcomes
<1>5. CASE Persist
  BY <1>5 DEF Persist, store, prodVars, workers, cancel, account
<1>6. CASE RotateKey \/ Expire
  BY <1>6 DEF RotateKey, Expire, store, prodVars, workers, cancel, account
<1>7. ASSUME NEW w \in Workers, HandOut(w) PROVE StoreInv'
  BY <1>7 DEF HandOut, store, prodVars, workers, cancel, account, At, Goto,
       NextObject
<1>8. ASSUME NEW w \in Workers,
             NoMoreNames(w) \/ GetObject(w) \/ BeginSend(w) \/ RefreshKey(w)
             \/ BackoffEnds(w)
      PROVE  StoreInv'
  BY <1>8 DEF NoMoreNames, GetObject, BeginSend, RefreshKey, BackoffEnds,
       store, prodVars, workers, cancel, account, At, Goto, NextObject
<1>9. ASSUME NEW w \in Workers, GetFails(w) PROVE StoreInv'
  BY <1>9 DEF GetFails, store, prodVars, workers, cancel, account, At, Goto,
       NextObject
<1>10. ASSUME NEW w \in Workers,
             CannotSend(w) \/ Refused(w) \/ Forbidden(w)
             \/ Unauthorized(w) \/ RefreshFails(w)
      PROVE  StoreInv'
  BY <1>10 DEF CannotSend, Refused, Forbidden, Unauthorized, RefreshFails, store, prodVars,
       workers, cancel, account, At, Goto, NextObject, ReplayFailed, Retry,
       Settle, Retryable
<1>11. ASSUME NEW w \in Workers, Delivered(w) PROVE StoreInv'
  BY <1>11 DEF Delivered, store, prodVars, workers, cancel, account, At, Goto,
       NextObject, Acceptable
<1>12. ASSUME NEW w \in Workers, NoAnswer(w) PROVE StoreInv'
  BY <1>12 DEF NoAnswer, store, prodVars, workers, cancel, account, At, Goto,
       NextObject, ReplayFailed, Retry, Settle, Retryable, Acceptable
<1>13. ASSUME NEW w \in Workers, DeleteDelivered(w) PROVE StoreInv'
  BY <1>13 DEF DeleteDelivered, store, prodVars, workers, cancel, account, At,
       Goto, NextObject, DeleteCall
<1>14. ASSUME NEW w \in Workers, DeleteDropped(w) PROVE StoreInv'
  BY <1>14 DEF DeleteDropped, store, prodVars, workers, cancel, account, At,
       Goto, NextObject, DeleteCall
<1>15. ASSUME NEW o \in Objects, OtherRun(o) PROVE StoreInv'
  BY <1>15 DEF OtherRun, prodVars, workers, cancel, account
<1>16. CASE UNCHANGED vars
  BY <1>16 DEF vars, store, prodVars, workers, cancel, account
<1> QED
  BY <1>1, <1>2, <1>3, <1>4, <1>5, <1>6, <1>7, <1>8, <1>9, <1>10,
     <1>11, <1>12, <1>13, <1>14, <1>15, <1>16
     DEF Next, ProducerStep, WorkerStep, Replay, Environment

(* A program counter tells what has happened to the object that is held. *)
LEMMA WorkerInvStep == IInv /\ [Next]_vars => WorkerInv'
<1> SUFFICES ASSUME IInv, [Next]_vars PROVE WorkerInv'
  OBVIOUS
<1> USE MaxObjectsNat DEF IInv, TypeOK, PoolType, Objects, StoreInv,
       WorkerInv, Busy, At, WorkerPCs, Reasons
<1>1. CASE ListPage
  BY <1>1 DEF ListPage, store, prodVars, workers, cancel, account, Listed,
       IsPage, FollowsPage
<1>2. CASE ListFails \/ StopFeeding \/ PageDone \/ Return
  BY <1>2 DEF ListFails, StopFeeding, PageDone, Return, store, prodVars,
       workers, cancel, account
<1>3. CASE Invoke
  BY <1>3 DEF Invoke, store, prodVars, workers, cancel, account, NewPool,
       NoSummary, Outcomes
<1>4. CASE Crash
  BY <1>4 DEF Crash, store, prodVars, workers, cancel, account, NewPool,
       NoSummary, Outcomes
<1>5. CASE Persist
  BY <1>5 DEF Persist, store, prodVars, workers, cancel, account
<1>6. CASE RotateKey \/ Expire
  BY <1>6 DEF RotateKey, Expire, store, prodVars, workers, cancel, account
<1>7. ASSUME NEW w \in Workers, HandOut(w) PROVE WorkerInv'
  BY <1>7 DEF HandOut, store, prodVars, workers, cancel, account, At, Goto,
       NextObject
<1>8. ASSUME NEW w \in Workers,
             NoMoreNames(w) \/ GetObject(w) \/ BeginSend(w) \/ RefreshKey(w)
             \/ BackoffEnds(w)
      PROVE  WorkerInv'
  BY <1>8 DEF NoMoreNames, GetObject, BeginSend, RefreshKey, BackoffEnds,
       store, prodVars, workers, cancel, account, At, Goto, NextObject
<1>9. ASSUME NEW w \in Workers, GetFails(w) PROVE WorkerInv'
  BY <1>9 DEF GetFails, store, prodVars, workers, cancel, account, At, Goto,
       NextObject
<1>10. ASSUME NEW w \in Workers,
             CannotSend(w) \/ Refused(w) \/ Forbidden(w)
             \/ Unauthorized(w) \/ RefreshFails(w)
      PROVE  WorkerInv'
  <2>1. CASE CannotSend(w)
    BY <2>1 DEF CannotSend, store, prodVars, cancel, account, Goto,
       ReplayFailed, Retry, Settle, Retryable
  <2>2. CASE Refused(w)
    BY <2>2 DEF Refused, store, prodVars, cancel, account, Goto,
       ReplayFailed, Retry, Settle, Retryable
  <2>3. CASE Forbidden(w)
    BY <2>3 DEF Forbidden, store, prodVars, cancel, account, Goto,
       ReplayFailed, Retry, Settle, Retryable
  <2>4. CASE RefreshFails(w)
    BY <2>4 DEF RefreshFails, store, prodVars, cancel, account, Goto,
       ReplayFailed, Retry, Settle, Retryable
  <2>5. CASE Unauthorized(w)
    BY <2>5 DEF Unauthorized, store, prodVars, cancel, account, Goto,
       ReplayFailed, Retry, Settle, Retryable
  <2> QED BY <1>10, <2>1, <2>2, <2>3, <2>4, <2>5
<1>11. ASSUME NEW w \in Workers, Delivered(w) PROVE WorkerInv'
  BY <1>11 DEF Delivered, store, prodVars, workers, cancel, account, At, Goto,
       NextObject, Acceptable
<1>12. ASSUME NEW w \in Workers, NoAnswer(w) PROVE WorkerInv'
  BY <1>12 DEF NoAnswer, store, prodVars, workers, cancel, account, At, Goto,
       NextObject, ReplayFailed, Retry, Settle, Retryable, Acceptable
<1>13. ASSUME NEW w \in Workers, DeleteDelivered(w) PROVE WorkerInv'
  BY <1>13 DEF DeleteDelivered, store, prodVars, workers, cancel, account, At,
       Goto, NextObject, DeleteCall
<1>14. ASSUME NEW w \in Workers, DeleteDropped(w) PROVE WorkerInv'
  BY <1>14 DEF DeleteDropped, store, prodVars, workers, cancel, account, At,
       Goto, NextObject, DeleteCall
<1>15. ASSUME NEW o \in Objects, OtherRun(o) PROVE WorkerInv'
  <2>1. /\ bucket' = bucket \ {o}
        /\ UNCHANGED <<lastPut, keyFresh, prodVars, cancel, workers, account>>
    BY <1>15, OtherRunRemoves
  <2>2. CASE accepted' = accepted \cup {o} /\ UNCHANGED gaveUp
    BY <2>1, <2>2 DEF prodVars, workers, cancel, account
  <2>3. ASSUME NEW why \in Reasons, gaveUp' = [gaveUp EXCEPT ![o] = why],
               UNCHANGED accepted
        PROVE  WorkerInv'
    BY <2>1, <2>3 DEF prodVars, workers, cancel, account
  <2> QED BY <1>15, <2>2, <2>3, OtherRunRemoves
<1>16. CASE UNCHANGED vars
  BY <1>16 DEF vars, store, prodVars, workers, cancel, account
<1> QED
  BY <1>1, <1>2, <1>3, <1>4, <1>5, <1>6, <1>7, <1>8, <1>9, <1>10,
     <1>11, <1>12, <1>13, <1>14, <1>15, <1>16
     DEF Next, ProducerStep, WorkerStep, Replay, Environment

(* The cursor is not disturbed by a worker that keeps its object or is done
   with it while the producer stays where it is. *)
LEMMA CursorKept ==
    ASSUME IInv, UNCHANGED <<producer, start, page, nextStart>>,
           \A v \in Workers : obj'[v] = obj[v] \/ obj'[v] = 0
    PROVE  CursorInv'
<1> USE DEF IInv, CursorInv
<1>1. producer = "list" => \A v \in Workers : obj'[v] # 0 => obj'[v] < start
  OBVIOUS
<1>2. ASSUME NEW n \in Nat, n # 0, NEW v \in Workers, obj[v] < n
      PROVE  obj'[v] < n
  <2>1. 0 < n
    BY <1>2
  <2> QED BY <1>2, <2>1
<1>3. page \subseteq Nat \ {0} /\ nextStart \in Nat
  BY MaxObjectsNat DEF StoreInv, TypeOK
<1> QED BY <1>1, <1>2, <1>3

(* The producer's cursor stays above every object in a worker's hands, across
   pages, deletions and new objects. *)
LEMMA CursorStep == IInv /\ [Next]_vars => CursorInv'
<1> SUFFICES ASSUME IInv, [Next]_vars PROVE CursorInv'
  OBVIOUS
<1> USE MaxObjectsNat DEF IInv, TypeOK, PoolType, Objects, CursorInv,
       WorkerInv, StoreInv, At, Busy
<1>1. CASE ListPage
  <2>1. PICK p \in SUBSET Listed, n \in 0..MaxObjects :
             /\ IsPage(p) /\ FollowsPage(p, n)
             /\ page' = p /\ nextStart' = n
    BY <1>1 DEF ListPage
  <2>2. producer = "list" /\ producer' = "feed" /\ UNCHANGED obj
    BY <1>1 DEF ListPage, workers
  <2>3. \A o \in Listed : \A w \in Workers : obj[w] < o
    BY <2>2 DEF Listed
  <2>4. ASSUME n # 0
        PROVE  n \in Listed /\ \A o \in p : o < n
    BY <2>1, <2>4 DEF IsPage, FollowsPage
  <2> QED BY <2>1, <2>2, <2>3, <2>4
<1>2. CASE ListFails \/ StopFeeding \/ PageDone \/ Return
  BY <1>2 DEF ListFails, StopFeeding, PageDone, Return, store, prodVars,
       workers, cancel, account
<1>3. CASE Invoke
  BY <1>3 DEF Invoke, store, prodVars, workers, cancel, account, NewPool,
       NoSummary, Outcomes
<1>4. CASE Crash
  BY <1>4 DEF Crash, store, prodVars, workers, cancel, account, NewPool,
       NoSummary, Outcomes
<1>5. CASE Persist
  BY <1>5 DEF Persist, store, prodVars, workers, cancel, account
<1>6. CASE RotateKey \/ Expire
  BY <1>6 DEF RotateKey, Expire, store, prodVars, workers, cancel, account
<1>7. ASSUME NEW w \in Workers, HandOut(w) PROVE CursorInv'
  BY <1>7 DEF HandOut, store, prodVars, workers, cancel, account, At, Goto,
       NextObject
<1>8. ASSUME NEW w \in Workers,
             NoMoreNames(w) \/ GetObject(w) \/ BeginSend(w) \/ RefreshKey(w)
             \/ BackoffEnds(w)
      PROVE  CursorInv'
  <2>1. UNCHANGED <<producer, start, page, nextStart, obj>>
    BY <1>8 DEF NoMoreNames, GetObject, BeginSend, RefreshKey, BackoffEnds,
         prodVars, Goto
  <2> QED BY <2>1, CursorKept
<1>9. ASSUME NEW w \in Workers, GetFails(w)
      PROVE  CursorInv'
  <2>1. /\ UNCHANGED <<producer, start, page, nextStart>>
        /\ \A v \in Workers : obj'[v] = obj[v] \/ obj'[v] = 0
    BY <1>9 DEF GetFails, prodVars, Goto, NextObject
  <2> QED BY <2>1, CursorKept
<1>10. ASSUME NEW w \in Workers,
             CannotSend(w) \/ Refused(w) \/ Forbidden(w)
             \/ Unauthorized(w) \/ RefreshFails(w)
             \/ NoAnswer(w)
      PROVE  CursorInv'
  <2>1. UNCHANGED <<producer, start, page, nextStart>>
    BY <1>10 DEF CannotSend, Refused, Forbidden, Unauthorized, RefreshFails, NoAnswer,
         prodVars
  <2>2. UNCHANGED obj
    BY <1>10 DEF CannotSend, Refused, Forbidden, Unauthorized, RefreshFails, NoAnswer,
         ReplayFailed, Retry, Settle, Goto
  <2> QED BY <2>1, <2>2, CursorKept
<1>11. ASSUME NEW w \in Workers, Delivered(w)
      PROVE  CursorInv'
  <2>1. /\ UNCHANGED <<producer, start, page, nextStart>>
        /\ \A v \in Workers : obj'[v] = obj[v] \/ obj'[v] = 0
    BY <1>11 DEF Delivered, prodVars, Goto, NextObject
  <2> QED BY <2>1, CursorKept
<1>12. ASSUME NEW w \in Workers, DeleteDelivered(w) \/ DeleteDropped(w)
      PROVE  CursorInv'
  <2>1. /\ UNCHANGED <<producer, start, page, nextStart>>
        /\ \A v \in Workers : obj'[v] = obj[v] \/ obj'[v] = 0
    BY <1>12 DEF DeleteDelivered, DeleteDropped, DeleteCall,
         prodVars, Goto, NextObject
  <2> QED BY <2>1, CursorKept
<1>13. ASSUME NEW o \in Objects, OtherRun(o) PROVE CursorInv'
  BY <1>13 DEF OtherRun, prodVars, workers, cancel, account
<1>14. CASE UNCHANGED vars
  BY <1>14 DEF vars, store, prodVars, workers, cancel, account
<1> QED
  BY <1>1, <1>2, <1>3, <1>4, <1>5, <1>6, <1>7, <1>8, <1>9, <1>10,
     <1>11, <1>12, <1>13, <1>14
     DEF Next, ProducerStep, WorkerStep, Replay, Environment

(* So no object is handed out twice. *)
LEMMA ExclusiveStep == IInv /\ [Next]_vars => ExclusiveHolding'
<1> SUFFICES ASSUME IInv, [Next]_vars PROVE ExclusiveHolding'
  OBVIOUS
<1> USE MaxObjectsNat DEF IInv, TypeOK, PoolType, Objects, CursorInv,
       ExclusiveHolding, At
<1>1. CASE ListPage
  BY <1>1 DEF ListPage, store, prodVars, workers, cancel, account, Listed,
       IsPage, FollowsPage
<1>2. CASE ListFails \/ StopFeeding \/ PageDone \/ Return
  BY <1>2 DEF ListFails, StopFeeding, PageDone, Return, store, prodVars,
       workers, cancel, account
<1>3. CASE Invoke
  BY <1>3 DEF Invoke, store, prodVars, workers, cancel, account, NewPool,
       NoSummary, Outcomes
<1>4. CASE Crash
  BY <1>4 DEF Crash, store, prodVars, workers, cancel, account, NewPool,
       NoSummary, Outcomes
<1>5. CASE Persist
  BY <1>5 DEF Persist, store, prodVars, workers, cancel, account
<1>6. CASE RotateKey \/ Expire
  BY <1>6 DEF RotateKey, Expire, store, prodVars, workers, cancel, account
<1>7. ASSUME NEW w \in Workers, HandOut(w) PROVE ExclusiveHolding'
  BY <1>7 DEF HandOut, store, prodVars, workers, cancel, account, At, Goto,
       NextObject
<1>8. ASSUME NEW w \in Workers,
             NoMoreNames(w) \/ GetObject(w) \/ BeginSend(w) \/ RefreshKey(w)
             \/ BackoffEnds(w)
      PROVE  ExclusiveHolding'
  BY <1>8 DEF NoMoreNames, GetObject, BeginSend, RefreshKey, BackoffEnds,
       store, prodVars, workers, cancel, account, At, Goto, NextObject
<1>9. ASSUME NEW w \in Workers, GetFails(w) PROVE ExclusiveHolding'
  BY <1>9 DEF GetFails, store, prodVars, workers, cancel, account, At, Goto,
       NextObject
<1>10. ASSUME NEW w \in Workers,
             CannotSend(w) \/ Refused(w) \/ Forbidden(w)
             \/ Unauthorized(w) \/ RefreshFails(w)
      PROVE  ExclusiveHolding'
  BY <1>10 DEF CannotSend, Refused, Forbidden, Unauthorized, RefreshFails, store, prodVars,
       workers, cancel, account, At, Goto, NextObject, ReplayFailed, Retry,
       Settle, Retryable
<1>11. ASSUME NEW w \in Workers, Delivered(w) PROVE ExclusiveHolding'
  BY <1>11 DEF Delivered, store, prodVars, workers, cancel, account, At, Goto,
       NextObject, Acceptable
<1>12. ASSUME NEW w \in Workers, NoAnswer(w) PROVE ExclusiveHolding'
  BY <1>12 DEF NoAnswer, store, prodVars, workers, cancel, account, At, Goto,
       NextObject, ReplayFailed, Retry, Settle, Retryable, Acceptable
<1>13. ASSUME NEW w \in Workers, DeleteDelivered(w) PROVE ExclusiveHolding'
  BY <1>13 DEF DeleteDelivered, store, prodVars, workers, cancel, account, At,
       Goto, NextObject, DeleteCall
<1>14. ASSUME NEW w \in Workers, DeleteDropped(w) PROVE ExclusiveHolding'
  BY <1>14 DEF DeleteDropped, store, prodVars, workers, cancel, account, At,
       Goto, NextObject, DeleteCall
<1>15. ASSUME NEW o \in Objects, OtherRun(o) PROVE ExclusiveHolding'
  BY <1>15 DEF OtherRun, prodVars, workers, cancel, account
<1>16. CASE UNCHANGED vars
  BY <1>16 DEF vars, store, prodVars, workers, cancel, account
<1> QED
  BY <1>1, <1>2, <1>3, <1>4, <1>5, <1>6, <1>7, <1>8, <1>9, <1>10,
     <1>11, <1>12, <1>13, <1>14, <1>15, <1>16
     DEF Next, ProducerStep, WorkerStep, Replay, Environment

(* A delete is reached only past an acceptance or a decision to drop. *)
LEMMA NoLossStep == IInv /\ [Next]_vars => NoLoss'
<1> SUFFICES ASSUME IInv, [Next]_vars PROVE NoLoss'
  OBVIOUS
<1> USE MaxObjectsNat DEF IInv, TypeOK, PoolType, Objects, NoLoss, WorkerInv,
       StoreInv, At, Busy, Reasons
<1>1. CASE ListPage
  BY <1>1 DEF ListPage, store, prodVars, workers, cancel, account, Listed,
       IsPage, FollowsPage
<1>2. CASE ListFails \/ StopFeeding \/ PageDone \/ Return
  BY <1>2 DEF ListFails, StopFeeding, PageDone, Return, store, prodVars,
       workers, cancel, account
<1>3. CASE Invoke
  BY <1>3 DEF Invoke, store, prodVars, workers, cancel, account, NewPool,
       NoSummary, Outcomes
<1>4. CASE Crash
  BY <1>4 DEF Crash, store, prodVars, workers, cancel, account, NewPool,
       NoSummary, Outcomes
<1>5. CASE Persist
  BY <1>5 DEF Persist, store, prodVars, workers, cancel, account
<1>6. CASE RotateKey \/ Expire
  BY <1>6 DEF RotateKey, Expire, store, prodVars, workers, cancel, account
<1>7. ASSUME NEW w \in Workers, HandOut(w) PROVE NoLoss'
  BY <1>7 DEF HandOut, store, prodVars, workers, cancel, account, At, Goto,
       NextObject
<1>8. ASSUME NEW w \in Workers,
             NoMoreNames(w) \/ GetObject(w) \/ BeginSend(w) \/ RefreshKey(w)
             \/ BackoffEnds(w)
      PROVE  NoLoss'
  BY <1>8 DEF NoMoreNames, GetObject, BeginSend, RefreshKey, BackoffEnds,
       store, prodVars, workers, cancel, account, At, Goto, NextObject
<1>9. ASSUME NEW w \in Workers, GetFails(w) PROVE NoLoss'
  BY <1>9 DEF GetFails, store, prodVars, workers, cancel, account, At, Goto,
       NextObject
<1>10. ASSUME NEW w \in Workers,
             CannotSend(w) \/ Refused(w) \/ Forbidden(w)
             \/ Unauthorized(w) \/ RefreshFails(w)
      PROVE  NoLoss'
  BY <1>10 DEF CannotSend, Refused, Forbidden, Unauthorized, RefreshFails, store, prodVars,
       workers, cancel, account, At, Goto, NextObject, ReplayFailed, Retry,
       Settle, Retryable
<1>11. ASSUME NEW w \in Workers, Delivered(w) PROVE NoLoss'
  BY <1>11 DEF Delivered, store, prodVars, workers, cancel, account, At, Goto,
       NextObject, Acceptable
<1>12. ASSUME NEW w \in Workers, NoAnswer(w) PROVE NoLoss'
  BY <1>12 DEF NoAnswer, store, prodVars, workers, cancel, account, At, Goto,
       NextObject, ReplayFailed, Retry, Settle, Retryable, Acceptable
<1>13. ASSUME NEW w \in Workers, DeleteDelivered(w) PROVE NoLoss'
  BY <1>13 DEF DeleteDelivered, store, prodVars, workers, cancel, account, At,
       Goto, NextObject, DeleteCall
<1>14. ASSUME NEW w \in Workers, DeleteDropped(w) PROVE NoLoss'
  BY <1>14 DEF DeleteDropped, store, prodVars, workers, cancel, account, At,
       Goto, NextObject, DeleteCall
<1>15. ASSUME NEW o \in Objects, OtherRun(o) PROVE NoLoss'
  <2>1. /\ bucket' = bucket \ {o}
        /\ UNCHANGED <<lastPut, keyFresh, prodVars, cancel, workers, account>>
    BY <1>15, OtherRunRemoves
  <2>2. CASE accepted' = accepted \cup {o} /\ UNCHANGED gaveUp
    BY <2>1, <2>2 DEF prodVars, workers, cancel, account
  <2>3. ASSUME NEW why \in Reasons, gaveUp' = [gaveUp EXCEPT ![o] = why],
               UNCHANGED accepted
        PROVE  NoLoss'
    BY <2>1, <2>3 DEF prodVars, workers, cancel, account
  <2> QED BY <1>15, <2>2, <2>3, OtherRunRemoves
<1>16. CASE UNCHANGED vars
  BY <1>16 DEF vars, store, prodVars, workers, cancel, account
<1> QED
  BY <1>1, <1>2, <1>3, <1>4, <1>5, <1>6, <1>7, <1>8, <1>9, <1>10,
     <1>11, <1>12, <1>13, <1>14, <1>15, <1>16
     DEF Next, ProducerStep, WorkerStep, Replay, Environment

(* Without another run, a worker's object can only be deleted by itself. *)
LEMMA HeldStep == IInv /\ [Next]_vars => HeldInv'
<1> SUFFICES ASSUME IInv, [Next]_vars PROVE HeldInv'
  OBVIOUS
<1> USE MaxObjectsNat DEF IInv, TypeOK, PoolType, Objects, HeldInv, WorkerInv,
       CursorInv, ExclusiveHolding, At, Busy, WorkerPCs
<1>1. CASE ListPage
  BY <1>1 DEF ListPage, store, prodVars, workers, cancel, account, Listed,
       IsPage, FollowsPage
<1>2. CASE ListFails \/ StopFeeding \/ PageDone \/ Return
  BY <1>2 DEF ListFails, StopFeeding, PageDone, Return, store, prodVars,
       workers, cancel, account
<1>3. CASE Invoke
  BY <1>3 DEF Invoke, store, prodVars, workers, cancel, account, NewPool,
       NoSummary, Outcomes
<1>4. CASE Crash
  BY <1>4 DEF Crash, store, prodVars, workers, cancel, account, NewPool,
       NoSummary, Outcomes
<1>5. CASE Persist
  BY <1>5 DEF Persist, store, prodVars, workers, cancel, account
<1>6. CASE RotateKey \/ Expire
  BY <1>6 DEF RotateKey, Expire, store, prodVars, workers, cancel, account
<1>7. ASSUME NEW w \in Workers, HandOut(w) PROVE HeldInv'
  BY <1>7 DEF HandOut, store, prodVars, workers, cancel, account, At, Goto,
       NextObject
<1>8. ASSUME NEW w \in Workers,
             NoMoreNames(w) \/ GetObject(w) \/ BeginSend(w) \/ RefreshKey(w)
             \/ BackoffEnds(w)
      PROVE  HeldInv'
  BY <1>8 DEF NoMoreNames, GetObject, BeginSend, RefreshKey, BackoffEnds,
       store, prodVars, workers, cancel, account, At, Goto, NextObject
<1>9. ASSUME NEW w \in Workers, GetFails(w) PROVE HeldInv'
  <2>1. CASE ctxDone
    BY <1>9, <2>1 DEF GetFails, store, prodVars, cancel, Goto
  <2>2. CASE ~ctxDone
    BY <1>9, <2>2 DEF GetFails, store, prodVars, cancel, NextObject
  <2> QED BY <2>1, <2>2
<1>10. ASSUME NEW w \in Workers,
             CannotSend(w) \/ Refused(w) \/ Forbidden(w)
             \/ Unauthorized(w) \/ RefreshFails(w)
      PROVE  HeldInv'
  <2>1. CASE CannotSend(w)
    BY <2>1 DEF CannotSend, store, prodVars, cancel, account, Goto,
       ReplayFailed, Retry, Settle, Retryable
  <2>2. CASE Refused(w)
    BY <2>2 DEF Refused, store, prodVars, cancel, account, Goto,
       ReplayFailed, Retry, Settle, Retryable
  <2>3. CASE Forbidden(w)
    BY <2>3 DEF Forbidden, store, prodVars, cancel, account, Goto,
       ReplayFailed, Retry, Settle, Retryable
  <2>4. CASE RefreshFails(w)
    BY <2>4 DEF RefreshFails, store, prodVars, cancel, account, Goto,
       ReplayFailed, Retry, Settle, Retryable
  <2>5. CASE Unauthorized(w)
    BY <2>5 DEF Unauthorized, store, prodVars, cancel, account, Goto,
       ReplayFailed, Retry, Settle, Retryable
  <2> QED BY <1>10, <2>1, <2>2, <2>3, <2>4, <2>5
<1>11. ASSUME NEW w \in Workers, Delivered(w) PROVE HeldInv'
  BY <1>11 DEF Delivered, store, prodVars, workers, cancel, account, At, Goto,
       NextObject, Acceptable
<1>12. ASSUME NEW w \in Workers, NoAnswer(w) PROVE HeldInv'
  BY <1>12 DEF NoAnswer, store, prodVars, workers, cancel, account, At, Goto,
       NextObject, ReplayFailed, Retry, Settle, Retryable, Acceptable
<1>13. ASSUME NEW w \in Workers, DeleteDelivered(w) PROVE HeldInv'
  BY <1>13 DEF DeleteDelivered, store, prodVars, workers, cancel, account, At,
       Goto, NextObject, DeleteCall
<1>14. ASSUME NEW w \in Workers, DeleteDropped(w) PROVE HeldInv'
  BY <1>14 DEF DeleteDropped, store, prodVars, workers, cancel, account, At,
       Goto, NextObject, DeleteCall
<1>15. ASSUME NEW o \in Objects, OtherRun(o) PROVE HeldInv'
  BY <1>15 DEF OtherRun, prodVars, workers, cancel, account
<1>16. CASE UNCHANGED vars
  BY <1>16 DEF vars, store, prodVars, workers, cancel, account
<1> QED
  BY <1>1, <1>2, <1>3, <1>4, <1>5, <1>6, <1>7, <1>8, <1>9, <1>10,
     <1>11, <1>12, <1>13, <1>14, <1>15, <1>16
     DEF Next, ProducerStep, WorkerStep, Replay, Environment

(* Until a cancellation no object of the first listing is passed over. *)
LEMMA DrainStep == IInv /\ [Next]_vars => DrainInv'
<1> SUFFICES ASSUME IInv, [Next]_vars PROVE DrainInv'
  OBVIOUS
<1> USE MaxObjectsNat DEF IInv, TypeOK, PoolType, Objects, DrainInv, ToCome,
       WorkerInv, StoreInv, At, Busy, WorkerPCs
<1>1. CASE ListPage
  <2>1. PICK p \in SUBSET Listed, n \in 0..MaxObjects :
             FollowsPage(p, n) /\ page' = p /\ nextStart' = n
    BY <1>1 DEF ListPage
  <2>2. /\ producer = "list" /\ producer' = "feed"
        /\ UNCHANGED <<bucket, present, listFailed, ctxDone, left, obj, pc>>
    BY <1>1 DEF ListPage, store, workers, cancel, account
  <2>3. \A o \in Listed : o \in p \/ (n # 0 /\ o >= n)
    BY <2>1 DEF FollowsPage, Listed
  <2> QED BY <2>1, <2>2, <2>3 DEF Listed
<1>2. CASE ListFails \/ StopFeeding \/ PageDone \/ Return
  <2>1. CASE ListFails
    BY <2>1 DEF ListFails, store, workers, cancel, account
  <2>2. CASE StopFeeding
    BY <2>2 DEF StopFeeding, store, workers, cancel, account
  <2>3. CASE PageDone
    BY <2>3 DEF PageDone, store, workers, cancel, account
  <2>4. CASE Return
    BY <2>4 DEF Return, store, workers, cancel, account
  <2> QED BY <1>2, <2>1, <2>2, <2>3, <2>4
<1>3. CASE Invoke
  BY <1>3 DEF Invoke, store, prodVars, workers, cancel, account, NewPool,
       NoSummary, Outcomes
<1>4. CASE Crash
  BY <1>4 DEF Crash, store, prodVars, workers, cancel, account, NewPool,
       NoSummary, Outcomes
<1>5. CASE Persist
  <2>1. lastPut' \notin present
    BY <1>5 DEF Persist
  <2>2. present' \cap bucket' = present \cap bucket
    BY <1>5, <2>1 DEF Persist, prodVars
  <2>3. /\ UNCHANGED <<producer, start, page, nextStart, listFailed>>
        /\ UNCHANGED <<pc, obj, ctxDone, left>>
    BY <1>5 DEF Persist, prodVars, workers, cancel, account
  <2> HIDE DEF TypeOK, PoolType, StoreInv, WorkerInv
  <2> QED BY <2>2, <2>3
<1>6. CASE RotateKey \/ Expire
  <2>1. CASE RotateKey
    <3> HIDE DEF TypeOK, PoolType, StoreInv, WorkerInv
    <3> QED BY <2>1 DEF RotateKey, store, prodVars, workers, cancel, account
  <2>2. CASE Expire
    <3>1. ctxDone' = TRUE /\ UNCHANGED <<prodVars, workers>>
      BY <2>2 DEF Expire
    <3> HIDE DEF TypeOK, PoolType, StoreInv, WorkerInv
    <3> QED BY <3>1 DEF prodVars, workers
  <2> QED BY <1>6, <2>1, <2>2
<1>7. ASSUME NEW w \in Workers, HandOut(w) PROVE DrainInv'
  BY <1>7 DEF HandOut, store, prodVars, workers, cancel, account, At, Goto,
       NextObject
<1>8. ASSUME NEW w \in Workers,
             NoMoreNames(w) \/ GetObject(w) \/ BeginSend(w) \/ RefreshKey(w)
             \/ BackoffEnds(w)
      PROVE  DrainInv'
  <2>1. CASE NoMoreNames(w)
    BY <2>1 DEF NoMoreNames, store, prodVars, workers, cancel, account, At,
       Goto, NextObject
  <2>2. CASE GetObject(w)
    BY <2>2 DEF GetObject, store, prodVars, workers, cancel, account, At,
       Goto, NextObject
  <2>3. CASE BeginSend(w)
    BY <2>3 DEF BeginSend, store, prodVars, workers, cancel, account, At,
       Goto, NextObject
  <2>4. CASE RefreshKey(w)
    BY <2>4 DEF RefreshKey, store, prodVars, workers, cancel, account, At,
       Goto, NextObject
  <2>5. CASE BackoffEnds(w)
    BY <2>5 DEF BackoffEnds, store, prodVars, workers, cancel, account, At,
       Goto, NextObject
  <2> QED BY <1>8, <2>1, <2>2, <2>3, <2>4, <2>5
<1>9. ASSUME NEW w \in Workers, GetFails(w) PROVE DrainInv'
  BY <1>9 DEF GetFails, store, prodVars, workers, cancel, account, At, Goto,
       NextObject
<1>10. ASSUME NEW w \in Workers,
             CannotSend(w) \/ Refused(w) \/ Forbidden(w)
             \/ Unauthorized(w) \/ RefreshFails(w)
      PROVE  DrainInv'
  <2>1. CASE CannotSend(w)
    BY <2>1 DEF CannotSend, store, prodVars, workers, cancel, account, At,
       Goto, NextObject, ReplayFailed, Retry, Settle, Retryable
  <2>2. CASE Refused(w)
    BY <2>2 DEF Refused, store, prodVars, workers, cancel, account, At, Goto,
       NextObject, ReplayFailed, Retry, Settle, Retryable
  <2>3. CASE Forbidden(w)
    BY <2>3 DEF Forbidden, store, prodVars, workers, cancel, account, At,
       Goto, NextObject, ReplayFailed, Retry, Settle, Retryable
  <2>4. CASE RefreshFails(w)
    BY <2>4 DEF RefreshFails, store, prodVars, workers, cancel, account, At,
       Goto, NextObject, ReplayFailed, Retry, Settle, Retryable
  <2>5. CASE Unauthorized(w)
    BY <2>5 DEF Unauthorized, store, prodVars, workers, cancel, account, At,
       Goto, NextObject, ReplayFailed, Retry, Settle, Retryable
  <2> QED BY <1>10, <2>1, <2>2, <2>3, <2>4, <2>5
<1>11. ASSUME NEW w \in Workers, Delivered(w) PROVE DrainInv'
  BY <1>11 DEF Delivered, store, prodVars, workers, cancel, account, At, Goto,
       NextObject, Acceptable
<1>12. ASSUME NEW w \in Workers, NoAnswer(w) PROVE DrainInv'
  BY <1>12 DEF NoAnswer, store, prodVars, workers, cancel, account, At, Goto,
       NextObject, ReplayFailed, Retry, Settle, Retryable, Acceptable
<1>13. ASSUME NEW w \in Workers, DeleteDelivered(w) PROVE DrainInv'
  BY <1>13 DEF DeleteDelivered, store, prodVars, workers, cancel, account, At,
       Goto, NextObject, DeleteCall
<1>14. ASSUME NEW w \in Workers, DeleteDropped(w) PROVE DrainInv'
  BY <1>14 DEF DeleteDropped, store, prodVars, workers, cancel, account, At,
       Goto, NextObject, DeleteCall
<1>15. ASSUME NEW o \in Objects, OtherRun(o) PROVE DrainInv'
  BY <1>15 DEF OtherRun, prodVars, workers, cancel, account
<1>16. CASE UNCHANGED vars
  BY <1>16 DEF vars, store, prodVars, workers, cancel, account
<1> QED
  BY <1>1, <1>2, <1>3, <1>4, <1>5, <1>6, <1>7, <1>8, <1>9, <1>10,
     <1>11, <1>12, <1>13, <1>14, <1>15, <1>16
     DEF Next, ProducerStep, WorkerStep, Replay, Environment

-----------------------------------------------------------------------------
(* The invariant holds when a container starts, whatever the bucket holds. *)
LEMMA InitIInv == Init => IInv
<1> SUFFICES ASSUME Init PROVE IInv
  OBVIOUS
<1> USE MaxObjectsNat
<1>1. lastPut \in 0..MaxObjects /\ bucket = 1..lastPut
  BY DEF Init
<1>2. PoolType
  BY DEF Init, PoolType, WorkerPCs
<1>3. TypeOK
  <2>1. summary \in [Outcomes -> Nat]
    BY DEF Init, NoSummary
  <2>2. gaveUp \in [Objects -> Reasons \cup {"no"}]
    BY DEF Init
  <2>3. /\ bucket \subseteq Objects /\ accepted = {} /\ page = {} /\ present = {}
        /\ handed = {} /\ left = {} /\ start = 0 /\ nextStart = 0
    BY <1>1 DEF Init, Objects
  <2>4. /\ keyFresh \in BOOLEAN /\ ctxDone \in BOOLEAN
        /\ fatal \in BOOLEAN /\ listFailed \in BOOLEAN
        /\ producer \in {"list", "feed", "closed", "returned"}
    BY DEF Init
  <2> QED BY <1>1, <1>2, <2>1, <2>2, <2>3, <2>4 DEF TypeOK
<1>4. StoreInv /\ WorkerInv /\ CursorInv /\ NoLoss
  BY <1>1 DEF Init, StoreInv, WorkerInv, CursorInv, NoLoss, Busy, At
<1>5. ExclusiveHolding /\ DrainInv /\ HeldInv
  BY DEF Init, ExclusiveHolding, DrainInv, HeldInv, Busy, At
<1> QED BY <1>3, <1>4, <1>5 DEF IInv

LEMMA StepIInv == IInv /\ [Next]_vars => IInv'
<1> SUFFICES ASSUME IInv, [Next]_vars PROVE IInv'
  OBVIOUS
<1>1. TypeOK' /\ StoreInv' /\ WorkerInv' /\ CursorInv'
  BY TypeStep, StoreStep, WorkerInvStep, CursorStep
<1>2. ExclusiveHolding' /\ NoLoss' /\ DrainInv' /\ HeldInv'
  BY ExclusiveStep, NoLossStep, DrainStep, HeldStep
<1> QED BY <1>1, <1>2 DEF IInv

(* The inductive invariant of a backfill run holds in every reachable state. *)
THEOREM Invariance == Spec => []IInv
<1>1. Init => IInv
  BY InitIInv
<1>2. IInv /\ [Next]_vars => IInv'
  BY StepIInv
<1> QED BY <1>1, <1>2, PTL DEF Spec

(* The state of a run is well typed (client.go:410-524). *)
THEOREM TypeCorrect == Spec => []TypeOK
<1>1. IInv => TypeOK
  BY DEF IInv
<1> QED BY <1>1, Invariance, PTL

(* No payload leaves the bucket before Datadog has accepted it or a run has
   decided to drop it (client.go:386-393, 449-481). *)
THEOREM PayloadsKept == Spec => []NoLoss
<1>1. IInv => NoLoss
  BY DEF IInv
<1> QED BY <1>1, Invariance, PTL

(* One run never gives an object to two workers (client.go:486-517). *)
THEOREM OneWorkerPerObject == Spec => []ExclusiveHolding
<1>1. IInv => ExclusiveHolding
  BY DEF IInv
<1> QED BY <1>1, Invariance, PTL

(* Workers only read, send and delete objects that are still stored
   (client.go:437-466). *)
THEOREM HeldObjectsStored == Spec => []SendsStoredObjects
<1>1. IInv => SendsStoredObjects
  BY DEF IInv, HeldInv, SendsStoredObjects
<1> QED BY <1>1, Invariance, PTL

(* Once a run is cancelled nothing is dropped and nothing that a worker has not
   settled leaves the bucket: each action of a worker looks at its own object
   only, and ReplayFailed asks for the cancellation first (client.go:437-458). *)
LEMMA AbandonedStep ==
    ASSUME IInv, [Next]_vars, ctxDone, "overlap" \notin Faults,
           NEW v \in Workers, obj[v] # 0, pc[v] \notin {"ack", "drop"}
    PROVE  /\ obj[v] \in bucket => obj[v] \in bucket'
           /\ gaveUp'[obj[v]] = gaveUp[obj[v]]
<1>1. CASE ProducerStep
  BY <1>1 DEF ProducerStep, ListPage, ListFails, StopFeeding, PageDone, Return, store
<1>2. CASE Invoke \/ Persist \/ RotateKey \/ Expire \/ Crash \/ UNCHANGED vars
  BY <1>2 DEF Invoke, Persist, RotateKey, Expire, Crash, vars, store
<1>3. ASSUME NEW w \in Workers,
             HandOut(w) \/ NoMoreNames(w) \/ GetObject(w) \/ GetFails(w)
             \/ BeginSend(w) \/ RefreshKey(w) \/ BackoffEnds(w) \/ Delivered(w)
      PROVE  UNCHANGED <<bucket, gaveUp>>
  BY <1>3 DEF HandOut, NoMoreNames, GetObject, GetFails, BeginSend, RefreshKey,
     BackoffEnds, Delivered, store
<1>4. ASSUME NEW w \in Workers,
             CannotSend(w) \/ NoAnswer(w) \/ Refused(w) \/ Forbidden(w)
             \/ Unauthorized(w) \/ RefreshFails(w)
      PROVE  UNCHANGED <<bucket, gaveUp>>
  BY <1>4 DEF CannotSend, NoAnswer, Refused, Forbidden, Unauthorized, RefreshFails,
     ReplayFailed, Retry, Settle
<1>5. ASSUME NEW w \in Workers, DeleteDelivered(w) \/ DeleteDropped(w)
      PROVE  /\ obj[v] \in bucket => obj[v] \in bucket'
             /\ UNCHANGED gaveUp
  <2>1. v # w
    BY <1>5 DEF DeleteDelivered, DeleteDropped, At
  <2>2. obj[w] # obj[v]
    BY <2>1 DEF IInv, ExclusiveHolding
  <2> QED BY <1>5, <2>2 DEF DeleteDelivered, DeleteDropped, DeleteCall
<1>6. ASSUME NEW o \in Objects PROVE ~OtherRun(o)
  BY DEF OtherRun
<1> QED
  BY <1>1, <1>2, <1>3, <1>4, <1>5, <1>6 DEF Next, Environment, WorkerStep, Replay

(* The failure that a cancellation causes drops no payload, and the object of a
   worker that is not done with it stays in the bucket for the next run
   (client.go:437-458). *)
THEOREM AbandonedStay == Spec => AbandonedRetained
<1> DEFINE Step ==
      ctxDone /\ "overlap" \notin Faults =>
        \A w \in Workers : obj[w] # 0 /\ pc[w] \notin {"ack", "drop"} =>
            /\ obj[w] \in bucket => obj[w] \in bucket'
            /\ gaveUp'[obj[w]] = gaveUp[obj[w]]
<1>1. IInv /\ [Next]_vars => [Step]_vars
  BY AbandonedStep
<1> HIDE DEF Step
<1>2. Spec => [][Step]_vars
  BY <1>1, Invariance, PTL DEF Spec
<1> QED BY <1>2 DEF Step, AbandonedRetained

(* A run that returned without an error, and that neither a fatal failure nor
   the deadline ended, has dealt with every object it found (client.go:493-524;
   a run the deadline ended returns no error either, client.go:520-523). *)
THEOREM Drained == Spec => []DrainComplete
<1>1. IInv => DrainComplete
  <2> SUFFICES ASSUME IInv, producer = "returned", ~ctxDone, ~listFailed,
                      NEW o \in present \cap bucket
               PROVE  o \in left
    BY DEF DrainComplete
  <2>1. o \in left \/ \E w \in Workers : obj[w] = o
    BY DEF IInv, DrainInv, ToCome
  <2>2. \A w \in Workers : obj[w] = 0
    BY DEF IInv, DrainInv, WorkerInv, At
  <2>3. o # 0
    BY DEF IInv, TypeOK, Objects
  <2> QED BY <2>1, <2>2, <2>3
<1> QED BY <1>1, Invariance, PTL

-----------------------------------------------------------------------------
(* The refinement of PayloadStore. *)

PromiseVars == <<bucket, accepted, gaveUp, lastPut>>

LEMMA InitPromise == Init => Promise!Init
BY MaxObjectsNat DEF Init, Promise!Init, Objects

LEMMA StutterPromise ==
    ASSUME UNCHANGED PromiseVars
    PROVE  UNCHANGED Promise!storeVars
BY DEF PromiseVars, Promise!storeVars

(* A replay that fails either leaves the store alone or drops the object. *)
LEMMA FailurePromise ==
    ASSUME TypeOK, NEW w \in Workers, obj[w] \in 1..lastPut,
           NEW outcome \in Retryable \cup Reasons, ReplayFailed(w, outcome),
           UNCHANGED <<bucket, lastPut, accepted>>
    PROVE  Promise!Drop(obj[w]) \/ UNCHANGED Promise!storeVars
<1>1. CASE gaveUp' = gaveUp
  BY <1>1, StutterPromise DEF PromiseVars
<1>2. CASE gaveUp' = [gaveUp EXCEPT ![obj[w]] = outcome] /\ outcome \notin Retryable
  <2>1. outcome # "no" /\ obj[w] \in Objects
    BY <1>2, MaxObjectsNat DEF Reasons, Objects, TypeOK
  <2> QED BY <1>2, <2>1 DEF Promise!Drop, TypeOK
<1> QED BY <1>1, <1>2 DEF ReplayFailed, Retry, Settle

LEMMA StepPromise == IInv /\ [Next]_vars => [Promise!Next]_(Promise!storeVars)
<1> SUFFICES ASSUME IInv, [Next]_vars
             PROVE  Promise!Next \/ UNCHANGED Promise!storeVars
  OBVIOUS
<1>0. TypeOK /\ MaxObjects \in Nat /\ lastPut \in 0..MaxObjects
  BY MaxObjectsNat DEF IInv, TypeOK
<1>a. ASSUME NEW w \in Workers, pc[w] \in Busy
      PROVE  obj[w] \in 1..lastPut /\ obj[w] \in Objects
  BY <1>a, <1>0 DEF IInv, WorkerInv, Objects
<1>1. CASE ProducerStep
  BY <1>1, StutterPromise
     DEF ProducerStep, ListPage, ListFails, StopFeeding, PageDone, Return,
         store, PromiseVars
<1>2. CASE Invoke \/ RotateKey \/ Expire \/ Crash
  BY <1>2, StutterPromise
     DEF Invoke, RotateKey, Expire, Crash, store, PromiseVars
<1>3. CASE Persist
  <2>1. lastPut' \in Objects /\ lastPut' = lastPut + 1
    BY <1>3, <1>0 DEF Persist, Objects
  <2>2. 1..lastPut' = (1..lastPut) \cup {lastPut'} /\ lastPut' \notin 1..lastPut
    BY <1>0, <2>1
  <2>3. Promise!Keep(lastPut')
    BY <1>3, <2>2 DEF Persist, Promise!Keep
  <2> QED BY <2>1, <2>3 DEF Promise!Next
<1>4. ASSUME NEW o \in Objects, OtherRun(o)
      PROVE  Promise!Next
  <2>1. CASE accepted' = accepted \cup {o} /\ UNCHANGED gaveUp
    BY <1>4, <2>1 DEF OtherRun, Promise!Next, Promise!Settle
  <2>2. CASE /\ \E why \in DropReasons(o) : gaveUp' = [gaveUp EXCEPT ![o] = why]
             /\ UNCHANGED accepted
    <3>1. PICK why \in DropReasons(o) : gaveUp' = [gaveUp EXCEPT ![o] = why]
      BY <2>2
    <3>2. why # "no"
      BY DEF DropReasons
    <3>3. {p \in Objects : gaveUp'[p] # "no"}
             = {p \in Objects : gaveUp[p] # "no"} \cup {o}
      BY <3>1, <3>2, <1>0 DEF TypeOK
    <3> QED BY <1>4, <2>2, <3>3 DEF OtherRun, Promise!Next, Promise!Settle
  <2> QED BY <1>4, <2>1, <2>2 DEF OtherRun
<1>5. ASSUME NEW w \in Workers, HandOut(w) \/ NoMoreNames(w) \/ GetObject(w)
               \/ GetFails(w) \/ BeginSend(w) \/ RefreshKey(w) \/ BackoffEnds(w)
      PROVE  UNCHANGED Promise!storeVars
  BY <1>5, StutterPromise
     DEF HandOut, NoMoreNames, GetObject, GetFails, BeginSend, RefreshKey,
         BackoffEnds, store, PromiseVars
<1>6. ASSUME NEW w \in Workers,
             CannotSend(w) \/ Refused(w) \/ Forbidden(w)
             \/ Unauthorized(w) \/ RefreshFails(w)
      PROVE  Promise!Next \/ UNCHANGED Promise!storeVars
  <2>1. pc[w] \in Busy /\ UNCHANGED <<bucket, lastPut, accepted>>
    BY <1>6 DEF CannotSend, Refused, Forbidden, Unauthorized, RefreshFails, At, Busy
  <2>2. \/ \E outcome \in Retryable \cup Reasons : ReplayFailed(w, outcome)
        \/ UNCHANGED gaveUp
    BY <1>6
       DEF CannotSend, Refused, Forbidden, Unauthorized, RefreshFails, Retryable, Reasons
  <2>3. Promise!Drop(obj[w]) \/ UNCHANGED Promise!storeVars
    BY <1>0, <1>a, <2>1, <2>2, FailurePromise, StutterPromise DEF PromiseVars
  <2>4. CASE Promise!Drop(obj[w])
    BY <1>a, <2>1, <2>4 DEF Promise!Next, Promise!Drop
  <2> QED BY <2>3, <2>4
<1>7. ASSUME NEW w \in Workers, Delivered(w)
      PROVE  Promise!Next
  <2>1. pc[w] \in Busy
    BY <1>7 DEF Delivered, At, Busy
  <2>2. Promise!Deliver(obj[w])
    BY <1>7, <1>a, <2>1 DEF Delivered, Promise!Deliver
  <2> QED BY <1>a, <2>1, <2>2 DEF Promise!Next
<1>8. ASSUME NEW w \in Workers, NoAnswer(w)
      PROVE  Promise!Next \/ UNCHANGED Promise!storeVars
  <2>1. pc[w] \in Busy /\ UNCHANGED <<bucket, lastPut>>
    BY <1>8 DEF NoAnswer, At, Busy
  <2>2. UNCHANGED gaveUp
    BY <1>8 DEF NoAnswer, ReplayFailed, Retry, Settle, Retryable
  <2>3. CASE UNCHANGED accepted
    BY <2>1, <2>2, <2>3, StutterPromise DEF PromiseVars
  <2>4. CASE accepted' = accepted \cup {obj[w]}
    <3>1. Promise!Deliver(obj[w])
      BY <2>1, <2>2, <2>4, <1>a DEF Promise!Deliver
    <3> QED BY <1>a, <2>1, <3>1 DEF Promise!Next
  <2> QED BY <1>8, <2>3, <2>4 DEF NoAnswer
<1>9. ASSUME NEW w \in Workers, DeleteDelivered(w) \/ DeleteDropped(w)
      PROVE  Promise!Next \/ UNCHANGED Promise!storeVars
  <2>1. pc[w] \in Busy /\ UNCHANGED <<lastPut, accepted, gaveUp>>
    BY <1>9 DEF DeleteDelivered, DeleteDropped, At, Busy
  <2>2. obj[w] \in accepted \/ gaveUp[obj[w]] # "no"
    BY <1>9 DEF DeleteDelivered, DeleteDropped, IInv, WorkerInv
  <2>3. UNCHANGED bucket \/ (obj[w] \in bucket /\ bucket' = bucket \ {obj[w]})
    BY <1>9 DEF DeleteDelivered, DeleteDropped, DeleteCall
  <2>4. CASE UNCHANGED bucket
    BY <2>1, <2>4, StutterPromise DEF PromiseVars
  <2>5. CASE obj[w] \in bucket /\ bucket' = bucket \ {obj[w]}
    <3>1. Promise!Forget(obj[w])
      BY <1>a, <2>1, <2>2, <2>5 DEF Promise!Forget
    <3> QED BY <1>a, <2>1, <3>1 DEF Promise!Next
  <2> QED BY <2>3, <2>4, <2>5
<1>10. CASE UNCHANGED vars
  BY <1>10, StutterPromise DEF vars, store, PromiseVars
<1> QED
  BY <1>1, <1>2, <1>3, <1>4, <1>5, <1>6, <1>7, <1>8, <1>9, <1>10
     DEF Next, Environment, WorkerStep, Replay

(* Every behaviour of the runs is a behaviour of the at-least-once store
   (client.go:386-393). *)
THEOREM Refinement == Spec => KeepsPromise
<1>1. Init => Promise!Init
  BY InitPromise
<1>2. IInv /\ [Next]_vars => [Promise!Next]_(Promise!storeVars)
  BY StepPromise
<1> QED BY <1>1, <1>2, Invariance, PTL DEF Spec, KeepsPromise, Promise!Spec
-----------------------------------------------------------------------------
(* The account of the run: no object is handed out twice, so counting objects
   is counting deliveries, skips, drops and what the workers still hold. *)

HandedBelow ==
    /\ producer = "list" => \A o \in handed : o < start
    /\ producer = "feed" =>
          /\ \A o \in page : \A h \in handed : h < o
          /\ nextStart # 0 => \A h \in handed : h < nextStart
Holders == {w \in Workers : Holding(w)}
Counted == summary.replayed + summary.skipped + summary.dropped
BalanceInv == HandedBelow /\ SummaryBalance

LEMMA FiniteSides ==
    ASSUME TypeOK
    PROVE  /\ IsFiniteSet(Holders) /\ Cardinality(Holders) \in Nat
           /\ IsFiniteSet(handed) /\ Cardinality(handed) \in Nat
           /\ Counted \in Nat
<1>1. IsFiniteSet(Workers) /\ Holders \in SUBSET Workers
  BY ConstantsAssumption DEF Holders
<1>2. IsFiniteSet(Objects) /\ handed \in SUBSET Objects
  BY MaxObjectsNat, FS_Interval DEF Objects, TypeOK
<1>3. IsFiniteSet(Holders) /\ IsFiniteSet(handed)
  BY <1>1, <1>2, FS_Subset
<1>4. Counted \in Nat
  BY DEF Counted, TypeOK, Outcomes
<1> QED BY <1>3, <1>4, FS_CardinalityType

(* The balance: nothing moves, an object is handed out, or one is settled. *)
LEMMA NothingSettled ==
    ASSUME IInv, SummaryBalance, handed' = handed, Counted' = Counted,
           \A v \in Workers : Holding(v)' <=> Holding(v)
    PROVE  SummaryBalance'
<1>1. Holders' = Holders
  BY DEF Holders
<1>2. SummaryBalance <=> Counted + Cardinality(Holders) = Cardinality(handed)
  BY DEF SummaryBalance, Counted, Holders
<1>3. SummaryBalance' <=> Counted' + Cardinality(Holders') = Cardinality(handed')
  BY DEF SummaryBalance, Counted, Holders
<1> QED BY <1>1, <1>2, <1>3

LEMMA OneSettled ==
    ASSUME IInv, SummaryBalance, handed' = handed, Counted' = Counted + 1,
           NEW w \in Workers, Holding(w), ~Holding(w)',
           \A v \in Workers \ {w} : Holding(v)' <=> Holding(v)
    PROVE  SummaryBalance'
<1>1. w \in Holders /\ Holders' = Holders \ {w}
  BY DEF Holders
<1>2. SummaryBalance <=> Counted + Cardinality(Holders) = Cardinality(handed)
  BY DEF SummaryBalance, Counted, Holders
<1>3. SummaryBalance' <=> Counted' + Cardinality(Holders') = Cardinality(handed')
  BY DEF SummaryBalance, Counted, Holders
<1>4. TypeOK
  BY DEF IInv
<1>5. Cardinality(Holders') = Cardinality(Holders) - 1
  BY <1>1, <1>4, FiniteSides, FS_RemoveElement
<1> QED BY <1>2, <1>3, <1>4, <1>5, FiniteSides

LEMMA OneHandedOut ==
    ASSUME IInv, SummaryBalance, NEW w \in Workers, NEW o, o \notin handed,
           handed' = handed \cup {o}, Counted' = Counted, ~Holding(w), Holding(w)',
           \A v \in Workers \ {w} : Holding(v)' <=> Holding(v)
    PROVE  SummaryBalance'
<1>1. w \notin Holders /\ Holders' = Holders \cup {w}
  BY DEF Holders
<1>2. SummaryBalance <=> Counted + Cardinality(Holders) = Cardinality(handed)
  BY DEF SummaryBalance, Counted, Holders
<1>3. SummaryBalance' <=> Counted' + Cardinality(Holders') = Cardinality(handed')
  BY DEF SummaryBalance, Counted, Holders
<1>4. TypeOK
  BY DEF IInv
<1>5. /\ Cardinality(Holders') = Cardinality(Holders) + 1
      /\ Cardinality(handed') = Cardinality(handed) + 1
  BY <1>1, <1>4, FiniteSides, FS_AddElement
<1> QED BY <1>2, <1>3, <1>4, <1>5, FiniteSides

LEMMA EmptyBalance ==
    ASSUME summary = NoSummary, handed = {}, \A w \in Workers : obj[w] = 0
    PROVE  SummaryBalance
<1>1. Holders = {}
  BY DEF Holders, Holding
<1>2. summary.replayed = 0 /\ summary.skipped = 0 /\ summary.dropped = 0
  BY DEF NoSummary, Outcomes
<1> QED BY <1>1, <1>2, FS_EmptySet DEF SummaryBalance, Holders

LEMMA EmptyBalanceNext ==
    ASSUME summary' = NoSummary, handed' = {}, \A w \in Workers : obj'[w] = 0
    PROVE  SummaryBalance'
<1>1. Holders' = {}
  BY DEF Holders, Holding
<1>2. summary'.replayed = 0 /\ summary'.skipped = 0 /\ summary'.dropped = 0
  BY DEF NoSummary, Outcomes
<1> QED BY <1>1, <1>2, FS_EmptySet DEF SummaryBalance, Holders

(* Nothing is counted and nothing is handed out, picked up or put down. *)
Quiet ==
    /\ UNCHANGED <<producer, start, page, nextStart, handed, obj>>
    /\ summary' = summary
    /\ \A v \in Workers : pc'[v] = "ack" <=> pc[v] = "ack"

LEMMA QuietKeeps ==
    ASSUME IInv, BalanceInv, Quiet
    PROVE  BalanceInv'
<1>1. \A v \in Workers : Holding(v)' <=> Holding(v)
  BY DEF Quiet, Holding, At
<1>2. SummaryBalance'
  BY <1>1, NothingSettled DEF Quiet, BalanceInv, Counted
<1>3. HandedBelow'
  BY DEF Quiet, BalanceInv, HandedBelow
<1> QED BY <1>2, <1>3 DEF BalanceInv

LEMMA BalanceStep == IInv /\ BalanceInv /\ [Next]_vars => BalanceInv'
<1> SUFFICES ASSUME IInv, BalanceInv, [Next]_vars PROVE BalanceInv'
  OBVIOUS
<1> USE MaxObjectsNat
<1>0. TypeOK /\ PoolType /\ WorkerInv /\ CursorInv /\ StoreInv /\ HandedBelow /\ SummaryBalance
  BY DEF IInv, BalanceInv, TypeOK
<1>1. CASE ListPage
  <2>1. PICK p \in SUBSET Listed, n \in 0..MaxObjects :
             /\ IsPage(p) /\ FollowsPage(p, n)
             /\ page' = p /\ nextStart' = n
    BY <1>1 DEF ListPage
  <2>2. /\ producer = "list" /\ producer' = "feed"
        /\ UNCHANGED <<pc, obj, handed, summary>>
    BY <1>1 DEF ListPage, workers, account
  <2>3. \A o \in Listed : \A h \in handed : h < o
    BY <1>0, <2>2 DEF Listed, HandedBelow, TypeOK, Objects
  <2>4. n # 0 => n \in Listed
    BY <2>1 DEF FollowsPage
  <2>5. HandedBelow'
    BY <2>1, <2>2, <2>3, <2>4 DEF HandedBelow
  <2>6. SummaryBalance'
    BY <1>0, <2>2, NothingSettled DEF Holding, At, Counted
  <2> QED BY <2>5, <2>6 DEF BalanceInv
<1>2. CASE ListFails \/ StopFeeding \/ PageDone \/ Return
  <2>1. UNCHANGED <<pc, obj, handed, summary>>
    BY <1>2 DEF ListFails, StopFeeding, PageDone, Return, workers, account
  <2>2. HandedBelow'
    BY <1>0, <1>2, <2>1 DEF HandedBelow, ListFails, StopFeeding, PageDone, Return
  <2>3. SummaryBalance'
    BY <1>0, <2>1, NothingSettled DEF Holding, At, Counted
  <2> QED BY <2>2, <2>3 DEF BalanceInv
<1>3. CASE Invoke \/ Crash
  <2>1. /\ summary' = NoSummary /\ handed' = {}
        /\ \A w \in Workers : obj'[w] = 0
    BY <1>3 DEF Invoke, Crash, NewPool
  <2> QED BY <2>1, EmptyBalanceNext DEF BalanceInv, HandedBelow
<1>4. CASE Persist \/ RotateKey \/ Expire
  <2>1. Quiet
    BY <1>4 DEF Persist, RotateKey, Expire, Quiet, prodVars, workers, account
  <2> QED BY <2>1, QuietKeeps
<1>5. ASSUME NEW w \in Workers, HandOut(w) PROVE BalanceInv'
  <2>1. PICK o \in page :
           /\ \A q \in page : o <= q
           /\ page' = page \ {o}
           /\ pc' = [pc EXCEPT ![w] = "get"] /\ obj' = [obj EXCEPT ![w] = o]
           /\ handed' = handed \cup {o}
    BY <1>5 DEF HandOut
  <2>2. /\ producer = "feed" /\ pc[w] = "recv" /\ obj[w] = 0
        /\ UNCHANGED <<producer, start, nextStart, summary>>
    BY <1>0, <1>5 DEF HandOut, At, WorkerInv
  <2>3. page \subseteq Nat \ {0} /\ handed \subseteq Nat /\ nextStart \in Nat
    BY <1>0 DEF TypeOK, Objects
  <2>4. o \notin handed
    BY <1>0, <2>1, <2>2, <2>3 DEF HandedBelow
  <2>5. ~Holding(w) /\ Holding(w)' /\ \A v \in Workers \ {w} : Holding(v)' <=> Holding(v)
    BY <1>0, <2>1, <2>2, <2>3 DEF PoolType, Holding, At
  <2>6. SummaryBalance'
    BY <1>0, <2>1, <2>2, <2>4, <2>5, OneHandedOut DEF Counted
  <2>7. HandedBelow'
    <3>1. \A q \in page' : o < q
      BY <2>1, <2>3
    <3>2. nextStart # 0 => o < nextStart
      BY <1>0, <2>1, <2>2 DEF CursorInv
    <3> QED BY <1>0, <2>1, <2>2, <3>1, <3>2 DEF HandedBelow
  <2> QED BY <2>6, <2>7 DEF BalanceInv
<1>6. ASSUME NEW w \in Workers,
             NoMoreNames(w) \/ GetObject(w) \/ BeginSend(w) \/ RefreshKey(w)
             \/ BackoffEnds(w)
      PROVE  BalanceInv'
  <2>1. Quiet
    BY <1>0, <1>6 DEF NoMoreNames, GetObject, BeginSend, RefreshKey, BackoffEnds, Quiet,
       PoolType, At, Goto, prodVars, account
  <2> QED BY <2>1, QuietKeeps
<1>7. ASSUME NEW w \in Workers,
             CannotSend(w) \/ Refused(w) \/ Forbidden(w)
             \/ Unauthorized(w) \/ RefreshFails(w)
             \/ NoAnswer(w)
      PROVE  BalanceInv'
  <2>1. UNCHANGED <<producer, start, page, nextStart, handed, summary>>
    BY <1>7 DEF CannotSend, Refused, Forbidden, Unauthorized, RefreshFails, NoAnswer, prodVars, account
  <2>2. pc[w] # "ack"
    BY <1>7 DEF CannotSend, Refused, Forbidden, Unauthorized, RefreshFails, NoAnswer, At
  <2>3. /\ UNCHANGED obj
        /\ \A v \in Workers : pc'[v] = pc[v] \/ (v = w /\ pc'[v] # "ack")
    <3>1. ASSUME NEW c, ReplayFailed(w, c)
          PROVE  /\ UNCHANGED obj
                 /\ \A v \in Workers : pc'[v] = pc[v] \/ (v = w /\ pc'[v] # "ack")
      BY <1>0, <3>1 DEF ReplayFailed, Retry, Settle, Goto, PoolType
    <3>2. ASSUME Goto(w, "refresh")
          PROVE  /\ UNCHANGED obj
                 /\ \A v \in Workers : pc'[v] = pc[v] \/ (v = w /\ pc'[v] # "ack")
      BY <1>0, <3>2 DEF Goto, PoolType
    <3> QED
      BY <1>7, <3>1, <3>2 DEF CannotSend, Refused, Forbidden, Unauthorized, RefreshFails, NoAnswer
  <2> QED BY <2>1, <2>2, <2>3, QuietKeeps DEF Quiet
<1>8. ASSUME NEW w \in Workers, GetFails(w) \/ Delivered(w) \/ DeleteDropped(w)
      PROVE  BalanceInv'
  <2>1. /\ UNCHANGED <<producer, start, page, nextStart, handed>>
        /\ pc[w] \in {"get", "wire", "drop"} /\ obj[w] # 0
    BY <1>0, <1>8 DEF GetFails, Delivered, DeleteDropped, prodVars, At, WorkerInv, Busy
  <2>2. \A v \in Workers \ {w} : pc'[v] = pc[v] /\ obj'[v] = obj[v]
    BY <1>0, <1>8 DEF GetFails, Delivered, DeleteDropped, Goto, NextObject, PoolType
  <2>3. Holding(w) /\ \A v \in Workers \ {w} : Holding(v)' <=> Holding(v)
    BY <2>1, <2>2 DEF Holding, At
  <2>4. HandedBelow'
    BY <1>0, <2>1 DEF HandedBelow
  <2>5. CASE GetFails(w) /\ Goto(w, "exit") /\ UNCHANGED summary
    <3>1. Holding(w)'
      BY <1>0, <2>1, <2>5 DEF Holding, At, Goto, PoolType
    <3>2. SummaryBalance'
      BY <1>0, <2>1, <2>3, <2>5, <3>1, NothingSettled DEF Counted
    <3> QED BY <2>4, <3>2 DEF BalanceInv
  <2>6. ASSUME NEW c \in {"replayed", "skipped", "dropped"},
               summary' = [summary EXCEPT ![c] = @ + 1], ~Holding(w)'
        PROVE  BalanceInv'
    <3>1. Counted' = Counted + 1
      BY <1>0, <2>6 DEF Counted, TypeOK, Outcomes
    <3>2. SummaryBalance'
      BY <1>0, <2>1, <2>3, <2>6, <3>1, OneSettled
    <3> QED BY <2>4, <3>2 DEF BalanceInv
  <2>7. CASE NextObject(w)
    <3>1. ~Holding(w)'
      BY <1>0, <2>7 DEF Holding, NextObject, PoolType
    <3>2. PICK c \in {"skipped", "dropped"} : summary' = [summary EXCEPT ![c] = @ + 1]
      BY <1>0, <1>8, <2>1, <2>7 DEF GetFails, Delivered, DeleteDropped, Goto, NextObject, PoolType
    <3> QED BY <2>6, <3>1, <3>2
  <2>8. CASE Delivered(w)
    <3>1. ~Holding(w)'
      BY <1>0, <2>8 DEF Delivered, Holding, At, Goto, PoolType
    <3> QED BY <2>6, <2>8, <3>1 DEF Delivered
  <2> QED BY <1>8, <2>5, <2>7, <2>8 DEF GetFails, DeleteDropped
<1>9. ASSUME NEW w \in Workers, DeleteDelivered(w)
      PROVE  BalanceInv'
  <2>1. UNCHANGED <<producer, start, page, nextStart, handed>>
    BY <1>9 DEF DeleteDelivered, prodVars
  <2>2. Counted' = Counted
    BY <1>0, <1>9 DEF DeleteDelivered, Counted, TypeOK, Outcomes
  <2>3. \A v \in Workers : Holding(v)' <=> Holding(v)
    BY <1>0, <1>9 DEF DeleteDelivered, NextObject, Holding, At, PoolType
  <2>4. SummaryBalance'
    BY <1>0, <2>1, <2>2, <2>3, NothingSettled
  <2>5. HandedBelow'
    BY <1>0, <2>1 DEF HandedBelow
  <2> QED BY <2>4, <2>5 DEF BalanceInv
<1>10. ASSUME NEW o \in Objects, OtherRun(o) PROVE BalanceInv'
  <2>1. Quiet
    BY <1>10 DEF OtherRun, Quiet, prodVars, workers, account
  <2> QED BY <2>1, QuietKeeps
<1>11. CASE UNCHANGED vars
  <2>1. Quiet
    BY <1>11 DEF vars, Quiet, prodVars, workers, account
  <2> QED BY <2>1, QuietKeeps
<1> QED
  BY <1>1, <1>2, <1>3, <1>4, <1>5, <1>6, <1>7, <1>8, <1>9, <1>10, <1>11
     DEF Next, ProducerStep, WorkerStep, Replay, Environment

(* The summary a run reports accounts for every object it handed out: each is
   counted once, or still held by a worker (client.go:410-524). *)
THEOREM Balanced == Spec => []SummaryBalance
<1>1. Init => BalanceInv
  <2> SUFFICES ASSUME Init PROVE BalanceInv
    OBVIOUS
  <2>1. summary = NoSummary /\ handed = {} /\ \A w \in Workers : obj[w] = 0
    BY DEF Init
  <2> QED BY <2>1, EmptyBalance DEF BalanceInv, HandedBelow
<1>2. IInv /\ BalanceInv /\ [Next]_vars => BalanceInv'
  BY BalanceStep
<1>3. BalanceInv => SummaryBalance
  BY DEF BalanceInv
<1> QED BY <1>1, <1>2, <1>3, Invariance, PTL DEF Spec
-----------------------------------------------------------------------------
(* Why a run ends.  RunEnds rests on two facts, which hold for any pool, bucket
   and page size: while the run has not returned, its producer or a worker can
   go on, and each of their steps uses up a share of a finite amount of work
   that nothing but the next invocation renews. *)

(* What the producer and a worker wait for: a send and a receive on the channel
   for each other, wg.Wait for every worker.  A call always returns. *)
ProducerReady ==
    \/ producer = "list"
    \/ producer = "feed" /\ (page = {} \/ ctxDone)
    \/ producer = "closed" /\ \A w \in Workers : At(w, "exit")
WorkerReady(w) ==
    \/ At(w, "recv") /\ (producer = "closed" \/ (producer = "feed" /\ page # {}))
    \/ pc[w] \in Busy

(* While a run lasts, its producer or one of its workers can go on. *)
NeverStuck ==
    producer # "returned" => ProducerReady \/ \E w \in Workers : WorkerReady(w)

(* Workers do not leave before the names are finished or the run cancelled. *)
PoolServes ==
    producer \in {"list", "feed"} /\ ~ctxDone => \A w \in Workers : ~At(w, "exit")

(* The steps a worker may still make for the object it holds: two attempts, each
   with one refresh of the key and the first with a wait before the second. *)
Again(w) == (IF resent[w] THEN 0 ELSE 3) + (IF attempt[w] = 1 THEN 6 ELSE 0)
StepsLeft(w) ==
    CASE pc[w] = "get" -> 13
      [] pc[w] = "send" -> 3 + Again(w)
      [] pc[w] = "wire" -> 2 + Again(w)
      [] pc[w] = "refresh" -> IF attempt[w] = 1 THEN 10 ELSE 4
      [] pc[w] = "backoff" -> IF attempt[w] = 1 THEN 13 ELSE 7
      [] pc[w] \in {"ack", "drop"} -> 1
      [] pc[w] \in {"recv", "exit"} -> 0

(* The steps that are left for an object that no worker has yet: more while its
   page has still to be listed, and more for one that may still begin a page. *)
StepsToCome(o) ==
    CASE producer = "list" ->
           IF o > start THEN 17 ELSE IF o = start THEN 15 ELSE 0
      [] producer = "feed" ->
           IF o \in page THEN 14
           ELSE IF nextStart = 0 \/ o < nextStart THEN 0
           ELSE IF o = nextStart THEN 16 ELSE 17
      [] producer \in {"closed", "returned"} -> 0

(* The producer: the last page to list, the channel to close, the return. *)
ProducerLeft ==
    CASE producer = "list" -> 3
      [] producer = "feed" -> IF nextStart # 0 THEN 3 ELSE 2
      [] producer = "closed" -> 1
      [] producer = "returned" -> 0

(* The work of a run, one pair for each step: of an object, of the producer
   (as object 0), and the workers that have still to return. *)
HasStep(o, k) ==
    k <= StepsToCome(o) \/ \E w \in Workers : obj[w] = o /\ k <= StepsLeft(w)
ObjectWork == {t \in Objects \X (1..17) : HasStep(t[1], t[2])}
ProducerWork == {0} \X (1..ProducerLeft)
Work == ObjectWork \cup ProducerWork
Alive == {w \in Workers : ~At(w, "exit")}

RunStep == ProducerStep \/ \E w \in Workers : WorkerStep(w)

(* A step adds no work, and one of the run uses some up or ends a worker. *)
WorkShrinks ==
    /\ Work' \subseteq Work /\ Alive' \subseteq Alive
    /\ RunStep => Work' # Work \/ Alive' # Alive

(* There is never more than a finite amount of it. *)
FiniteWork == IsFiniteSet(Work) /\ IsFiniteSet(Alive)

(* A worker leaves when the channel is closed or the run cancelled, and both
   last until the run has returned. *)
LEMMA PoolServesStep == IInv /\ PoolServes /\ [Next]_vars => PoolServes'
<1> SUFFICES ASSUME IInv, PoolServes, [Next]_vars PROVE PoolServes'
  OBVIOUS
<1>0. PoolType
  BY DEF IInv, TypeOK
<1>1. CASE ProducerStep
  BY <1>1 DEF ProducerStep, ListPage, ListFails, StopFeeding, PageDone, Return,
     workers, cancel, PoolServes, At
<1>2. CASE Invoke
  <2>1. \A w \in Workers : pc'[w] = "recv"
    BY <1>2 DEF Invoke, NewPool
  <2> QED BY <2>1 DEF PoolServes, At
<1>3. CASE Persist \/ RotateKey \/ Expire \/ Crash
  BY <1>3 DEF Persist, RotateKey, Expire, Crash, prodVars, workers, cancel,
     PoolServes, At
<1>4. ASSUME NEW o \in Objects, OtherRun(o) PROVE PoolServes'
  BY <1>4 DEF OtherRun, prodVars, workers, cancel, PoolServes, At
<1>5. ASSUME NEW w \in Workers, WorkerStep(w) PROVE PoolServes'
  <2>1. producer' = producer /\ (ctxDone => ctxDone')
    BY <1>5 DEF WorkerStep, Replay, HandOut, NoMoreNames, GetObject, GetFails,
       BeginSend, CannotSend, Delivered, NoAnswer, Refused, Forbidden, Unauthorized, RefreshKey,
       RefreshFails, BackoffEnds, DeleteDelivered, DeleteDropped, ReplayFailed,
       Settle, prodVars, cancel
  <2>2. \A v \in Workers \ {w} : pc'[v] = pc[v]
    BY <1>0, <1>5 DEF WorkerStep, Replay, HandOut, NoMoreNames, GetObject, GetFails,
       BeginSend, CannotSend, Delivered, NoAnswer, Refused, Forbidden, Unauthorized, RefreshKey,
       RefreshFails, BackoffEnds, DeleteDelivered, DeleteDropped, ReplayFailed,
       Retry, Settle, Goto, NextObject, PoolType
  <2>3. pc'[w] # "exit" \/ ctxDone' \/ producer = "closed"
    BY <1>0, <1>5 DEF WorkerStep, Replay, HandOut, NoMoreNames, GetObject, GetFails,
       BeginSend, CannotSend, Delivered, NoAnswer, Refused, Forbidden, Unauthorized, RefreshKey,
       RefreshFails, BackoffEnds, DeleteDelivered, DeleteDropped, ReplayFailed,
       Retry, Settle, Goto, NextObject, PoolType, cancel
  <2> QED BY <2>1, <2>2, <2>3 DEF PoolServes, At
<1>6. CASE UNCHANGED vars
  BY <1>6 DEF vars, prodVars, workers, cancel, PoolServes, At
<1> QED BY <1>1, <1>2, <1>3, <1>4, <1>5, <1>6 DEF Next, Environment

(* A run never waits for ever on its channel or its wait group: whatever is
   handed out, cancelled or killed, its producer or one of its workers can go
   on (client.go:410-524). *)
THEOREM RunNeverStuck == Spec => []NeverStuck
<1>1. Init => PoolServes
  BY DEF Init, PoolServes
<1>2. IInv /\ PoolServes /\ [Next]_vars => PoolServes'
  BY PoolServesStep
<1>3. IInv /\ PoolServes => NeverStuck
  <2> SUFFICES ASSUME IInv, PoolServes, producer # "returned", ~ProducerReady
               PROVE  \E w \in Workers : WorkerReady(w)
    BY DEF NeverStuck
  <2>1. pc \in [Workers -> WorkerPCs]
    BY DEF IInv, TypeOK, PoolType
  <2>2. \A w \in Workers : At(w, "exit") \/ At(w, "recv") \/ pc[w] \in Busy
    BY <2>1 DEF WorkerPCs, Busy, At
  <2>3. CASE producer = "feed"
    <3>1. PICK w \in Workers : ~At(w, "exit")
      BY <2>3, ConstantsAssumption DEF ProducerReady, PoolServes, ConstantsAssumption
    <3> QED BY <2>2, <2>3, <3>1 DEF ProducerReady, WorkerReady
  <2>4. CASE producer = "closed"
    <3>1. PICK w \in Workers : ~At(w, "exit")
      BY <2>4 DEF ProducerReady
    <3> QED BY <2>2, <2>4, <3>1 DEF WorkerReady
  <2> QED BY <2>3, <2>4 DEF ProducerReady, IInv, TypeOK
<1> QED BY <1>1, <1>2, <1>3, Invariance, PTL DEF Spec

(* How the set of work gets smaller. *)
LEMMA WorkSubset ==
    ASSUME ProducerLeft \in Nat, ProducerLeft' \in Nat,
           ProducerLeft' <= ProducerLeft,
           \A o \in Objects, k \in 1..17 : HasStep(o, k)' => HasStep(o, k)
    PROVE  Work' \subseteq Work
BY DEF Work, ObjectWork, ProducerWork

LEMMA LessProducerWork ==
    ASSUME ProducerLeft \in Nat, ProducerLeft' \in Nat,
           ProducerLeft' < ProducerLeft
    PROVE  Work' # Work
<1>1. 0 \notin Objects
  BY MaxObjectsNat DEF Objects
<1>2. <<0, ProducerLeft>> \in Work
  BY DEF Work, ProducerWork
<1>3. <<0, ProducerLeft>> \notin Work'
  BY <1>1 DEF Work, ProducerWork, ObjectWork
<1> QED BY <1>2, <1>3

LEMMA LessObjectWork ==
    ASSUME NEW o \in Objects, NEW k \in 1..17, HasStep(o, k), ~HasStep(o, k)'
    PROVE  Work' # Work
<1>1. o # 0
  BY MaxObjectsNat DEF Objects
<1>2. <<o, k>> \in Work
  BY DEF Work, ObjectWork
<1>3. <<o, k>> \notin Work'
  BY <1>1 DEF Work, ProducerWork, ObjectWork
<1> QED BY <1>2, <1>3

(* The numbers of steps. *)
LEMMA StepNumbers ==
    ASSUME TypeOK
    PROVE  /\ ProducerLeft \in 0..3
           /\ \A o \in Objects : StepsToCome(o) \in 0..17
           /\ \A w \in Workers : StepsLeft(w) \in 0..13
           /\ \A w \in Workers : pc[w] \in Busy => StepsLeft(w) # 0
<1>1. ProducerLeft \in 0..3
  BY DEF TypeOK, ProducerLeft
<1>2. ASSUME NEW o \in Objects PROVE StepsToCome(o) \in 0..17
  BY DEF TypeOK, StepsToCome
<1>3. ASSUME NEW w \in Workers
      PROVE  StepsLeft(w) \in 0..13 /\ (pc[w] \in Busy => StepsLeft(w) # 0)
  <2>1. Again(w) \in 0..9
    BY DEF Again
  <2>2. pc[w] \in WorkerPCs
    BY DEF TypeOK, PoolType
  <2> HIDE DEF Again
  <2> QED BY <2>1, <2>2 DEF StepsLeft, WorkerPCs, Busy
<1> QED BY <1>1, <1>2, <1>3

LEMMA StepNumbersNext ==
    ASSUME TypeOK'
    PROVE  ProducerLeft' \in 0..3 /\ \A w \in Workers : StepsLeft(w)' \in 0..13
<1>1. ProducerLeft' \in 0..3
  BY DEF TypeOK, ProducerLeft
<1>2. ASSUME NEW w \in Workers PROVE StepsLeft(w)' \in 0..13
  <2>1. Again(w)' \in 0..9
    BY DEF Again
  <2>2. pc'[w] \in WorkerPCs
    BY DEF TypeOK, PoolType
  <2> HIDE DEF Again
  <2> QED BY <2>1, <2>2 DEF StepsLeft, WorkerPCs
<1> QED BY <1>1, <1>2

(* What a worker holds is not to be handed out again. *)
LEMMA HeldNotToCome ==
    ASSUME IInv, NEW w \in Workers, obj[w] # 0
    PROVE  StepsToCome(obj[w]) = 0
<1>1. TypeOK /\ CursorInv
  BY DEF IInv
<1>2. obj[w] \in Nat /\ start \in Nat /\ nextStart \in Nat
  BY <1>1, MaxObjectsNat DEF TypeOK, PoolType
<1>3. CASE producer = "list"
  BY <1>1, <1>2, <1>3 DEF CursorInv, StepsToCome
<1>4. CASE producer = "feed"
  <2>1. obj[w] \notin page
    <3> SUFFICES ASSUME obj[w] \in page PROVE FALSE
      OBVIOUS
    <3>1. obj[w] < obj[w]
      BY <1>1, <1>4 DEF CursorInv
    <3> QED BY <1>2, <3>1
  <2>2. nextStart = 0 \/ obj[w] < nextStart
    BY <1>1, <1>4 DEF CursorInv
  <2> QED BY <1>4, <2>1, <2>2 DEF StepsToCome
<1>5. CASE producer \in {"closed", "returned"}
  BY <1>5 DEF StepsToCome
<1> QED BY <1>1, <1>3, <1>4, <1>5 DEF TypeOK

(* A step a worker makes for the object it holds. *)
LEMMA WorkerUsesWork ==
    ASSUME IInv, TypeOK', NEW w \in Workers, pc[w] \in Busy,
           UNCHANGED <<producer, start, page, nextStart>>,
           \A v \in Workers \ {w} :
               /\ obj'[v] = obj[v] /\ pc'[v] = pc[v]
               /\ attempt'[v] = attempt[v] /\ resent'[v] = resent[v],
           \/ obj'[w] = 0
           \/ obj'[w] = obj[w] /\ StepsLeft(w)' < StepsLeft(w)
    PROVE  Work' \subseteq Work /\ Work' # Work
<1>1. TypeOK /\ WorkerInv /\ ExclusiveHolding
  BY DEF IInv
<1>2. obj[w] \in Objects /\ obj[w] # 0
  BY <1>1, Holds, MaxObjectsNat DEF Objects
<1>3. \A v \in Workers : StepsLeft(v) \in 0..13 /\ StepsLeft(v)' \in 0..13
  BY <1>1, StepNumbers, StepNumbersNext
<1>4. \A v \in Workers \ {w} : StepsLeft(v)' = StepsLeft(v)
  BY DEF StepsLeft, Again
<1>5. \A o \in Objects : StepsToCome(o)' = StepsToCome(o)
  BY DEF StepsToCome
<1>6. ProducerLeft \in Nat /\ ProducerLeft' = ProducerLeft
  <2>1. ProducerLeft' = ProducerLeft
    BY DEF ProducerLeft
  <2> QED BY <1>1, <2>1, StepNumbers
<1>7. 0 \notin Objects /\ \A o \in Objects : StepsToCome(o) \in 0..17
  BY <1>1, MaxObjectsNat, StepNumbers DEF Objects
<1>8. ASSUME NEW o \in Objects, NEW k \in 1..17, HasStep(o, k)' PROVE HasStep(o, k)
  <2>1. CASE k <= StepsToCome(o)'
    BY <1>5, <2>1 DEF HasStep
  <2>2. CASE \E v \in Workers : obj'[v] = o /\ k <= StepsLeft(v)'
    <3>1. PICK v \in Workers : obj'[v] = o /\ k <= StepsLeft(v)'
      BY <2>2
    <3>2. obj[v] = o /\ StepsLeft(v)' <= StepsLeft(v)
      BY <1>3, <1>4, <1>7, <3>1
    <3>3. k <= StepsLeft(v)
      BY <1>3, <3>1, <3>2
    <3> QED BY <3>2, <3>3 DEF HasStep
  <2> QED BY <1>8, <2>1, <2>2 DEF HasStep
<1>9. Work' \subseteq Work
  BY <1>6, <1>8, WorkSubset
<1>10. PICK o \in Objects, k \in 1..17 : o = obj[w] /\ k = StepsLeft(w)
  <2>1. StepsLeft(w) # 0
    BY <1>1, StepNumbers
  <2>2. StepsLeft(w) \in 1..17
    BY <1>3, <2>1
  <2> QED BY <1>2, <2>2
<1>11. HasStep(o, k)
  BY <1>10 DEF HasStep
<1>12. ~HasStep(o, k)'
  <2>1. ~(k <= StepsToCome(o)')
    BY <1>2, <1>5, <1>10, HeldNotToCome
  <2>2. ~(obj'[w] = o /\ k <= StepsLeft(w)')
    BY <1>2, <1>3, <1>10
  <2>3. \A v \in Workers : ~(obj'[v] = o /\ k <= StepsLeft(v)')
    BY <1>1, <1>2, <1>10, <2>2 DEF ExclusiveHolding
  <2> QED BY <2>1, <2>3 DEF HasStep
<1> QED BY <1>9, <1>11, <1>12, LessObjectWork

(* A step of the producer: the pool does not move. *)
LEMMA ProducerUsesWork ==
    ASSUME TypeOK, TypeOK', UNCHANGED workers, ProducerLeft' <= ProducerLeft,
           \A o \in Objects : StepsToCome(o)' <= StepsToCome(o),
           \/ ProducerLeft' < ProducerLeft
           \/ \E o \in Objects : /\ StepsToCome(o)' < StepsToCome(o)
                                 /\ StepsToCome(o) > 13
    PROVE  Work' \subseteq Work /\ Work' # Work /\ Alive' \subseteq Alive
<1>1. \A w \in Workers : StepsLeft(w)' = StepsLeft(w) /\ StepsLeft(w) \in 0..13
  <2>1. \A w \in Workers : StepsLeft(w)' = StepsLeft(w)
    BY DEF StepsLeft, Again, workers
  <2> QED BY <2>1, StepNumbers
<1>2. \A o \in Objects : StepsToCome(o) \in 0..17 /\ StepsToCome(o)' \in Int
  <2>1. ASSUME NEW o \in Objects PROVE StepsToCome(o)' \in Int
    BY DEF StepsToCome, TypeOK
  <2> QED BY <2>1, StepNumbers
<1>3. ProducerLeft \in Nat /\ ProducerLeft' \in Nat
  BY StepNumbers, StepNumbersNext
<1>4. ASSUME NEW o \in Objects, NEW k \in 1..17, HasStep(o, k)' PROVE HasStep(o, k)
  BY <1>1, <1>2, <1>4 DEF HasStep, workers
<1>5. Work' \subseteq Work
  BY <1>3, <1>4, WorkSubset
<1>6. Work' # Work
  <2>1. CASE ProducerLeft' < ProducerLeft
    BY <1>3, <2>1, LessProducerWork
  <2>2. CASE \E o \in Objects : /\ StepsToCome(o)' < StepsToCome(o)
                                /\ StepsToCome(o) > 13
    <3>1. PICK o \in Objects, k \in 1..17 :
             k = StepsToCome(o) /\ StepsToCome(o)' < k /\ k > 13
      BY <1>2, <2>2
    <3>2. HasStep(o, k)
      BY <3>1 DEF HasStep
    <3>3. ~HasStep(o, k)'
      <4>1. ~(k <= StepsToCome(o)')
        BY <1>2, <3>1
      <4>2. \A w \in Workers : ~(k <= StepsLeft(w)')
        BY <1>1, <3>1
      <4> QED BY <4>1, <4>2 DEF HasStep
    <3> QED BY <3>2, <3>3, LessObjectWork
  <2> QED BY <2>1, <2>2
<1>7. Alive' = Alive
  BY DEF Alive, At, workers
<1> QED BY <1>5, <1>6, <1>7

LEMMA ProducerStepUses ==
    ASSUME IInv, TypeOK', ProducerStep
    PROVE  Work' \subseteq Work /\ Work' # Work /\ Alive' \subseteq Alive
<1>0. /\ TypeOK /\ UNCHANGED workers
      /\ start \in Nat /\ nextStart \in 0..MaxObjects /\ MaxObjects \in Nat
      /\ PageSize \in Nat \ {0}
      /\ \A o \in Objects : o \in Nat /\ o # 0
  BY MaxObjectsNat, ConstantsAssumption
     DEF IInv, TypeOK, Objects, ConstantsAssumption, ProducerStep, ListPage, ListFails,
         StopFeeding, PageDone, Return
<1>1. CASE ListPage
  <2>1. PICK p \in SUBSET Listed, n \in 0..MaxObjects :
             /\ IsPage(p) /\ FollowsPage(p, n)
             /\ page' = p /\ nextStart' = n
    BY <1>1 DEF ListPage
  <2>2. producer = "list" /\ producer' = "feed"
    BY <1>1 DEF ListPage
  <2>3. \A o \in p : o >= start
    BY DEF Listed
  <2>4. n # 0 => n > start /\ n \in Objects
    <3> SUFFICES ASSUME n # 0 PROVE n > start /\ n \in Objects
      OBVIOUS
    <3>1. n \in Listed \ p /\ p # Listed
      BY <2>1 DEF FollowsPage
    <3>2. Cardinality(p) = PageSize
      BY <2>1, <3>1 DEF IsPage
    <3>3. PICK o \in p : TRUE
      BY <1>0, <3>2, FS_EmptySet
    <3>4. o < n
      BY <2>1, <3>1 DEF IsPage
    <3>5. o \in Objects /\ n \in Objects
      BY <1>0, <3>1, <3>3 DEF Listed, TypeOK
    <3> QED BY <1>0, <2>3, <3>4, <3>5
  <2>5. ASSUME NEW o \in Objects
        PROVE  /\ StepsToCome(o) = IF o > start THEN 17 ELSE IF o = start THEN 15 ELSE 0
               /\ StepsToCome(o)' = IF o \in p THEN 14
                                    ELSE IF n = 0 \/ o < n THEN 0
                                    ELSE IF o = n THEN 16 ELSE 17
    BY <2>1, <2>2 DEF StepsToCome
  <2>6. \A o \in Objects : StepsToCome(o)' <= StepsToCome(o)
    BY <1>0, <2>3, <2>4, <2>5
  <2>7. ProducerLeft = 3 /\ ProducerLeft' = IF n # 0 THEN 3 ELSE 2
    BY <2>1, <2>2 DEF ProducerLeft
  <2>8. CASE n = 0
    BY <1>0, <2>6, <2>7, <2>8, ProducerUsesWork
  <2>9. CASE n # 0
    <3>1. n \notin p
      BY <2>1, <2>9 DEF FollowsPage
    <3>2. n \in Objects /\ StepsToCome(n) = 17 /\ StepsToCome(n)' = 16
      BY <1>0, <2>4, <2>5, <2>9, <3>1
    <3>3. \E o \in Objects : StepsToCome(o)' < StepsToCome(o) /\ StepsToCome(o) > 13
      BY <3>2
    <3>4. ProducerLeft' <= ProducerLeft
      BY <2>7, <2>9
    <3> QED BY <1>0, <2>6, <3>3, <3>4, ProducerUsesWork
  <2> QED BY <2>8, <2>9
<1>2. CASE ListFails \/ StopFeeding \/ Return \/ (PageDone /\ nextStart = 0)
  <2>1. /\ producer' \in {"closed", "returned"}
        /\ producer \in {"list", "feed"} \/ (producer = "closed" /\ producer' = "returned")
    BY <1>2 DEF ListFails, StopFeeding, PageDone, Return
  <2>2. \A o \in Objects : StepsToCome(o)' = 0
    BY <2>1 DEF StepsToCome
  <2>3. \A o \in Objects : StepsToCome(o)' <= StepsToCome(o)
    BY <1>0, <2>2, StepNumbers
  <2>4. ProducerLeft' < ProducerLeft /\ ProducerLeft' <= ProducerLeft
    BY <2>1 DEF ProducerLeft
  <2> QED BY <1>0, <2>3, <2>4, ProducerUsesWork
<1>3. CASE PageDone /\ nextStart # 0
  <2>1. /\ producer = "feed" /\ producer' = "list" /\ page = {}
        /\ start' = nextStart /\ nextStart \in Objects
    BY <1>0, <1>3 DEF PageDone, Objects
  <2>2. PICK n \in Objects : n = nextStart
    BY <2>1
  <2>3. ASSUME NEW o \in Objects
        PROVE  /\ StepsToCome(o) = IF o < n THEN 0 ELSE IF o = n THEN 16 ELSE 17
               /\ StepsToCome(o)' = IF o > n THEN 17 ELSE IF o = n THEN 15 ELSE 0
    BY <1>3, <2>1, <2>2 DEF StepsToCome
  <2>4. \A o \in Objects : StepsToCome(o)' <= StepsToCome(o)
    BY <1>0, <2>3
  <2>5. StepsToCome(n)' < StepsToCome(n) /\ StepsToCome(n) > 13
    BY <1>0, <2>2, <2>3
  <2>6. ProducerLeft' <= ProducerLeft
    BY <1>3, <2>1 DEF ProducerLeft
  <2> QED BY <1>0, <2>4, <2>5, <2>6, ProducerUsesWork
<1> QED BY <1>1, <1>2, <1>3 DEF ProducerStep

(* The receive: a name leaves the page for the worker that takes it. *)
LEMMA HandOutUses ==
    ASSUME IInv, TypeOK', NEW w \in Workers, HandOut(w)
    PROVE  Work' \subseteq Work /\ Work' # Work /\ Alive' \subseteq Alive
<1>0. /\ TypeOK /\ PoolType /\ WorkerInv /\ CursorInv
      /\ \A o \in Objects : o \in Nat /\ o # 0
  BY MaxObjectsNat DEF IInv, TypeOK, Objects
<1>1. PICK o \in page :
         /\ \A q \in page : o <= q
         /\ page' = page \ {o}
         /\ pc' = [pc EXCEPT ![w] = "get"] /\ obj' = [obj EXCEPT ![w] = o]
  BY DEF HandOut
<1>2. /\ producer = "feed" /\ pc[w] = "recv" /\ obj[w] = 0 /\ o \in Objects
      /\ UNCHANGED <<producer, start, nextStart, attempt, resent>>
  BY <1>0 DEF HandOut, At, WorkerInv, TypeOK
<1>3. StepsToCome(o) = 14 /\ StepsToCome(o)' = 0
  <2>1. nextStart = 0 \/ o < nextStart
    BY <1>0, <1>2 DEF CursorInv
  <2> QED BY <1>1, <1>2, <2>1 DEF StepsToCome
<1>4. \A q \in Objects \ {o} : StepsToCome(q)' = StepsToCome(q)
  BY <1>1, <1>2 DEF StepsToCome
<1>5. StepsLeft(w)' = 13 /\ obj'[w] = o
  BY <1>0, <1>1 DEF StepsLeft, PoolType
<1>6. \A v \in Workers \ {w} : StepsLeft(v)' = StepsLeft(v) /\ obj'[v] = obj[v]
  BY <1>0, <1>1, <1>2 DEF StepsLeft, Again, PoolType
<1>7. ASSUME NEW q \in Objects, NEW k \in 1..17, HasStep(q, k)' PROVE HasStep(q, k)
  <2>1. CASE k <= StepsToCome(q)'
    BY <1>3, <1>4, <2>1 DEF HasStep
  <2>2. CASE \E v \in Workers : obj'[v] = q /\ k <= StepsLeft(v)'
    <3>1. PICK v \in Workers : obj'[v] = q /\ k <= StepsLeft(v)'
      BY <2>2
    <3>2. CASE v = w
      BY <1>3, <1>5, <3>1, <3>2 DEF HasStep
    <3>3. CASE v # w
      BY <1>6, <3>1, <3>3 DEF HasStep
    <3> QED BY <3>2, <3>3
  <2> QED BY <1>7, <2>1, <2>2 DEF HasStep
<1>8. ProducerLeft \in Nat /\ ProducerLeft' = ProducerLeft
  <2>1. ProducerLeft' = ProducerLeft
    BY <1>2 DEF ProducerLeft
  <2> QED BY <1>0, <2>1, StepNumbers
<1>9. Work' \subseteq Work
  BY <1>7, <1>8, WorkSubset
<1>10. HasStep(o, 14) /\ 14 \in 1..17
  BY <1>3 DEF HasStep
<1>11. ~HasStep(o, 14)'
  <2>1. \A v \in Workers : StepsLeft(v)' \in 0..13
    BY StepNumbersNext
  <2> QED BY <1>3, <2>1 DEF HasStep
<1>12. Work' # Work
  BY <1>2, <1>10, <1>11, LessObjectWork
<1>13. Alive' \subseteq Alive
  BY <1>0, <1>1, <1>2 DEF Alive, At, PoolType
<1> QED BY <1>9, <1>12, <1>13

(* The end of the names: the worker that leaves holds nothing. *)
LEMMA NoMoreNamesUses ==
    ASSUME IInv, TypeOK', NEW w \in Workers, NoMoreNames(w)
    PROVE  Work' \subseteq Work /\ Alive' \subseteq Alive /\ Alive' # Alive
<1>0. TypeOK /\ PoolType /\ WorkerInv
  BY DEF IInv, TypeOK
<1>1. /\ pc[w] = "recv" /\ obj[w] = 0 /\ pc' = [pc EXCEPT ![w] = "exit"]
      /\ UNCHANGED <<producer, start, page, nextStart, obj, attempt, resent>>
  BY <1>0 DEF NoMoreNames, Goto, prodVars, At, WorkerInv
<1>2. ProducerLeft' = ProducerLeft /\ \A o \in Objects : StepsToCome(o)' = StepsToCome(o)
  BY <1>1 DEF ProducerLeft, StepsToCome
<1>3. \A v \in Workers : StepsLeft(v)' = StepsLeft(v)
  BY <1>0, <1>1 DEF StepsLeft, Again, PoolType
<1>4. \A o \in Objects, k \in 1..17 : HasStep(o, k)' => HasStep(o, k)
  BY <1>1, <1>2, <1>3 DEF HasStep
<1>5. ProducerLeft \in Nat
  BY <1>0, StepNumbers
<1>6. Work' \subseteq Work
  BY <1>2, <1>4, <1>5, WorkSubset
<1>7. w \in Alive /\ w \notin Alive' /\ Alive' \subseteq Alive
  BY <1>0, <1>1 DEF Alive, At, PoolType
<1> QED BY <1>6, <1>7

(* What a failed replay leaves the worker to do. *)
LEMMA FailureUses ==
    ASSUME PoolType, NEW w \in Workers, NEW s, ReplayFailed(w, s)
    PROVE  /\ obj' = obj
           /\ \A v \in Workers \ {w} : /\ pc'[v] = pc[v] /\ attempt'[v] = attempt[v]
                                       /\ resent'[v] = resent[v]
           /\ \/ attempt[w] = 1 /\ StepsLeft(w)' <= 7
              \/ attempt[w] = 2 /\ StepsLeft(w)' <= 1
           /\ StepsLeft(w)' \in Nat
<1>1. CASE attempt[w] = 1 /\ Retry(w, s, 2)
  <2>1. /\ pc'[w] \in {"backoff", "send"} /\ attempt'[w] = 2 /\ resent'[w] = FALSE
        /\ obj' = obj
        /\ \A v \in Workers \ {w} : /\ pc'[v] = pc[v] /\ attempt'[v] = attempt[v]
                                    /\ resent'[v] = resent[v]
    BY <1>1 DEF Retry, PoolType
  <2> QED BY <1>1, <2>1 DEF StepsLeft, Again
<1>2. CASE attempt[w] = 2 /\ Settle(w, s)
  <2>1. /\ pc'[w] \in {"exit", "drop"} /\ obj' = obj
        /\ \A v \in Workers \ {w} : /\ pc'[v] = pc[v] /\ attempt'[v] = attempt[v]
                                    /\ resent'[v] = resent[v]
    BY <1>2 DEF Settle, Goto, PoolType
  <2> QED BY <1>2, <2>1 DEF StepsLeft
<1> QED BY <1>1, <1>2 DEF ReplayFailed

(* Every other step of a worker is one for the object it holds. *)
LEMMA BusyStepUses ==
    ASSUME IInv, TypeOK', NEW w \in Workers,
           \/ GetObject(w) \/ GetFails(w) \/ Replay(w)
           \/ DeleteDelivered(w) \/ DeleteDropped(w)
    PROVE  Work' \subseteq Work /\ Work' # Work /\ Alive' \subseteq Alive
<1> DEFINE Others ==
             \A v \in Workers \ {w} :
               /\ obj'[v] = obj[v] /\ pc'[v] = pc[v]
               /\ attempt'[v] = attempt[v] /\ resent'[v] = resent[v]
           Down ==
             \/ obj'[w] = 0
             \/ obj'[w] = obj[w] /\ StepsLeft(w)' < StepsLeft(w)
<1>0. /\ PoolType /\ attempt[w] \in {1, 2} /\ resent[w] \in BOOLEAN
      /\ pc[w] \in Busy
  BY DEF IInv, TypeOK, PoolType, GetObject, GetFails, Replay, BeginSend, CannotSend,
     Delivered, NoAnswer, Refused, Forbidden, Unauthorized, RefreshKey, RefreshFails, BackoffEnds,
     DeleteDelivered, DeleteDropped, At, Busy
<1>1. UNCHANGED <<producer, start, page, nextStart>>
  BY DEF GetObject, GetFails, Replay, BeginSend, CannotSend, Delivered, NoAnswer, Refused,
     Forbidden, Unauthorized, RefreshKey, RefreshFails, BackoffEnds, DeleteDelivered, DeleteDropped,
     prodVars
<1>2. ASSUME \/ GetObject(w) \/ GetFails(w) \/ Delivered(w)
             \/ DeleteDelivered(w) \/ DeleteDropped(w)
      PROVE  Others /\ Down
  <2>1. CASE NextObject(w)
    BY <1>0, <2>1 DEF NextObject, PoolType
  <2>2. CASE GetObject(w)
    <3>1. Others /\ pc[w] = "get" /\ pc'[w] = "send" /\ obj' = obj
      BY <1>0, <2>2 DEF GetObject, Goto, PoolType, At
    <3> QED BY <3>1 DEF StepsLeft, Again
  <2>3. CASE GetFails(w) /\ Goto(w, "exit")
    <3>1. Others /\ pc[w] = "get" /\ pc'[w] = "exit" /\ obj' = obj
      BY <1>0, <2>3 DEF GetFails, Goto, PoolType, At
    <3> QED BY <3>1 DEF StepsLeft
  <2>4. CASE Delivered(w)
    <3>1. Others /\ pc[w] = "wire" /\ pc'[w] = "ack" /\ obj' = obj
      BY <1>0, <2>4 DEF Delivered, Goto, PoolType, At
    <3> QED BY <3>1 DEF StepsLeft, Again
  <2> QED
    BY <1>2, <2>1, <2>2, <2>3, <2>4 DEF GetFails, DeleteDelivered, DeleteDropped
<1>3. ASSUME BeginSend(w) \/ BackoffEnds(w) \/ RefreshKey(w) PROVE Others /\ Down
  <2>1. /\ Others /\ obj' = obj /\ attempt'[w] = attempt[w]
        /\ \/ pc[w] = "send" /\ pc'[w] = "wire" /\ resent'[w] = resent[w]
           \/ pc[w] = "backoff" /\ pc'[w] \in {"send", "exit"}
           \/ pc[w] = "refresh" /\ pc'[w] = "send" /\ resent'[w] = TRUE
    BY <1>0, <1>3 DEF BeginSend, BackoffEnds, RefreshKey, Goto, PoolType, At
  <2>2. StepsLeft(w)' < StepsLeft(w)
    BY <1>0, <2>1 DEF StepsLeft, Again
  <2> QED BY <2>1, <2>2
<1>4. ASSUME Forbidden(w), Goto(w, "refresh"), ~resent[w] PROVE Others /\ Down
  <2>1. Others /\ obj' = obj /\ attempt'[w] = attempt[w] /\ pc[w] = "wire" /\ pc'[w] = "refresh"
    BY <1>0, <1>4 DEF Forbidden, Goto, PoolType, At
  <2>2. StepsLeft(w)' < StepsLeft(w)
    BY <1>0, <1>4, <2>1 DEF StepsLeft, Again
  <2> QED BY <2>1, <2>2
<1>5. ASSUME NEW s, ReplayFailed(w, s), pc[w] \in {"send", "wire", "refresh"}
      PROVE  Others /\ Down
  <2>1. attempt[w] = 1 => StepsLeft(w) >= 8
    BY <1>5 DEF StepsLeft, Again
  <2>2. attempt[w] = 2 => StepsLeft(w) >= 2
    BY <1>5 DEF StepsLeft, Again
  <2>3. StepsLeft(w) \in Int
    BY <1>0, StepNumbers DEF IInv
  <2>4. Others /\ obj' = obj
    BY <1>0, <1>5, FailureUses
  <2>5. StepsLeft(w)' < StepsLeft(w)
    BY <1>0, <1>5, <2>1, <2>2, <2>3, FailureUses
  <2> QED BY <2>4, <2>5
<1>6. Others /\ Down
  <2>1. CASE CannotSend(w) \/ NoAnswer(w) \/ Refused(w) \/ Forbidden(w)
            \/ Unauthorized(w) \/ RefreshFails(w)
    <3>1. pc[w] \in {"send", "wire", "refresh"}
      BY <2>1 DEF CannotSend, NoAnswer, Refused, Forbidden, Unauthorized, RefreshFails, At
    <3>2. \/ \E s : ReplayFailed(w, s)
          \/ Forbidden(w) /\ Goto(w, "refresh") /\ ~resent[w]
      BY <2>1 DEF CannotSend, NoAnswer, Refused, Forbidden, Unauthorized, RefreshFails
    <3> QED BY <1>4, <1>5, <3>1, <3>2
  <2> QED BY <1>2, <1>3, <2>1 DEF Replay
<1>7. Work' \subseteq Work /\ Work' # Work
  BY <1>0, <1>1, <1>6, WorkerUsesWork
<1>8. Alive' \subseteq Alive
  <2>1. ~At(w, "exit")
    BY <1>0 DEF Busy, At
  <2> QED BY <1>6, <2>1 DEF Alive, At
<1> QED BY <1>7, <1>8

(* Rotations, payloads persisted, other runs and the deadline give a run no
   more to do; a killed container leaves nothing. *)
LEMMA EnvironmentAddsNothing ==
    ASSUME IInv, TypeOK', \/ Persist \/ RotateKey \/ Expire \/ Crash \/ UNCHANGED vars
                          \/ \E o \in Objects : OtherRun(o)
    PROVE  Work' \subseteq Work /\ Alive' \subseteq Alive
<1>1. TypeOK
  BY DEF IInv
<1>2. CASE Crash
  <2>1. producer' = "returned" /\ \A w \in Workers : pc'[w] = "exit"
    BY <1>2 DEF Crash, NewPool
  <2>2. ProducerLeft' = 0 /\ \A o \in Objects : StepsToCome(o)' = 0
    BY <2>1 DEF ProducerLeft, StepsToCome
  <2>3. \A w \in Workers : StepsLeft(w)' = 0
    BY <2>1 DEF StepsLeft
  <2>4. \A o \in Objects, k \in 1..17 : ~HasStep(o, k)'
    BY <2>2, <2>3 DEF HasStep
  <2>5. Work' \subseteq Work
    BY <1>1, <2>2, <2>4, StepNumbers, WorkSubset
  <2> QED BY <2>1, <2>5 DEF Alive, At
<1>3. CASE UNCHANGED <<producer, start, page, nextStart, pc, obj, attempt, resent>>
  BY <1>3 DEF Work, ObjectWork, ProducerWork, HasStep, StepsToCome, StepsLeft, Again,
     ProducerLeft, Alive, At
<1> QED
  BY <1>2, <1>3 DEF Persist, RotateKey, Expire, OtherRun, vars, prodVars, workers

LEMMA RunUsesWork ==
    IInv /\ TypeOK' /\ [Next]_vars => [Invoke \/ WorkShrinks]_vars
<1> SUFFICES ASSUME IInv, TypeOK', Next, ~Invoke PROVE WorkShrinks
  BY DEF vars
<1>1. CASE ProducerStep
  BY <1>1, ProducerStepUses DEF WorkShrinks
<1>2. ASSUME NEW w \in Workers, WorkerStep(w) PROVE WorkShrinks
  BY <1>2, HandOutUses, NoMoreNamesUses, BusyStepUses DEF WorkerStep, WorkShrinks
<1>3. CASE ~RunStep
  BY <1>3, EnvironmentAddsNothing DEF Next, RunStep, Environment, WorkShrinks
<1> QED BY <1>1, <1>2, <1>3 DEF RunStep

LEMMA WorkIsFinite == TypeOK => FiniteWork
<1> SUFFICES ASSUME TypeOK PROVE FiniteWork
  OBVIOUS
<1> USE MaxObjectsNat
<1>1. IsFiniteSet(0..MaxObjects)
  BY FS_Interval
<1>2. \A k \in Nat : IsFiniteSet((0..MaxObjects) \X (1..k))
  <2> SUFFICES ASSUME NEW k \in Nat PROVE IsFiniteSet((0..MaxObjects) \X (1..k))
    OBVIOUS
  <2>1. IsFiniteSet(1..k)
    BY FS_Interval
  <2> QED BY <1>1, <2>1, FS_Product
<1>3. Work \subseteq (0..MaxObjects) \X (1..17)
  <2>1. ProducerLeft \in 0..3
    BY StepNumbers
  <2> QED BY <2>1 DEF Work, ObjectWork, ProducerWork, Objects
<1>4. IsFiniteSet(Work)
  <2>1. PICK k \in Nat : Work \subseteq (0..MaxObjects) \X (1..k)
    BY <1>3
  <2> QED BY <1>2, <2>1, FS_Subset
<1>5. IsFiniteSet(Alive)
  <2>1. IsFiniteSet(Workers) /\ Alive \subseteq Workers
    BY ConstantsAssumption DEF ConstantsAssumption, Alive
  <2> QED BY <2>1, FS_Subset
<1> QED BY <1>4, <1>5 DEF FiniteWork

(* A run cannot go on for ever: every step of its producer and its workers
   takes something from a finite set of work or ends a worker, and nothing but
   the next invocation adds any (the retries of replayWithRetry are counted,
   no page is listed twice, no object is handed out twice). *)
THEOREM RunUsesUpWork == Spec => []FiniteWork /\ [][Invoke \/ WorkShrinks]_vars
<1>1. IInv => FiniteWork
  BY WorkIsFinite DEF IInv
<1>2. IInv /\ IInv' /\ [Next]_vars => [Invoke \/ WorkShrinks]_vars
  <2>1. IInv' => TypeOK'
    BY DEF IInv
  <2> QED BY <2>1, RunUsesWork
<1> QED BY <1>1, <1>2, Invariance, PTL DEF Spec
=============================================================================
