------------------------------- MODULE Backfill -------------------------------
(***************************************************************************)
(* A backfill run of a forwarder function: DatadogClient.Backfill drains   *)
(* one region's backfill bucket with a pool of worker goroutines fed over  *)
(* an unbuffered channel by a producer that pages through the bucket.      *)
(* Every remote call (ListObjects, GetObject, the intake request, the      *)
(* vault, DeleteObject) is a step with each outcome the code tells apart;  *)
(* the workers, the producer, the function's deadline, a killed container, *)
(* a key rotation, the forward path that keeps persisting payloads and a   *)
(* second, overlapping run interleave between those calls.                 *)
(*                                                                         *)
(* Objects are numbered in the order of their timestamped names, which is  *)
(* the order ListObjects returns them in; 0 is "no object".                *)
(***************************************************************************)
EXTENDS Integers, FiniteSets

CONSTANTS
    Workers,    \* the goroutines of the pool (backfillConcurrency of them)
    MaxObjects, \* bound: how many payloads are ever persisted
    PageSize,   \* names ListObjects returns per page
    Malformed,  \* payloads Datadog rejects with a non-retryable 4xx
    UrlValid,   \* can the intake URL be made into a request at all?
    BadKeyStatus,  \* what the intake may answer to a key it does not accept
    Faults      \* which of the environment's disturbances happen

AllFaults == {"crash", "expire", "overlap", "rotate"}
Objects == 1..MaxObjects

ASSUME ConstantsAssumption ==
    /\ MaxObjects \in Nat
    /\ PageSize \in Nat \ {0}
    /\ Malformed \subseteq Objects
    /\ UrlValid \in BOOLEAN
    /\ BadKeyStatus \subseteq {401, 403} /\ BadKeyStatus # {}
    /\ Faults \subseteq AllFaults
    /\ IsFiniteSet(Workers) /\ Workers # {}

VARIABLES
    \* the bucket, and what has become of each payload
    bucket,     \* objects stored now
    lastPut,    \* newest object ever stored
    accepted,   \* objects Datadog has accepted at least once
    gaveUp,     \* why a run decided to drop the object, or "no"
    \* the *DatadogClient the workers share
    keyFresh,   \* client.apiKey is the key Datadog accepts today
    \* the run
    producer,   \* "list", "feed", "closed" (channel) or "returned" (no run)
    start,      \* req.Start
    page,       \* names of the current page not handed out yet
    nextStart,  \* resp.NextStartWith, 0 when the page is the last
    ctxDone,    \* ctx.Err() # nil
    fatal,      \* fatalErr # nil
    listFailed, \* listErr # nil
    pc, obj,    \* each goroutine: where it is, the object it holds or 0
    attempt,    \* of replayWithRetry: 1, 2
    resent,     \* has this send refreshed the key already?
    keySent,    \* is the key of the request on the wire today's?
    summary,    \* the BackfillSummary
    \* history of the run
    present,    \* objects in the bucket when it began
    handed,     \* objects handed to a worker
    left        \* objects the run finished with but did not remove

store == <<bucket, lastPut, accepted, gaveUp>>
prodVars == <<producer, start, page, nextStart, listFailed, present>>
workers == <<pc, obj, attempt, resent, keySent>>
cancel == <<ctxDone, fatal>>
account == <<summary, handed, left>>
vars == <<store, keyFresh, prodVars, cancel, workers, account>>

(* Why a run drops an object: the payload is refused, the key is (401, 403),
   or no request can be made of it. *)
Reasons == {"rejected", "forbidden", "unprepared"}
DropReasons(o) ==
    {"forbidden"} \cup (IF o \in Malformed THEN {"rejected"} ELSE {})
                  \cup (IF UrlValid THEN {} ELSE {"unprepared"})
(* isTransportError, 408, 429 and 5xx: "transport", "unavailable" and
   "throttled"; every other failure drops the object. *)
Retryable == {"transport", "unavailable", "throttled"}

WorkerPCs == {"recv", "get", "send", "wire", "refresh", "backoff", "drop",
              "ack", "exit"}
Outcomes == {"replayed", "skipped", "dropped", "deleteFailures"}
NoSummary == [c \in Outcomes |-> 0]

At(w, p) == pc[w] = p

(* Only the program counter of w changes; nothing of it is on the wire. *)
Goto(w, p) ==
    /\ pc' = [pc EXCEPT ![w] = p]
    /\ keySent' = [keySent EXCEPT ![w] = FALSE]
    /\ UNCHANGED <<obj, attempt, resent>>

(* The next iteration of the loop over names. *)
NextObject(w) ==
    /\ pc' = [pc EXCEPT ![w] = "recv"]
    /\ obj' = [obj EXCEPT ![w] = 0]
    /\ attempt' = [attempt EXCEPT ![w] = 1]
    /\ resent' = [resent EXCEPT ![w] = FALSE]
    /\ keySent' = [keySent EXCEPT ![w] = FALSE]

(* A new pool: every goroutine is at p and holds nothing. *)
NewPool(p) ==
    /\ pc' = [w \in Workers |-> p]
    /\ obj' = [w \in Workers |-> 0]
    /\ attempt' = [w \in Workers |-> 1]
    /\ resent' = [w \in Workers |-> FALSE]
    /\ keySent' = [w \in Workers |-> FALSE]

Init ==
    /\ lastPut \in 0..MaxObjects /\ bucket = 1..lastPut
    /\ accepted = {}
    /\ gaveUp = [o \in Objects |-> "no"]
    /\ keyFresh \in BOOLEAN
    /\ producer = "returned"
    /\ start = 0 /\ page = {} /\ nextStart = 0
    /\ ctxDone = TRUE /\ fatal = FALSE /\ listFailed = FALSE
    /\ pc = [w \in Workers |-> "exit"] /\ obj = [w \in Workers |-> 0]
    /\ attempt = [w \in Workers |-> 1]
    /\ resent = [w \in Workers |-> FALSE]
    /\ keySent = [w \in Workers |-> FALSE]
    /\ summary = NoSummary
    /\ present = {} /\ handed = {} /\ left = {}

-----------------------------------------------------------------------------
(* The run and its producer. *)

(* hubmanager sends the backfill trigger.  The client is a copy of the cached
   one, so it starts with whatever key the container fetched long ago.  A run
   whose set-up fails (client.go:395-408) has done nothing: it is no step here. *)
Invoke ==
    /\ producer = "returned"
    /\ keyFresh' \in BOOLEAN
    /\ producer' = "list"
    /\ start' = 0 /\ page' = {} /\ nextStart' = 0
    /\ ctxDone' = FALSE /\ fatal' = FALSE /\ listFailed' = FALSE
    /\ NewPool("recv")
    /\ summary' = NoSummary
    /\ present' = bucket /\ handed' = {} /\ left' = {}
    /\ UNCHANGED store

(* The objects ListObjects(Start) covers, and its pages: a shortest prefix of
   at most PageSize of them; NextStartWith names the first one not returned. *)
Listed == {o \in bucket : o >= start}
IsPage(p) ==
    /\ \A o \in p, q \in Listed \ p : o < q
    /\ \/ p = Listed /\ Cardinality(p) <= PageSize
       \/ Cardinality(p) = PageSize
FollowsPage(p, n) ==
    IF p = Listed THEN n = 0
    ELSE n \in Listed \ p /\ \A q \in Listed \ p : n <= q

ListPage ==
    /\ producer = "list"
    /\ \E p \in SUBSET Listed, n \in 0..MaxObjects :
          /\ IsPage(p) /\ FollowsPage(p, n)
          /\ page' = p /\ nextStart' = n
    /\ producer' = "feed"
    /\ UNCHANGED <<store, keyFresh, start, listFailed, present, cancel,
                   workers, account>>

ListFails ==
    /\ producer = "list"
    /\ listFailed' = ~ctxDone  \* a cancellation-induced error is not reported
    /\ producer' = "closed"
    /\ UNCHANGED <<store, keyFresh, start, page, nextStart, present, cancel,
                   workers, account>>

(* names <- *obj.Name : the channel is unbuffered, so the producer and a
   waiting worker step together. *)
HandOut(w) ==
    /\ producer = "feed" /\ At(w, "recv")
    /\ \E o \in page :
          /\ \A q \in page : o <= q
          /\ page' = page \ {o}
          /\ pc' = [pc EXCEPT ![w] = "get"] /\ obj' = [obj EXCEPT ![w] = o]
          /\ handed' = handed \cup {o}
    /\ UNCHANGED <<store, keyFresh, producer, start, nextStart, listFailed,
                   present, cancel, attempt, resent, keySent, summary, left>>

(* <-ctx.Done() : break producer *)
StopFeeding ==
    /\ producer = "feed" /\ page # {} /\ ctxDone
    /\ producer' = "closed"
    /\ UNCHANGED <<store, keyFresh, start, page, nextStart, listFailed,
                   present, cancel, workers, account>>

(* Seeded faults: req.Start is never advanced; only the first page is read. *)
PageDoneSamePage ==
    /\ producer = "feed" /\ page = {}
    /\ producer' = IF nextStart = 0 THEN "closed" ELSE "list"
    /\ UNCHANGED <<store, keyFresh, start, page, nextStart, listFailed,
                   present, cancel, workers, account>>
PageDoneFirstOnly ==
    /\ producer = "feed" /\ page = {}
    /\ producer' = "closed"
    /\ UNCHANGED <<store, keyFresh, start, page, nextStart, listFailed,
                   present, cancel, workers, account>>

PageDone ==
    /\ producer = "feed" /\ page = {}
    /\ IF nextStart = 0
       THEN producer' = "closed" /\ UNCHANGED start
       ELSE producer' = "list" /\ start' = nextStart
    /\ UNCHANGED <<store, keyFresh, page, nextStart, listFailed, present,
                   cancel, workers, account>>

(* wg.Wait() has seen every worker return. *)
Return ==
    /\ producer = "closed"
    /\ \A w \in Workers : At(w, "exit")
    /\ producer' = "returned"
    /\ UNCHANGED <<store, keyFresh, start, page, nextStart, listFailed,
                   present, cancel, workers, account>>

-----------------------------------------------------------------------------
(* A worker. *)

(* range names ends once the channel is closed. *)
NoMoreNames(w) ==
    /\ producer = "closed" /\ At(w, "recv")
    /\ Goto(w, "exit")
    /\ UNCHANGED <<store, keyFresh, prodVars, cancel, account>>

GetObject(w) ==
    /\ At(w, "get") /\ obj[w] \in bucket
    /\ Goto(w, "send")
    /\ UNCHANGED <<store, keyFresh, prodVars, cancel, account>>

(* Seeded fault: a read that fails because of the cancellation is a skip too. *)
GetFailsCounted(w) ==
    /\ At(w, "get")
    /\ IF ctxDone THEN Goto(w, "exit") ELSE NextObject(w)
    /\ summary' = [summary EXCEPT !["skipped"] = @ + 1]
    /\ left' = left \cup {obj[w]}
    /\ UNCHANGED <<store, keyFresh, prodVars, cancel, handed>>

GetFails(w) ==
    /\ At(w, "get")
    /\ \/ /\ ctxDone
          /\ Goto(w, "exit")
          /\ UNCHANGED <<summary, left>>
       \/ /\ ~ctxDone
          /\ NextObject(w)
          /\ summary' = [summary EXCEPT !["skipped"] = @ + 1]
          /\ left' = left \cup {obj[w]}
    /\ UNCHANGED <<store, keyFresh, prodVars, cancel, handed>>

(* Seeded fault: a failure is not checked for the run's own cancellation. *)
SettleCancelled(w, outcome) ==
    \/ /\ outcome \in Retryable
       /\ fatal' = TRUE /\ ctxDone' = TRUE
       /\ Goto(w, "exit")
       /\ UNCHANGED gaveUp
    \/ /\ outcome \notin Retryable
       /\ gaveUp' = [gaveUp EXCEPT ![obj[w]] = outcome]
       /\ Goto(w, "drop")
       /\ UNCHANGED cancel

(* The second replaySend has failed: stop the run, or drop the object. *)
Settle(w, outcome) ==
    \/ /\ ctxDone
       /\ Goto(w, "exit")
       /\ UNCHANGED <<gaveUp, cancel>>
    \/ /\ ~ctxDone /\ outcome \in Retryable
       /\ fatal' = TRUE /\ ctxDone' = TRUE  \* markFatal
       /\ Goto(w, "exit")
       /\ UNCHANGED gaveUp
    \/ /\ ~ctxDone /\ outcome \notin Retryable
       /\ gaveUp' = [gaveUp EXCEPT ![obj[w]] = outcome]
       /\ Goto(w, "drop")
       /\ UNCHANGED cancel

(* Seeded fault: attempts are not counted. *)
RetryUncounted(w, outcome, n) ==
    /\ pc' = [pc EXCEPT ![w] =
                  IF outcome = "throttled" THEN "backoff" ELSE "send"]
    /\ resent' = [resent EXCEPT ![w] = FALSE]
    /\ keySent' = [keySent EXCEPT ![w] = FALSE]
    /\ UNCHANGED <<obj, attempt>>

(* replayWithRetry: any first failure is retried once, a 429 after a wait. *)
Retry(w, outcome, n) ==
    /\ pc' = [pc EXCEPT ![w] =
                  IF outcome = "throttled" THEN "backoff" ELSE "send"]
    /\ attempt' = [attempt EXCEPT ![w] = n]
    /\ resent' = [resent EXCEPT ![w] = FALSE]
    /\ keySent' = [keySent EXCEPT ![w] = FALSE]
    /\ UNCHANGED obj

(* Seeded fault: the retry has no limit. *)
ReplayFailedForever(w, outcome) ==
    /\ Retry(w, outcome, attempt[w] + 1)
    /\ UNCHANGED <<gaveUp, cancel>>

ReplayFailed(w, outcome) ==
    \/ /\ attempt[w] = 1
       /\ Retry(w, outcome, 2)
       /\ UNCHANGED <<gaveUp, cancel>>
    \/ /\ attempt[w] = 2
       /\ Settle(w, outcome)

(* sendMessage reads client.apiKey, which other workers overwrite without a
   lock, into the header and puts the request on the wire. *)
BeginSend(w) ==
    /\ At(w, "send") /\ UrlValid /\ ~ctxDone
    /\ pc' = [pc EXCEPT ![w] = "wire"]
    /\ keySent' = [keySent EXCEPT ![w] = keyFresh]
    /\ UNCHANGED <<store, keyFresh, prodVars, cancel, obj, attempt, resent,
                   account>>

(* PrepareRequest fails (no status, not a transport error), or CallAPI does
   because its context is over. *)
CannotSend(w) ==
    /\ At(w, "send")
    /\ \/ ~UrlValid /\ ReplayFailed(w, "unprepared")
       \/ UrlValid /\ ctxDone /\ ReplayFailed(w, "transport")
    /\ UNCHANGED <<bucket, lastPut, accepted, keyFresh, prodVars, account>>

(* The intake takes a payload sent with today's key, unless it is malformed. *)
Acceptable(w) == keySent[w] /\ obj[w] \notin Malformed

Delivered(w) ==
    /\ At(w, "wire") /\ Acceptable(w)
    /\ accepted' = accepted \cup {obj[w]}
    /\ Goto(w, "ack")
    /\ summary' = [summary EXCEPT !["replayed"] = @ + 1]
    /\ UNCHANGED <<bucket, lastPut, gaveUp, keyFresh, prodVars, cancel,
                   handed, left>>

(* Seeded fault: a request without an answer counts as delivered. *)
NoAnswerDelivered(w) ==
    /\ At(w, "wire")
    /\ Goto(w, "ack")
    /\ summary' = [summary EXCEPT !["replayed"] = @ + 1]
    /\ UNCHANGED <<store, keyFresh, prodVars, cancel, handed, left>>

(* No answer arrives, whether or not the intake took the payload. *)
NoAnswer(w) ==
    /\ At(w, "wire")
    /\ \/ UNCHANGED accepted
       \/ Acceptable(w) /\ accepted' = accepted \cup {obj[w]}
    /\ ReplayFailed(w, "transport")
    /\ UNCHANGED <<bucket, lastPut, keyFresh, prodVars, account>>

(* 408, 5xx, 429; or 4xx for a malformed payload sent with a good key. *)
Refused(w) ==
    /\ At(w, "wire")
    /\ \/ \E s \in {"unavailable", "throttled"} : ReplayFailed(w, s)
       \/ /\ keySent[w] /\ obj[w] \in Malformed
          /\ ReplayFailed(w, "rejected")
    /\ UNCHANGED <<bucket, lastPut, accepted, keyFresh, prodVars, account>>

(* 403: the key is no longer good.  send refreshes it once. *)
Forbidden(w) ==
    /\ At(w, "wire") /\ ~keySent[w] /\ 403 \in BadKeyStatus
    /\ \/ /\ ~resent[w]
          /\ Goto(w, "refresh")
          /\ UNCHANGED <<gaveUp, cancel>>
       \/ /\ resent[w]
          /\ ReplayFailed(w, "forbidden")
    /\ UNCHANGED <<bucket, lastPut, accepted, keyFresh, prodVars, account>>

(* 401: the key is refused all the same, but only a 403 refreshes it. *)
Unauthorized(w) ==
    /\ At(w, "wire") /\ ~keySent[w] /\ 401 \in BadKeyStatus
    /\ ReplayFailed(w, "forbidden")
    /\ UNCHANGED <<bucket, lastPut, accepted, keyFresh, prodVars, account>>

RefreshKey(w) ==
    /\ At(w, "refresh")
    /\ keyFresh' = TRUE
    /\ pc' = [pc EXCEPT ![w] = "send"]
    /\ resent' = [resent EXCEPT ![w] = TRUE]
    /\ UNCHANGED <<store, prodVars, cancel, obj, attempt, keySent, account>>

(* send returns the 403 with the vault's error. *)
RefreshFails(w) ==
    /\ At(w, "refresh")
    /\ ReplayFailed(w, "forbidden")
    /\ UNCHANGED <<bucket, lastPut, accepted, keyFresh, prodVars, account>>

(* The throttleBackoff timer, or <-ctx.Done(). *)
BackoffEnds(w) ==
    /\ At(w, "backoff")
    /\ \/ Goto(w, "send")
       \/ ctxDone /\ Goto(w, "exit")
    /\ UNCHANGED <<store, keyFresh, prodVars, cancel, account>>

(* DeleteObject removes the object or not, and answers or not: only a
   success answered is a success. *)
DeleteCall(w, ok) ==
    \/ /\ obj[w] \in bucket
       /\ bucket' = bucket \ {obj[w]}
       /\ UNCHANGED left
    \/ /\ ~ok
       /\ left' = left \cup {obj[w]}
       /\ UNCHANGED bucket

DeleteDelivered(w) ==
    /\ At(w, "ack")
    /\ \E ok \in BOOLEAN :
          /\ DeleteCall(w, ok)
          /\ summary' = IF ok THEN summary
                        ELSE [summary EXCEPT !["deleteFailures"] = @ + 1]
    /\ NextObject(w)
    /\ UNCHANGED <<lastPut, accepted, gaveUp, keyFresh, prodVars, cancel,
                   handed>>

DeleteDropped(w) ==
    /\ At(w, "drop")
    /\ \E ok \in BOOLEAN : DeleteCall(w, ok)
    /\ summary' = [summary EXCEPT !["dropped"] = @ + 1]
    /\ NextObject(w)
    /\ UNCHANGED <<lastPut, accepted, gaveUp, keyFresh, prodVars, cancel,
                   handed>>

-----------------------------------------------------------------------------
(* The environment. *)

(* The forward path persists a payload: handleRetryableErrorPayload. *)
Persist ==
    /\ lastPut < MaxObjects
    /\ lastPut' = lastPut + 1
    /\ bucket' = bucket \cup {lastPut'}
    /\ UNCHANGED <<accepted, gaveUp, keyFresh, prodVars, cancel, workers,
                   account>>

(* A second run on the same bucket delivers an object or drops it, for any of
   the reasons a run has, and deletes it. *)
OtherRun(o) ==
    /\ "overlap" \in Faults
    /\ o \in bucket
    /\ bucket' = bucket \ {o}
    /\ \/ accepted' = accepted \cup {o} /\ UNCHANGED gaveUp
       \/ /\ \E why \in DropReasons(o) : gaveUp' = [gaveUp EXCEPT ![o] = why]
          /\ UNCHANGED accepted
    /\ UNCHANGED <<lastPut, keyFresh, prodVars, cancel, workers, account>>

(* manage_api_key: the old key stops being accepted, also on the wire. *)
RotateKey ==
    /\ "rotate" \in Faults
    /\ keyFresh' = FALSE
    /\ keySent' = [w \in Workers |-> FALSE]
    /\ UNCHANGED <<store, prodVars, cancel, pc, obj, attempt, resent, account>>

(* The invocation's deadline passes. *)
Expire ==
    /\ "expire" \in Faults
    /\ producer # "returned" /\ ~ctxDone
    /\ ctxDone' = TRUE
    /\ UNCHANGED <<store, keyFresh, prodVars, fatal, workers, account>>

(* The platform kills the container: only the bucket survives. *)
Crash ==
    /\ "crash" \in Faults
    /\ producer # "returned"
    /\ producer' = "returned" /\ ctxDone' = TRUE
    /\ NewPool("exit")
    /\ summary' = NoSummary /\ handed' = {} /\ left' = {}
    /\ page' = {}
    /\ UNCHANGED <<store, keyFresh, start, nextStart, listFailed, present,
                   fatal>>

-----------------------------------------------------------------------------
ProducerStep == ListPage \/ ListFails \/ StopFeeding \/ PageDone \/ Return

Replay(w) ==
    \/ BeginSend(w) \/ CannotSend(w) \/ Delivered(w) \/ NoAnswer(w)
    \/ Refused(w) \/ Forbidden(w) \/ Unauthorized(w)
    \/ RefreshKey(w) \/ RefreshFails(w) \/ BackoffEnds(w)

WorkerStep(w) ==
    \/ HandOut(w) \/ NoMoreNames(w) \/ GetObject(w) \/ GetFails(w)
    \/ Replay(w) \/ DeleteDelivered(w) \/ DeleteDropped(w)

Environment ==
    \/ Invoke \/ Persist \/ RotateKey \/ Expire \/ Crash
    \/ \E o \in Objects : OtherRun(o)

Next == ProducerStep \/ Environment \/ \E w \in Workers : WorkerStep(w)

Spec == Init /\ [][Next]_vars

(* Every call returns, bounded in time by the client, the SDK or the context; as
   long as some goroutine of the run can go on, Go lets one. *)
Fairness == WF_vars(ProducerStep \/ \E w \in Workers : WorkerStep(w))
FairSpec == Spec /\ Fairness

-----------------------------------------------------------------------------
(* Properties. *)

PoolType ==
    /\ pc \in [Workers -> WorkerPCs]
    /\ obj \in [Workers -> 0..MaxObjects]
    /\ attempt \in [Workers -> {1, 2}]
    /\ resent \in [Workers -> BOOLEAN] /\ keySent \in [Workers -> BOOLEAN]

(* The type invariant of the run's state: the pool's goroutines, the pages,
   the summary and the bucket (client.go:410-524). *)
TypeOK ==
    /\ bucket \subseteq Objects /\ lastPut \in 0..MaxObjects
    /\ accepted \subseteq Objects
    /\ gaveUp \in [Objects -> Reasons \cup {"no"}]
    /\ keyFresh \in BOOLEAN
    /\ producer \in {"list", "feed", "closed", "returned"}
    /\ start \in 0..MaxObjects /\ page \subseteq Objects
    /\ nextStart \in 0..MaxObjects
    /\ ctxDone \in BOOLEAN /\ fatal \in BOOLEAN /\ listFailed \in BOOLEAN
    /\ PoolType
    /\ summary \in [Outcomes -> Nat]
    /\ present \subseteq Objects /\ handed \subseteq Objects
    /\ left \subseteq Objects

(* No payload is lost without a decision: an object that was persisted and is
   gone from the bucket was accepted by Datadog, or a run decided to drop it
   after two failures that a retry cannot cure.  Cancellation, a killed
   container, a lost answer or a second run never remove anything else. *)
NoLoss ==
    \A o \in 1..lastPut : o \in bucket \/ o \in accepted \/ gaveUp[o] # "no"

Busy == {"get", "send", "wire", "refresh", "backoff", "drop", "ack"}
Holding(w) == obj[w] # 0 /\ ~At(w, "ack")

(* One run hands every object to one worker only: pages do not overlap
   although workers delete objects, and the forward path adds some, between
   the calls that list them.  Two holders would deliver it twice. *)
ExclusiveHolding ==
    \A v, w \in Workers : v # w /\ obj[v] # 0 => obj[v] # obj[w]

(* The summary is an account of the run: every object handed to a worker is
   counted once as replayed, skipped or dropped, or is still in the hands of
   the workers, which may have returned because the run was cancelled. *)
SummaryBalance ==
    summary.replayed + summary.skipped + summary.dropped
        + Cardinality({w \in Workers : Holding(w)}) = Cardinality(handed)

(* Once the run is cancelled, by the deadline or by one worker's fatal failure,
   an object whose replay is not settled by then stays in the bucket for the
   next run, and the failure that the cancellation itself causes (of a send, or
   of the vault's answer to a 403) is never taken for a payload to be dropped
   (when no other run removes it). *)
AbandonedRetained ==
    [][ctxDone /\ "overlap" \notin Faults =>
        \A w \in Workers : obj[w] # 0 /\ pc[w] \notin {"ack", "drop"} =>
            /\ obj[w] \in bucket => obj[w] \in bucket'
            /\ gaveUp'[obj[w]] = gaveUp[obj[w]]]_vars

(* A run that returns no error and was never cancelled has dealt with every
   object that was in the bucket when it began: the ones still there were
   skipped because they could not be read, or could not be deleted. *)
DrainComplete ==
    producer = "returned" /\ ~ctxDone /\ ~listFailed =>
        present \cap bucket \subseteq left

(* A worker only works on an object that is stored, whoever lists and deletes
   meanwhile: no page is stale, nothing is sent again once it has been deleted
   (when no other run removes it). *)
SendsStoredObjects ==
    "overlap" \notin Faults =>
        \A w \in Workers : pc[w] \in Busy => obj[w] \in bucket

(* A run ends, with nobody waiting on the unbuffered channel for ever: neither
   the producer for workers that have returned, nor the workers for names. *)
RunEnds == producer # "returned" ~> producer = "returned"

(* The comment on the drop (client.go:460): an object is dropped because the
   payload itself was refused, not because of the sender's own key. *)
DropsOnlyRejected == \A o \in Objects : gaveUp[o] \in {"no", "rejected"}

-----------------------------------------------------------------------------
(* The promise the run keeps. *)
Promise == INSTANCE PayloadStore WITH
    Payload <- Objects,
    kept <- bucket,
    delivered <- accepted,
    dropped <- {o \in Objects : gaveUp[o] # "no"},
    known <- 1..lastPut

(* Every behaviour of the runs is one of the at-least-once store: no payload
   leaves the bucket before it is delivered or given up. *)
KeepsPromise == Promise!Spec

-----------------------------------------------------------------------------
(* The inductive invariant behind the safety properties. *)

(* What a worker holds, and what its program counter says of it. *)
WorkerInv ==
    \A w \in Workers :
        /\ obj[w] \in 0..lastPut
        /\ pc[w] \in Busy => obj[w] # 0
        /\ At(w, "recv") => obj[w] = 0
        /\ At(w, "ack") => obj[w] \in accepted
        /\ At(w, "drop") => gaveUp[obj[w]] # "no"
        /\ At(w, "exit") /\ obj[w] # 0 => ctxDone
StoreInv ==
    /\ bucket \subseteq 1..lastPut /\ page \subseteq 1..lastPut
    /\ present \subseteq 1..lastPut

(* The names handed out are below everything that can still be handed out. *)
CursorInv ==
    /\ producer = "list" => \A w \in Workers : obj[w] # 0 => obj[w] < start
    /\ producer = "feed" =>
          /\ \A o \in page : \A w \in Workers : obj[w] < o
          /\ nextStart # 0 =>
                /\ \A o \in page : o < nextStart
                /\ \A w \in Workers : obj[w] < nextStart

(* Until a cancellation, an object that was there when the run began is
   settled, in a worker's hands, or still to come. *)
ToCome(o) ==
    \/ producer = "list" /\ o >= start
    \/ producer = "feed" /\ (o \in page \/ (nextStart # 0 /\ o >= nextStart))
DrainInv ==
    /\ producer = "returned" => \A w \in Workers : At(w, "exit")
    /\ ~ctxDone /\ ~listFailed =>
         \A o \in present \cap bucket :
             o \in left \/ ToCome(o) \/ \E w \in Workers : obj[w] = o

(* With no other run, what is handed out or worked on stays in the bucket. *)
HeldInv ==
    "overlap" \notin Faults =>
        /\ producer = "feed" => page \subseteq bucket
        /\ \A w \in Workers :
              pc[w] \in Busy \/ (At(w, "exit") /\ obj[w] # 0)
                => obj[w] \in bucket

IInv ==
    /\ TypeOK /\ StoreInv /\ WorkerInv /\ CursorInv /\ ExclusiveHolding
    /\ NoLoss /\ DrainInv /\ HeldInv
=============================================================================
