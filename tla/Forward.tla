-------------------------------- MODULE Forward --------------------------------
(***************************************************************************)
(* The forward path of the events and metrics functions.  A container      *)
(* serves one invocation at a time: it takes a copy of the cached          *)
(* DatadogClient, sends the message's payloads one after the other with    *)
(* SendMessageToDatadog (one key refresh per send, one retry, a deadline   *)
(* per payload), persists what Datadog could not take, and answers success *)
(* or, at the first payload that failed, an error, after which Service     *)
(* Connector Hub may deliver the message again, to any container.          *)
(***************************************************************************)
EXTENDS Integers, FiniteSets

CONSTANTS
    Containers,   \* containers of the function
    Messages,     \* messages Service Connector Hub delivers
    Parts,        \* payloads per message (Chunk makes several, metrics one)
    Malformed,    \* payloads Datadog rejects with a 4xx
    StorageWorks, \* does Object Storage serve every call made in time?
    BadKeyStatus, \* what the intake may answer to a key it does not accept
    Faults        \* which of AllFaults may go wrong

AllFaults == {"crash", "expire", "prepare", "rotate", "vault"}
Payloads == Messages \X (1..Parts)

ASSUME ConstantsAssumption ==
    /\ Parts \in Nat \ {0}
    /\ Malformed \subseteq Payloads
    /\ StorageWorks \in BOOLEAN
    /\ BadKeyStatus \subseteq {401, 403} /\ BadKeyStatus # {}
    /\ Faults \subseteq AllFaults

VARIABLES
    accepted,  \* payloads Datadog has accepted
    bucket,    \* payloads persisted for backfill
    response,  \* the last answer given for a message
    cached,    \* the global cache: "nil", or its apiKey "none" | "old" | "good"
    key,       \* the apiKey of the invocation's own copy
    pc,        \* where the container is
    msg, part, \* the message being served, the payload being sent
    attempt,   \* of SendMessageToDatadog: 1, 2
    resent,    \* has this send refreshed the key?
    keySent,   \* the key in the header of the request on the wire, or "none"
    expired,   \* the 3-minute context of the payload is over
    requests,  \* history: requests made for this payload
    unsaved    \* history: payloads persistence was attempted for, in vain

container == <<msg, part>>
sending == <<attempt, resent, keySent, expired, requests>>
vars == <<accepted, bucket, response, cached, key, pc, container, sending,
          unsaved>>

Payload(c) == <<msg[c], part[c]>>
At(c, p) == pc[c] = p
Goto(c, p) == pc' = [pc EXCEPT ![c] = p]

PCs == {"idle", "fetch", "send", "wire", "refresh", "persist", "fail"}
Keys == {"none", "old", "good"}
(* What SendMessageToDatadog retries, and what it persists. *)
Retried == {"transport", "timeout"}
Persisted == Retried \cup {"serverError"}

Init ==
    /\ accepted = {} /\ bucket = {} /\ unsaved = {}
    /\ response = [m \in Messages |-> "none"]
    /\ cached = [c \in Containers |-> "nil"]
    /\ key = [c \in Containers |-> "none"]
    /\ pc = [c \in Containers |-> "idle"]
    /\ msg \in [Containers -> Messages]
    /\ part = [c \in Containers |-> 1]
    /\ attempt = [c \in Containers |-> 1]
    /\ resent = [c \in Containers |-> FALSE]
    /\ keySent = [c \in Containers |-> "none"]
    /\ expired = [c \in Containers |-> FALSE]
    /\ requests = [c \in Containers |-> 0]

-----------------------------------------------------------------------------
(* The invocation. *)

(* A new 3-minute context and the first attempt for payload i. *)
StartPayload(c, i) ==
    /\ part' = [part EXCEPT ![c] = i]
    /\ attempt' = [attempt EXCEPT ![c] = 1]
    /\ resent' = [resent EXCEPT ![c] = FALSE]
    /\ expired' = [expired EXCEPT ![c] = FALSE]
    /\ requests' = [requests EXCEPT ![c] = 0]
    /\ keySent' = [keySent EXCEPT ![c] = "none"]

(* The handler returns: its variables are gone. *)
End(c) ==
    /\ StartPayload(c, 1)
    /\ key' = [key EXCEPT ![c] = "none"]
    /\ Goto(c, "idle")

(* The hub delivers a message it has no success for. NewDatadogClient returns
   a copy of the cache, or creates the cache before it has a key. *)
Invoke(c, m) ==
    /\ At(c, "idle") /\ response[m] # "success"
    /\ msg' = [msg EXCEPT ![c] = m]
    /\ StartPayload(c, 1)
    /\ \/ /\ cached[c] = "nil"
          /\ cached' = [cached EXCEPT ![c] = "none"]
          /\ Goto(c, "fetch")
          /\ UNCHANGED key
       \/ /\ cached[c] # "nil"
          /\ key' = [key EXCEPT ![c] = cached[c]]
          /\ Goto(c, "send")
          /\ UNCHANGED cached
    /\ UNCHANGED <<accepted, bucket, response, unsaved>>

FetchKey(c) ==
    /\ At(c, "fetch")
    /\ cached' = [cached EXCEPT ![c] = "good"]
    /\ key' = [key EXCEPT ![c] = "good"]
    /\ Goto(c, "send")
    /\ UNCHANGED <<accepted, bucket, response, container, sending, unsaved>>

(* The first fetch fails: the handler answers an error, and the cache stays,
   with an empty key. *)
FetchFails(c) ==
    /\ "vault" \in Faults
    /\ At(c, "fetch")
    /\ Goto(c, "fail")
    /\ UNCHANGED <<accepted, bucket, response, cached, key, container,
                   sending, unsaved>>

(* Seeded faults: a payload that failed is sent again and again; its error is
   logged, and the message answered with a success; or logged, and the next
   payload sent. *)
RespondErrorRetries(c) ==
    /\ At(c, "fail")
    /\ StartPayload(c, part[c])
    /\ Goto(c, "send")
    /\ UNCHANGED <<accepted, bucket, response, cached, key, msg, unsaved>>
RespondErrorSwallowed(c) ==
    /\ At(c, "fail")
    /\ response' = [response EXCEPT ![msg[c]] = "success"]
    /\ End(c)
    /\ UNCHANGED <<accepted, bucket, cached, msg, unsaved>>

RespondErrorContinues(c) ==
    /\ At(c, "fail") /\ part[c] < Parts
    /\ StartPayload(c, part[c] + 1)
    /\ Goto(c, "send")
    /\ UNCHANGED <<accepted, bucket, response, cached, key, msg, unsaved>>

RespondError(c) ==
    /\ At(c, "fail")
    /\ response' = [response EXCEPT ![msg[c]] =
                       IF @ = "success" THEN @ ELSE "error"]
    /\ End(c)
    /\ UNCHANGED <<accepted, bucket, cached, msg, unsaved>>

-----------------------------------------------------------------------------
(* SendMessageToDatadog. *)

(* sendMessage puts the request on the wire, unless the context is over, in
   which case CallAPI fails at once. *)
Send(c) ==
    /\ At(c, "send") /\ ~expired[c]
    /\ keySent' = [keySent EXCEPT ![c] = key[c]]
    /\ requests' = [requests EXCEPT ![c] = @ + 1]
    /\ Goto(c, "wire")
    /\ UNCHANGED <<accepted, bucket, response, cached, key, container,
                   attempt, resent, expired, unsaved>>

(* Seeded fault: retried for as long as the outcome is a retryable one. *)
SendFailedForever(c, outcome) ==
    \/ /\ outcome \in Retried
       /\ attempt' = [attempt EXCEPT ![c] = IF @ > 2 THEN @ ELSE @ + 1]
       /\ resent' = [resent EXCEPT ![c] = FALSE]
       /\ keySent' = [keySent EXCEPT ![c] = "none"]
       /\ Goto(c, "send")
    \/ /\ outcome \notin Retried
       /\ keySent' = [keySent EXCEPT ![c] = "none"]
       /\ Goto(c, IF outcome \in Persisted THEN "persist" ELSE "fail")
       /\ UNCHANGED <<attempt, resent>>

(* A send has failed with this outcome: retry once, persist, or give up. *)
SendFailed(c, outcome) ==
    \/ /\ attempt[c] = 1 /\ outcome \in Retried
       /\ attempt' = [attempt EXCEPT ![c] = 2]
       /\ resent' = [resent EXCEPT ![c] = FALSE]
       /\ keySent' = [keySent EXCEPT ![c] = "none"]
       /\ Goto(c, "send")
    \/ /\ ~(attempt[c] = 1 /\ outcome \in Retried)
       /\ keySent' = [keySent EXCEPT ![c] = "none"]
       /\ Goto(c, IF outcome \in Persisted THEN "persist" ELSE "fail")
       /\ UNCHANGED <<attempt, resent>>

(* No request: the context is over (CallAPI), or PrepareRequest fails, which
   counts neither as a transport error nor as an answer. *)
CannotSend(c) ==
    /\ At(c, "send")
    /\ \/ expired[c] /\ SendFailed(c, "transport")
       \/ "prepare" \in Faults /\ SendFailed(c, "unprepared")
    /\ UNCHANGED <<accepted, bucket, response, cached, key, container,
                   expired, requests, unsaved>>

Good(c) == keySent[c] = "good" /\ Payload(c) \notin Malformed

(* 2xx: the next payload, or the handler's success. *)
Delivered(c) ==
    /\ At(c, "wire") /\ Good(c)
    /\ accepted' = accepted \cup {Payload(c)}
    /\ \/ /\ part[c] < Parts
          /\ StartPayload(c, part[c] + 1)
          /\ Goto(c, "send")
          /\ UNCHANGED <<response, key>>
       \/ /\ part[c] = Parts
          /\ response' = [response EXCEPT ![msg[c]] = "success"]
          /\ End(c)
    /\ UNCHANGED <<bucket, cached, msg, unsaved>>

(* No answer: a transport error, even if the intake took the payload. *)
NoAnswer(c) ==
    /\ At(c, "wire")
    /\ \/ UNCHANGED accepted
       \/ Good(c) /\ accepted' = accepted \cup {Payload(c)}
    /\ SendFailed(c, "transport")
    /\ UNCHANGED <<bucket, response, cached, key, container, expired,
                   requests, unsaved>>

(* 408, 5xx, 429 or another 4xx. *)
Refused(c) ==
    /\ At(c, "wire")
    /\ \/ \E s \in {"timeout", "serverError", "throttled"} : SendFailed(c, s)
       \/ /\ keySent[c] = "good" /\ Payload(c) \in Malformed
          /\ SendFailed(c, "rejected")
    /\ UNCHANGED <<accepted, bucket, response, cached, key, container,
                   expired, requests, unsaved>>

(* Seeded fault: a refresh on every 403, with no limit. *)
ForbiddenAlways(c) ==
    /\ At(c, "wire") /\ keySent[c] # "good" /\ 403 \in BadKeyStatus
    /\ Goto(c, "refresh")
    /\ UNCHANGED <<accepted, bucket, response, cached, key, container, sending,
                   unsaved>>

(* 403: refresh the key once per send. *)
Forbidden(c) ==
    /\ At(c, "wire") /\ keySent[c] # "good" /\ 403 \in BadKeyStatus
    /\ \/ /\ ~resent[c]
          /\ Goto(c, "refresh")
          /\ UNCHANGED <<attempt, resent, keySent>>
       \/ resent[c] /\ SendFailed(c, "forbidden")
    /\ UNCHANGED <<accepted, bucket, response, cached, key, container,
                   expired, requests, unsaved>>

(* 401: a failure like any other 4xx; only a 403 refreshes the key. *)
Unauthorized(c) ==
    /\ At(c, "wire") /\ keySent[c] # "good" /\ 401 \in BadKeyStatus
    /\ SendFailed(c, "unauthorized")
    /\ UNCHANGED <<accepted, bucket, response, cached, key, container,
                   expired, requests, unsaved>>

(* Seeded fault: the fetched key is assigned to a local variable. *)
RefreshKeyLost(c) ==
    /\ At(c, "refresh")
    /\ resent' = [resent EXCEPT ![c] = TRUE]
    /\ Goto(c, "send")
    /\ UNCHANGED <<accepted, bucket, response, cached, key, container, attempt,
                   keySent, expired, requests, unsaved>>

(* client.apiKey = apiKey: the copy's key, the cache keeps the old one. *)
RefreshKey(c) ==
    /\ At(c, "refresh")
    /\ key' = [key EXCEPT ![c] = "good"]
    /\ resent' = [resent EXCEPT ![c] = TRUE]
    /\ Goto(c, "send")
    /\ UNCHANGED <<accepted, bucket, response, cached, container, attempt,
                   keySent, expired, requests, unsaved>>

RefreshFails(c) ==
    /\ "vault" \in Faults \/ expired[c]
    /\ At(c, "refresh")
    /\ SendFailed(c, "forbidden")
    /\ UNCHANGED <<accepted, bucket, response, cached, key, container,
                   expired, requests, unsaved>>

(* handleRetryableErrorPayload, with the context of the failed sends. *)
Persist(c) ==
    /\ At(c, "persist")
    /\ \/ /\ ~expired[c]
          /\ bucket' = bucket \cup {Payload(c)}
          /\ UNCHANGED unsaved
       \/ /\ expired[c] \/ ~StorageWorks
          /\ unsaved' = unsaved \cup {Payload(c)}
          /\ UNCHANGED bucket
    /\ Goto(c, "fail")
    /\ UNCHANGED <<accepted, response, cached, key, container, sending>>

-----------------------------------------------------------------------------
(* The environment. *)

(* Three minutes have passed since SendMessageToDatadog was called. *)
Expire(c) ==
    /\ "expire" \in Faults
    /\ pc[c] \in {"send", "wire", "refresh", "persist"} /\ ~expired[c]
    /\ expired' = [expired EXCEPT ![c] = TRUE]
    /\ UNCHANGED <<accepted, bucket, response, cached, key, pc, container,
                   attempt, resent, keySent, requests, unsaved>>

(* Every key in use stops being the one Datadog accepts. *)
Aged(f) == [c \in Containers |-> IF f[c] = "good" THEN "old" ELSE f[c]]
RotateKey ==
    /\ "rotate" \in Faults
    /\ cached' = Aged(cached) /\ key' = Aged(key) /\ keySent' = Aged(keySent)
    /\ UNCHANGED <<accepted, bucket, response, pc, container, attempt, resent,
                   expired, requests, unsaved>>

(* The platform kills the container; the hub sees an error. *)
Crash(c) ==
    /\ "crash" \in Faults
    /\ ~At(c, "idle")
    /\ cached' = [cached EXCEPT ![c] = "nil"]
    /\ response' = [response EXCEPT ![msg[c]] =
                       IF @ = "success" THEN @ ELSE "error"]
    /\ End(c)
    /\ UNCHANGED <<accepted, bucket, msg, unsaved>>

-----------------------------------------------------------------------------
Step(c) ==
    \/ FetchKey(c) \/ FetchFails(c) \/ RespondError(c) \/ Send(c)
    \/ CannotSend(c) \/ Delivered(c) \/ NoAnswer(c) \/ Refused(c)
    \/ Forbidden(c) \/ Unauthorized(c) \/ RefreshKey(c) \/ RefreshFails(c)
    \/ Persist(c)

Next ==
    \/ RotateKey
    \/ \E c \in Containers :
          Step(c) \/ Expire(c) \/ Crash(c) \/ \E m \in Messages : Invoke(c, m)

Spec == Init /\ [][Next]_vars

(* Every call returns.  For recovery, also: the hub keeps delivering, and for
   every payload the vault and the intake answer honestly infinitely often. *)
Fairness == \A c \in Containers : WF_vars(Step(c))
FairSpec == Spec /\ Fairness
HonestAnswers(c, p) ==
    /\ SF_vars(Payload(c) = p /\ FetchKey(c))
    /\ SF_vars(Payload(c) = p /\ (Forbidden(c) \/ Unauthorized(c)))
    /\ SF_vars(Payload(c) = p /\ RefreshKey(c))
    /\ SF_vars(Payload(c) = p /\ Delivered(c))
RecoverySpec ==
    /\ FairSpec
    /\ \A c \in Containers :
          /\ \A m \in Messages : SF_vars(Invoke(c, m))
          /\ \A p \in Payloads : HonestAnswers(c, p)

-----------------------------------------------------------------------------
(* Properties. *)

(* The type invariant of the containers and of the client each one uses. *)
TypeOK ==
    /\ accepted \subseteq Payloads /\ bucket \subseteq Payloads
    /\ unsaved \subseteq Payloads
    /\ response \in [Messages -> {"none", "error", "success"}]
    /\ cached \in [Containers -> Keys \cup {"nil"}]
    /\ key \in [Containers -> Keys] /\ keySent \in [Containers -> Keys]
    /\ pc \in [Containers -> PCs]
    /\ msg \in [Containers -> Messages] /\ part \in [Containers -> 1..Parts]
    /\ attempt \in [Containers -> {1, 2}]
    /\ resent \in [Containers -> BOOLEAN]
    /\ expired \in [Containers -> BOOLEAN]
    /\ requests \in [Containers -> Nat]

(* A success answered to the hub, which then forgets the message, means that
   Datadog has accepted every payload of the message, whatever was retried,
   persisted, refreshed or redelivered on the way. *)
SuccessMeansAccepted ==
    \A m \in Messages :
        response[m] = "success" => \A i \in 1..Parts : <<m, i>> \in accepted

(* Payloads go out in order: a container works on a payload only when Datadog
   has accepted all the earlier ones of the message. *)
EarlierAccepted ==
    \A c \in Containers : ~At(c, "idle") =>
        \A i \in 1..(part[c] - 1) : <<msg[c], i>> \in accepted

(* The retry rules nest but do not multiply without bound: two attempts of
   two requests each (client.go:38-43). *)
RequestsBounded == \A c \in Containers : requests[c] <= 4

(* The strengthening that makes RequestsBounded inductive: an attempt that is
   still sending has left room for the requests it may yet make. *)
RoomForRequests ==
    \A c \in Containers :
        pc[c] \in {"fetch", "send", "wire", "refresh"} =>
            requests[c] <= 2 * (attempt[c] - 1) + (IF resent[c] THEN 1 ELSE 0)
                               + (IF pc[c] \in {"fetch", "send"} THEN 0 ELSE 1)

(* Once resent, an attempt refreshes no more. *)
RefreshOnce == \A c \in Containers : At(c, "refresh") => ~resent[c]

(* The inductive invariant. *)
IInv ==
    /\ TypeOK /\ SuccessMeansAccepted /\ EarlierAccepted
    /\ RequestsBounded /\ RoomForRequests /\ RefreshOnce

(* Every invocation ends with an answer to the hub. *)
InvocationEnds == \A c \in Containers : ~At(c, "idle") ~> At(c, "idle")

(* A container heals: with a key that was rotated under it, or the empty key
   that a failed first fetch leaves in the cache, it still delivers once the
   vault answers.  Two things keep it from healing: keys rotated again and
   again, and an intake that answers a bad key with 401 again and again, since
   only a 403 makes the code fetch the key (client.go:68-71). *)
Recovers ==
    \A m \in Messages :
        (\A i \in 1..Parts : <<m, i>> \notin Malformed)
            => \/ <>(response[m] = "success")
               \/ []<><<RotateKey>>_vars
               \/ []<><<\E c \in Containers : Unauthorized(c)>>_vars

(* SendMessageToDatadog's comment (client.go:41-43): what is left after the
   retries is persisted, when Object Storage serves its callers. *)
RetryablesSaved == StorageWorks => unsaved = {}
=============================================================================
