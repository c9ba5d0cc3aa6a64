----------------------------- MODULE ForwardProofs -----------------------------
(***************************************************************************)
(* Proofs about Forward, for any containers, messages, payloads and        *)
(* faults: the inductive invariant IInv and the properties it implies.     *)
(***************************************************************************)
EXTENDS Forward, TLAPS

(* The assumption the arithmetic of the proofs needs. *)
LEMMA PartsPositive == Parts \in Nat /\ Parts >= 1
BY ConstantsAssumption DEF ConstantsAssumption

(* Where a container goes keeps its program counter well typed. *)
LEMMA GotoPC ==
    ASSUME pc \in [Containers -> PCs], NEW c \in Containers, NEW p \in PCs,
           Goto(c, p)
    PROVE  pc' \in [Containers -> PCs]
BY DEF Goto

(* A failed send leaves the container, and only it, in one of three places. *)
LEMMA SendFailedType ==
    ASSUME TypeOK, NEW c \in Containers, NEW o, SendFailed(c, o)
    PROVE  /\ attempt' \in [Containers -> {1, 2}]
           /\ resent' \in [Containers -> BOOLEAN]
           /\ keySent' \in [Containers -> Keys]
           /\ pc' \in [Containers -> PCs]
<1>1. CASE attempt[c] = 1 /\ o \in Retried
  <2>1. /\ attempt' = [attempt EXCEPT ![c] = 2]
        /\ resent' = [resent EXCEPT ![c] = FALSE]
        /\ keySent' = [keySent EXCEPT ![c] = "none"]
        /\ Goto(c, "send")
    BY <1>1 DEF SendFailed
  <2>2. pc' \in [Containers -> PCs]
    BY <2>1, GotoPC DEF TypeOK, PCs
  <2> QED BY <2>1, <2>2 DEF TypeOK, Keys
<1>2. CASE ~(attempt[c] = 1 /\ o \in Retried)
  <2>1. /\ keySent' = [keySent EXCEPT ![c] = "none"]
        /\ UNCHANGED <<attempt, resent>>
        /\ Goto(c, "persist") \/ Goto(c, "fail")
    BY <1>2 DEF SendFailed
  <2>2. pc' \in [Containers -> PCs]
    BY <2>1, GotoPC DEF TypeOK, PCs
  <2> QED BY <2>1, <2>2 DEF TypeOK, Keys
<1> QED BY <1>1, <1>2

(* A new payload keeps the variables of the send well typed. *)
LEMMA StartPayloadType ==
    ASSUME TypeOK, NEW c \in Containers, NEW i \in 1..Parts, StartPayload(c, i)
    PROVE  /\ part' \in [Containers -> 1..Parts]
           /\ attempt' \in [Containers -> {1, 2}]
           /\ resent' \in [Containers -> BOOLEAN]
           /\ expired' \in [Containers -> BOOLEAN]
           /\ requests' \in [Containers -> Nat]
           /\ keySent' \in [Containers -> Keys]
BY PartsPositive DEF TypeOK, StartPayload, Keys

(* So does the end of an invocation. *)
LEMMA EndType ==
    ASSUME TypeOK, NEW c \in Containers, End(c)
    PROVE  /\ part' \in [Containers -> 1..Parts]
           /\ attempt' \in [Containers -> {1, 2}]
           /\ resent' \in [Containers -> BOOLEAN]
           /\ expired' \in [Containers -> BOOLEAN]
           /\ requests' \in [Containers -> Nat]
           /\ keySent' \in [Containers -> Keys]
           /\ key' \in [Containers -> Keys]
           /\ pc' \in [Containers -> PCs]
<1>1. 1 \in 1..Parts /\ StartPayload(c, 1)
  BY PartsPositive DEF End
<1>2. pc' \in [Containers -> PCs] /\ key' \in [Containers -> Keys]
  BY DEF TypeOK, End, Goto, PCs, Keys
<1> QED BY <1>1, <1>2, StartPayloadType

(* The payload of a container is one of the payloads. *)
LEMMA PayloadType ==
    ASSUME TypeOK, NEW c \in Containers
    PROVE  Payload(c) \in Payloads
BY DEF TypeOK, Payload, Payloads

(* Every step keeps the state well typed. *)
LEMMA TypeStep == TypeOK /\ [Next]_vars => TypeOK'
<1> SUFFICES ASSUME TypeOK, [Next]_vars PROVE TypeOK'
  OBVIOUS
<1>1. CASE UNCHANGED vars
  BY <1>1 DEF TypeOK, vars, container, sending
<1>2. CASE RotateKey
  BY <1>2 DEF TypeOK, RotateKey, Aged, Keys, container
<1>3. ASSUME NEW c \in Containers, NEW m \in Messages, Invoke(c, m)
      PROVE  TypeOK'
  <2>1. 1 \in 1..Parts /\ StartPayload(c, 1)
    BY <1>3, PartsPositive DEF Invoke
  <2>2. pc' \in [Containers -> PCs]
    BY <1>3 DEF TypeOK, Invoke, Goto, PCs
  <2>3. /\ key' \in [Containers -> Keys]
        /\ cached' \in [Containers -> Keys \cup {"nil"}]
        /\ msg' \in [Containers -> Messages]
    BY <1>3 DEF TypeOK, Invoke, Keys
  <2> QED BY <1>3, <2>1, <2>2, <2>3, StartPayloadType DEF TypeOK, Invoke
<1>4. ASSUME NEW c \in Containers, FetchKey(c) \/ FetchFails(c) \/ Send(c)
      PROVE  TypeOK'
  BY <1>4 DEF TypeOK, FetchKey, FetchFails, Send, Goto, PCs, Keys, container,
       sending
<1>5. ASSUME NEW c \in Containers, RespondError(c) \/ Crash(c)
      PROVE  TypeOK'
  <2>1. End(c)
    BY <1>5 DEF RespondError, Crash
  <2>2. /\ response' \in [Messages -> {"none", "error", "success"}]
        /\ cached' \in [Containers -> Keys \cup {"nil"}]
    BY <1>5 DEF TypeOK, RespondError, Crash
  <2> QED BY <1>5, <2>1, <2>2, EndType DEF TypeOK, RespondError, Crash
<1>6. ASSUME NEW c \in Containers, Delivered(c)
      PROVE  TypeOK'
  <2>1. accepted' \subseteq Payloads
    BY <1>6, PayloadType DEF TypeOK, Delivered
  <2>2. CASE part[c] < Parts
    <3>1. part[c] + 1 \in 1..Parts /\ StartPayload(c, part[c] + 1)
      BY <1>6, <2>2, PartsPositive DEF Delivered, TypeOK
    <3>2. pc' \in [Containers -> PCs]
      BY <1>6, <2>2, PartsPositive DEF Delivered, TypeOK, Goto, PCs
    <3>3. UNCHANGED <<response, key>>
      BY <1>6, <2>2, PartsPositive DEF Delivered, TypeOK
    <3> QED BY <1>6, <2>1, <3>1, <3>2, <3>3, StartPayloadType
            DEF TypeOK, Delivered
  <2>3. CASE part[c] = Parts
    <3>1. End(c) /\ response' = [response EXCEPT ![msg[c]] = "success"]
      BY <1>6, <2>3, PartsPositive DEF Delivered
    <3>2. response' \in [Messages -> {"none", "error", "success"}]
      BY <3>1 DEF TypeOK
    <3> QED BY <1>6, <2>1, <3>1, <3>2, EndType DEF TypeOK, Delivered
  <2> QED BY <1>6, <2>2, <2>3 DEF Delivered
<1>7. ASSUME NEW c \in Containers,
             CannotSend(c) \/ NoAnswer(c) \/ Refused(c) \/ Unauthorized(c)
      PROVE  TypeOK'
  <2>1. \E o : SendFailed(c, o)
    BY <1>7 DEF CannotSend, NoAnswer, Refused, Unauthorized
  <2>2. accepted' \subseteq Payloads
    BY <1>7, PayloadType DEF TypeOK, CannotSend, NoAnswer, Refused, Unauthorized
  <2> QED BY <1>7, <2>1, <2>2, SendFailedType
          DEF TypeOK, CannotSend, NoAnswer, Refused, Unauthorized, container
<1>8. ASSUME NEW c \in Containers, Forbidden(c) \/ RefreshFails(c)
      PROVE  TypeOK'
  <2>1. \/ Goto(c, "refresh") /\ UNCHANGED <<attempt, resent, keySent>>
        \/ \E o : SendFailed(c, o)
    BY <1>8 DEF Forbidden, Unauthorized, RefreshFails
  <2>2. "refresh" \in PCs
    BY DEF PCs
  <2>3. pc \in [Containers -> PCs]
    BY DEF TypeOK
  <2> QED BY <1>8, <2>1, <2>2, <2>3, SendFailedType, GotoPC
          DEF TypeOK, Forbidden, Unauthorized, RefreshFails, container
<1>9. ASSUME NEW c \in Containers, RefreshKey(c) \/ Expire(c)
      PROVE  TypeOK'
  <2>1. resent' \in [Containers -> BOOLEAN]
    BY <1>9 DEF TypeOK, RefreshKey, Expire
  <2>2. expired' \in [Containers -> BOOLEAN]
    BY <1>9 DEF TypeOK, RefreshKey, Expire
  <2> QED BY <1>9, <2>1, <2>2
          DEF TypeOK, RefreshKey, Expire, Goto, PCs, Keys, container
<1>10. ASSUME NEW c \in Containers, Persist(c)
       PROVE  TypeOK'
  BY <1>10, PayloadType DEF TypeOK, Persist, Goto, PCs, container, sending
<1>11. ASSUME NEW c \in Containers, Step(c)
       PROVE  TypeOK'
  BY <1>11, <1>4, <1>5, <1>6, <1>7, <1>8, <1>9, <1>10 DEF Step
<1> QED BY <1>1, <1>2, <1>3, <1>5, <1>9, <1>11 DEF Next

(* Datadog takes nothing back. *)
LEMMA AcceptedGrows == [Next]_vars => accepted \subseteq accepted'
BY DEF Next, Step, Invoke, FetchKey, FetchFails, RespondError, Send,
       CannotSend, Delivered, NoAnswer, Refused, Forbidden, Unauthorized, RefreshKey,
       RefreshFails, Persist, Expire, RotateKey, Crash, vars

(* A message becomes a success in one way: the delivery of its last payload. *)
LEMMA NewSuccess ==
    ASSUME TypeOK, [Next]_vars, NEW m \in Messages, response'[m] = "success"
    PROVE  \/ response[m] = "success"
           \/ \E c \in Containers :
                 Delivered(c) /\ msg[c] = m /\ part[c] = Parts
<1>1. CASE UNCHANGED vars \/ RotateKey
  BY <1>1 DEF vars, RotateKey
<1>2. ASSUME NEW c \in Containers, RespondError(c) \/ Crash(c)
      PROVE  response[m] = "success"
  BY <1>2 DEF TypeOK, RespondError, Crash
<1>3. ASSUME NEW c \in Containers, Delivered(c), response[m] # "success"
      PROVE  msg[c] = m /\ part[c] = Parts
  BY <1>3 DEF TypeOK, Delivered
<1>4. ASSUME NEW c \in Containers, NEW n \in Messages, Invoke(c, n) \/ Expire(c)
      PROVE  response[m] = "success"
  BY <1>4 DEF Invoke, Expire
<1>5. ASSUME NEW c \in Containers, Step(c), ~RespondError(c), ~Delivered(c)
      PROVE  response[m] = "success"
  BY <1>5 DEF Step, FetchKey, FetchFails, Send, CannotSend, NoAnswer, Refused,
       Forbidden, Unauthorized, RefreshKey, RefreshFails, Persist
<1> QED BY <1>1, <1>2, <1>3, <1>4, <1>5 DEF Next

(* A success is answered once all the payloads are accepted. *)
LEMMA SuccessStep ==
    TypeOK /\ TypeOK' /\ SuccessMeansAccepted /\ EarlierAccepted
        /\ [Next]_vars => SuccessMeansAccepted'
<1> SUFFICES ASSUME TypeOK, TypeOK', SuccessMeansAccepted, EarlierAccepted,
                    [Next]_vars,
                    NEW m \in Messages, response'[m] = "success",
                    NEW i \in 1..Parts
             PROVE  <<m, i>> \in accepted'
  BY DEF SuccessMeansAccepted
<1>1. CASE response[m] = "success"
  BY <1>1, AcceptedGrows DEF SuccessMeansAccepted
<1>2. ASSUME NEW c \in Containers, Delivered(c), msg[c] = m, part[c] = Parts
      PROVE  <<m, i>> \in accepted'
  <2>1. CASE i = Parts
    BY <1>2, <2>1 DEF Delivered, Payload
  <2>2. CASE i # Parts
    <3>1. i \in 1..(part[c] - 1)
      BY <1>2, <2>2, PartsPositive
    <3>2. ~At(c, "idle")
      BY <1>2 DEF Delivered, At
    <3> QED BY <1>2, <3>1, <3>2, AcceptedGrows DEF EarlierAccepted
  <2> QED BY <2>1, <2>2
<1> QED BY <1>1, <1>2, NewSuccess

(* A container starts a payload when the one before it has been accepted. *)
LEMMA EarlierStep ==
    TypeOK /\ EarlierAccepted /\ [Next]_vars => EarlierAccepted'
<1> SUFFICES ASSUME TypeOK, EarlierAccepted, [Next]_vars,
                    NEW d \in Containers, pc'[d] # "idle",
                    NEW i \in 1..(part'[d] - 1)
             PROVE  <<msg'[d], i>> \in accepted'
  BY DEF EarlierAccepted, At
<1>1. ASSUME pc[d] # "idle", UNCHANGED container
      PROVE  <<msg'[d], i>> \in accepted'
  BY <1>1, AcceptedGrows DEF EarlierAccepted, At, container
<1>2. CASE UNCHANGED vars \/ RotateKey
  BY <1>1, <1>2 DEF vars, RotateKey
<1>3. ASSUME NEW c \in Containers, NEW m \in Messages, Invoke(c, m)
      PROVE  <<msg'[d], i>> \in accepted'
  <2>1. CASE d = c
    BY <1>3, <2>1 DEF TypeOK, Invoke, StartPayload
  <2>2. CASE d # c
    <3>1. msg'[d] = msg[d] /\ part'[d] = part[d] /\ pc'[d] = pc[d]
      BY <1>3, <2>2 DEF TypeOK, Invoke, StartPayload, Goto
    <3> QED BY <3>1, AcceptedGrows DEF EarlierAccepted, At
  <2> QED BY <2>1, <2>2
<1>4. ASSUME NEW c \in Containers, End(c), UNCHANGED msg
      PROVE  <<msg'[d], i>> \in accepted'
  <2>1. d # c /\ part'[d] = part[d] /\ pc'[d] = pc[d]
    BY <1>4 DEF TypeOK, End, StartPayload, Goto
  <2> QED BY <1>4, <2>1, AcceptedGrows DEF EarlierAccepted, At
<1>5. ASSUME NEW c \in Containers, Delivered(c)
      PROVE  <<msg'[d], i>> \in accepted'
  <2>1. CASE part[c] = Parts
    BY <1>4, <1>5, <2>1, PartsPositive DEF Delivered
  <2>2. CASE part[c] < Parts
    <3>1. StartPayload(c, part[c] + 1) /\ UNCHANGED msg /\ Goto(c, "send")
      BY <1>5, <2>2, PartsPositive DEF Delivered
    <3>2. CASE d = c
      <4>1. part[c] \in Nat /\ part'[d] = part[c] + 1 /\ msg'[d] = msg[c]
        BY <3>1, <3>2, PartsPositive DEF TypeOK, StartPayload
      <4>2. i \in 1..(part[c] - 1) \/ i = part[c]
        BY <4>1
      <4>3. <<msg[c], part[c]>> \in accepted'
        BY <1>5 DEF Delivered, Payload
      <4>4. ~At(c, "idle")
        BY <1>5 DEF Delivered, At
      <4> QED BY <4>1, <4>2, <4>3, <4>4, AcceptedGrows DEF EarlierAccepted
    <3>3. CASE d # c
      <4>1. part'[d] = part[d] /\ pc'[d] = pc[d] /\ msg'[d] = msg[d]
        BY <3>1, <3>3 DEF TypeOK, StartPayload, Goto
      <4> QED BY <4>1, AcceptedGrows DEF EarlierAccepted, At
    <3> QED BY <3>2, <3>3
  <2> QED BY <1>5, <2>1, <2>2, PartsPositive DEF TypeOK
<1>6. ASSUME NEW c \in Containers,
             (Step(c) /\ ~RespondError(c) /\ ~Delivered(c)) \/ Expire(c)
      PROVE  pc[d] # "idle" /\ UNCHANGED container
  <2>1. UNCHANGED container
    BY <1>6 DEF Step, FetchKey, FetchFails, Send, CannotSend, NoAnswer,
         Refused, Forbidden, Unauthorized, RefreshKey, RefreshFails, Persist, Expire
  <2>2. pc[c] # "idle"
    BY <1>6 DEF Step, FetchKey, FetchFails, Send, CannotSend, NoAnswer,
         Refused, Forbidden, Unauthorized, RefreshKey, RefreshFails, Persist, Expire, At
  <2>3. d # c => pc'[d] = pc[d]
    BY <1>6 DEF TypeOK, Step, FetchKey, FetchFails, Send, CannotSend, NoAnswer,
         Refused, Forbidden, Unauthorized, RefreshKey, RefreshFails, Persist, Expire,
         SendFailed, Goto
  <2> QED BY <2>1, <2>2, <2>3
<1>7. ASSUME NEW c \in Containers, RespondError(c) \/ Crash(c)
      PROVE  End(c) /\ UNCHANGED msg
  BY <1>7 DEF RespondError, Crash
<1> QED BY <1>1, <1>2, <1>3, <1>4, <1>5, <1>6, <1>7 DEF Next

(* The requests a container may have made where it is now. *)
RequestRoom == RequestsBounded /\ RoomForRequests /\ RefreshOnce

(* RequestRoom of the container that moved is RequestRoom of all. *)
LEMMA RoomOfOne ==
    ASSUME RequestRoom, NEW c \in Containers,
           \A d \in Containers \ {c} :
               UNCHANGED <<pc[d], attempt[d], resent[d], requests[d]>>,
           requests'[c] <= 4,
           pc'[c] = "refresh" => ~resent'[c],
           pc'[c] \in {"fetch", "send", "wire", "refresh"} =>
               requests'[c] <= 2 * (attempt'[c] - 1)
                                   + (IF resent'[c] THEN 1 ELSE 0)
                                   + (IF pc'[c] \in {"fetch", "send"} THEN 0 ELSE 1)
    PROVE  RequestRoom'
<1>1. RequestsBounded'
  BY DEF RequestRoom, RequestsBounded
<1>2. RefreshOnce'
  BY DEF RequestRoom, RefreshOnce, At
<1>3. RoomForRequests'
  BY DEF RequestRoom, RoomForRequests
<1> QED BY <1>1, <1>2, <1>3 DEF RequestRoom

(* At most two attempts of two requests each. *)
LEMMA RequestsStep == TypeOK /\ RequestRoom /\ [Next]_vars => RequestRoom'
<1> SUFFICES ASSUME TypeOK, RequestRoom, [Next]_vars PROVE RequestRoom'
  OBVIOUS
<1>1. CASE UNCHANGED vars \/ RotateKey
  BY <1>1 DEF vars, RotateKey, sending, RequestRoom, RequestsBounded,
       RoomForRequests, RefreshOnce, At
<1>2. ASSUME NEW c \in Containers, NEW i, StartPayload(c, i),
             pc' = [pc EXCEPT ![c] = pc'[c]], pc'[c] # "refresh"
      PROVE  RequestRoom'
  <2>1. /\ requests'[c] = 0 /\ attempt'[c] = 1 /\ resent'[c] = FALSE
        /\ \A d \in Containers \ {c} :
               UNCHANGED <<pc[d], attempt[d], resent[d], requests[d]>>
    BY <1>2 DEF TypeOK, StartPayload
  <2> QED BY <1>2, <2>1, RoomOfOne
<1>3. ASSUME NEW c \in Containers,
             \/ RespondError(c) \/ Crash(c) \/ Delivered(c)
             \/ \E m \in Messages : Invoke(c, m)
      PROVE  RequestRoom'
  <2>1. \E i : StartPayload(c, i)
    BY <1>3 DEF RespondError, Crash, Delivered, Invoke, End
  <2>2. pc' = [pc EXCEPT ![c] = pc'[c]] /\ pc'[c] # "refresh"
    BY <1>3 DEF TypeOK, RespondError, Crash, Delivered, Invoke, End, Goto
  <2> QED BY <1>2, <2>1, <2>2
<1>4. ASSUME NEW c \in Containers, NEW o, SendFailed(c, o),
             At(c, "send") \/ At(c, "wire") \/ At(c, "refresh"),
             UNCHANGED requests
      PROVE  RequestRoom'
  <2>1. \A d \in Containers \ {c} :
            UNCHANGED <<pc[d], attempt[d], resent[d], requests[d]>>
    BY <1>4 DEF TypeOK, SendFailed, Goto
  <2>2. /\ requests[c] \in Nat /\ attempt[c] \in {1, 2}
        /\ resent[c] \in BOOLEAN
        /\ requests[c] <= 4
        /\ requests[c] <= 2 * (attempt[c] - 1) + (IF resent[c] THEN 1 ELSE 0)
                              + (IF pc[c] \in {"fetch", "send"} THEN 0 ELSE 1)
    BY <1>4 DEF TypeOK, RequestRoom, RequestsBounded, RoomForRequests, At
  <2>3. CASE attempt[c] = 1 /\ o \in Retried
    <3>1. pc'[c] = "send" /\ attempt'[c] = 2 /\ resent'[c] = FALSE
            /\ requests'[c] = requests[c]
      BY <1>4, <2>3 DEF TypeOK, SendFailed, Goto
    <3>2. requests[c] <= 2
      BY <2>2, <2>3
    <3> QED BY <2>1, <2>2, <3>1, <3>2, RoomOfOne
  <2>4. CASE ~(attempt[c] = 1 /\ o \in Retried)
    <3>1. pc'[c] \in {"persist", "fail"} /\ requests'[c] = requests[c]
      BY <1>4, <2>4 DEF TypeOK, SendFailed, Goto
    <3> QED BY <2>1, <2>2, <3>1, RoomOfOne
  <2> QED BY <2>3, <2>4
<1>5. ASSUME NEW c \in Containers,
             CannotSend(c) \/ NoAnswer(c) \/ Refused(c) \/ Unauthorized(c)
             \/ RefreshFails(c)
      PROVE  RequestRoom'
  <2>1. \E o : SendFailed(c, o)
    BY <1>5 DEF CannotSend, NoAnswer, Refused, Unauthorized, RefreshFails
  <2>2. /\ At(c, "send") \/ At(c, "wire") \/ At(c, "refresh")
        /\ UNCHANGED requests
    BY <1>5 DEF CannotSend, NoAnswer, Refused, Unauthorized, RefreshFails
  <2> QED BY <1>4, <2>1, <2>2
<1>6. ASSUME NEW c \in Containers, Send(c)
      PROVE  RequestRoom'
  <2>1. /\ pc[c] = "send" /\ pc'[c] = "wire"
        /\ requests'[c] = requests[c] + 1
        /\ UNCHANGED <<attempt[c], resent[c]>>
        /\ \A d \in Containers \ {c} :
               UNCHANGED <<pc[d], attempt[d], resent[d], requests[d]>>
    BY <1>6 DEF TypeOK, Send, Goto, At
  <2>2. /\ requests[c] \in Nat /\ attempt[c] \in {1, 2}
        /\ requests[c] <= 2 * (attempt[c] - 1) + (IF resent[c] THEN 1 ELSE 0)
    BY <2>1 DEF TypeOK, RequestRoom, RoomForRequests
  <2> QED BY <2>1, <2>2, RoomOfOne
<1>7. ASSUME NEW c \in Containers, Forbidden(c)
      PROVE  RequestRoom'
  <2>1. CASE resent[c] /\ SendFailed(c, "forbidden")
    BY <1>4, <1>7, <2>1 DEF Forbidden
  <2>2. CASE ~resent[c] /\ Goto(c, "refresh")
                /\ UNCHANGED <<attempt, resent, keySent>>
    <3>1. /\ pc[c] = "wire" /\ pc'[c] = "refresh"
          /\ UNCHANGED <<attempt[c], resent[c], requests[c]>>
          /\ \A d \in Containers \ {c} :
                 UNCHANGED <<pc[d], attempt[d], resent[d], requests[d]>>
      BY <1>7, <2>2 DEF TypeOK, Forbidden, Goto, At
    <3>2. /\ requests[c] <= 4
          /\ requests[c] <= 2 * (attempt[c] - 1)
                                 + (IF resent[c] THEN 1 ELSE 0) + 1
      BY <3>1 DEF RequestRoom, RequestsBounded, RoomForRequests
    <3> QED BY <2>2, <3>1, <3>2, RoomOfOne
  <2> QED BY <1>7, <2>1, <2>2 DEF Forbidden
<1>8. ASSUME NEW c \in Containers, RefreshKey(c)
      PROVE  RequestRoom'
  <2>1. /\ pc[c] = "refresh" /\ pc'[c] = "send" /\ resent'[c] = TRUE
        /\ UNCHANGED <<attempt[c], requests[c]>>
        /\ \A d \in Containers \ {c} :
               UNCHANGED <<pc[d], attempt[d], resent[d], requests[d]>>
    BY <1>8 DEF TypeOK, RefreshKey, Goto, At
  <2>2. /\ requests[c] \in Nat /\ attempt[c] \in {1, 2}
        /\ requests[c] <= 4 /\ ~resent[c]
        /\ requests[c] <= 2 * (attempt[c] - 1)
                               + (IF resent[c] THEN 1 ELSE 0) + 1
    BY <2>1 DEF TypeOK, RequestRoom, RequestsBounded, RoomForRequests,
         RefreshOnce, At
  <2> QED BY <2>1, <2>2, RoomOfOne
<1>9. ASSUME NEW c \in Containers, Expire(c)
      PROVE  RequestRoom'
  BY <1>9 DEF Expire, RequestRoom, RequestsBounded, RoomForRequests,
       RefreshOnce, At
<1>11. ASSUME NEW c \in Containers, FetchKey(c)
       PROVE  RequestRoom'
  <2>1. /\ pc[c] = "fetch" /\ pc'[c] = "send"
        /\ UNCHANGED <<attempt, resent, requests>>
        /\ \A d \in Containers \ {c} : UNCHANGED pc[d]
    BY <1>11 DEF TypeOK, FetchKey, Goto, At, sending
  <2> QED BY <2>1, RoomOfOne
          DEF RequestRoom, RequestsBounded, RoomForRequests, RefreshOnce
<1>10. ASSUME NEW c \in Containers, FetchFails(c) \/ Persist(c)
       PROVE  RequestRoom'
  <2>1. /\ pc'[c] = "fail" /\ UNCHANGED requests[c]
        /\ \A d \in Containers \ {c} :
               UNCHANGED <<pc[d], attempt[d], resent[d], requests[d]>>
    BY <1>10 DEF TypeOK, FetchFails, Persist, Goto, sending
  <2>2. requests'[c] <= 4
    BY <2>1 DEF RequestRoom, RequestsBounded
  <2>3. /\ pc'[c] # "refresh"
        /\ pc'[c] \notin {"fetch", "send", "wire", "refresh"}
    BY <2>1
  <2> QED BY <2>1, <2>2, <2>3, RoomOfOne
<1> QED BY <1>1, <1>3, <1>5, <1>6, <1>7, <1>8, <1>9, <1>10, <1>11
        DEF Next, Step

(* The initial state. *)
LEMMA InitIInv == Init => IInv
<1> SUFFICES ASSUME Init PROVE IInv
  OBVIOUS
<1>1. TypeOK
  BY PartsPositive DEF Init, TypeOK, PCs, Keys
<1> QED BY <1>1 DEF Init, IInv, SuccessMeansAccepted, EarlierAccepted,
        RequestsBounded, RoomForRequests, RefreshOnce, At

(* Every step keeps the inductive invariant. *)
LEMMA StepIInv == IInv /\ [Next]_vars => IInv'
<1> SUFFICES ASSUME IInv, [Next]_vars PROVE IInv'
  OBVIOUS
<1>1. TypeOK /\ SuccessMeansAccepted /\ EarlierAccepted /\ RequestRoom
  BY DEF IInv, RequestRoom
<1>2. TypeOK' /\ EarlierAccepted' /\ RequestRoom'
  BY <1>1, TypeStep, EarlierStep, RequestsStep
<1>3. SuccessMeansAccepted'
  BY <1>1, <1>2, SuccessStep
<1> QED BY <1>2, <1>3 DEF IInv, RequestRoom

(* The inductive invariant holds in every reachable state. *)
THEOREM Invariance == Spec => []IInv
BY InitIInv, StepIInv, PTL DEF Spec

(* The containers and the clients they use stay well typed. *)
THEOREM TypeCorrect == Spec => []TypeOK
<1>1. IInv => TypeOK
  BY DEF IInv
<1> QED BY <1>1, Invariance, PTL

(* A success answered to the hub means that Datadog accepted every payload of
   the message (events handler.go 42-65, client.go 44-56). *)
THEOREM NoFalseSuccess == Spec => []SuccessMeansAccepted
<1>1. IInv => SuccessMeansAccepted
  BY DEF IInv
<1> QED BY <1>1, Invariance, PTL

(* Payloads of a message go out in order, each after the one before it was
   accepted. *)
THEOREM InOrder == Spec => []EarlierAccepted
<1>1. IInv => EarlierAccepted
  BY DEF IInv
<1> QED BY <1>1, Invariance, PTL

(* However Datadog, the vault and the clock behave, a payload costs at most
   four requests (client.go 44-77). *)
THEOREM FourRequests == Spec => []RequestsBounded
<1>1. IInv => RequestsBounded
  BY DEF IInv
<1> QED BY <1>1, Invariance, PTL
-----------------------------------------------------------------------------
(* Why an invocation ends.  InvocationEnds rests on a number of steps that an
   invocation has left, for any number of payloads: each of its own steps uses
   one up, and nothing else that happens gives it more. *)

(* What is left of sending a payload: two attempts, each of a request, a refresh
   and a second request, then the upload and the answer. *)
SendsLeft(c) ==
    (IF resent[c] THEN 0 ELSE 3) + (IF attempt[c] = 1 THEN 5 ELSE 0)
StepsLeft(c) ==
    CASE pc[c] = "fetch" -> 13
      [] pc[c] = "send" -> 4 + SendsLeft(c)
      [] pc[c] = "wire" -> 3 + SendsLeft(c)
      [] pc[c] = "refresh" -> IF attempt[c] = 1 THEN 10 ELSE 5
      [] pc[c] = "persist" -> 2
      [] pc[c] = "fail" -> 1
      [] pc[c] = "idle" -> 0
Work(c) ==
    IF At(c, "idle") THEN 0 ELSE 13 * (Parts - part[c]) + StepsLeft(c)

(* An invocation has no more than 13 steps left for each of its payloads, and
   none once it has answered. *)
WorkBounded ==
    \A c \in Containers : /\ Work(c) \in 0..(13 * Parts)
                          /\ Work(c) = 0 <=> At(c, "idle")

(* Its steps use them up, and no rotation, deadline, kill or other container
   adds to them. *)
WorkShrinks ==
    \A c \in Containers :
        /\ Step(c) => Work(c)' < Work(c)
        /\ (\A m \in Messages : ~Invoke(c, m)) => Work(c)' <= Work(c)

(* The arithmetic of Work: one payload costs at most 13 steps. *)
LEMMA PayloadCost ==
    ASSUME NEW n \in Nat, NEW i \in 1..n, NEW s \in 1..13
    PROVE  /\ 13 * (n - i) + s \in 1..(13 * n)
           /\ \A t \in 0..13 : t < s => 13 * (n - i) + t < 13 * (n - i) + s
           /\ i < n => 13 * (n - (i + 1)) + 12 < 13 * (n - i) + s
OBVIOUS

LEMMA StepNumbers ==
    ASSUME TypeOK, NEW c \in Containers
    PROVE  StepsLeft(c) \in 0..13 /\ (StepsLeft(c) = 0 <=> At(c, "idle"))
<1>1. SendsLeft(c) \in 0..8
  BY DEF SendsLeft
<1>2. pc[c] \in PCs
  BY DEF TypeOK
<1> HIDE DEF SendsLeft
<1> QED BY <1>1, <1>2 DEF StepsLeft, PCs, At

LEMMA StepNumbersNext ==
    ASSUME TypeOK', NEW c \in Containers
    PROVE  StepsLeft(c)' \in 0..13 /\ (StepsLeft(c)' = 0 <=> At(c, "idle")')
<1>1. SendsLeft(c)' \in 0..8
  BY DEF SendsLeft
<1>2. pc'[c] \in PCs
  BY DEF TypeOK
<1> HIDE DEF SendsLeft
<1> QED BY <1>1, <1>2 DEF StepsLeft, PCs, At

LEMMA WorkIsBounded == TypeOK => WorkBounded
<1> SUFFICES ASSUME TypeOK, NEW c \in Containers
             PROVE  Work(c) \in 0..(13 * Parts) /\ (Work(c) = 0 <=> At(c, "idle"))
  BY DEF WorkBounded
<1>1. CASE At(c, "idle")
  BY <1>1, PartsPositive DEF Work
<1>2. CASE ~At(c, "idle")
  <2>1. Parts \in Nat /\ part[c] \in 1..Parts
    BY PartsPositive DEF TypeOK
  <2>2. StepsLeft(c) \in 1..13
    BY <1>2, StepNumbers
  <2>3. Work(c) \in 1..(13 * Parts)
    BY <1>2, <2>1, <2>2, PayloadCost DEF Work
  <2> QED BY <1>2, <2>1, <2>3
<1> QED BY <1>1, <1>2

(* Within a payload, or at its end, a step leaves less. *)
LEMMA SamePayload ==
    ASSUME TypeOK, TypeOK', NEW c \in Containers, ~At(c, "idle"),
           part'[c] = part[c], StepsLeft(c)' < StepsLeft(c)
    PROVE  Work(c)' < Work(c)
<1>1. Parts \in Nat /\ part[c] \in 1..Parts
  BY PartsPositive DEF TypeOK
<1>2. StepsLeft(c) \in 1..13 /\ StepsLeft(c)' \in 0..13
  BY StepNumbers, StepNumbersNext
<1>3. Work(c) = 13 * (Parts - part[c]) + StepsLeft(c) /\ Work(c) \in 1..(13 * Parts)
  BY <1>1, <1>2, PayloadCost DEF Work
<1>4. CASE At(c, "idle")'
  BY <1>3, <1>4, PartsPositive DEF Work
<1>5. CASE ~At(c, "idle")'
  <2>1. Work(c)' = 13 * (Parts - part[c]) + StepsLeft(c)'
    BY <1>5 DEF Work
  <2> QED BY <1>1, <1>2, <1>3, <2>1, PayloadCost
<1> QED BY <1>4, <1>5

LEMMA EndsWork ==
    ASSUME TypeOK, NEW c \in Containers, ~At(c, "idle"), End(c)
    PROVE  Work(c)' < Work(c)
<1>1. At(c, "idle")'
  BY DEF TypeOK, End, Goto, At
<1>2. Work(c)' = 0
  BY <1>1 DEF Work
<1>3. Work(c) \in Nat \ {0}
  BY PartsPositive, WorkIsBounded DEF WorkBounded
<1> QED BY <1>2, <1>3

LEMMA FailedSendUses ==
    ASSUME TypeOK, NEW c \in Containers, NEW o, SendFailed(c, o),
           pc[c] \in {"send", "wire", "refresh"}
    PROVE  StepsLeft(c)' < StepsLeft(c)
<1>1. attempt[c] \in {1, 2} /\ resent[c] \in BOOLEAN
  BY DEF TypeOK
<1>4. StepsLeft(c) >= 3 /\ (attempt[c] = 1 => StepsLeft(c) >= 8) /\ StepsLeft(c) \in Int
  <2>1. CASE attempt[c] = 1
    BY <1>1, <2>1 DEF StepsLeft, SendsLeft
  <2>2. CASE attempt[c] = 2
    BY <1>1, <2>2 DEF StepsLeft, SendsLeft
  <2> QED BY <1>1, <2>1, <2>2
<1>2. CASE attempt[c] = 1 /\ o \in Retried
  <2>1. pc'[c] = "send" /\ attempt'[c] = 2 /\ resent'[c] = FALSE
    BY <1>2 DEF SendFailed, Goto, TypeOK
  <2>2. StepsLeft(c)' = 7
    BY <2>1 DEF StepsLeft, SendsLeft
  <2> QED BY <1>2, <1>4, <2>2
<1>3. CASE ~(attempt[c] = 1 /\ o \in Retried)
  <2>1. pc'[c] \in {"persist", "fail"}
    BY <1>3 DEF SendFailed, Goto, TypeOK
  <2>2. StepsLeft(c)' \in {1, 2}
    BY <2>1 DEF StepsLeft
  <2> QED BY <1>4, <2>2
<1> QED BY <1>2, <1>3

LEMMA StepUsesWork ==
    ASSUME TypeOK, TypeOK', NEW c \in Containers, Step(c)
    PROVE  Work(c)' < Work(c)
<1>0. /\ ~At(c, "idle") /\ attempt[c] \in {1, 2} /\ resent[c] \in BOOLEAN
      /\ Parts \in Nat /\ part[c] \in 1..Parts
  BY PartsPositive DEF TypeOK, Step, FetchKey, FetchFails, RespondError, Send, CannotSend,
     Delivered, NoAnswer, Refused, Forbidden, Unauthorized, RefreshKey, RefreshFails, Persist, At
<1>1. CASE FetchKey(c) \/ FetchFails(c) \/ Send(c) \/ RefreshKey(c) \/ Persist(c)
  <2>1. /\ part' = part /\ attempt'[c] = attempt[c]
        /\ \/ pc[c] = "fetch" /\ pc'[c] \in {"send", "fail"}
           \/ pc[c] = "send" /\ pc'[c] = "wire" /\ resent'[c] = resent[c]
           \/ pc[c] = "refresh" /\ pc'[c] = "send" /\ resent'[c] = TRUE
           \/ pc[c] = "persist" /\ pc'[c] = "fail"
    BY <1>1 DEF TypeOK, FetchKey, FetchFails, Send, RefreshKey, Persist, Goto, At,
       container, sending
  <2>2. StepsLeft(c)' < StepsLeft(c)
    BY <1>0, <2>1 DEF StepsLeft, SendsLeft
  <2> QED BY <1>0, <2>1, <2>2, SamePayload
<1>2. CASE CannotSend(c) \/ NoAnswer(c) \/ Refused(c) \/ Forbidden(c)
          \/ Unauthorized(c) \/ RefreshFails(c)
  <2>1. part' = part /\ pc[c] \in {"send", "wire", "refresh"}
    BY <1>2 DEF CannotSend, NoAnswer, Refused, Forbidden, Unauthorized, RefreshFails, At, container
  <2>2. CASE \E o : SendFailed(c, o)
    BY <1>0, <2>1, <2>2, FailedSendUses, SamePayload
  <2>3. CASE Forbidden(c) /\ ~resent[c] /\ Goto(c, "refresh") /\ UNCHANGED attempt
    <3>1. pc[c] = "wire" /\ pc'[c] = "refresh"
      BY <2>3 DEF Forbidden, Goto, At, TypeOK
    <3>2. StepsLeft(c)' < StepsLeft(c)
      BY <1>0, <2>3, <3>1 DEF StepsLeft, SendsLeft
    <3> QED BY <1>0, <2>1, <3>2, SamePayload
  <2> QED
    BY <1>2, <2>2, <2>3 DEF CannotSend, NoAnswer, Refused, Forbidden, Unauthorized, RefreshFails
<1>3. CASE RespondError(c)
  BY <1>0, <1>3, EndsWork DEF RespondError
<1>4. CASE Delivered(c)
  <2>1. CASE End(c)
    BY <1>0, <2>1, EndsWork
  <2>2. CASE part[c] < Parts /\ StartPayload(c, part[c] + 1) /\ Goto(c, "send")
    <3>1. /\ pc'[c] = "send" /\ part'[c] = part[c] + 1
          /\ attempt'[c] = 1 /\ resent'[c] = FALSE
      BY <2>2 DEF TypeOK, StartPayload, Goto
    <3>2. StepsLeft(c)' = 12
      BY <3>1 DEF StepsLeft, SendsLeft
    <3>3. Work(c)' = 13 * (Parts - (part[c] + 1)) + 12
      BY <3>1, <3>2 DEF Work, At
    <3>4. StepsLeft(c) \in 1..13 /\ Work(c) = 13 * (Parts - part[c]) + StepsLeft(c)
      BY <1>0, StepNumbers DEF Work
    <3> QED BY <1>0, <2>2, <3>3, <3>4, PayloadCost
  <2> QED BY <1>4, <2>1, <2>2 DEF Delivered
<1> QED BY <1>1, <1>2, <1>3, <1>4 DEF Step

(* What others do: the deadline, the keys, and all the other containers. *)
LEMMA OthersAddNothing ==
    ASSUME TypeOK, TypeOK', NEW c \in Containers, [Next]_vars, ~Step(c),
           \A m \in Messages : ~Invoke(c, m)
    PROVE  Work(c)' <= Work(c)
<1>1. Work(c) \in Nat
  BY PartsPositive, WorkIsBounded DEF WorkBounded
<1>2. CASE pc'[c] = pc[c] /\ part'[c] = part[c] /\ attempt'[c] = attempt[c]
             /\ resent'[c] = resent[c]
  <2>1. Work(c)' = Work(c)
    BY <1>2 DEF Work, StepsLeft, SendsLeft, At
  <2> QED BY <1>1, <2>1
<1>3. CASE Crash(c)
  <2>1. Work(c)' < Work(c)
    BY <1>3, EndsWork DEF Crash
  <2>2. At(c, "idle")'
    BY <1>3 DEF TypeOK, Crash, End, Goto, At
  <2>3. Work(c)' = 0
    BY <2>2 DEF Work
  <2> QED BY <1>1, <2>3
<1>4. CASE UNCHANGED vars \/ RotateKey \/ Expire(c)
  BY <1>2, <1>4 DEF vars, RotateKey, Expire, container, sending
<1>5. ASSUME NEW d \in Containers, d # c,
             Step(d) \/ Expire(d) \/ Crash(d) \/ \E m \in Messages : Invoke(d, m)
      PROVE  pc'[c] = pc[c] /\ part'[c] = part[c] /\ attempt'[c] = attempt[c]
             /\ resent'[c] = resent[c]
  <2>1. CASE Step(d)
    BY <1>5, <2>1 DEF TypeOK, Step, FetchKey, FetchFails, RespondError, Send, CannotSend,
       Delivered, NoAnswer, Refused, Forbidden, Unauthorized, RefreshKey, RefreshFails, Persist,
       SendFailed, StartPayload, End, Goto, container, sending
  <2>2. CASE Expire(d) \/ Crash(d) \/ \E m \in Messages : Invoke(d, m)
    BY <1>5, <2>2 DEF TypeOK, Expire, Crash, Invoke, StartPayload, End, Goto, container
  <2> QED BY <1>5, <2>1, <2>2
<1> QED BY <1>2, <1>3, <1>4, <1>5 DEF Next

(* An invocation cannot go on for ever: it makes at most 13 steps for each of
   its payloads, whatever the intake, the vault and Object Storage answer and
   whatever the other containers do (client.go:37-135). *)
THEOREM InvocationUsesUpWork == Spec => []WorkBounded /\ [][WorkShrinks]_vars
<1>1. IInv => WorkBounded
  BY WorkIsBounded DEF IInv
<1>2. TypeOK' => WorkBounded'
  BY WorkIsBounded, PTL
<1>3. IInv /\ IInv' /\ [Next]_vars => [WorkShrinks]_vars
  <2> SUFFICES ASSUME IInv, IInv', [Next]_vars PROVE WorkShrinks
    OBVIOUS
  <2>1. TypeOK /\ TypeOK'
    BY DEF IInv
  <2>2. ASSUME NEW c \in Containers, Step(c) PROVE Work(c)' < Work(c)
    BY <2>1, <2>2, StepUsesWork
  <2>4. WorkBounded /\ WorkBounded'
    BY <1>2, <2>1, WorkIsBounded
  <2>3. ASSUME NEW c \in Containers, \A m \in Messages : ~Invoke(c, m)
        PROVE  Work(c)' <= Work(c)
    <3>1. Work(c) \in Nat /\ Work(c)' \in Nat
      BY <2>1, <2>4, PartsPositive DEF WorkBounded
    <3> QED BY <2>1, <2>2, <2>3, <3>1, OthersAddNothing
  <2> QED BY <2>2, <2>3 DEF WorkShrinks
<1> QED BY <1>1, <1>3, Invariance, PTL DEF Spec
=============================================================================
