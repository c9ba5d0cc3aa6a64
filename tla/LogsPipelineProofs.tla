-------------------------- MODULE LogsPipelineProofs --------------------------
(***************************************************************************)
(* Proofs about LogsPipeline, for any number of logs, any batch size and   *)
(* any channel capacity.                                                   *)
(***************************************************************************)
EXTENDS LogsPipeline, TLAPS

(* The bounds are natural numbers. *)
LEMMA Bounds ==
    /\ MaxLogs \in Nat
    /\ BatchSize \in Nat /\ BatchSize >= 1
    /\ Capacity \in Nat /\ Capacity >= 1
BY ConstantsAssumption DEF ConstantsAssumption

Flags ==
    /\ logsClosed \in BOOLEAN /\ errClosed \in BOOLEAN
    /\ ctxDone \in BOOLEAN /\ timedOut \in BOOLEAN /\ crashed \in BOOLEAN

(* The flags stay Boolean, and the channel is closed after the last log. *)
LEMMA FlagStep == TypeOK /\ [Next]_vars => Flags'
<1> SUFFICES ASSUME TypeOK, [Next]_vars PROVE Flags'
  OBVIOUS
<1> USE DEF vars, Next, Formatter, Sender, Decode, DecodeFails, Push,
       PushCancelled, CloseLogs, FormatterReports, FormatterPanics,
       FormatterRecovers, Receive, LogsDrained, Sent, SendFails,
       SenderReports, SenderPanics, SenderRecovers, CloseErrors, Answer,
       ContextEnds, FormatterTimesOut
<1>1. logsClosed' \in BOOLEAN
  BY DEF TypeOK, logs
<1>2. errClosed' \in BOOLEAN
  BY DEF TypeOK, errors
<1>3. ctxDone' \in BOOLEAN /\ timedOut' \in BOOLEAN
  BY DEF TypeOK, contexts
<1>4. crashed' \in BOOLEAN
  BY DEF TypeOK, PutError
<1> QED BY <1>1, <1>2, <1>3, <1>4 DEF Flags

LEMMA ClosedStep ==
    TypeOK /\ Counted /\ [Next]_vars => (logsClosed' => pushed' = total')
<1> SUFFICES ASSUME TypeOK, Counted, [Next]_vars, logsClosed'
             PROVE  pushed' = total'
  OBVIOUS
<1>1. pushed = total \/ CloseLogs
  BY DEF Counted, vars, logs, Next, Formatter, Sender, Decode,
     DecodeFails, Push, PushCancelled, FormatterReports, FormatterPanics,
     FormatterRecovers, Receive, LogsDrained, Sent, SendFails, SenderReports,
     SenderPanics, SenderRecovers, CloseErrors, Answer, ContextEnds,
     FormatterTimesOut
<1>2. UNCHANGED total
  BY DEF CloseLogs, Push, vars, contexts, Next, Formatter, Sender, Decode,
     DecodeFails, PushCancelled, FormatterReports, FormatterPanics,
     FormatterRecovers, Receive, LogsDrained, Sent, SendFails, SenderReports,
     SenderPanics, SenderRecovers, CloseErrors, Answer, ContextEnds,
     FormatterTimesOut
<1>3. UNCHANGED pushed \/ Push
  BY DEF CloseLogs, vars, logs, Next, Formatter, Sender, Decode,
     DecodeFails, PushCancelled, FormatterReports, FormatterPanics,
     FormatterRecovers, Receive, LogsDrained, Sent, SendFails, SenderReports,
     SenderPanics, SenderRecovers, CloseErrors, Answer, ContextEnds,
     FormatterTimesOut
<1>4. Push => pushed # total
  BY Bounds DEF Push, TypeOK
<1> QED BY <1>1, <1>2, <1>3, <1>4 DEF CloseLogs

Ranges ==
    /\ total \in 0..MaxLogs
    /\ formatter \in FormatterPCs /\ sender \in SenderPCs
    /\ running \subseteq {"formatter", "sender"}
    /\ pushed \in 0..total /\ acked \in 0..total
    /\ queued \in 0..Capacity /\ batch \in 0..BatchSize
    /\ err \in {"none", "error"}
    /\ response \in {"none", "error", "success"}
    /\ acked + batch + queued <= pushed
    /\ sender = "receive" => batch < BatchSize

(* Every step keeps the state well typed and the logs counted. *)
LEMMA CountStep ==
    TypeOK /\ Counted /\ Conservation /\ [Next]_vars => TypeOK' /\ Counted'
<1> SUFFICES ASSUME TypeOK, Counted, Conservation, [Next]_vars
             PROVE  Ranges'
  BY FlagStep, ClosedStep DEF Ranges, TypeOK, Counted, Flags
<1> USE Bounds DEF TypeOK, Counted, Ranges, FormatterPCs, SenderPCs
<1>1. CASE UNCHANGED vars
  BY <1>1 DEF vars, logs, errors, contexts
<1>2. CASE Decode \/ DecodeFails \/ PushCancelled \/ CloseLogs
  BY <1>2 DEF Decode, DecodeFails, PushCancelled, CloseLogs, FormatterEnds,
       logs, errors, contexts
<1>3. CASE Push
  BY <1>3 DEF Push, errors, contexts
<1>4. CASE FormatterReports \/ FormatterPanics \/ FormatterRecovers
  BY <1>4 DEF FormatterReports, FormatterPanics, FormatterRecovers,
       FormatterEnds, PutError, logs, errors, contexts
<1>5. CASE Receive
  BY <1>5 DEF Receive, Conservation, errors, contexts
<1>6. CASE LogsDrained \/ SendFails
  BY <1>6 DEF LogsDrained, SendFails, SenderEnds, logs, errors, contexts
<1>7. CASE Sent
  BY <1>7 DEF Sent, Conservation, errors, contexts
<1>8. CASE SenderReports \/ SenderPanics \/ SenderRecovers
  BY <1>8 DEF SenderReports, SenderPanics, SenderRecovers, SenderEnds,
       PutError, logs, errors, contexts
<1>9. CASE CloseErrors \/ Answer \/ ContextEnds \/ FormatterTimesOut
  BY <1>9 DEF CloseErrors, Answer, ContextEnds, FormatterTimesOut, logs,
       errors, contexts
<1> QED BY <1>1, <1>2, <1>3, <1>4, <1>5, <1>6, <1>7, <1>8, <1>9
        DEF Next, Formatter, Sender

(* No step loses a log between the goroutines, or sends a short batch early. *)
LEMMA ConservationStep ==
    TypeOK /\ Counted /\ Conservation /\ SendsFull /\ [Next]_vars
        => Conservation' /\ SendsFull'
<1> SUFFICES ASSUME TypeOK, Counted, Conservation, SendsFull, [Next]_vars
             PROVE  Conservation' /\ SendsFull'
  OBVIOUS
<1> USE Bounds DEF Conservation, SendsFull
<1>1. CASE UNCHANGED <<sender, logs, total>>
  BY <1>1 DEF logs
<1>2. CASE CloseLogs \/ Push
  BY <1>2 DEF CloseLogs, Push, contexts, TypeOK, Counted
<1>3. CASE Receive \/ Sent
  BY <1>3 DEF Receive, Sent, contexts, TypeOK, Counted
<1>4. CASE LogsDrained
  BY <1>4 DEF LogsDrained, SenderEnds, logs, contexts, TypeOK, Counted
<1>5. CASE sender' \in {"report", "recover", "done"}
  BY <1>5
<1>6. CASE SendFails \/ SenderReports \/ SenderPanics \/ SenderRecovers
  BY <1>5, <1>6 DEF SendFails, SenderReports, SenderPanics, SenderRecovers,
       SenderEnds
<1>7. CASE \/ Decode \/ DecodeFails \/ PushCancelled \/ FormatterReports
           \/ FormatterPanics \/ FormatterRecovers \/ CloseErrors \/ Answer
           \/ ContextEnds \/ FormatterTimesOut \/ UNCHANGED vars
  BY <1>1, <1>7 DEF Decode, DecodeFails, PushCancelled, FormatterReports,
       FormatterPanics, FormatterRecovers, CloseErrors, Answer, ContextEnds,
       FormatterTimesOut, vars, contexts
<1> QED BY <1>2, <1>3, <1>4, <1>6, <1>7 DEF Next, Formatter, Sender

(* The wait group counts the goroutines that work, and errChan is closed, and a
   success answered, only after all of them. *)
LEMMA WaitGroupStep == TypeOK /\ WaitGroup /\ [Next]_vars => WaitGroup'
<1> SUFFICES ASSUME TypeOK, WaitGroup, [Next]_vars PROVE WaitGroup'
  OBVIOUS
<1>0. /\ "formatter" \in running <=> formatter \in Working
      /\ "sender" \in running <=> sender \in Working
      /\ errClosed => running = {}
      /\ response = "success" => errClosed
  BY DEF WaitGroup
<1>a. ASSUME UNCHANGED <<errClosed, response>>, running' \subseteq running,
             "formatter" \in running' <=> formatter' \in Working,
             "sender" \in running' <=> sender' \in Working
      PROVE  WaitGroup'
  <2>1. errClosed' => running' = {}
    BY <1>0, <1>a
  <2>2. response' = "success" => errClosed'
    BY <1>0, <1>a
  <2> QED BY <1>a, <2>1, <2>2 DEF WaitGroup
<1> USE DEF Working
<1>1. CASE \/ UNCHANGED vars \/ Decode \/ DecodeFails \/ Push \/ PushCancelled
           \/ CloseLogs \/ FormatterReports \/ FormatterPanics
           \/ FormatterRecovers
  <2>1. UNCHANGED <<errClosed, response, sender>>
    BY <1>1 DEF vars, Decode, DecodeFails, Push, PushCancelled, CloseLogs,
         FormatterReports, FormatterPanics, FormatterRecovers, errors
  <2>2. \/ running' = running /\ (formatter' \in Working <=> formatter \in Working)
        \/ running' = running \ {"formatter"} /\ formatter' \notin Working
    BY <1>1 DEF vars, Decode, DecodeFails, Push, PushCancelled, CloseLogs,
         FormatterReports, FormatterPanics, FormatterRecovers, FormatterEnds
  <2> QED BY <1>0, <1>a, <2>1, <2>2
<1>3. CASE \/ Receive \/ LogsDrained \/ Sent \/ SendFails
           \/ SenderReports \/ SenderPanics \/ SenderRecovers
  <2>1. UNCHANGED <<errClosed, response, formatter>>
    BY <1>3 DEF Receive, LogsDrained, Sent, SendFails, SenderReports,
         SenderPanics, SenderRecovers, errors
  <2>2. \/ running' = running /\ (sender' \in Working <=> sender \in Working)
        \/ running' = running \ {"sender"} /\ sender' \notin Working
    BY <1>3 DEF Receive, LogsDrained, Sent, SendFails, SenderReports,
         SenderPanics, SenderRecovers, SenderEnds
  <2> QED BY <1>0, <1>a, <2>1, <2>2
<1>5. CASE CloseErrors \/ Answer \/ ContextEnds \/ FormatterTimesOut
  <2>1. CASE CloseErrors
    BY <1>0, <2>1 DEF CloseErrors, WaitGroup
  <2>2. CASE Answer
    BY <1>0, <2>2 DEF Answer, WaitGroup
  <2>3. CASE ContextEnds \/ FormatterTimesOut
    <3>1. UNCHANGED <<formatter, sender, running, errClosed, response>>
      BY <2>3 DEF ContextEnds, FormatterTimesOut, errors
    <3> QED BY <1>0, <1>a, <3>1
  <2> QED BY <1>5, <2>1, <2>2, <2>3
<1> QED BY <1>1, <1>3, <1>5 DEF Next, Formatter, Sender

(* The invariant of every run. *)
LEMMA InitIInv == Init => IInv
<1> SUFFICES ASSUME Init PROVE IInv
  OBVIOUS
<1>1. TypeOK
  <2>1. /\ logsClosed \in BOOLEAN /\ errClosed \in BOOLEAN
        /\ ctxDone \in BOOLEAN /\ timedOut \in BOOLEAN /\ crashed \in BOOLEAN
    BY DEF Init
  <2>2. /\ total \in 0..MaxLogs /\ pushed \in 0..total /\ acked \in 0..total
        /\ queued \in 0..Capacity /\ batch \in 0..BatchSize
    BY Bounds DEF Init
  <2> QED BY <2>1, <2>2 DEF Init, TypeOK, FormatterPCs, SenderPCs
<1>2. Counted /\ Conservation /\ SendsFull
  BY Bounds DEF Init, Counted, Conservation, SendsFull
<1>3. WaitGroup
  BY DEF Init, WaitGroup, Working
<1>4. NoErrorLost /\ SuccessMeansSent
  BY DEF Init, NoErrorLost, SuccessMeansSent
<1> QED BY <1>1, <1>2, <1>3, <1>4 DEF IInv

-----------------------------------------------------------------------------
(* An error that is reported stays so until the handler has answered it. *)
LEMMA ReportedStays ==
    ASSUME TypeOK, [Next]_vars, Reported
    PROVE  Reported'
BY DEF Reported, TypeOK, Next, Formatter, Sender, Decode, DecodeFails, Push,
   PushCancelled, CloseLogs, FormatterReports, FormatterPanics,
   FormatterRecovers, Receive, LogsDrained, Sent, SendFails, SenderReports,
   SenderPanics, SenderRecovers, CloseErrors, Answer, ContextEnds,
   FormatterTimesOut, PutError, vars, errors

(* Until the context ends or the process dies, no error gets lost. *)
LEMMA QuietStep ==
    ASSUME TypeOK, Counted, Conservation, WaitGroup, NoErrorLost,
           SuccessMeansSent, [Next]_vars
    PROVE  (NoErrorLost /\ SuccessMeansSent)'
<1> USE DEF TypeOK, NoErrorLost, SuccessMeansSent, Quiet, WaitGroup, Working
<1>1. CASE UNCHANGED vars \/ Decode \/ DecodeFails \/ Push \/ PushCancelled
  BY <1>1, ReportedStays DEF vars, Decode, DecodeFails, Push, PushCancelled,
       logs, errors, contexts
<1>2. CASE CloseLogs
  BY <1>2, ReportedStays DEF CloseLogs, FormatterEnds, logs, errors, contexts
<1>3. CASE FormatterReports
  BY <1>3, ReportedStays DEF FormatterReports, FormatterEnds, PutError,
       Reported, logs, contexts
<1>4. CASE \/ FormatterPanics \/ FormatterRecovers \/ SenderPanics
           \/ SenderRecovers
  BY <1>4, ReportedStays DEF PutError, Reported, logs, contexts,
       FormatterPanics, FormatterRecovers, SenderPanics, SenderRecovers
<1>5. CASE Receive \/ Sent \/ SendFails
  BY <1>5, ReportedStays DEF Receive, Sent, SendFails, logs, errors, contexts
<1>6. CASE LogsDrained
  <2>1. sender' = "done" => acked = total /\ logsClosed
    BY <1>6 DEF LogsDrained, Counted, Conservation
  <2> QED BY <1>6, <2>1, ReportedStays
          DEF LogsDrained, SenderEnds, logs, errors, contexts
<1>7. CASE SenderReports
  BY <1>7, ReportedStays DEF SenderReports, SenderEnds, PutError, Reported,
       logs, contexts
<1>8. CASE CloseErrors \/ FormatterTimesOut
  BY <1>8, ReportedStays DEF CloseErrors, FormatterTimesOut, logs, errors,
       contexts
<1>9. CASE Answer
  <2>1. err = "none" => response' = "success" /\ running = {}
    BY <1>9 DEF Answer
  <2>2. response' = "success" => sender \in {"recover", "done"} /\ ~Reported
    BY <1>9, <2>1 DEF Answer, Reported, SenderPCs
  <2>3. UNCHANGED <<formatter, sender, logsClosed, acked, total, ctxDone, crashed>>
    BY <1>9 DEF Answer, logs, contexts
  <2>4. response' = "success" /\ Quiet' => acked' = total'
    BY <2>2, <2>3
  <2>5. \/ /\ formatter = "done" => logsClosed \/ Reported
           /\ sender = "done" => (logsClosed /\ acked = total) \/ Reported
        \/ ctxDone \/ crashed
    OBVIOUS
  <2> QED BY <2>3, <2>4, <2>5, ReportedStays
<1>10. CASE ContextEnds
  BY <1>10 DEF ContextEnds, logs, errors
<1> QED BY <1>1, <1>2, <1>3, <1>4, <1>5, <1>6, <1>7, <1>8, <1>9, <1>10
        DEF Next, Formatter, Sender

-----------------------------------------------------------------------------
LEMMA StepIInv == IInv /\ [Next]_vars => IInv'
BY CountStep, ConservationStep, WaitGroupStep, QuietStep DEF IInv

THEOREM Invariance == Spec => []IInv
BY InitIInv, StepIInv, PTL DEF Spec

(* The channel and the batch keep their bounds, and the state its types. *)
THEOREM TypeCorrect == Spec => []TypeOK
<1>1. IInv => TypeOK
  BY DEF IInv
<1> QED BY <1>1, Invariance, PTL

(* No log is lost between the goroutines or put in two batches, whatever
   times out or panics (handler.go 160-226). *)
THEOREM LogsConserved == Spec => []Conservation
<1>1. IInv => Conservation
  BY DEF IInv
<1> QED BY <1>1, Invariance, PTL

(* Only the last batch is smaller than DD_BATCH_SIZE (handler.go 196-226). *)
THEOREM FullBatches == Spec => []SendsFull
<1>1. IInv => SendsFull
  BY DEF IInv
<1> QED BY <1>1, Invariance, PTL

(* Whatever panics or times out, the handler answers success only when every
   log was sent, unless the function's context is over or a goroutine that
   panicked has yet to report it (handler.go 82-88, 117-129, 185-191). *)
THEOREM NoLogLost == Spec => []SuccessMeansSent
<1>1. IInv => SuccessMeansSent
  BY DEF IInv
<1> QED BY <1>1, Invariance, PTL

-----------------------------------------------------------------------------
(* Why the handler always answers.  What TLC checks as HandlerAnswers rests on
   two facts that hold for any number of logs, batch size and capacity: until
   the answer somebody can always make a step, and no execution makes more
   steps than Work counts in its first state. *)

(* Which of the goroutines and the handler can make a step: what each waits
   for, and for how long.  An error waits for room in errChan. *)
ErrorGoesOut == errClosed \/ err = "none"
FormatterReady ==
    \/ formatter = "decode"
    \/ formatter = "format" /\ (pushed = total \/ queued < Capacity \/ ctxDone \/ timedOut)
    \/ formatter = "report" /\ ErrorGoesOut
    \/ formatter = "recover" /\ (ErrorGoesOut \/ ctxDone)
SenderReady ==
    \/ sender = "receive" /\ (queued > 0 \/ logsClosed)
    \/ sender = "send"
    \/ sender \in {"report", "recover"} /\ (ErrorGoesOut \/ ctxDone)
CloserReady == running = {} /\ ~errClosed
HandlerReady == response = "none" /\ (err = "error" \/ errClosed)

NeverStuck ==
    response = "none" /\ ~ctxDone /\ ~crashed =>
        FormatterReady \/ SenderReady \/ CloserReady \/ HandlerReady

(* What is left to do.  A log costs one step to push and two to batch and send;
   a goroutine at most three more; the channel, the answer and the contexts one
   each. *)
LogsWork == 4 * (total - pushed) + 3 * queued + 2 * batch
FormatterWork == CASE formatter = "decode" -> 3
                   [] formatter = "format" -> 2
                   [] formatter \in {"report", "recover"} -> 1
                   [] formatter = "done" -> 0
SenderWork == CASE sender = "receive" -> 4
                [] sender = "send" -> 3
                [] sender \in {"report", "recover"} -> 1
                [] sender = "done" -> 0
Flag(set) == IF set THEN 0 ELSE 1
FlagsWork == Flag(errClosed) + Flag(response # "none") + Flag(ctxDone) + Flag(timedOut)
Work == LogsWork + FormatterWork + SenderWork + FlagsWork

(* A batch that is being sent holds a log. *)
SomethingToSend == sender = "send" => batch > 0

(* Every step keeps that so. *)
LEMMA SomethingToSendStep ==
    ASSUME TypeOK, SomethingToSend, [Next]_vars
    PROVE  SomethingToSend'
<1> USE DEF SomethingToSend
<1>1. CASE Receive
  BY <1>1, Bounds DEF Receive, TypeOK
<1>2. CASE LogsDrained
  BY <1>2 DEF LogsDrained, SenderEnds, logs
<1>3. CASE UNCHANGED <<sender, batch>>
  BY <1>3
<1>4. CASE Sent \/ SendFails \/ SenderReports \/ SenderPanics \/ SenderRecovers
  BY <1>4 DEF Sent, SendFails, SenderReports, SenderPanics, SenderRecovers, SenderEnds
<1>5. CASE \/ UNCHANGED vars \/ Formatter \/ CloseErrors \/ Answer \/ ContextEnds
           \/ FormatterTimesOut
  <2>1. UNCHANGED <<sender, batch>>
    BY <1>5 DEF vars, logs, Formatter, Decode, DecodeFails, Push, PushCancelled,
         CloseLogs, FormatterReports, FormatterPanics, FormatterRecovers,
         CloseErrors, Answer, ContextEnds, FormatterTimesOut
  <2> QED BY <1>3, <2>1
<1> QED BY <1>1, <1>2, <1>4, <1>5 DEF Next, Sender

(* THEOREM: until the handler has answered, the context is over or the process
   is dead, one of the goroutines, the closer or the handler can go on: no
   number of logs, batch size or capacity makes them wait for each other
   (handler.go:104-108, 119-126, 196-250). *)
THEOREM NobodyBlocksAll == Spec => []NeverStuck
<1>1. IInv => NeverStuck
  <2> SUFFICES ASSUME IInv, response = "none", ~ctxDone, ~crashed,
                      ~FormatterReady, ~SenderReady, ~CloserReady, ~HandlerReady
               PROVE  FALSE
    BY DEF NeverStuck
  <2>1. ~errClosed /\ err = "none" /\ ErrorGoesOut
    BY DEF IInv, TypeOK, HandlerReady, ErrorGoesOut
  <2>2. formatter \in {"format", "done"} /\ sender \in {"receive", "done"}
    BY <2>1 DEF IInv, TypeOK, FormatterPCs, SenderPCs, FormatterReady, SenderReady
  <2>3. ~Reported
    BY <2>1 DEF Reported
  <2>4. /\ formatter = "done" => logsClosed
        /\ sender = "done" => logsClosed
    BY <2>3 DEF IInv, NoErrorLost
  <2>5. CASE formatter = "done" /\ sender = "done"
    BY <2>1, <2>5 DEF IInv, TypeOK, WaitGroup, Working, CloserReady
  <2>6. CASE sender = "receive"
    <3>1. queued = 0 /\ ~logsClosed
      BY <2>6, Bounds DEF IInv, TypeOK, SenderReady
    <3>2. formatter = "format" /\ queued < Capacity
      BY <2>2, <2>4, <3>1, Bounds
    <3> QED BY <3>2 DEF FormatterReady
  <2>7. CASE sender = "done" /\ formatter = "format"
    <3>1. pushed = total
      BY <2>4, <2>7 DEF IInv, Counted
    <3> QED BY <2>7, <3>1 DEF FormatterReady
  <2> QED BY <2>2, <2>5, <2>6, <2>7
<1> QED BY <1>1, Invariance, PTL

(* What is left to do is a number. *)
LEMMA WorkIsNat ==
    ASSUME TypeOK
    PROVE  /\ Work \in Nat /\ LogsWork \in Nat
           /\ FormatterWork \in Nat /\ SenderWork \in Nat /\ FlagsWork \in Nat
<1>1. FormatterWork \in Nat /\ SenderWork \in Nat
  BY DEF TypeOK, FormatterPCs, SenderPCs, FormatterWork, SenderWork
<1>2. LogsWork \in Nat
  BY Bounds DEF TypeOK, LogsWork
<1>3. FlagsWork \in Nat
  BY DEF Flag, FlagsWork
<1> QED BY <1>1, <1>2, <1>3 DEF Work

(* The sum of the four decreases: no part grows, or the sender's does by less. *)
LEMMA SumDecreases ==
    ASSUME NEW a \in Int, NEW b \in Nat, NEW c \in Nat, NEW d \in Nat,
           NEW a1 \in Int, NEW b1 \in Nat, NEW c1 \in Nat, NEW d1 \in Nat,
           b1 <= b, d1 <= d,
           \/ a1 <= a /\ c1 <= c /\ (a1 < a \/ b1 < b \/ c1 < c \/ d1 < d)
           \/ a1 <= a - 2 /\ c1 = c + 1
    PROVE  a1 + b1 + c1 + d1 < a + b + c + d
  OBVIOUS

(* Every step leaves less to do. *)
LEMMA WorkDecreases ==
    ASSUME TypeOK, SomethingToSend, TypeOK', Next
    PROVE  Work' < Work
<1> USE Bounds
<1>1. /\ FormatterWork \in Nat /\ SenderWork \in Nat /\ FlagsWork \in Nat
      /\ FormatterWork' \in Nat /\ SenderWork' \in Nat /\ FlagsWork' \in Nat
      /\ LogsWork \in Int /\ LogsWork' \in Int
  <2>1. /\ FormatterWork \in Nat /\ SenderWork \in Nat /\ FlagsWork \in Nat
        /\ LogsWork \in Nat
    BY WorkIsNat
  <2>2. /\ FormatterWork' \in Nat /\ SenderWork' \in Nat /\ FlagsWork' \in Nat
        /\ LogsWork' \in Int
    <3>1. FormatterWork' \in Nat /\ SenderWork' \in Nat
      BY DEF TypeOK, FormatterPCs, SenderPCs, FormatterWork, SenderWork
    <3>2. LogsWork' \in Int
      BY DEF TypeOK, LogsWork
    <3>3. FlagsWork' \in Nat
      BY DEF Flag, FlagsWork
    <3> QED BY <3>1, <3>2, <3>3
  <2> QED BY <2>1, <2>2
<1>2. SUFFICES /\ FormatterWork' <= FormatterWork /\ FlagsWork' <= FlagsWork
               /\ \/ /\ LogsWork' <= LogsWork /\ SenderWork' <= SenderWork
                     /\ \/ LogsWork' < LogsWork \/ FormatterWork' < FormatterWork
                        \/ SenderWork' < SenderWork \/ FlagsWork' < FlagsWork
                  \/ LogsWork' <= LogsWork - 2 /\ SenderWork' = SenderWork + 1
  BY <1>1, SumDecreases DEF Work
<1>5. ASSUME UNCHANGED logs, UNCHANGED total PROVE LogsWork' = LogsWork
  BY <1>5 DEF logs, LogsWork
<1>6. ASSUME UNCHANGED <<errClosed, response, ctxDone, timedOut>>
      PROVE  FlagsWork' = FlagsWork
  BY <1>6 DEF FlagsWork
<1>7. ASSUME UNCHANGED formatter PROVE FormatterWork' = FormatterWork
  BY <1>7 DEF FormatterWork
<1>8. ASSUME UNCHANGED sender PROVE SenderWork' = SenderWork
  BY <1>8 DEF SenderWork
<1>9. CASE Push
  <2>1. LogsWork' = LogsWork - 1
    BY <1>9 DEF Push, contexts, LogsWork, TypeOK
  <2>2. /\ UNCHANGED <<errClosed, response, ctxDone, timedOut, formatter, sender>>
    BY <1>9 DEF Push, errors, contexts
  <2> QED BY <1>1, <1>6, <1>7, <1>8, <2>1, <2>2
<1>10. CASE \/ Decode \/ DecodeFails \/ PushCancelled \/ CloseLogs
            \/ FormatterReports \/ FormatterPanics \/ FormatterRecovers
  <2>1. LogsWork' = LogsWork
    BY <1>10 DEF Decode, DecodeFails, PushCancelled, CloseLogs, FormatterReports,
         FormatterPanics, FormatterRecovers, logs, contexts, LogsWork
  <2>2. UNCHANGED <<errClosed, response, ctxDone, timedOut, sender>>
    BY <1>10 DEF Decode, DecodeFails, PushCancelled, CloseLogs, FormatterReports,
         FormatterPanics, FormatterRecovers, errors, contexts
  <2>3. FormatterWork' < FormatterWork
    BY <1>10 DEF Decode, DecodeFails, PushCancelled, CloseLogs, FormatterReports,
         FormatterPanics, FormatterRecovers, FormatterEnds, FormatterWork
  <2>4. FlagsWork' = FlagsWork /\ SenderWork' = SenderWork
    BY <1>6, <1>8, <2>2
  <2> QED BY <1>1, <2>1, <2>3, <2>4
<1>11. CASE Receive
  <2>1. \/ LogsWork' = LogsWork - 1 /\ sender' \in {"send", "receive"}
        \/ LogsWork' = LogsWork - 3 /\ sender' = "report"
    <3>1. UNCHANGED <<pushed, total>> /\ queued' = queued - 1
      BY <1>11 DEF Receive, contexts
    <3>2. CASE ctxDone
      <4>1. UNCHANGED batch /\ sender' = "report"
        BY <1>11, <3>2 DEF Receive
      <4> QED BY <3>1, <4>1 DEF LogsWork, TypeOK
    <3>3. CASE ~ctxDone
      <4>1. batch' = batch + 1 /\ sender' \in {"send", "receive"}
        BY <1>11, <3>3 DEF Receive
      <4> QED BY <3>1, <4>1 DEF LogsWork, TypeOK
    <3> QED BY <3>2, <3>3
  <2>2. UNCHANGED <<errClosed, response, ctxDone, timedOut, formatter>>
    BY <1>11 DEF Receive, errors, contexts
  <2>3. SenderWork' <= SenderWork
    BY <1>11, <2>1 DEF Receive, SenderWork
  <2>4. FlagsWork' = FlagsWork /\ FormatterWork' = FormatterWork
    BY <1>6, <1>7, <2>2
  <2> QED BY <1>1, <2>1, <2>3, <2>4
<1>12. CASE Sent
  <2>1. LogsWork' <= LogsWork - 2
    BY <1>12 DEF Sent, contexts, LogsWork, TypeOK, SomethingToSend
  <2>2. UNCHANGED <<errClosed, response, ctxDone, timedOut, formatter>>
    BY <1>12 DEF Sent, errors, contexts
  <2>3. SenderWork' = SenderWork + 1
    BY <1>12 DEF Sent, SenderWork
  <2>4. FlagsWork' = FlagsWork /\ FormatterWork' = FormatterWork
    BY <1>6, <1>7, <2>2
  <2> QED BY <1>1, <2>1, <2>3, <2>4
<1>13. CASE LogsDrained \/ SendFails \/ SenderReports \/ SenderPanics \/ SenderRecovers
  <2>1. LogsWork' = LogsWork
    BY <1>13 DEF LogsDrained, SendFails, SenderReports, SenderPanics, SenderRecovers,
         logs, contexts, LogsWork
  <2>2. UNCHANGED <<errClosed, response, ctxDone, timedOut, formatter>>
    BY <1>13 DEF LogsDrained, SendFails, SenderReports, SenderPanics, SenderRecovers,
         errors, contexts
  <2>3. SenderWork' < SenderWork
    BY <1>13 DEF LogsDrained, SendFails, SenderReports, SenderPanics, SenderRecovers,
         SenderEnds, SenderWork
  <2>4. FlagsWork' = FlagsWork /\ FormatterWork' = FormatterWork
    BY <1>6, <1>7, <2>2
  <2> QED BY <1>1, <2>1, <2>3, <2>4
<1>14. CASE CloseErrors \/ Answer \/ ContextEnds \/ FormatterTimesOut
  <2>1. UNCHANGED <<formatter, sender, logs, total>>
    BY <1>14 DEF CloseErrors, Answer, ContextEnds, FormatterTimesOut, contexts
  <2>2. FlagsWork' < FlagsWork
    <3>1. CASE CloseErrors
      BY <3>1 DEF CloseErrors, TypeOK, contexts, FlagsWork, Flag
    <3>2. CASE Answer
      BY <3>2 DEF Answer, TypeOK, contexts, FlagsWork, Flag
    <3>3. CASE ContextEnds
      BY <3>3 DEF ContextEnds, TypeOK, errors, FlagsWork, Flag
    <3>4. CASE FormatterTimesOut
      BY <3>4 DEF FormatterTimesOut, TypeOK, errors, FlagsWork, Flag
    <3> QED BY <1>14, <3>1, <3>2, <3>3, <3>4
  <2>4. /\ LogsWork' = LogsWork /\ FormatterWork' = FormatterWork
        /\ SenderWork' = SenderWork
    BY <1>5, <1>7, <1>8, <2>1
  <2> QED BY <1>1, <2>2, <2>4
<1> QED BY <1>9, <1>10, <1>11, <1>12, <1>13, <1>14 DEF Next, Formatter, Sender

(* THEOREM: every step of an invocation leaves less work, which is a number:
   the goroutines and the handler come to rest after at most Work steps.  With
   NobodyBlocksAll, they can only rest once the handler has answered, its context
   is over or the process is dead. *)
THEOREM EveryStepCounts == Spec => [](Work \in Nat) /\ [][Work' < Work]_vars
<1> DEFINE Inv == IInv /\ SomethingToSend
<1>1. Init => Inv
  BY InitIInv DEF Init, SomethingToSend
<1>2. Inv /\ [Next]_vars => Inv'
  BY StepIInv, SomethingToSendStep DEF IInv
<1>3. Inv => Work \in Nat
  BY WorkIsNat DEF IInv
<1>4. Inv /\ Inv' /\ [Next]_vars => [Work' < Work]_vars
  BY WorkDecreases DEF IInv
<1> HIDE DEF Inv
<1> QED BY <1>1, <1>2, <1>3, <1>4, PTL DEF Spec

=============================================================================
