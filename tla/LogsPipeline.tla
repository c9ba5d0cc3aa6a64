----------------------------- MODULE LogsPipeline -----------------------------
(***************************************************************************)
(* One invocation of the logs function: a formatter goroutine pushes the   *)
(* logs of the message into a bounded channel, a sender goroutine takes    *)
(* them out and sends them in batches, a closer closes errChan when the    *)
(* wait group is empty, and the handler answers with the first value it    *)
(* receives from errChan.  Logs are never reordered, so the model counts   *)
(* them.                                                                   *)
(***************************************************************************)
EXTENDS Integers

CONSTANTS
    MaxLogs,    \* bound: logs in the message
    BatchSize,  \* DD_BATCH_SIZE
    Capacity,   \* of the formattedLogs channel
    Faults      \* "timeout": formatterTimeout passes; "deadline": the
                \* function's context ends; "panic": a goroutine panics

ASSUME ConstantsAssumption ==
    /\ MaxLogs \in Nat
    /\ BatchSize \in Nat \ {0}
    /\ Capacity \in Nat \ {0}
    /\ Faults \subseteq {"timeout", "deadline", "panic"}

VARIABLES
    total,       \* logs in the message
    formatter,   \* where the formatter is
    sender,      \* where the sender is
    running,     \* the wait group: the goroutines that are not Done
    pushed,      \* logs put in the channel so far
    queued,      \* logs in the channel
    batch,       \* logs in the sender's batch
    acked,       \* logs of the batches Datadog has taken
    logsClosed,  \* is formattedLogs closed?
    err,         \* the buffered value of errChan: "none" or "error"
    errClosed,   \* is errChan closed?
    response,    \* the handler's answer
    ctxDone,     \* is the invocation's context over?
    timedOut,    \* is the formatter's own context over?
    crashed      \* a send on a closed channel has killed the process

logs == <<pushed, queued, batch, acked, logsClosed>>
errors == <<err, errClosed, response>>
contexts == <<total, ctxDone, timedOut>>
vars == <<formatter, sender, running, logs, errors, contexts, crashed>>

FormatterPCs == {"decode", "format", "report", "recover", "done"}
SenderPCs == {"receive", "send", "report", "recover", "done"}
Working == {"decode", "format", "receive", "send", "report"}

Init ==
    /\ total \in 0..MaxLogs
    /\ formatter = "decode" /\ sender = "receive"
    /\ running = {"formatter", "sender"}
    /\ pushed = 0 /\ queued = 0 /\ batch = 0 /\ acked = 0
    /\ logsClosed = FALSE /\ errClosed = FALSE
    /\ err = "none" /\ response = "none"
    /\ ctxDone = FALSE /\ timedOut = FALSE /\ crashed = FALSE

(* errChan <- err: blocks while the buffer is full, panics once closed. *)
PutError ==
    \/ /\ ~errClosed /\ err = "none"
       /\ err' = "error"
       /\ UNCHANGED crashed
    \/ /\ errClosed
       /\ crashed' = TRUE
       /\ UNCHANGED err

-----------------------------------------------------------------------------
(* The formatter. *)

FormatterEnds ==
    /\ formatter' = "done"
    /\ running' = running \ {"formatter"}

Decode ==
    /\ formatter = "decode"
    /\ formatter' = "format"
    /\ UNCHANGED <<sender, running, logs, errors, contexts, crashed>>

(* The message is no JSON object or array, or the redaction list is bad. *)
DecodeFails ==
    /\ formatter = "decode"
    /\ formatter' = "report"
    /\ UNCHANGED <<sender, running, logs, errors, contexts, crashed>>

(* Seeded fault: a log is dropped when the channel is full. *)
PushOrDrop ==
    /\ formatter = "format" /\ pushed < total
    /\ pushed' = pushed + 1
    /\ queued' = IF queued < Capacity THEN queued + 1 ELSE queued
    /\ UNCHANGED <<formatter, sender, running, batch, acked, logsClosed, errors,
                   contexts, crashed>>

Push ==
    /\ formatter = "format" /\ pushed < total /\ queued < Capacity
    /\ pushed' = pushed + 1
    /\ queued' = queued + 1
    /\ UNCHANGED <<formatter, sender, running, batch, acked, logsClosed, errors,
                   contexts, crashed>>

(* Seeded fault: the loop ends as if there were no more logs. *)
PushCancelledQuietly ==
    /\ formatter = "format" /\ pushed < total
    /\ ctxDone \/ timedOut
    /\ logsClosed' = TRUE
    /\ FormatterEnds
    /\ UNCHANGED <<sender, pushed, queued, batch, acked, errors, contexts,
                   crashed>>

PushCancelled ==
    /\ formatter = "format" /\ pushed < total
    /\ ctxDone \/ timedOut
    /\ formatter' = "report"
    /\ UNCHANGED <<sender, running, logs, errors, contexts, crashed>>

(* Seeded fault: the channel is left open. *)
LeaveLogsOpen ==
    /\ formatter = "format" /\ pushed = total
    /\ FormatterEnds
    /\ UNCHANGED <<sender, logs, errors, contexts, crashed>>

CloseLogs ==
    /\ formatter = "format" /\ pushed = total
    /\ logsClosed' = TRUE
    /\ FormatterEnds
    /\ UNCHANGED <<sender, pushed, queued, batch, acked, errors, contexts,
                   crashed>>

(* Both branches of the select put an error in errChan. *)
FormatterReports ==
    /\ formatter = "report"
    /\ PutError
    /\ FormatterEnds
    /\ UNCHANGED <<sender, logs, errClosed, response, contexts>>

FormatterPanics ==
    /\ "panic" \in Faults
    /\ formatter = "format" /\ pushed < total
    /\ formatter' = "recover"
    /\ running' = running \ {"formatter"}
    /\ UNCHANGED <<sender, logs, errors, contexts, crashed>>

(* recover() runs after wg.Done(), and gives up when the context is over. *)
FormatterRecovers ==
    /\ formatter = "recover"
    /\ \/ PutError
       \/ ctxDone /\ UNCHANGED <<err, crashed>>
    /\ formatter' = "done"
    /\ UNCHANGED <<sender, running, logs, errClosed, response, contexts>>

-----------------------------------------------------------------------------
(* The sender. *)

SenderEnds ==
    /\ sender' = "done"
    /\ running' = running \ {"sender"}

(* Seeded fault: a batch is sent whenever the channel is empty. *)
ReceiveEager ==
    /\ sender = "receive" /\ queued > 0 /\ ~ctxDone
    /\ queued' = queued - 1
    /\ batch' = batch + 1
    /\ sender' = IF batch' >= BatchSize \/ queued' = 0 THEN "send" ELSE "receive"
    /\ UNCHANGED <<formatter, running, pushed, acked, logsClosed, errors,
                   contexts, crashed>>

(* The next log; it is discarded, with the batch, when the context is over. *)
Receive ==
    /\ sender = "receive" /\ queued > 0
    /\ queued' = queued - 1
    /\ \/ /\ ctxDone
          /\ sender' = "report"
          /\ UNCHANGED batch
       \/ /\ ~ctxDone
          /\ batch' = batch + 1
          /\ sender' = IF batch' >= BatchSize THEN "send" ELSE "receive"
    /\ UNCHANGED <<formatter, running, pushed, acked, logsClosed, errors,
                   contexts, crashed>>

(* The range loop ends: the final batch, or nothing left to do. *)
LogsDrained ==
    /\ sender = "receive" /\ queued = 0 /\ logsClosed
    /\ \/ /\ batch > 0
          /\ sender' = "send"
          /\ UNCHANGED running
       \/ batch = 0 /\ SenderEnds
    /\ UNCHANGED <<formatter, logs, errors, contexts, crashed>>

(* Seeded fault: the batch is not emptied. *)
SentKeepsBatch ==
    /\ sender = "send"
    /\ acked' = acked + batch
    /\ sender' = "receive"
    /\ UNCHANGED <<formatter, running, pushed, queued, batch, logsClosed,
                   errors, contexts, crashed>>

Sent ==
    /\ sender = "send"
    /\ acked' = acked + batch
    /\ batch' = 0
    /\ sender' = "receive"
    /\ UNCHANGED <<formatter, running, pushed, queued, logsClosed, errors,
                   contexts, crashed>>

(* SendMessageToDatadog returns an error (module Forward). *)
SendFails ==
    /\ sender = "send"
    /\ sender' = "report"
    /\ UNCHANGED <<formatter, running, logs, errors, contexts, crashed>>

(* select: the error goes to errChan or, once the context is over, nowhere. *)
SenderReports ==
    /\ sender = "report"
    /\ \/ PutError
       \/ ctxDone /\ UNCHANGED <<err, crashed>>
    /\ SenderEnds
    /\ UNCHANGED <<formatter, logs, errClosed, response, contexts>>

SenderPanics ==
    /\ "panic" \in Faults
    /\ sender = "send"
    /\ sender' = "recover"
    /\ running' = running \ {"sender"}
    /\ UNCHANGED <<formatter, logs, errors, contexts, crashed>>

SenderRecovers ==
    /\ sender = "recover"
    /\ \/ PutError
       \/ ctxDone /\ UNCHANGED <<err, crashed>>
    /\ sender' = "done"
    /\ UNCHANGED <<formatter, running, logs, errClosed, response, contexts>>

-----------------------------------------------------------------------------
(* The closer, the handler and the contexts. *)

CloseErrors ==
    /\ running = {} /\ ~errClosed
    /\ errClosed' = TRUE
    /\ UNCHANGED <<formatter, sender, running, logs, err, response, contexts,
                   crashed>>

(* <-errChan: an error, or nil once it is empty and closed. *)
Answer ==
    /\ response = "none"
    /\ \/ err = "error" /\ response' = "error" /\ err' = "none"
       \/ err = "none" /\ errClosed /\ response' = "success" /\ UNCHANGED err
    /\ UNCHANGED <<formatter, sender, running, logs, errClosed, contexts,
                   crashed>>

(* The function's deadline passes, or its context is cancelled on return. *)
ContextEnds ==
    /\ ~ctxDone
    /\ "deadline" \in Faults \/ response # "none"
    /\ ctxDone' = TRUE
    /\ UNCHANGED <<formatter, sender, running, logs, errors, total, timedOut,
                   crashed>>

FormatterTimesOut ==
    /\ "timeout" \in Faults /\ ~timedOut
    /\ timedOut' = TRUE
    /\ UNCHANGED <<formatter, sender, running, logs, errors, total, ctxDone,
                   crashed>>

-----------------------------------------------------------------------------
Formatter ==
    \/ Decode \/ DecodeFails \/ Push \/ PushCancelled \/ CloseLogs
    \/ FormatterReports \/ FormatterPanics \/ FormatterRecovers
Sender ==
    \/ Receive \/ LogsDrained \/ Sent \/ SendFails \/ SenderReports
    \/ SenderPanics \/ SenderRecovers

Next ==
    /\ ~crashed
    /\ Formatter \/ Sender \/ CloseErrors \/ Answer \/ ContextEnds
         \/ FormatterTimesOut

Spec == Init /\ [][Next]_vars

(* The goroutines are scheduled, and a context that was cancelled is over. *)
FairSpec ==
    /\ Spec
    /\ WF_vars(~crashed /\ Formatter) /\ WF_vars(~crashed /\ Sender)
    /\ WF_vars(~crashed /\ CloseErrors) /\ WF_vars(~crashed /\ Answer)
    /\ WF_vars(~crashed /\ response # "none" /\ ContextEnds)

-----------------------------------------------------------------------------
(* Properties. *)

(* The type invariant: the batch never outgrows DD_BATCH_SIZE, nor the channel
   its capacity. *)
TypeOK ==
    /\ total \in 0..MaxLogs
    /\ formatter \in FormatterPCs /\ sender \in SenderPCs
    /\ running \subseteq {"formatter", "sender"}
    /\ pushed \in 0..total /\ acked \in 0..total
    /\ queued \in 0..Capacity /\ batch \in 0..BatchSize
    /\ logsClosed \in BOOLEAN /\ errClosed \in BOOLEAN
    /\ err \in {"none", "error"}
    /\ response \in {"none", "error", "success"}
    /\ ctxDone \in BOOLEAN /\ timedOut \in BOOLEAN /\ crashed \in BOOLEAN

(* While the sender works, each log that was pushed is in the channel, in the
   batch, or taken by Datadog, and in one of them only: none is lost between
   the goroutines, none is sent twice (handler.go:160-226). *)
Conservation ==
    sender \in {"receive", "send"} => pushed = queued + batch + acked

(* "success" means that every log of the message was sent, unless the answer
   came out of a panic or after the end of the context (handler.go:82-88). *)
Quiet == ~ctxDone /\ ~crashed /\ "recover" \notin {formatter, sender}
SuccessMeansSent == response = "success" /\ Quiet => acked = total

(* Only the last batch of a message is smaller than DD_BATCH_SIZE. *)
SendsFull ==
    sender = "send" /\ batch < BatchSize => logsClosed /\ acked + batch = total

(* What makes these inductive. The wait group holds the goroutines that work;
   errChan is closed when it is empty; a goroutine that ended early has had its
   error put in errChan, from where the handler takes it. *)
WaitGroup ==
    /\ "formatter" \in running <=> formatter \in Working
    /\ "sender" \in running <=> sender \in Working
    /\ errClosed => running = {}
    /\ response = "success" => errClosed

Counted ==
    /\ pushed <= total
    /\ acked + batch + queued <= pushed
    /\ logsClosed => pushed = total
    /\ sender = "receive" => batch < BatchSize

Reported == err = "error" \/ response = "error"
NoErrorLost ==
    ~ctxDone /\ ~crashed =>
        /\ formatter = "done" => logsClosed \/ Reported
        /\ sender = "done" => (logsClosed /\ acked = total) \/ Reported

(* The inductive invariant. *)
IInv ==
    /\ TypeOK /\ Counted /\ Conservation /\ SendsFull /\ WaitGroup
    /\ NoErrorLost /\ SuccessMeansSent

(* The handler answers, unless its context ends first or the process dies of a
   send on errChan after it was closed: nobody waits for ever for a goroutine
   that is blocked on a channel (handler.go:104-108, 119-126, 240-250). *)
HandlerAnswers == <>(response # "none" \/ ctxDone \/ crashed)

(* MyHandler's comment (handler.go:36-38), without that exception: "If any
   stage of the pipeline fails, it ensures proper error reporting". *)
SuccessAlwaysMeansSent == response = "success" => acked = total
=============================================================================
