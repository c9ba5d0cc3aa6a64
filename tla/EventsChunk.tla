------------------------------ MODULE EventsChunk ------------------------------
(***************************************************************************)
(* The events function's Decode and Chunk: a batch of streaming messages   *)
(* becomes a sequence of JSON-array payloads.  One step per message of     *)
(* Decode and one per event of Chunk's loop.  An event is two lengths: as  *)
(* decoded, which is what Chunk adds up, and as json.Marshal writes it,    *)
(* which is what goes to the intake: compacted, and with <, > and & in six *)
(* characters each.                                                        *)
(***************************************************************************)
EXTENDS Integers, Sequences, FiniteSetsExt, SequencesExt

CONSTANTS
    Events,         \* events: lengths as read and as sent
    MaxMessages,    \* bound: messages in a batch
    MaxBodyBytes,   \* limit of the intake on a request's body
    MaxBatchCount   \* limit of the intake on a request's events

ASSUME ConstantsAssumption ==
    /\ Events \subseteq [read : Nat \ {0}, sent : Nat \ {0}]
    /\ MaxMessages \in Nat
    /\ MaxBodyBytes \in Nat /\ MaxBatchCount \in Nat \ {0}

(* A message whose value does not decode to a JSON object. *)
Bad == [read |-> 0, sent |-> 0]

VARIABLES
    msgs,         \* messages Decode has not looked at yet
    events,       \* decoded events Chunk has not looked at yet
    current,      \* events of the payload being built
    currentSize,  \* its size, as Chunk counts it
    payloads,     \* payloads built
    dropped,      \* events dropped
    pc,           \* "decode", "chunk", "done" or "error"
    batch         \* history: all the messages of the batch

vars == <<msgs, events, current, currentSize, payloads, dropped, pc, batch>>

Init ==
    /\ batch \in BoundedSeq(Events \cup {Bad}, MaxMessages) /\ msgs = batch
    /\ events = <<>> /\ current = <<>> /\ currentSize = 2
    /\ payloads = <<>> /\ dropped = 0
    /\ pc = "decode"

-----------------------------------------------------------------------------
Decode ==
    /\ pc = "decode" /\ msgs # <<>>
    /\ msgs' = Tail(msgs)
    /\ \/ /\ Head(msgs) \in Events
          /\ events' = Append(events, Head(msgs))
          /\ UNCHANGED pc
       \/ /\ Head(msgs) = Bad
          /\ pc' = "error"
          /\ UNCHANGED events
    /\ UNCHANGED <<current, currentSize, payloads, dropped, batch>>

Decoded ==
    /\ pc = "decode" /\ msgs = <<>>
    /\ pc' = "chunk"
    /\ UNCHANGED <<msgs, events, current, currentSize, payloads, dropped, batch>>

(* flush: nothing for an empty payload. *)
Flushed == IF current = <<>> THEN payloads ELSE Append(payloads, current)

(* Seeded fault: a comma before the first event too. *)
AddSizeComma(e) == e.read + 1

(* addSize: a comma before every event but the first. *)
AddSize(e) == e.read + (IF current = <<>> THEN 0 ELSE 1)

(* Seeded fault: no limit on the number of events. *)
NoRoomSizeOnly(e) == currentSize + AddSize(e) > MaxBodyBytes

(* The next event closes the current payload when the limits leave no room. *)
NoRoom(e) ==
    \/ currentSize + AddSize(e) > MaxBodyBytes
    \/ Len(current) + 1 > MaxBatchCount

TooLarge(e) == e.read + 2 > MaxBodyBytes

DropEvent ==
    /\ pc = "chunk" /\ events # <<>> /\ TooLarge(Head(events))
    /\ dropped' = dropped + 1
    /\ events' = Tail(events)
    /\ UNCHANGED <<msgs, current, currentSize, payloads, pc, batch>>

(* Seeded faults: current is not emptied; its size is not reset. *)
AddEventKeeps ==
    /\ pc = "chunk" /\ events # <<>> /\ ~TooLarge(Head(events))
    /\ LET e == Head(events) IN
       \/ /\ NoRoom(e)
          /\ payloads' = Flushed
          /\ current' = Append(current, e)
          /\ currentSize' = 2 + e.read
       \/ /\ ~NoRoom(e)
          /\ current' = Append(current, e)
          /\ currentSize' = currentSize + AddSize(e)
          /\ UNCHANGED payloads
    /\ events' = Tail(events)
    /\ UNCHANGED <<msgs, dropped, pc, batch>>
AddEventSizeKept ==
    /\ pc = "chunk" /\ events # <<>> /\ ~TooLarge(Head(events))
    /\ LET e == Head(events) IN
       \/ /\ NoRoom(e)
          /\ payloads' = Flushed
          /\ current' = <<e>>
       \/ /\ ~NoRoom(e)
          /\ current' = Append(current, e)
          /\ UNCHANGED payloads
    /\ currentSize' = currentSize + AddSize(Head(events))
    /\ events' = Tail(events)
    /\ UNCHANGED <<msgs, dropped, pc, batch>>

AddEvent ==
    /\ pc = "chunk" /\ events # <<>> /\ ~TooLarge(Head(events))
    /\ LET e == Head(events) IN
       \/ /\ NoRoom(e)
          /\ payloads' = Flushed
          /\ current' = <<e>>
          /\ currentSize' = 2 + e.read
       \/ /\ ~NoRoom(e)
          /\ current' = Append(current, e)
          /\ currentSize' = currentSize + AddSize(e)
          /\ UNCHANGED payloads
    /\ events' = Tail(events)
    /\ UNCHANGED <<msgs, dropped, pc, batch>>

LastFlush ==
    /\ pc = "chunk" /\ events = <<>>
    /\ payloads' = Flushed
    /\ current' = <<>> /\ currentSize' = 2
    /\ pc' = "done"
    /\ UNCHANGED <<msgs, events, dropped, batch>>

Next == Decode \/ Decoded \/ DropEvent \/ AddEvent \/ LastFlush

Spec == Init /\ [][Next]_vars

-----------------------------------------------------------------------------
(* The reference: what the comments of the code promise. *)

(* Bytes of the JSON array of the events of p, in the form "read" or "sent":
   brackets, commas, events. *)
Bytes(form, p) == FoldLeft(LAMBDA n, e : n + e[form], 1 + Len(p), p)

(* As Chunk counts. *)
Fits(p) ==
    /\ Bytes("read", p) <= MaxBodyBytes
    /\ Len(p) <= MaxBatchCount

(* The events of s that can be sent at all, in order. *)
Sendable(s) == FoldLeft(LAMBDA k, e : IF TooLarge(e) THEN k ELSE Append(k, e),
                        <<>>, s)

Kept == Sendable(batch)

(* The payloads of the sequence s cut after the positions in cuts. *)
Pieces(s, cuts) ==
    LET ends == cuts \cup {Len(s)}
        From(i) == Max({0} \cup {j \in ends : j < i}) + 1
    IN  {SubSeq(s, From(i), i) : i \in ends}

(* The fewest payloads that hold s in order. *)
Fewest(s) ==
    IF s = <<>> THEN 0
    ELSE Min({Cardinality(cuts) + 1 : cuts \in
                 {c \in SUBSET (1..(Len(s) - 1)) : \A p \in Pieces(s, c) : Fits(p)}})

-----------------------------------------------------------------------------
(* Properties. *)

(* The type invariant; currentSize is the size of the current payload. *)
TypeOK ==
    /\ msgs \in Seq(Events \cup {Bad}) /\ events \in Seq(Events)
    /\ current \in Seq(Events) /\ payloads \in Seq(Seq(Events) \ {<<>>})
    /\ dropped \in 0..MaxMessages
    /\ pc \in {"decode", "chunk", "done", "error"}
    /\ current # <<>> => currentSize = Bytes("read", current)

(* Every message's event that fits goes out exactly once, in order, and the
   others are counted (formatter.go:56-60): nothing is lost at a flush.  A
   batch with a message that does not decode is refused whole: nothing of it
   goes out (formatter.go:34-38), and no such message is skipped. *)
NothingLost ==
    /\ pc = "done" => /\ FlattenSeq(payloads) = Kept
                      /\ dropped = Len(batch) - Len(Kept)
    /\ pc = "error" => payloads = <<>>

(* What goes to the intake respects its limits (formatter.go:56-57), except
   that a body may be too long when writing has made an event in it longer:
   Chunk counts the events as read (formatter.go:75, 82). *)
Grows(e) == e.sent > e.read
PayloadsFit ==
    \A i \in DOMAIN payloads :
        LET p == payloads[i] IN
        /\ Len(p) <= MaxBatchCount
        /\ Bytes("sent", p) > MaxBodyBytes => \E j \in DOMAIN p : Grows(p[j])

(* No other way to cut the events in order, into payloads within the limits
   by the lengths that Chunk counts, needs fewer requests. *)
FewestPayloads == pc = "done" => Len(payloads) = Fewest(Kept)
=============================================================================
