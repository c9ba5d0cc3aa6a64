----------------------------- MODULE PayloadStore -----------------------------
(***************************************************************************)
(* What backfill promises for the payloads the forward path could not      *)
(* deliver: each is kept until Datadog has taken it or a decision was made *)
(* to drop it (client.go:386-393).  Delivery is at least once.             *)
(***************************************************************************)
EXTENDS Naturals

CONSTANT Payload

VARIABLES kept, delivered, dropped, known

storeVars == <<kept, delivered, dropped, known>>

Init ==
    /\ known \subseteq Payload
    /\ kept = known
    /\ delivered = {} /\ dropped = {}

(* A new payload is stored. *)
Keep(p) ==
    /\ p \notin known
    /\ known' = known \cup {p} /\ kept' = kept \cup {p}
    /\ UNCHANGED <<delivered, dropped>>

(* Datadog takes a payload, perhaps for the second time. *)
Deliver(p) ==
    /\ p \in known
    /\ delivered' = delivered \cup {p}
    /\ UNCHANGED <<kept, dropped, known>>

(* A payload is found to be undeliverable. *)
Drop(p) ==
    /\ p \in known
    /\ dropped' = dropped \cup {p}
    /\ UNCHANGED <<kept, delivered, known>>

(* Only then is it forgotten. *)
Forget(p) ==
    /\ p \in kept \cap (delivered \cup dropped)
    /\ kept' = kept \ {p}
    /\ UNCHANGED <<delivered, dropped, known>>

(* Another run settles a payload and forgets it. *)
Settle(p) ==
    /\ p \in kept
    /\ kept' = kept \ {p}
    /\ \/ delivered' = delivered \cup {p} /\ UNCHANGED dropped
       \/ dropped' = dropped \cup {p} /\ UNCHANGED delivered
    /\ UNCHANGED known

Next == \E p \in Payload :
    Keep(p) \/ Deliver(p) \/ Drop(p) \/ Forget(p) \/ Settle(p)

Spec == Init /\ [][Next]_storeVars
=============================================================================
