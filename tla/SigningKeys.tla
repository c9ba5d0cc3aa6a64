------------------------------- MODULE SigningKeys ------------------------------
(***************************************************************************)
(* manage_api_key of modules/key/main.tf: every run of Terraform makes a   *)
(* new key pair, uploads the public key for the OCI user Datadog signs as, *)
(* and waits until the user's keys list it.  At the user's limit the key   *)
(* that is listed first is deleted to make room.                           *)
(***************************************************************************)
EXTENDS FaultBudget, FiniteSets

CONSTANT MaxKeys   \* bound: the most API signing keys a user may have

VARIABLES
    keys,     \* API signing keys of the user
    keyStep,  \* where the script is, or how it ended
    newKey    \* the pair in /tmp/sshkey, 0 before one is made

keyVars == <<keys, keyStep, newKey>>

KeyOver == {"off", "done", "failed"}

(* Enough names for the keys of the user, the new one and one held elsewhere. *)
KeyIds == 1..(MaxKeys + 2)

KeysInit == keys = {} /\ keyStep = "off" /\ newKey = 0

(* rm -f /tmp/sshkey*, and a new pair. *)
MakePair(others) ==
    \E k \in KeyIds \ (keys \cup others) :
        /\ \A l \in 1..(k - 1) : l \in keys \cup others
        /\ newKey' = k

(* create_key, in a user with room for another. *)
CreateKey(k, limit) ==
    /\ Cardinality(keys) < limit
    /\ \E ok, done \in BOOLEAN :
          /\ Call(ok, done)
          /\ keys' = IF done THEN keys \cup {k} ELSE keys
          /\ keyStep' = IF ok THEN "poll" ELSE "failed"

(* Seeded fault: the limit is an error like any other. *)
UploadKeyPlain(others, limit) ==
    /\ keyStep = "upload"
    /\ MakePair(others)
    /\ \/ CreateKey(newKey', limit)
       \/ /\ Cardinality(keys) >= limit
          /\ keyStep' = "failed"
          /\ UNCHANGED <<keys, budget>>

(* The lookup of the user, which may fail like the upload does, and the upload;
   of its errors, only the "maximum quota limit" is not the end. *)
UploadKey(others, limit) ==
    /\ keyStep = "upload"
    /\ MakePair(others)
    /\ \/ CreateKey(newKey', limit)
       \/ /\ Cardinality(keys) >= limit
          /\ keyStep' = "evict"
          /\ UNCHANGED <<keys, budget>>

UploadAgain(limit) ==
    /\ keyStep = "again"
    /\ CreateKey(newKey, limit)
    /\ UNCHANGED newKey

(* OLDEST_KEY is resources[0] of a list in the service's own order. *)
EvictOldest ==
    /\ keyStep = "evict"
    /\ \/ \E oldest \in keys, ok, done \in BOOLEAN :
             /\ Call(ok, done)
             /\ keys' = IF done THEN keys \ {oldest} ELSE keys
             /\ keyStep' = IF ok THEN "again" ELSE "failed"
       \/ keyStep' = "failed" /\ Fault("list") /\ UNCHANGED keys
    /\ UNCHANGED newKey

(* Twelve looks at the list, which may show the key too late. *)
AwaitKey ==
    /\ keyStep = "poll"
    /\ \/ keyStep' = "done" /\ newKey \in keys /\ UNCHANGED budget
       \/ keyStep' = "failed" /\ IF newKey \in keys THEN Fault("wait")
                                                  ELSE UNCHANGED budget
    /\ UNCHANGED <<keys, newKey>>

KeyStep(others, limit) ==
    UploadKey(others, limit) \/ EvictOldest \/ UploadAgain(limit) \/ AwaitKey
=============================================================================
