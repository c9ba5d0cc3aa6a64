-------------------------------- MODULE PreCheck --------------------------------
(***************************************************************************)
(* pre_check.py, the program Terraform runs once, before it creates        *)
(* anything in the tenancy, and what the modules auth and kms need of the  *)
(* tenancy afterwards.                                                     *)
(*                                                                         *)
(* A tenancy is a record of what the program's queries would find:         *)
(*   home    BOOLEAN   the stack runs in the home region                   *)
(*   image   BOOLEAN   Datadog's images exist for the home region          *)
(*   names   \subseteq Names     names of the stack that are taken         *)
(*   owned   \subseteq Policies  the taken ones with ownedby=datadog       *)
(*   vault   BOOLEAN   a datadog-vault is ACTIVE in the compartment        *)
(*   room    BOOLEAN   the vault quota leaves room for another             *)
(*   gov     BOOLEAN   the realm is OC2 or OC3                             *)
(*   reuse   BOOLEAN   existing_home_region_vault_id is set                *)
(*   old     \subseteq Usable    what holds of the vault it names          *)
(*   unread  \subseteq Queries   queries that fail                         *)
(***************************************************************************)
EXTENDS FiniteSets

Policies == {"policy", "dgpolicy"}
Names == {"user", "group", "sch", "fn"} \cup Policies
Usable == {"active", "named", "key", "secret"}
Queries == {"names", "owner", "vaults", "limits", "vault", "key", "secret"}

(* _policy_owned_by_datadog: an error of the query reads as "not ours". *)
PolicyOwnedByDatadog(t, n) == n \in t.owned /\ "owner" \notin t.unread

(* Seeded fault: the two dynamic groups are not looked for. *)
AlreadyExistsNoGroups(t) ==
    {n \in t.names \ {"sch", "fn"} : ~(n \in Policies /\ PolicyOwnedByDatadog(t, n))}

(* validate_pre_existing_resources *)
AlreadyExists(t) ==
    {n \in t.names : ~(n \in Policies /\ PolicyOwnedByDatadog(t, n))}

(* _vault_exists: an error reads as "no vault". *)
VaultExists(t) == t.vault /\ "vaults" \notin t.unread

(* validate_vault_quota *)
VaultQuotaOK(t) ==
    VaultExists(t) \/ t.gov \/ (t.room /\ "limits" \notin t.unread)

(* validate_existing_vault *)
ExistingVaultOK(t) ==
    Usable \subseteq t.old /\ t.unread \cap {"vault", "key", "secret"} = {}

(* main collects the errors of all validations. *)
Errors(t) ==
    {e \in {"home", "image", "exists", "vault"} :
        \/ e = "home" /\ ~t.home
        \/ e = "image" /\ ~t.image
        \/ e = "exists" /\ AlreadyExists(t) # {}
        \/ e = "vault" /\ ~(IF t.reuse THEN ExistingVaultOK(t) ELSE VaultQuotaOK(t))}

(* A query of _resource_exists that fails ends the program with a traceback. *)
Refuses(t) == Errors(t) # {} \/ "names" \in t.unread

-----------------------------------------------------------------------------
(* What the modules need. *)

Resources == Names \cup {"vault"}

(* A resource of module auth, with those it refers to. *)
Needs(n) ==
    CASE n = "group" -> {"user", "group"}
      [] n = "policy" -> {"user", "group", "policy"}
      [] n = "dgpolicy" -> {"sch", "fn", "dgpolicy"}
      [] OTHER -> {n}

(* Module kms reads the old vault once more, or creates a new one. *)
VaultReady(t) == IF t.reuse THEN Usable \subseteq t.old ELSE t.room

(* What the services do not refuse: a second resource of a name, a vault that
   is not usable or exceeds the quota. *)
Creatable(t) ==
    (Names \ t.names) \cup {n \in {"vault"} : VaultReady(t)}
=============================================================================
