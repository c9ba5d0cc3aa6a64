-------------------------------- MODULE Install ---------------------------------
(***************************************************************************)
(* The Datadog stack of one tenancy: runs of Terraform over main.tf and    *)
(* regional_stack.tf, which check the tenancy once, create the identity    *)
(* and the vault, start the key script (SigningKeys) and the scripts of    *)
(* the regions (RegionalStacks), side by side or one region at a time, and *)
(* register the tenancy with Datadog when all of them have succeeded.      *)
(*                                                                         *)
(* Terraform is not part of the repository.  It is modelled from what the  *)
(* files rely on: a resource waits for what it depends on, those whose     *)
(* dependencies have succeeded go on after a failure elsewhere, and the    *)
(* state remembers the resources that were created.                        *)
(***************************************************************************)
EXTENDS RegionalStacks, SigningKeys, PreCheck

CONSTANT Tenancies   \* tenancies the stack may be installed in

(* What differs between tenancies: what the checks find (PreCheck), the limit of a
   user's keys, the target regions of its runs, whether they are applied in order,
   and what goes wrong. *)
ASSUME InstallAssumption ==
    /\ Regions \subseteq Nat   \* sort() is by number
    /\ Tenancies \subseteq
          [home : BOOLEAN, image : BOOLEAN, names : SUBSET Names,
           owned : SUBSET Policies, vault : BOOLEAN, room : BOOLEAN,
           gov : BOOLEAN, reuse : BOOLEAN, old : SUBSET Usable,
           unread : SUBSET Queries, limit : Nat, plans : SUBSET SUBSET Regions,
           modes : SUBSET BOOLEAN, mishaps : SUBSET Budgets]

VARIABLES
    tenancy,     \* the tenancy of the stack
    marker,      \* precheck_marker is in the state
    created,     \* resources of auth, and "vault" of kms, in the state
    tracked,     \* instances of regional_stacks_destroy in the state
    targets,     \* target_regions_for_stacks of this run
    images,      \* those of docker_image_enabled_regions
    sequential,  \* apply_regional_stacks_sequentially
    phase,       \* "idle", "check", "build", "apply" or "destroy"
    result,      \* of the last run
    registered,  \* signing key Datadog has, 0 when the tenancy is unknown to it
    reported,    \* regions_config.available in Datadog
    strays       \* history: regions a cancelled run had started but not tracked

terraform == <<tenancy, marker, created, tracked, targets, images, sequential,
               phase, result, strays>>
datadog == <<registered, reported>>
vars == <<stackVars, keyVars, terraform, datadog>>

InstallInit ==
    /\ StacksInit /\ KeysInit
    /\ tenancy \in Tenancies /\ budget \in tenancy.mishaps
    /\ marker = FALSE /\ created = {} /\ tracked = {}
    /\ targets = {} /\ images = {} /\ sequential = FALSE
    /\ phase = "idle" /\ result = "none"
    /\ registered = 0 /\ reported = {} /\ strays = {}

-----------------------------------------------------------------------------
AuthReady == Names \subseteq created
KmsReady == "vault" \in created
Dropped == tracked \ targets

(* terraform apply, with the regions whose image docker_image_check.sh does not
   see left alone.  The regions the stack is no longer meant for are destroyed at
   once: nothing makes that wait for the checks. *)
Begin(c, T, unseen, inOrder) ==
    /\ phase = "idle" /\ result # "removed"
    /\ wanted' = c
    /\ StartDelete(tracked \ T)
    /\ IF unseen = {} THEN UNCHANGED budget ELSE Fault("image")
    /\ targets' = T /\ images' = T \ unseen /\ sequential' = inOrder
    /\ phase' = "check" /\ result' = "none"
    /\ UNCHANGED <<manager, misread, keyVars, tenancy, marker, created, tracked,
                   strays, datadog>>

(* What the checks would find now. *)
Seen == [tenancy EXCEPT !.names = @ \cup (created \cap Names),
                        !.owned = @ \cup (created \cap Policies),
                        !.vault = @ \/ KmsReady]

(* region_intersection_info, then precheck_marker unless it is in the state. *)
Check ==
    /\ phase = "check"
    /\ IF targets = {} \/ (~marker /\ Refuses(Seen))
       THEN phase' = "refused" /\ UNCHANGED marker
       ELSE phase' = "build" /\ marker' = TRUE
    /\ UNCHANGED <<stackVars, keyVars, tenancy, created, tracked, targets,
                   images, sequential, result, strays, datadog>>

(* Modules auth and kms create what is missing, each resource after those it
   depends on.  A call that is refused stops only what waits for its resource.
   The key script starts when auth is complete. *)
Provision ==
    /\ phase = "build"
    /\ \E refused \in SUBSET (Resources \ created) :
          /\ \/ refused = {} /\ UNCHANGED budget
             \/ Cardinality(refused) = 1 /\ Fault("refuse")
          /\ created' = created \cup
                {n \in Resources : Needs(n) \subseteq (Creatable(tenancy) \ refused) \cup created}
    /\ phase' = "apply"
    /\ keyStep' = IF Names \subseteq created' THEN "upload" ELSE "off"
    /\ UNCHANGED <<manager, script, wanted, misread, keys, newKey, tenancy, marker,
                   tracked, targets, images, sequential, result, strays, datadog>>

(* The instances of regional_stacks_destroy, which nothing orders with the
   regions' scripts. *)
Track ==
    /\ phase = "apply" /\ KmsReady
    /\ ~(targets \subseteq tracked)
    /\ tracked' = tracked \cup targets
    /\ UNCHANGED <<stackVars, keyVars, tenancy, marker, created, targets, images,
                   sequential, phase, result, strays, datadog>>

Startable ==
    IF phase # "apply" \/ ~AuthReady \/ ~KmsReady THEN {}
    ELSE {r \in targets : At(r, "off") /\
            (sequential => \A q \in targets : q < r => step[q] \in Succeeded)}

(* regional_stacks_create_apply_parallel or _sequential *)
StartScripts ==
    /\ Startable # {}
    /\ StartApply(Startable, images)
    /\ UNCHANGED <<keyVars, terraform, datadog>>

(* Seeded fault: module integration does not wait for module key. *)
RegisterEarly ==
    /\ phase = "apply" /\ result = "none"
    /\ keyStep \in KeyOver /\ newKey # 0 /\ \A r \in targets : step[r] \in Succeeded
    /\ AuthReady
    /\ \E ok, done \in BOOLEAN :
          /\ Call(ok, done)
          /\ IF done THEN registered' = newKey /\ reported' = targets \cap images
                     ELSE UNCHANGED datadog
          /\ result' = IF ok THEN "registered" ELSE "failed"
    /\ UNCHANGED <<manager, script, wanted, misread, keyVars, tenancy, marker, created,
                   tracked, targets, images, sequential, phase, strays>>

(* datadog_tenancy_integration of module integration, with final_regions. *)
Register ==
    /\ phase = "apply" /\ result = "none"
    /\ keyStep = "done" /\ \A r \in targets : step[r] \in Succeeded
    /\ \E ok, done \in BOOLEAN :
          /\ Call(ok, done)
          /\ IF done THEN registered' = newKey /\ reported' = targets \cap images
                     ELSE UNCHANGED datadog
          /\ result' = IF ok THEN "registered" ELSE "failed"
    /\ UNCHANGED <<manager, script, wanted, misread, keyVars, tenancy, marker, created,
                   tracked, targets, images, sequential, phase, strays>>

-----------------------------------------------------------------------------
(* terraform destroy: the tenancy is taken out of Datadog and the identity
   removed after it, while the regions are destroyed. *)
BeginDestroy ==
    /\ phase = "idle" /\ result \notin {"none", "removed"}
    /\ \A r \in Regions : step[r] \in Over
    /\ StartDelete(tracked)
    /\ targets' = {} /\ phase' = "destroy" /\ result' = "none"
    /\ UNCHANGED <<manager, wanted, chance, keyVars, tenancy, marker, created, tracked,
                   images, sequential, strays, datadog>>

Unregister ==
    /\ phase = "destroy" /\ result = "none" /\ registered # 0
    /\ \E ok, done \in BOOLEAN :
          /\ Call(ok, done)
          /\ IF done THEN registered' = 0 /\ reported' = {} ELSE UNCHANGED datadog
          /\ result' = IF ok THEN "none" ELSE "failed"
    /\ UNCHANGED <<manager, script, wanted, misread, keyVars, tenancy, marker, created,
                   tracked, targets, images, sequential, phase, strays>>

(* The user goes with its keys. *)
RemoveIdentity ==
    /\ phase = "destroy" /\ result = "none" /\ registered = 0
    /\ created # {}
    /\ \/ created' = {} /\ keys' = {} /\ UNCHANGED <<result, budget>>
       \/ result' = "failed" /\ Fault("refuse") /\ UNCHANGED <<created, keys>>
    /\ UNCHANGED <<manager, script, wanted, misread, keyStep, newKey, tenancy, marker,
                   tracked, targets, images, sequential, phase, strays, datadog>>

-----------------------------------------------------------------------------
(* Seeded fault: a destroy provisioner that fails is passed over. *)
KeptNot == tracked \ Dropped

(* A destroy provisioner that has succeeded takes its instance out of the state. *)
Kept == tracked \ {r \in Dropped : At(r, "deleted")}

Quiet ==
    /\ \A r \in Regions : step[r] \in Over
    /\ keyStep \in KeyOver
    /\ Startable = {}

RunOver ==
    /\ phase' = "idle" /\ targets' = {} /\ images' = {} /\ sequential' = FALSE
    /\ StartDelete({}) /\ keyStep' = "off" /\ newKey' = 0
    /\ tracked' = Kept

(* The run has nothing left to do. *)
EndApply ==
    /\ phase \in {"apply", "refused"} /\ Quiet
    /\ phase = "apply" =>
          /\ KmsReady => targets \subseteq tracked
          /\ result = "none" => keyStep # "done"
                                \/ \E r \in targets : step[r] \notin Succeeded
    /\ result' = IF phase = "refused" THEN "refused"
                 ELSE IF result = "registered" /\ Kept = targets THEN "ok"
                 ELSE "failed"
    /\ RunOver
    /\ UNCHANGED <<manager, wanted, chance, keys, tenancy, marker, created, strays,
                   datadog>>

EndDestroy ==
    /\ phase = "destroy" /\ Quiet
    /\ result = "none" => created = {}
    /\ IF result = "none" /\ Kept = {} THEN result' = "removed" /\ marker' = FALSE
       ELSE result' = "failed" /\ UNCHANGED marker
    /\ RunOver
    /\ UNCHANGED <<manager, wanted, chance, keys, tenancy, created, strays, datadog>>

(* The job of the whole stack is cancelled; jobs it has created go on. *)
Cancel ==
    /\ phase # "idle" /\ Fault("kill")
    /\ strays' = strays \cup
          {r \in targets \ tracked : step[r] \notin {"off", "skipped"}}
    /\ result' = "failed" /\ RunOver
    /\ UNCHANGED <<manager, wanted, misread, keys, tenancy, marker, created, datadog>>

-----------------------------------------------------------------------------
(* Each run brings another configuration than the last. *)
BeginSome(T, unseen) ==
    \E c \in Configs \ {wanted}, inOrder \in tenancy.modes :
        Begin(c, T, unseen, inOrder)
AnyBegin ==
    \E T \in tenancy.plans :
        \E unseen \in {{}} \cup {{r} : r \in T} : BeginSome(T, unseen)

Scripts ==
    \/ /\ \/ \E r \in Regions : ApplyStep(r) \/ DeleteStep(r)
          \/ \E r \in Regions : WaitEnds(r) \/ ManagerStep(r)
       /\ UNCHANGED <<keyVars, terraform, datadog>>
    \/ /\ KeyStep({registered}, tenancy.limit)
       /\ UNCHANGED <<manager, script, wanted, misread, terraform, datadog>>
Terraform ==
    \/ Check \/ Provision \/ Track \/ StartScripts \/ Register
    \/ Unregister \/ RemoveIdentity
    \/ EndApply \/ EndDestroy

InstallNext == AnyBegin \/ BeginDestroy \/ Scripts \/ Terraform \/ Cancel

(* Whatever has been started goes on, and the stack is applied again and again. *)
Fairness ==
    /\ WF_vars(Scripts \/ Terraform)
    /\ SF_vars(\E T \in tenancy.plans \ {{}} : BeginSome(T, {}))

InstallSpec == InstallInit /\ [][InstallNext]_vars /\ Fairness

-----------------------------------------------------------------------------
(* Properties. *)

(* The type invariant of the stack. *)
InstallTypeOK ==
    /\ StacksTypeOK
    /\ keys \subseteq KeyIds /\ newKey \in KeyIds \cup {0}
    /\ keyStep \in KeyOver \cup {"upload", "evict", "again", "poll"}
    /\ tenancy \in Tenancies /\ marker \in BOOLEAN
    /\ created \subseteq Resources
    /\ tracked \subseteq Regions /\ targets \subseteq Regions
    /\ images \subseteq Regions /\ sequential \in BOOLEAN
    /\ phase \in {"idle", "check", "refused", "build", "apply", "destroy"}
    /\ result \in {"none", "registered", "ok", "refused", "failed", "removed"}
    /\ registered \in KeyIds \cup {0} /\ reported \subseteq Regions
    /\ strays \subseteq Regions

(* A run that succeeds has told Datadog only of regions where a stack now is as
   this run wants it, with no job of an earlier run still to come; and no two of
   them unless a failed list was read as an empty one. *)
SuccessMeansServed ==
    phase = "idle" /\ result = "ok" =>
        \A r \in reported :
            /\ \E s \in Existing(r) :
                  config[r][s] = wanted /\ live[r][s] = wanted /\ jobs[r][s] = <<>>
            /\ ~misread => Cardinality(Existing(r)) = 1

(* The key Datadog signs with is one of the user's whenever a run has succeeded:
   only between a run that failed and the next success can it be missing, deleted
   at the limit before its successor was registered (modules/key/main.tf:90-96). *)
KeyInForce ==
    phase = "idle" /\ result \notin {"failed", "refused"} =>
        registered \in keys \cup {0}

(* A region that still has resources, or jobs that may create some, is one the
   state will destroy, or one the run under way is for; the exceptions are a
   list that failed, and a cancelled run that had not tracked the region yet. *)
ForgottenNothing ==
    ~misread =>
        \A r \in Regions \ (tracked \cup strays) :
            (\E s \in Stacks : ~Empty(r, s)) => phase = "apply" /\ r \in targets

(* What the checks accept, the services do not refuse for a name that is taken
   or a vault that cannot be had: the exceptions are the policies tagged as
   Datadog's, and a quota the checks leave out on purpose. *)
NoSurprise ==
    marker =>
        /\ tenancy.names \subseteq tenancy.owned
        /\ ~VaultReady(tenancy) => ~tenancy.reuse /\ (tenancy.vault \/ tenancy.gov)

(* However its runs have failed, the stack is installed in the end when it is
   applied again and again, unless the checks refuse the tenancy or accept one
   in which a name or the vault cannot be had. *)
Converges ==
    []<>(\/ result \in {"ok", "removed"} \/ Refuses(tenancy)
         \/ ~VaultReady(tenancy) \/ tenancy.names # {})
=============================================================================
