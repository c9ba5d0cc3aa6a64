-------------------------------- MODULE Cleanup --------------------------------
(***************************************************************************)
(* The cleanup tool: a run discovers the tenancy, asks the operator about  *)
(* what it cannot prove to be Datadog's, cleans the regions concurrently,  *)
(* then the home region's IAM, the tags, the parent stack and the          *)
(* compartment.  A run may be a dry run, be killed, or meet refusals, lost *)
(* answers and failing lists; it is repeated until nothing is left.  OCI   *)
(* is modelled permissively: it deletes whatever it is asked to delete,    *)
(* so that every ordering is the tool's own.                               *)
(***************************************************************************)
EXTENDS Integers, FiniteSets

CONSTANTS
    Regions,        \* subscribed regions
    Workers,        \* --region-workers
    Installed,      \* [Regions -> kinds of resource installed there]
    Untagged,       \* regions whose stack has lost its ownedby tag
    InvalidGroups,  \* dynamic groups that fail the ownership-chain validation
    Modes,          \* command lines: [execute, parent, compartment, approved]
    OcidGiven,      \* do they name the compartment (--compartment-ocid)?
    Faults,         \* what may go wrong, see below
    MaxFaults       \* bound: how many times something goes wrong

(* The region's kinds in the order cleanup_region handles them; "job" and
   "wait" are the steps of a stack before its record. *)
Order == <<"job", "wait", "stack", "connector", "rule", "stream", "bucket",
           "function", "app", "extra", "subnet", "gateway", "vcn",
           "secret", "key", "vault">>
Kinds == {"stack", "connector", "rule", "stream", "bucket", "function", "app", "extra",
          "subnet", "gateway", "vcn", "secret", "key", "vault"}
Steps == Kinds \cup {"job", "wait"}
Services == {"connector", "rule", "stream", "bucket", "function", "app",
             "gateway", "vcn"}
Network == {"extra", "subnet", "gateway", "vcn"}
Kms == {"secret", "key", "vault"}
(* What a regional stack manages. *)
Managed == {"function", "app", "subnet", "gateway", "vcn"} \cup Kms

HomeOrder == <<"connectorGroup", "functionGroup", "userPolicy",
               "dynamicPolicy", "apiKey", "userGroup", "user",
               "tag", "namespace", "parent", "compartment">>
Groups == {"connectorGroup", "functionGroup"}
Identity == {"userPolicy", "dynamicPolicy", "apiKey", "userGroup", "user"}
HomeKinds == Groups \cup Identity \cup {"tag", "namespace", "parent", "compartment"}

(* The pairs of a list, the earlier one first. *)
Pairs(list) == {<<list[p[1]], list[p[2]]>> :
                   p \in {q \in (DOMAIN list) \X (DOMAIN list) : q[1] < q[2]}}
Precedes == Pairs(Order)
HomePrecedes == Pairs(HomeOrder)

Questions == ({"stack", "extra"} \X Regions) \cup ({"group"} \X Groups)
AllFaults == {"refuse",       \* a delete fails, nothing has changed
              "timeout",      \* it fails or is not answered, yet happens
              "quiet",        \* it is taken for done, and does not happen
              "list",         \* a list or a get fails
              "unauthorised", \* discovery skips regions
              "kill"}         \* the process ends

ASSUME ConstantsAssumption ==
    /\ IsFiniteSet(Regions) /\ Workers \in Nat \ {0} /\ MaxFaults \in Nat
    /\ Installed \in [Regions -> SUBSET Kinds]
    /\ \A r \in Regions : "extra" \in Installed[r] => "subnet" \in Installed[r]
    /\ \A r \in Regions : "key" \in Installed[r] => "vault" \in Installed[r]
    /\ Untagged \subseteq Regions /\ InvalidGroups \subseteq Groups
    /\ Modes \subseteq [execute : BOOLEAN, parent : BOOLEAN,
                        compartment : BOOLEAN, approved : SUBSET Questions]
    /\ OcidGiven \in BOOLEAN
    /\ Faults \subseteq AllFaults

VARIABLES
    live,       \* the resources of each region
    scheduled,  \* secrets, keys and vaults pending deletion
    job,        \* newest destroy job of a region's stack
    home,       \* the resources of the home region
    args,       \* the command line of the run
    stage,      \* "idle", "regions" or "home"
    context,    \* the regions discovery found accessible
    started,    \* regions a worker has taken
    todo,       \* per region, the kinds still to handle
    plan,       \* the home kinds still to handle
    failures,   \* has a failure been recorded?
    kmsPending, \* self.kms_pending
    groupsGone, \* dynamic_groups_deleted
    answer,     \* exit status of the last run: "none", "0", "1"
    misled,     \* history: has a quiet failure been met?
    budget      \* faults still to come

tenancy == <<live, scheduled, job, home>>
choices == <<args, context>>
progress == <<started, todo, plan>>
notes == <<failures, kmsPending, groupsGone>>
world == <<misled, budget>>
vars == <<tenancy, choices, stage, progress, notes, answer, world>>

Init ==
    /\ live = Installed
    /\ scheduled = [r \in Regions |-> {}]
    /\ job = [r \in Regions |-> "none"]
    /\ home = HomeKinds
    /\ args \in Modes /\ stage = "idle" /\ context = {}
    /\ started = {} /\ todo = [r \in Regions |-> {}] /\ plan = {}
    /\ failures = FALSE /\ kmsPending = FALSE /\ groupsGone = TRUE
    /\ answer = "none" /\ misled = FALSE /\ budget = MaxFaults

-----------------------------------------------------------------------------
(* How calls to OCI end. *)

Fault(f) == f \in Faults /\ budget > 0 /\ budget' = budget - 1

(* A delete command: what OciCli.run reports, and whether it is gone. *)
Answered(ok, gone) ==
    /\ \/ ok /\ gone /\ UNCHANGED budget
       \/ ~ok /\ ~gone /\ Fault("refuse")
       \/ ~ok /\ gone /\ Fault("timeout")
       \/ ok /\ ~gone /\ Fault("quiet")
    /\ misled' = (misled \/ (ok /\ ~gone))

(* CleanupBase.action: a dry run only plans, and reports success. *)
Action(ok, gone) ==
    \/ ~args.execute /\ ok /\ ~gone /\ UNCHANGED world
    \/ args.execute /\ Answered(ok, gone)

Approved(question) == args.execute /\ question \in args.approved

-----------------------------------------------------------------------------
(* The run begins: discovery and the confirmations. *)

(* What each region's worker will look at. *)
Handles(r, k) ==
    \/ k \in Installed[r]
    \/ k \in {"job", "wait"} /\ "stack" \in live[r]

Unanswered(m, ctx) ==
    ({<<"extra", r>> : r \in {q \in ctx : "extra" \in live[q]}}
     \cup {<<"group", g>> : g \in InvalidGroups \cap home})
    \ (IF m.execute THEN m.approved ELSE {})

(* What tells discovery which compartment is Datadog's: the command line, the
   compartment's own tag, or a resource in it that carries ownedby.  Datadog's
   services give theirs the marker instead. *)
Owned(r) ==
    (live[r] \cup scheduled[r])
       \ ({"connector", "rule", "stream", "bucket", "extra"}
             \cup (IF r \in Untagged THEN {"stack"} ELSE {}))
Resolved(ctx) ==
    OcidGiven \/ "compartment" \in home \/ \E r \in ctx : Owned(r) # {}

(* The regions whose search was not refused. *)
Discovered(ctx) ==
    \/ ctx = Regions /\ UNCHANGED budget
    \/ ctx \in SUBSET Regions \ {Regions} /\ Fault("unauthorised")

Begin(m) ==
    /\ stage = "idle" /\ stage' = "regions"
    /\ args' = m
    /\ \E ctx \in SUBSET Regions :
          /\ Discovered(ctx) /\ ctx # {} /\ Resolved(ctx)
          /\ context' = ctx
    /\ started' = {}
    /\ todo' = [r \in Regions |->
                  {k \in Steps : r \in context' /\ Handles(r, k)}]
    /\ plan' = HomeKinds
    /\ failures' = (m.execute /\ Unanswered(m, context') # {})
    /\ kmsPending' = FALSE
    /\ groupsGone' = (Unanswered(m, context') \cap ({"group"} \X Groups) = {})
    /\ answer' = "none"
    /\ UNCHANGED <<tenancy, misled>>

-----------------------------------------------------------------------------
(* The workers and the regions. *)

Active == {r \in started : todo[r] # {}}
Waiting(r) == stage = "regions" /\ r \notin started /\ todo[r] # {}

(* A worker of the pool takes a region. *)
StartRegion(r) ==
    /\ Waiting(r) /\ Cardinality(Active) < Workers
    /\ started' = started \cup {r}
    /\ UNCHANGED <<tenancy, choices, stage, todo, plan, notes, answer, world>>

At(r, k) ==
    /\ stage = "regions" /\ r \in started
    /\ k \in todo[r] /\ \A j \in todo[r] : <<j, k>> \notin Precedes
Skip(r, kinds) == todo' = [todo EXCEPT ![r] = @ \ kinds]
Done(r, k) == Skip(r, {k})

(* Deleting an application deletes its functions, a vault its keys. *)
With(k) ==
    CASE k = "app" -> {"app", "function"}
      [] k = "vault" -> {"vault", "key"}
      [] OTHER -> {k}
Remove(r, k) == live' = [live EXCEPT ![r] = @ \ With(k)]
Fail(ok) == failures' = (failures \/ ~ok)

(* A list or a get raises: the rest of the region is skipped.  Seeded fault:
   the exception is only logged. *)
RaiseUnrecorded(r) ==
    /\ stage = "regions" /\ r \in Active /\ Fault("list")
    /\ Skip(r, Steps)
    /\ UNCHANGED <<tenancy, choices, stage, started, plan, notes, answer,
                   misled>>

Raise(r) ==
    /\ stage = "regions" /\ r \in Active /\ Fault("list")
    /\ Skip(r, Steps)
    /\ failures' = TRUE
    /\ UNCHANGED <<tenancy, choices, stage, started, plan, kmsPending,
                   groupsGone, answer, misled>>

(* The stack's destroy job: the newest one decides.  Its failure, or that of
   the calls, does not keep the record from being deleted. *)
StackAllowed(r) == r \notin Untagged \/ Approved(<<"stack", r>>)

(* Seeded fault: no dry-run gate before the job. *)
DestroyUngated(r) ==
    /\ At(r, "job")
    /\ \/ job[r] = "succeeded" /\ Skip(r, {"job", "wait"}) /\ UNCHANGED job
       \/ job[r] \in {"none", "failed"} /\ job' = [job EXCEPT ![r] = "running"]
          /\ Done(r, "job")
    /\ UNCHANGED <<live, scheduled, home, choices, stage, started, plan,
                   notes, answer, world>>

Destroy(r) ==
    /\ At(r, "job")
    /\ \/ /\ ~args.execute \/ ~StackAllowed(r) \/ job[r] = "succeeded"
          /\ Skip(r, {"job", "wait"})
          /\ UNCHANGED job
       \/ /\ args.execute /\ StackAllowed(r) /\ job[r] \in {"none", "failed"}
          /\ job' = [job EXCEPT ![r] = "running"]
          /\ Done(r, "job")
    /\ UNCHANGED <<live, scheduled, home, choices, stage, started, plan,
                   notes, answer, world>>

JobOver(r) ==
    /\ At(r, "wait") /\ job[r] # "running"
    /\ Done(r, "wait")
    /\ UNCHANGED <<tenancy, choices, stage, started, plan, notes, answer, world>>

(* The wait for a job of this run, or of an earlier one, is given up. *)
WaitFails(r) ==
    /\ At(r, "wait") \/ At(r, "job")
    /\ args.execute /\ StackAllowed(r) /\ job[r] = "running"
    /\ Fault("timeout")
    /\ Skip(r, {"job", "wait"})
    /\ UNCHANGED <<tenancy, choices, stage, started, plan, notes, answer, misled>>

(* Seeded fault: the stack is kept until a job has succeeded. *)
StackRecordIfDestroyed(r) ==
    /\ At(r, "stack")
    /\ \/ /\ args.execute /\ job[r] = "succeeded" /\ Remove(r, "stack")
          /\ UNCHANGED failures
       \/ /\ ~(args.execute /\ job[r] = "succeeded") /\ Fail(~args.execute)
          /\ UNCHANGED live
    /\ Done(r, "stack")
    /\ UNCHANGED <<scheduled, job, home, choices, stage, started, plan,
                   kmsPending, groupsGone, answer, world>>

StackRecord(r) ==
    /\ At(r, "stack")
    /\ \/ /\ "stack" \in live[r] /\ args.execute /\ ~StackAllowed(r)
          /\ failures' = TRUE
          /\ UNCHANGED <<live, world>>
       \/ /\ "stack" \notin live[r]
          /\ UNCHANGED <<live, world, failures>>
       \/ /\ "stack" \in live[r] /\ (args.execute => StackAllowed(r))
          /\ \E ok, gone \in BOOLEAN :
                /\ Action(ok, gone) /\ Fail(ok)
                /\ IF gone THEN Remove(r, "stack") ELSE UNCHANGED live
    /\ Done(r, "stack")
    /\ UNCHANGED <<scheduled, job, home, choices, stage, started, plan,
                   kmsPending, groupsGone, answer>>

(* An event rule may live outside the compartment: only the marker finds it. *)
Found(r, k) == k \in live[r] /\ (k = "rule" => "tag" \in home)

Absent(r, k) ==
    /\ At(r, k) /\ ~Found(r, k)
    /\ k \in Services
    /\ Done(r, k)
    /\ UNCHANGED <<tenancy, choices, stage, started, plan, notes, answer, world>>

(* Connectors, rules, streams, buckets, functions and their application, and
   what is left of the network after its guards. *)
Delete(r, k) ==
    /\ At(r, k) /\ Found(r, k)
    /\ k \in Services
    /\ \E ok, gone \in BOOLEAN :
          /\ Action(ok, gone) /\ Fail(ok)
          /\ IF gone THEN Remove(r, k) ELSE UNCHANGED live
    /\ Done(r, k)
    /\ UNCHANGED <<scheduled, job, home, choices, stage, started, plan,
                   kmsPending, groupsGone, answer>>

-----------------------------------------------------------------------------
(* The network: what is nested in it, the subnet, then the gateways and the
   VCN unless something remains. *)

Unapproved(r) == "extra" \in live[r] /\ ~Approved(<<"extra", r>>)

(* An approved extra is deleted; if that fails the rest of the network is
   skipped.  One that is not approved blocks what it is nested in. *)
DeleteExtra(r) ==
    /\ At(r, "extra")
    /\ \/ /\ "extra" \in live[r] /\ ~Unapproved(r)
          /\ \E ok, gone \in BOOLEAN :
                /\ Answered(ok, gone) /\ Fail(ok)
                /\ IF gone THEN Remove(r, "extra") ELSE UNCHANGED live
                /\ IF ok THEN Done(r, "extra") ELSE Skip(r, Network)
       \/ /\ Unapproved(r) \/ "extra" \notin live[r]
          /\ Done(r, "extra")
          /\ UNCHANGED <<live, failures, world>>
    /\ UNCHANGED <<scheduled, job, home, choices, stage, started, plan,
                   kmsPending, groupsGone, answer>>

(* Seeded fault: the subnet is deleted whatever is nested in it. *)
DeleteSubnetAnyway(r) ==
    /\ At(r, "subnet")
    /\ \/ /\ "subnet" \in live[r]
          /\ \E ok, gone \in BOOLEAN :
                /\ Action(ok, gone) /\ Fail(ok)
                /\ IF gone THEN Remove(r, "subnet") ELSE UNCHANGED live
                /\ IF ok THEN Done(r, "subnet") ELSE Skip(r, Network)
       \/ "subnet" \notin live[r] /\ Done(r, "subnet") /\ UNCHANGED <<live, failures, world>>
    /\ UNCHANGED <<scheduled, job, home, choices, stage, started, plan, kmsPending,
                   groupsGone, answer>>

(* The subnet, retried while service VNICs detach.  What remains blocks the
   gateways and the VCN, which is a failure of its own. *)
DeleteSubnet(r) ==
    /\ At(r, "subnet")
    /\ \/ /\ "subnet" \in live[r] /\ ~Unapproved(r)
          /\ \E ok, gone \in BOOLEAN :
                /\ Action(ok, gone)
                /\ IF gone THEN Remove(r, "subnet") ELSE UNCHANGED live
                /\ IF ok THEN Done(r, "subnet") ELSE Skip(r, Network)
                /\ Fail(ok)
       \/ /\ Unapproved(r)
          /\ failures' = TRUE /\ Skip(r, Network)
          /\ UNCHANGED <<live, world>>
       \/ /\ "subnet" \notin live[r] /\ ~Unapproved(r)
          /\ Done(r, "subnet")
          /\ UNCHANGED <<live, failures, world>>
    /\ UNCHANGED <<scheduled, job, home, choices, stage, started, plan, kmsPending,
                   groupsGone, answer>>

-----------------------------------------------------------------------------
(* KMS: OCI deletes secrets, keys and vaults only after a delay, a vault's keys
   with the vault. *)

(* Seeded fault: a scheduled resource is still taken for a live one. *)
ScheduleKept(r, k) ==
    /\ scheduled' = [scheduled EXCEPT ![r] = @ \cup (live[r] \cap With(k))]
    /\ UNCHANGED live

Schedule(r, k) ==
    /\ scheduled' = [scheduled EXCEPT ![r] = @ \cup (live[r] \cap With(k))]
    /\ Remove(r, k)

(* Keys are looked for in a live vault only.  Whatever is found, live or
   pending, and however the call ends, the run waits for KMS. *)
ScheduleKms(r, k) ==
    /\ At(r, k) /\ k \in Kms
    /\ \/ /\ k \in live[r] /\ (k = "key" => "vault" \in live[r])
          /\ \E ok, gone \in BOOLEAN :
                /\ Action(ok, gone) /\ Fail(ok)
                /\ IF gone THEN Schedule(r, k) ELSE UNCHANGED <<live, scheduled>>
          /\ kmsPending' = TRUE
       \/ /\ k \notin live[r] \/ (k = "key" /\ "vault" \notin live[r])
          /\ kmsPending' = (kmsPending \/ (k \in scheduled[r]
                              /\ (k = "key" => "vault" \in live[r])))
          /\ UNCHANGED <<live, scheduled, failures, world>>
    /\ Done(r, k)
    /\ UNCHANGED <<job, home, choices, stage, started, plan, groupsGone,
                   answer>>

-----------------------------------------------------------------------------
(* The home region: IAM whatever the regions did, the rest without failures. *)

JoinRegions ==
    /\ stage = "regions" /\ \A r \in Regions : todo[r] = {}
    /\ stage' = "home"
    /\ UNCHANGED <<tenancy, choices, progress, notes, answer, world>>

Handling(k) ==
    stage = "home" /\ k \in plan /\ \A j \in plan : <<j, k>> \notin HomePrecedes
HomeDone(k) == plan' = plan \ {k}

(* Deleting a namespace deletes its tags, a user its API keys. *)
HomeWith(k) ==
    CASE k = "namespace" -> {"namespace", "tag"}
      [] k = "user" -> {"user", "apiKey"}
      [] OTHER -> {k}
HomeAction(k, ok) ==
    \E gone \in BOOLEAN :
        /\ Action(ok, gone)
        /\ home' = IF gone THEN home \ HomeWith(k) ELSE home

(* Validated groups, and those the operator approved. *)
Validated(g) == g \notin InvalidGroups \/ Approved(<<"group", g>>)

(* Seeded fault: the outcome of the deletion is not looked at. *)
DeleteGroupUntracked(g) ==
    /\ Handling(g) /\ g \in Groups
    /\ IF g \in home /\ Validated(g)
       THEN \E ok \in BOOLEAN : HomeAction(g, ok) /\ Fail(ok)
       ELSE UNCHANGED <<home, failures, world>>
    /\ HomeDone(g)
    /\ UNCHANGED <<live, scheduled, job, choices, stage, started, todo,
                   kmsPending, groupsGone, answer>>

DeleteGroup(g) ==
    /\ Handling(g) /\ g \in Groups
    /\ IF g \in home /\ Validated(g)
       THEN \E ok \in BOOLEAN :
               /\ HomeAction(g, ok) /\ Fail(ok)
               /\ groupsGone' = (groupsGone /\ ok)
       ELSE UNCHANGED <<home, failures, groupsGone, world>>
    /\ HomeDone(g)
    /\ UNCHANGED <<live, scheduled, job, choices, stage, started, todo,
                   kmsPending, answer>>

(* The policy the groups' statements are in survives an incomplete cleanup of
   the groups; the user's policy, keys and group, and the user, do not wait. *)
DeleteIdentity(k) ==
    /\ Handling(k) /\ k \in Identity
    /\ IF k \in home /\ (k = "dynamicPolicy" => groupsGone)
       THEN \E ok \in BOOLEAN : HomeAction(k, ok) /\ Fail(ok)
       ELSE UNCHANGED <<home, failures, world>>
    /\ HomeDone(k)
    /\ UNCHANGED <<live, scheduled, job, choices, stage, started, todo,
                   kmsPending, groupsGone, answer>>

(* The tag and its namespace, the latter even if the tag's deletion failed. *)
DeleteTags(k) ==
    /\ Handling(k) /\ k \in {"tag", "namespace"}
    /\ k = "tag" => ~failures
    /\ IF k \in home
       THEN \E ok \in BOOLEAN : HomeAction(k, ok) /\ Fail(ok)
       ELSE UNCHANGED <<home, failures, world>>
    /\ HomeDone(k)
    /\ UNCHANGED <<live, scheduled, job, choices, stage, started, todo,
                   kmsPending, groupsGone, answer>>

(* The rest is preserved because of failures. *)
Preserve ==
    /\ Handling("tag") \/ Handling("parent")
    /\ failures
    /\ plan' = {}
    /\ UNCHANGED <<tenancy, choices, stage, started, todo, notes, answer, world>>

DeleteParent ==
    /\ Handling("parent") /\ ~failures
    /\ IF args.parent /\ "parent" \in home
       THEN \E ok \in BOOLEAN : HomeAction("parent", ok) /\ Fail(ok)
       ELSE UNCHANGED <<home, failures, world>>
    /\ HomeDone("parent")
    /\ UNCHANGED <<live, scheduled, job, choices, stage, started, todo,
                   kmsPending, groupsGone, answer>>

(* What compartment_residuals finds, in the regions of the run. *)
Residuals(r) == (live[r] \ {"rule"}) \cup scheduled[r]
Empty == ~kmsPending /\ \A r \in context : Residuals(r) = {}

(* Seeded fault: no inventory after the cleanup. *)
DeleteCompartmentUnchecked ==
    /\ Handling("compartment")
    /\ IF args.compartment /\ "compartment" \in home
       THEN \E ok \in BOOLEAN : HomeAction("compartment", ok) /\ Fail(ok)
       ELSE UNCHANGED <<home, failures, world>>
    /\ HomeDone("compartment")
    /\ UNCHANGED <<live, scheduled, job, choices, stage, started, todo,
                   kmsPending, groupsGone, answer>>

DeleteCompartment ==
    /\ Handling("compartment")
    /\ \/ /\ ~args.compartment
          /\ UNCHANGED <<home, failures, world>>
       \/ /\ args.compartment
          /\ "compartment" \notin home \/ (args.execute /\ ~Empty)
          /\ failures' = TRUE
          /\ UNCHANGED <<home, world>>
       \/ /\ args.compartment /\ "compartment" \in home
          /\ args.execute => Empty
          /\ \E ok \in BOOLEAN : HomeAction("compartment", ok) /\ Fail(ok)
    /\ HomeDone("compartment")
    /\ UNCHANGED <<live, scheduled, job, choices, stage, started, todo,
                   kmsPending, groupsGone, answer>>

(* The process is over, and its variables with it. *)
EndRun ==
    /\ stage' = "idle"
    /\ started' = {} /\ todo' = [r \in Regions |-> {}] /\ plan' = {}
    /\ failures' = FALSE /\ kmsPending' = FALSE /\ groupsGone' = TRUE

(* Discovery, or a list of the confirmations, raises: the run ends with 1. *)
DiscoveryFails(m) ==
    /\ stage = "idle"
    /\ args' = m /\ context' = {} /\ answer' = "1"
    /\ \/ \E ctx \in SUBSET Regions :
             Discovered(ctx) /\ (ctx = {} \/ ~Resolved(ctx))
       \/ Fault("list")
    /\ EndRun
    /\ UNCHANGED <<tenancy, misled>>

(* A list of these stages raises: the run ends there, with status 1. *)
Abort ==
    /\ Handling("apiKey") \/ (Handling("tag") /\ ~failures)
       \/ (Handling("parent") /\ ~failures /\ args.parent)
       \/ (Handling("compartment") /\ args.compartment /\ args.execute
           /\ "compartment" \in home)
    /\ Fault("list")
    /\ EndRun /\ answer' = "1"
    /\ UNCHANGED <<tenancy, choices, misled>>

(* Seeded fault: the exit status does not tell failures. *)
FinishZero ==
    /\ stage = "home" /\ plan = {}
    /\ EndRun /\ answer' = "0"
    /\ UNCHANGED <<tenancy, choices, world>>

Finish ==
    /\ stage = "home" /\ plan = {}
    /\ EndRun /\ answer' = IF failures THEN "1" ELSE "0"
    /\ UNCHANGED <<tenancy, choices, world>>

Kill ==
    /\ stage # "idle" /\ Fault("kill")
    /\ EndRun
    /\ UNCHANGED <<tenancy, choices, answer, misled>>

-----------------------------------------------------------------------------
(* The tenancy. *)

(* A destroy job ends, even one nobody waits for.  It cannot remove a network
   with something nested in it, and its other failures are free. *)
JobEnds(r) ==
    /\ job[r] = "running"
    /\ \/ /\ "extra" \notin live[r]
          /\ job' = [job EXCEPT ![r] = "succeeded"]
          /\ live' = [live EXCEPT ![r] = @ \ Managed]
          /\ scheduled' = [scheduled EXCEPT ![r] = @ \cup (live[r] \cap Kms)]
       \/ /\ job' = [job EXCEPT ![r] = "failed"]
          /\ UNCHANGED <<live, scheduled>>
    /\ UNCHANGED <<home, choices, stage, progress, notes, answer, world>>

(* The delay is over. *)
PendingEnds(r, k) ==
    /\ k \in scheduled[r]
    /\ scheduled' = [scheduled EXCEPT ![r] = @ \ With(k)]
    /\ UNCHANGED <<live, job, home, choices, stage, progress, notes, answer, world>>

RegionStep(r) ==
    \/ StartRegion(r) \/ Destroy(r) \/ JobOver(r) \/ StackRecord(r)
    \/ DeleteExtra(r) \/ DeleteSubnet(r)
    \/ \E k \in Kinds : Absent(r, k) \/ Delete(r, k) \/ ScheduleKms(r, k)

HomeStep ==
    \/ JoinRegions \/ Preserve \/ DeleteParent \/ DeleteCompartment \/ Finish
    \/ \E k \in HomeKinds : DeleteGroup(k) \/ DeleteIdentity(k) \/ DeleteTags(k)

Tenancy(r) == JobEnds(r) \/ \E k \in Kms : PendingEnds(r, k)

Next ==
    \/ HomeStep \/ Abort \/ Kill
    \/ \E m \in Modes : Begin(m) \/ DiscoveryFails(m)
    \/ \E r \in Regions : RegionStep(r) \/ WaitFails(r) \/ Raise(r) \/ Tenancy(r)

Spec == Init /\ [][Next]_vars

(* Every call returns, jobs and delays end, and the operator does not give up
   running the full command, approving what it asks about. *)
Full == [execute |-> TRUE, parent |-> TRUE, compartment |-> TRUE,
         approved |-> Questions]
FairSpec ==
    /\ Spec
    /\ WF_vars(HomeStep)
    /\ \A r \in Regions :
          /\ WF_vars(RegionStep(r)) /\ WF_vars(JobEnds(r))
          /\ \A k \in Kms : WF_vars(PendingEnds(r, k))
    /\ SF_vars(Begin(Full))

-----------------------------------------------------------------------------
(* Properties. *)

(* The type invariant.  What is pending deletion is not live. *)
TypeOK ==
    /\ live \in [Regions -> SUBSET Kinds]
    /\ scheduled \in [Regions -> SUBSET Kms]
    /\ \A r \in Regions : live[r] \cap scheduled[r] = {}
    /\ job \in [Regions -> {"none", "running", "succeeded", "failed"}]
    /\ home \subseteq HomeKinds
    /\ args \in Modes /\ stage \in {"idle", "regions", "home"}
    /\ context \subseteq Regions /\ started \subseteq context
    /\ todo \in [Regions -> SUBSET Steps] /\ plan \subseteq HomeKinds
    /\ failures \in BOOLEAN /\ kmsPending \in BOOLEAN /\ groupsGone \in BOOLEAN
    /\ answer \in {"none", "0", "1"}
    /\ misled \in BOOLEAN /\ budget \in 0..MaxFaults

(* A marker-only rule that no run can find any more: the tag is gone. *)
Lost == "tag" \notin home /\ \E r \in Regions : "rule" \in live[r]
Clean(r) == live[r] \subseteq (IF Lost THEN {"rule"} ELSE {})

(* The tenancy-wide teardown (tags, parent stack, compartment) begins only
   when nothing is left in the regions of the run, however the workers ended:
   by a failure, an exception, a refusal, or a resource preserved. *)
TeardownAfterClean ==
    /\ Handling("namespace") \/ Handling("parent") \/ Handling("compartment")
    /\ args.execute /\ ~misled
    => \A r \in context : Clean(r)

(* Exit status 0 of an execution: what the run looked at and was asked to
   remove is gone.  It says nothing of a region that discovery skipped as
   unauthorised (discovery.py:123-133), of a rule that only the tag that is gone
   would find, and of a tenancy in which a deletion was ever misreported. *)
ExitZeroMeansDone ==
    stage = "idle" /\ answer = "0" /\ args.execute /\ ~misled =>
        /\ \A r \in context : Clean(r)
        /\ home \subseteq (IF args.parent THEN {} ELSE {"parent"})
                          \cup (IF args.compartment THEN {} ELSE {"compartment"})

(* The compartment is deleted only when the regions of the run are empty, KMS
   deletions included, even if the run was told of deletions that never were,
   or had an earlier run's destroy jobs still at work. *)
CompartmentEmptied ==
    [][ "compartment" \in home /\ "compartment" \notin home'
        => \A r \in context : Residuals(r) = {} ]_vars

(* The policy that proves the dynamic groups to be Datadog's outlives them,
   over all the runs. *)
PolicyOutlivesGroups ==
    "dynamicPolicy" \notin home /\ ~misled => home \cap Groups = {}

(* Whatever is not Datadog's keeps the network around it. *)
ExtrasPreserved ==
    ~misled => \A r \in Regions :
        "extra" \in live[r] => Network \cap Installed[r] \subseteq live[r]

(* A dry run changes nothing: the regions only change by what earlier runs
   have set going. *)
DryRunReadOnly ==
    [][ ~args.execute =>
          /\ home' = home
          /\ \A r \in Regions :
                /\ job'[r] # job[r] => job[r] = "running"
                /\ live'[r] # live[r] =>
                      job'[r] # job[r] \/ scheduled'[r] # scheduled[r] ]_vars

(* The compartment is gone and nothing that is left tells a rerun which one it
   was: each exits with 1 at discovery (discovery.py:267-270). *)
Removed == home = {} /\ \A r \in Regions : live[r] = {}
Stranded == ~Removed /\ ~Resolved(Regions)

(* Rerun, the command ends up removing everything, whatever went wrong before,
   unless something is lost, or stranded by the removal of the compartment: by
   a deletion that was misreported, by a region that was skipped, or by a parent
   stack whose deletion failed just before the compartment's (engine.py:73-75). *)
Converges == <>(Removed \/ Lost \/ Stranded)

(* The tool's README: "Rerun the same command to retry resources that remain
   live."  Every one of them can still be found. *)
NothingLost == ~Lost
=============================================================================
