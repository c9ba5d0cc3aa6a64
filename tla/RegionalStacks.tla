----------------------------- MODULE RegionalStacks -----------------------------
(***************************************************************************)
(* create_apply_regional_stack.sh and delete_stack.sh against the Resource *)
(* Manager of each region.  A script finds the stacks of the installation  *)
(* by their name, brings one up to date or destroys them all, and waits    *)
(* for the jobs it creates.  A call may be refused, or be taken for failed *)
(* although it went through; a wait may end before the job does, and the   *)
(* job then goes on without the script.                                    *)
(*                                                                         *)
(* Resource Manager is not part of the repository.  It is modelled from    *)
(* how the scripts use it: it runs the jobs of a stack one after another,  *)
(* in the order of their creation, each with the configuration the stack   *)
(* had then, and deletes a stack's record whatever its resources are.      *)
(***************************************************************************)
EXTENDS FaultBudget, Sequences

CONSTANTS
    Regions,    \* regions a script may be run for
    Configs,    \* contents of dd_regional_stack.zip, with the variables
    MaxStacks,  \* bound: stacks of the name a region can hold at once
    Attempts    \* of create-apply-job: 5

Stacks == 1..MaxStacks

ASSUME StacksAssumption ==
    /\ Configs # {} /\ Configs \cap {"none", "partial", "destroy"} = {}
    /\ MaxStacks \in Nat \ {0} /\ Attempts \in Nat \ {0}

VARIABLES
    config,   \* the configuration of each stack, "none" when there is no stack
    live,     \* what its resources are: of a configuration, "partial", "none"
    jobs,     \* its jobs, the oldest first: a configuration, or "destroy"
    step,     \* where the region's script is, or how it ended
    stack,    \* STACK_ID, 0 before one is chosen
    attempt,  \* of the loop that creates the apply job
    pending,  \* STACK_IDS delete_stack.sh has still to handle
    wanted,   \* the configuration of this run of Terraform
    misread   \* history: has a failed list been read as an empty one?

manager == <<config, live, jobs>>
script == <<step, stack, attempt, pending>>
chance == <<misread, budget>>
stackVars == <<manager, script, wanted, chance>>

Succeeded == {"applied", "skipped", "deleted"}
Over == Succeeded \cup {"failed", "off"}
Applying == {"list", "create", "update", "job", "wait"}
Deleting == {"find", "next", "destroy", "await", "remove"}

StacksInit ==
    /\ config = [r \in Regions |-> [s \in Stacks |-> "none"]]
    /\ live = [r \in Regions |-> [s \in Stacks |-> "none"]]
    /\ jobs = [r \in Regions |-> [s \in Stacks |-> <<>>]]
    /\ step = [r \in Regions |-> "off"]
    /\ stack = [r \in Regions |-> 0]
    /\ attempt = [r \in Regions |-> 1]
    /\ pending = [r \in Regions |-> {}]
    /\ wanted \in Configs
    /\ misread = FALSE /\ BudgetInit

-----------------------------------------------------------------------------
At(r, p) == step[r] = p
Goto(r, p) == step' = [step EXCEPT ![r] = p]
Existing(r) == {s \in Stacks : config[r][s] # "none"}
Empty(r, s) == live[r][s] = "none" /\ jobs[r][s] = <<>>
(* The last job that was created for a stack, "none" when none is left. *)
Newest(r, s) == IF jobs[r][s] = <<>> THEN "none" ELSE jobs[r][s][Len(jobs[r][s])]

Upload(r, s) == config' = [config EXCEPT ![r][s] = wanted]
Enqueue(r, s, j) == jobs' = [jobs EXCEPT ![r][s] = Append(@, j)]

-----------------------------------------------------------------------------
(* The scripts are started by Terraform, with the configuration of its run. *)

(* create_apply_regional_stack.sh leaves a region without the image alone. *)
StartApply(R, images) ==
    /\ step' = [r \in Regions |->
                  IF r \notin R THEN step[r]
                  ELSE IF r \in images THEN "list" ELSE "skipped"]
    /\ UNCHANGED <<manager, stack, attempt, pending, wanted, chance>>

(* The scripts of an earlier run are gone, those that destroy R start. *)
StartDelete(R) ==
    /\ step' = [r \in Regions |-> IF r \in R THEN "find" ELSE "off"]
    /\ stack' = [r \in Regions |-> 0]
    /\ attempt' = [r \in Regions |-> 1]
    /\ pending' = [r \in Regions |-> {}]

-----------------------------------------------------------------------------
(* create_apply_regional_stack.sh *)

(* Seeded fault: a stack of another configuration is not found. *)
ListStacksOfConfig(r) ==
    /\ At(r, "list")
    /\ \/ /\ \E s \in Existing(r) :
                config[r][s] = wanted /\ stack' = [stack EXCEPT ![r] = s]
          /\ Goto(r, "update")
       \/ /\ \A s \in Existing(r) : config[r][s] # wanted
          /\ Goto(r, "create")
          /\ UNCHANGED stack
    /\ UNCHANGED <<manager, attempt, pending, wanted, chance>>

(* STACK_ID="${STACK_IDS[0]}".  The exit status of the list is lost in the
   pipe to jq, so that a failed one is an empty STACK_IDS. *)
ListStacks(r) ==
    /\ At(r, "list")
    /\ \/ /\ \E s \in Existing(r) : stack' = [stack EXCEPT ![r] = s]
          /\ Goto(r, "update")
          /\ UNCHANGED chance
       \/ /\ Existing(r) = {}
          /\ Goto(r, "create")
          /\ UNCHANGED <<stack, chance>>
       \/ /\ Existing(r) # {} /\ Fault("list")
          /\ Goto(r, "create")
          /\ misread' = TRUE
          /\ UNCHANGED stack
    /\ UNCHANGED <<manager, attempt, pending, wanted>>

(* A creation that fails, or is not ACTIVE in time, ends the script (set -e). *)
CreateStack(r) ==
    /\ At(r, "create")
    /\ \E s \in Stacks \ Existing(r), ok, done \in BOOLEAN :
          /\ Call(ok, done)
          /\ IF done THEN Upload(r, s) ELSE UNCHANGED config
          /\ stack' = [stack EXCEPT ![r] = s]
          /\ Goto(r, IF ok THEN "job" ELSE "failed")
    /\ UNCHANGED <<live, jobs, attempt, pending, wanted, misread>>

(* Seeded fault: an existing stack is applied as it is. *)
UpdateStackNot(r) ==
    /\ At(r, "update")
    /\ Goto(r, "job")
    /\ UNCHANGED <<manager, stack, attempt, pending, wanted, chance>>

UpdateStack(r) ==
    /\ At(r, "update")
    /\ \E ok, done \in BOOLEAN :
          /\ Call(ok, done)
          /\ IF done THEN Upload(r, stack[r]) ELSE UNCHANGED config
          /\ Goto(r, IF ok THEN "job" ELSE "failed")
    /\ UNCHANGED <<live, jobs, stack, attempt, pending, wanted, misread>>

(* Seeded fault: one attempt too many. *)
NextAttemptMore(r) ==
    IF attempt[r] <= Attempts
    THEN Goto(r, "job") /\ attempt' = [attempt EXCEPT ![r] = @ + 1]
    ELSE Goto(r, "failed") /\ UNCHANGED attempt

(* for attempt in {1..5} *)
NextAttempt(r) ==
    IF attempt[r] < Attempts
    THEN Goto(r, "job") /\ attempt' = [attempt EXCEPT ![r] = @ + 1]
    ELSE Goto(r, "failed") /\ UNCHANGED attempt

(* A job whose creation seemed to fail is not looked for. *)
CreateApplyJob(r) ==
    /\ At(r, "job")
    /\ \E ok, done \in BOOLEAN :
          /\ Call(ok, done)
          /\ IF done THEN Enqueue(r, stack[r], config[r][stack[r]])
                     ELSE UNCHANGED jobs
          /\ IF ok THEN Goto(r, "wait") /\ UNCHANGED attempt
                   ELSE NextAttempt(r)
    /\ UNCHANGED <<config, live, stack, pending, wanted, misread>>

(* The CLI gives up waiting: the attempt has failed, the job goes on. *)
ApplyWaitEnds(r) ==
    /\ At(r, "wait") /\ Fault("wait")
    /\ NextAttempt(r)
    /\ UNCHANGED <<manager, stack, pending, wanted, misread>>

-----------------------------------------------------------------------------
(* delete_stack.sh *)

FindStacks(r) ==
    /\ At(r, "find")
    /\ \/ /\ pending' = [pending EXCEPT ![r] = Existing(r)]
          /\ Goto(r, "next")
          /\ UNCHANGED chance
       \/ /\ Existing(r) # {} /\ Fault("list")
          /\ misread' = TRUE
          /\ Goto(r, "deleted")
          /\ UNCHANGED pending
    /\ UNCHANGED <<manager, stack, attempt, wanted>>

(* for STACK_ID in "${STACK_IDS[@]}" *)
NextStack(r) ==
    /\ At(r, "next")
    /\ \/ /\ \E s \in pending[r] : stack' = [stack EXCEPT ![r] = s]
          /\ Goto(r, "destroy")
       \/ /\ pending[r] = {}
          /\ Goto(r, "deleted")
          /\ UNCHANGED stack
    /\ UNCHANGED <<manager, attempt, pending, wanted, chance>>

CreateDestroyJob(r) ==
    /\ At(r, "destroy")
    /\ \E ok, done \in BOOLEAN :
          /\ Call(ok, done)
          /\ IF done THEN Enqueue(r, stack[r], "destroy") ELSE UNCHANGED jobs
          /\ Goto(r, IF ok THEN "await" ELSE "failed")
    /\ UNCHANGED <<config, live, stack, attempt, pending, wanted, misread>>

DestroyWaitEnds(r) ==
    /\ At(r, "await") /\ Fault("wait")
    /\ Goto(r, "failed")
    /\ UNCHANGED <<manager, stack, attempt, pending, wanted, misread>>

(* The result of the deletion is not looked at. *)
RemoveStack(r) ==
    /\ At(r, "remove")
    /\ \E ok, done \in BOOLEAN :
          /\ Call(ok, done)
          /\ IF done THEN config' = [config EXCEPT ![r][stack[r]] = "none"]
                     ELSE UNCHANGED config
    /\ pending' = [pending EXCEPT ![r] = @ \ {stack[r]}]
    /\ Goto(r, "next")
    /\ UNCHANGED <<live, jobs, stack, attempt, wanted, misread>>

-----------------------------------------------------------------------------
(* Resource Manager runs the oldest job of a stack. *)

(* Does the script wait for this job?  Its own is the newest one. *)
Awaited(r, s) ==
    step[r] \in {"wait", "await"} /\ stack[r] = s /\ Len(jobs[r][s]) = 1

(* Seeded fault: the state of the destroy job is not looked at. *)
EndsUnchecked(r, s, good) ==
    step' = IF ~Awaited(r, s) THEN step
            ELSE [step EXCEPT ![r] =
                    IF @ = "await" THEN "remove"
                    ELSE IF good THEN "applied" ELSE "failed"]

(* JOB_STATE, read by the script that waits for the job. *)
Ends(r, s, good) ==
    step' = IF ~Awaited(r, s) THEN step
            ELSE [step EXCEPT ![r] =
                    IF ~good THEN "failed"
                    ELSE IF @ = "wait" THEN "applied" ELSE "remove"]

JobSucceeds(r, s) ==
    /\ jobs[r][s] # <<>>
    /\ live' = [live EXCEPT ![r][s] = IF Head(jobs[r][s]) = "destroy" THEN "none"
                                      ELSE Head(jobs[r][s])]
    /\ jobs' = [jobs EXCEPT ![r][s] = Tail(@)]
    /\ Ends(r, s, TRUE)
    /\ UNCHANGED <<config, stack, attempt, pending, wanted, chance>>

JobFails(r, s) ==
    /\ jobs[r][s] # <<>> /\ Fault("job")
    /\ \/ UNCHANGED live
       \/ live' = [live EXCEPT ![r][s] = "partial"]
    /\ jobs' = [jobs EXCEPT ![r][s] = Tail(@)]
    /\ Ends(r, s, FALSE)
    /\ UNCHANGED <<config, stack, attempt, pending, wanted, misread>>

-----------------------------------------------------------------------------
ApplyStep(r) ==
    ListStacks(r) \/ CreateStack(r) \/ UpdateStack(r) \/ CreateApplyJob(r)
DeleteStep(r) ==
    FindStacks(r) \/ NextStack(r) \/ CreateDestroyJob(r) \/ RemoveStack(r)
WaitEnds(r) == ApplyWaitEnds(r) \/ DestroyWaitEnds(r)
ManagerStep(r) == \E s \in Stacks : JobSucceeds(r, s) \/ JobFails(r, s)

StacksStep(r) ==
    ApplyStep(r) \/ DeleteStep(r) \/ WaitEnds(r) \/ ManagerStep(r)

(* Any run of Terraform, also when the last one was cancelled: some regions are
   destroyed, others applied.  Other parts of the run meet faults too. *)
AnyRun ==
    /\ wanted' \in Configs
    /\ \E R \in SUBSET Regions : StartDelete(R)
    /\ budget' \in [AllFaults -> Nat]
    /\ UNCHANGED <<manager, misread>>
AnyApply ==
    \E R, images \in SUBSET Regions :
        /\ \A r \in R : At(r, "off")
        /\ StartApply(R, images)
OtherFault ==
    /\ budget' \in [AllFaults -> Nat]
    /\ UNCHANGED <<manager, script, wanted, misread>>

StacksNext ==
    AnyRun \/ AnyApply \/ OtherFault \/ \E r \in Regions : StacksStep(r)

StacksSpec == StacksInit /\ [][StacksNext]_stackVars

-----------------------------------------------------------------------------
(* Properties. *)

(* The type invariant of the two scripts and of Resource Manager. *)
StacksTypeOK ==
    /\ config \in [Regions -> [Stacks -> Configs \cup {"none"}]]
    /\ live \in [Regions -> [Stacks -> Configs \cup {"none", "partial"}]]
    /\ jobs \in [Regions -> [Stacks -> Seq(Configs \cup {"destroy"})]]
    /\ step \in [Regions -> Over \cup Applying \cup Deleting]
    /\ stack \in [Regions -> 0..MaxStacks]
    /\ attempt \in [Regions -> 1..Attempts]
    /\ pending \in [Regions -> SUBSET Stacks]
    /\ wanted \in Configs
    /\ misread \in BOOLEAN /\ budget \in [AllFaults -> Nat]

(* Resources, and jobs that may still create some, always belong to a stack
   Resource Manager knows: delete_stack.sh never deletes the record of a stack
   whose resources a failed, abandoned or older job has left, after which
   nothing could destroy them (delete_stack.sh:42-48). *)
NoOrphans ==
    \A r \in Regions : \A s \in Stacks \ Existing(r) : Empty(r, s)

(* However often creations time out and runs are repeated, a region has one
   stack of the name at most, unless a failed list was taken for an empty one
   (create_apply_regional_stack.sh:37). *)
OneStack ==
    ~misread => \A r \in Regions : \A s, t \in Existing(r) : s = t

(* A create_apply_regional_stack.sh that exits with 0 has left its stack's
   resources as this run wants them, and no job of this or an earlier run can
   change them any more. *)
AppliedMeansCurrent ==
    \A r \in Regions : At(r, "applied") =>
        /\ live[r][stack[r]] = wanted
        /\ jobs[r][stack[r]] = <<>>

(* A delete_stack.sh that exits with 0 has left no resources in the region,
   whatever jobs earlier scripts had left there, unless its list failed. *)
DeletedMeansGone ==
    \A r \in Regions : At(r, "deleted") /\ ~misread =>
        \A s \in Stacks : Empty(r, s)

(* The strengthening: what each script may rely on where it is. *)
ApplyKnows(r) ==
    /\ At(r, "create") /\ ~misread => Existing(r) = {}
    /\ step[r] \in {"update", "job", "wait", "applied"} => stack[r] \in Existing(r)
    /\ step[r] \in {"job", "wait", "applied"} => config[r][stack[r]] = wanted
    /\ At(r, "wait") => Newest(r, stack[r]) = wanted
DeleteKnows(r) ==
    /\ pending[r] \subseteq Existing(r)
    /\ step[r] \in {"destroy", "await", "remove"} => stack[r] \in pending[r]
    /\ At(r, "await") => Newest(r, stack[r]) = "destroy"
    /\ At(r, "remove") => Empty(r, stack[r])
    /\ step[r] \in {"next", "destroy", "await", "remove"} /\ ~misread =>
          \A s \in Stacks \ pending[r] : Empty(r, s)
=============================================================================
