-------------------------- MODULE RegionalStacksProofs --------------------------
(***************************************************************************)
(* Proofs about RegionalStacks, for any number of regions, stacks, faults  *)
(* and runs.  The inductive invariant is, for each region, what its script *)
(* knows at each of its steps, next to the properties themselves.          *)
(***************************************************************************)
EXTENDS RegionalStacks, SequenceTheorems, FiniteSetTheorems, TLAPS

Owned(r) == \A s \in Stacks \ Existing(r) : Empty(r, s)
Single(r) == ~misread => \A s, t \in Existing(r) : s = t
Current(r) ==
    At(r, "applied") => live[r][stack[r]] = wanted /\ jobs[r][stack[r]] = <<>>
Gone(r) == At(r, "deleted") /\ ~misread => \A s \in Stacks : Empty(r, s)

Sound(r) ==
    /\ Owned(r) /\ Single(r) /\ Current(r) /\ Gone(r)
    /\ ApplyKnows(r) /\ DeleteKnows(r)

StacksInv == StacksTypeOK /\ \A r \in Regions : Sound(r)

USE StacksAssumption DEF Stacks

-----------------------------------------------------------------------------
(* Types. *)

(* A fault leaves the counts of the faults to come as counts. *)
LEMMA FaultType ==
    ASSUME budget \in [AllFaults -> Nat], NEW f \in AllFaults, Fault(f)
    PROVE  budget' \in [AllFaults -> Nat]
  BY DEF Fault

LEMMA CallType ==
    ASSUME budget \in [AllFaults -> Nat], NEW ok, NEW done, Call(ok, done)
    PROVE  budget' \in [AllFaults -> Nat]
  BY FaultType DEF Call, AllFaults

(* A queue stays a queue of jobs when one is added or the oldest has run. *)
LEMMA QueueType ==
    ASSUME NEW S, NEW q \in Seq(S), NEW j \in S
    PROVE  /\ Append(q, j) \in Seq(S)
           /\ q # <<>> => Tail(q) \in Seq(S) /\ Head(q) \in S
  OBVIOUS

(* So does a table of the regions' stacks when one entry changes. *)
LEMMA TableType ==
    ASSUME NEW V, NEW f \in [Regions -> [Stacks -> V]],
           NEW r \in Regions, NEW s, NEW v \in V
    PROVE  [f EXCEPT ![r][s] = v] \in [Regions -> [Stacks -> V]]
  OBVIOUS

Places == Over \cup Applying \cup Deleting

LEMMA GotoType ==
    ASSUME StacksTypeOK, NEW r \in Regions, NEW p \in Places, Goto(r, p)
    PROVE  step' \in [Regions -> Places]
  BY DEF StacksTypeOK, Goto, Places

(* The next attempt is one of the loop's, or the last has failed. *)
LEMMA NextAttemptType ==
    ASSUME StacksTypeOK, NEW r \in Regions, NextAttempt(r)
    PROVE  step' \in [Regions -> Places] /\ attempt' \in [Regions -> 1..Attempts]
<1>1. "job" \in Places /\ "failed" \in Places
  BY DEF Places, Over, Applying
<1>2. step' \in [Regions -> Places]
  BY <1>1, GotoType DEF NextAttempt
<1>3. attempt[r] \in 1..Attempts /\ (attempt[r] < Attempts => attempt[r] + 1 \in 1..Attempts)
  BY DEF StacksTypeOK
<1>4. attempt' \in [Regions -> 1..Attempts]
  BY <1>3 DEF StacksTypeOK, NextAttempt
<1> QED
  BY <1>2, <1>4

(* Adding a job keeps the table of the queues. *)
LEMMA EnqueueType ==
    ASSUME StacksTypeOK, NEW r \in Regions, NEW s \in Stacks,
           NEW j \in Configs \cup {"destroy"}, Enqueue(r, s, j)
    PROVE  jobs' \in [Regions -> [Stacks -> Seq(Configs \cup {"destroy"})]]
<1>1. Append(jobs[r][s], j) \in Seq(Configs \cup {"destroy"})
  BY QueueType DEF StacksTypeOK
<1> QED
  BY <1>1, TableType DEF StacksTypeOK, Enqueue

LEMMA UploadType ==
    ASSUME StacksTypeOK, NEW r \in Regions, NEW s, Upload(r, s)
    PROVE  config' \in [Regions -> [Stacks -> Configs \cup {"none"}]]
  BY TableType DEF StacksTypeOK, Upload

LEMMA StackType ==
    ASSUME StacksTypeOK, NEW r \in Regions, NEW s \in Stacks, stack' = [stack EXCEPT ![r] = s]
    PROVE  stack' \in [Regions -> 0..MaxStacks]
  BY DEF StacksTypeOK

(* A job that ends leaves its resources as they were meant, or partial. *)
LEMMA JobType ==
    ASSUME StacksTypeOK, NEW r \in Regions, NEW s \in Stacks, jobs[r][s] # <<>>
    PROVE  /\ Head(jobs[r][s]) \in Configs \cup {"destroy"}
           /\ [jobs EXCEPT ![r][s] = Tail(@)] \in
                 [Regions -> [Stacks -> Seq(Configs \cup {"destroy"})]]
<1>1. jobs[r][s] \in Seq(Configs \cup {"destroy"})
  BY DEF StacksTypeOK
<1>2. Tail(jobs[r][s]) \in Seq(Configs \cup {"destroy"})
      /\ Head(jobs[r][s]) \in Configs \cup {"destroy"}
  BY <1>1
<1> QED
  BY <1>2, TableType DEF StacksTypeOK

(* Every step keeps the types. *)
LEMMA TypeStep ==
    ASSUME StacksInv, StacksNext
    PROVE  StacksTypeOK'
<1>0. StacksTypeOK
  BY DEF StacksInv
<1>1. CASE AnyRun
  BY <1>0, <1>1 DEF StacksTypeOK, manager, AnyRun, StartDelete, Over, Deleting
<1>2. CASE AnyApply
  BY <1>0, <1>2 DEF StacksTypeOK, manager, chance, AnyApply, StartApply, Over, Succeeded, Applying
<1>3. CASE OtherFault
  BY <1>0, <1>3 DEF StacksTypeOK, manager, script, OtherFault
<1>4. CASE \E r \in Regions : StacksStep(r)
  <2> PICK r \in Regions : StacksStep(r)
    BY <1>4
  <2>0. {"applied", "skipped", "deleted", "failed", "list", "create", "update", "job",
         "wait", "find", "next", "destroy", "await", "remove"} \subseteq Places
    BY DEF Places, Over, Succeeded, Applying, Deleting
  <2>1. CASE ListStacks(r)
    <3>1. step' \in [Regions -> Places]
      BY <1>0, <2>1, <2>0, GotoType DEF ListStacks
    <3>2. stack' \in [Regions -> 0..MaxStacks]
      BY <1>0, <2>1, StackType DEF ListStacks, StacksTypeOK, Existing
    <3>3. budget' \in [AllFaults -> Nat]
      BY <1>0, <2>1, FaultType DEF ListStacks, StacksTypeOK, AllFaults, chance
    <3> QED
      BY <1>0, <2>1, <3>1, <3>2, <3>3 DEF ListStacks, StacksTypeOK, Places, manager, script, chance
  <2>2. CASE CreateStack(r)
    <3>1. step' \in [Regions -> Places]
      BY <1>0, <2>2, <2>0, GotoType DEF CreateStack
    <3>2. stack' \in [Regions -> 0..MaxStacks]
      BY <1>0, <2>2 DEF CreateStack, StacksTypeOK
    <3>3. budget' \in [AllFaults -> Nat]
      BY <1>0, <2>2, CallType DEF CreateStack, StacksTypeOK
    <3>4. config' \in [Regions -> [Stacks -> Configs \cup {"none"}]]
      BY <1>0, <2>2, UploadType DEF CreateStack, StacksTypeOK
    <3> QED
      BY <1>0, <2>2, <3>1, <3>2, <3>3, <3>4 DEF CreateStack, StacksTypeOK, Places, manager, script, chance
  <2>3. CASE UpdateStack(r)
    <3>1. step' \in [Regions -> Places]
      BY <1>0, <2>3, <2>0, GotoType DEF UpdateStack
    <3>2. budget' \in [AllFaults -> Nat]
      BY <1>0, <2>3, CallType DEF UpdateStack, StacksTypeOK
    <3>3. config' \in [Regions -> [Stacks -> Configs \cup {"none"}]]
      BY <1>0, <2>3, UploadType DEF UpdateStack, StacksTypeOK
    <3> QED
      BY <1>0, <2>3, <3>1, <3>2, <3>3 DEF UpdateStack, StacksTypeOK, Places, manager, script, chance
  <2>4. CASE CreateApplyJob(r)
    <3>1. step' \in [Regions -> Places]
      BY <1>0, <2>4, <2>0, GotoType, NextAttemptType DEF CreateApplyJob
    <3>2. attempt' \in [Regions -> 1..Attempts]
      BY <1>0, <2>4, NextAttemptType DEF CreateApplyJob, StacksTypeOK
    <3>3. budget' \in [AllFaults -> Nat]
      BY <1>0, <2>4, CallType DEF CreateApplyJob, StacksTypeOK
    <3>4. jobs' \in [Regions -> [Stacks -> Seq(Configs \cup {"destroy"})]]
      <4>1. stack[r] \in Stacks /\ config[r][stack[r]] \in Configs
        BY <1>0, <2>4 DEF CreateApplyJob, StacksTypeOK, StacksInv, Sound, ApplyKnows, Existing, At
      <4> QED
        BY <1>0, <2>4, <4>1, EnqueueType DEF CreateApplyJob, StacksTypeOK
    <3> QED
      BY <1>0, <2>4, <3>1, <3>2, <3>3, <3>4 DEF CreateApplyJob, StacksTypeOK, Places, manager, script, chance
  <2>5. CASE ApplyWaitEnds(r)
    <3>1. step' \in [Regions -> Places]
      BY <1>0, <2>5, NextAttemptType DEF ApplyWaitEnds
    <3>2. attempt' \in [Regions -> 1..Attempts]
      BY <1>0, <2>5, NextAttemptType DEF ApplyWaitEnds
    <3>3. budget' \in [AllFaults -> Nat]
      BY <1>0, <2>5, FaultType DEF ApplyWaitEnds, StacksTypeOK, AllFaults
    <3> QED
      BY <1>0, <2>5, <3>1, <3>2, <3>3 DEF ApplyWaitEnds, StacksTypeOK, Places, manager, script, chance
  <2>6. CASE FindStacks(r)
    <3>1. step' \in [Regions -> Places]
      BY <1>0, <2>6, <2>0, GotoType DEF FindStacks
    <3>2. pending' \in [Regions -> SUBSET Stacks]
      BY <1>0, <2>6 DEF FindStacks, StacksTypeOK, Existing
    <3>3. budget' \in [AllFaults -> Nat]
      BY <1>0, <2>6, FaultType DEF FindStacks, StacksTypeOK, AllFaults, chance
    <3> QED
      BY <1>0, <2>6, <3>1, <3>2, <3>3 DEF FindStacks, StacksTypeOK, Places, manager, script, chance
  <2>7. CASE NextStack(r)
    <3>1. step' \in [Regions -> Places]
      BY <1>0, <2>7, <2>0, GotoType DEF NextStack
    <3>2. stack' \in [Regions -> 0..MaxStacks]
      BY <1>0, <2>7, StackType DEF NextStack, StacksTypeOK
    <3> QED
      BY <1>0, <2>7, <3>1, <3>2 DEF NextStack, StacksTypeOK, Places, manager, script, chance
  <2>8. CASE CreateDestroyJob(r)
    <3>1. step' \in [Regions -> Places]
      BY <1>0, <2>8, <2>0, GotoType DEF CreateDestroyJob
    <3>2. budget' \in [AllFaults -> Nat]
      BY <1>0, <2>8, CallType DEF CreateDestroyJob, StacksTypeOK
    <3>3. jobs' \in [Regions -> [Stacks -> Seq(Configs \cup {"destroy"})]]
      BY <1>0, <2>8, EnqueueType DEF CreateDestroyJob, StacksTypeOK, StacksInv, Sound, DeleteKnows, At
    <3> QED
      BY <1>0, <2>8, <3>1, <3>2, <3>3 DEF CreateDestroyJob, StacksTypeOK, Places, manager, script, chance
  <2>9. CASE RemoveStack(r)
    <3>1. step' \in [Regions -> Places]
      BY <1>0, <2>9, <2>0, GotoType DEF RemoveStack
    <3>2. pending' \in [Regions -> SUBSET Stacks]
      BY <1>0, <2>9 DEF RemoveStack, StacksTypeOK
    <3>3. budget' \in [AllFaults -> Nat]
      BY <1>0, <2>9, CallType DEF RemoveStack, StacksTypeOK
    <3>4. config' \in [Regions -> [Stacks -> Configs \cup {"none"}]]
      <4>1. [config EXCEPT ![r][stack[r]] = "none"] \in
               [Regions -> [Stacks -> Configs \cup {"none"}]]
        BY <1>0, TableType DEF StacksTypeOK
      <4> QED
        BY <1>0, <2>9, <4>1 DEF RemoveStack, StacksTypeOK
    <3> QED
      BY <1>0, <2>9, <3>1, <3>2, <3>3, <3>4 DEF RemoveStack, StacksTypeOK, Places, manager, script, chance
  <2>10. CASE DestroyWaitEnds(r)
    <3>1. step' \in [Regions -> Places]
      BY <1>0, <2>10, <2>0, GotoType DEF DestroyWaitEnds
    <3>2. budget' \in [AllFaults -> Nat]
      BY <1>0, <2>10, FaultType DEF DestroyWaitEnds, StacksTypeOK, AllFaults
    <3> QED
      BY <1>0, <2>10, <3>1, <3>2 DEF DestroyWaitEnds, StacksTypeOK, Places, manager, script, chance
  <2>11. ASSUME NEW s \in Stacks, JobSucceeds(r, s) PROVE StacksTypeOK'
    <3>1. step' \in [Regions -> Places]
      BY <1>0, <2>11, <2>0 DEF JobSucceeds, Ends, StacksTypeOK, Places
    <3>2. live' \in [Regions -> [Stacks -> Configs \cup {"none", "partial"}]]
      BY <1>0, <2>11, TableType, JobType DEF JobSucceeds, StacksTypeOK
    <3>3. jobs' \in [Regions -> [Stacks -> Seq(Configs \cup {"destroy"})]]
      BY <1>0, <2>11, JobType DEF JobSucceeds
    <3> QED
      BY <1>0, <2>11, <3>1, <3>2, <3>3 DEF JobSucceeds, StacksTypeOK, Places, manager, script, chance
  <2>12. ASSUME NEW s \in Stacks, JobFails(r, s) PROVE StacksTypeOK'
    <3>1. step' \in [Regions -> Places]
      BY <1>0, <2>12, <2>0 DEF JobFails, Ends, StacksTypeOK, Places
    <3>2. live' \in [Regions -> [Stacks -> Configs \cup {"none", "partial"}]]
      <4>1. [live EXCEPT ![r][s] = "partial"] \in
               [Regions -> [Stacks -> Configs \cup {"none", "partial"}]]
        BY <1>0, TableType DEF StacksTypeOK
      <4> QED
        BY <1>0, <2>12, <4>1 DEF JobFails, StacksTypeOK
    <3>3. jobs' \in [Regions -> [Stacks -> Seq(Configs \cup {"destroy"})]]
      BY <1>0, <2>12, JobType DEF JobFails
    <3>4. budget' \in [AllFaults -> Nat]
      BY <1>0, <2>12, FaultType DEF JobFails, StacksTypeOK, AllFaults
    <3> QED
      BY <1>0, <2>12, <3>1, <3>2, <3>3, <3>4 DEF JobFails, StacksTypeOK, Places, manager, script, chance
  <2> QED
    BY <2>1, <2>2, <2>3, <2>4, <2>5, <2>6, <2>7, <2>8, <2>9, <2>10, <2>11, <2>12
       DEF StacksStep, ApplyStep, DeleteStep, WaitEnds, ManagerStep
<1> QED
  BY <1>1, <1>2, <1>3, <1>4 DEF StacksNext

-----------------------------------------------------------------------------
(* Queues. *)

(* The newest job of a queue is the one added last. *)
LEMMA NewestAdded ==
    ASSUME StacksTypeOK, NEW r \in Regions, NEW s \in Stacks, NEW j, Enqueue(r, s, j)
    PROVE  /\ jobs'[r][s] # <<>> /\ Newest(r, s)' = j
           /\ \A t \in Stacks \ {s} : jobs'[r][t] = jobs[r][t]
           /\ \A q \in Regions \ {r} : jobs'[q] = jobs[q]
<1>1. jobs'[r][s] = Append(jobs[r][s], j)
  BY DEF StacksTypeOK, Enqueue
<1>2. jobs[r][s] \in Seq(Configs \cup {"destroy"})
  BY DEF StacksTypeOK
<1>3. Len(jobs'[r][s]) = Len(jobs[r][s]) + 1 /\ jobs'[r][s][Len(jobs[r][s]) + 1] = j
  BY <1>1, <1>2
<1>4. jobs'[r][s] # <<>>
  BY <1>1, <1>2
<1>5. Newest(r, s)' = j
  BY <1>3, <1>4 DEF Newest
<1> QED
  BY <1>4, <1>5 DEF StacksTypeOK, Enqueue

(* It stays the newest while older ones run, and is the oldest when it is alone. *)
LEMMA NewestStays ==
    ASSUME NEW S, NEW q \in Seq(S), q # <<>>
    PROVE  /\ Len(q) = 1 => Tail(q) = <<>> /\ Head(q) = q[Len(q)]
           /\ Len(q) # 1 => Tail(q) # <<>> /\ Tail(q)[Len(Tail(q))] = q[Len(q)]
<1>1. Len(q) \in Nat /\ Len(q) > 0 /\ Len(Tail(q)) = Len(q) - 1 /\ Head(q) = q[1]
  OBVIOUS
<1>2. CASE Len(q) = 1
  <2>1. Tail(q) = SubSeq(q, 2, 1)
    BY <1>2, TailIsSubSeq
  <2> QED
    BY <1>1, <1>2, <2>1, SubSeqEmpty
<1>3. CASE Len(q) # 1
  <2>1. Tail(q) # <<>>
    <3>1. Len(Tail(q)) # 0
      BY <1>1, <1>3
    <3> QED
      BY <3>1, EmptySeq
  <2>2. Tail(q)[Len(q) - 1] = q[Len(q)]
    <3>1. Len(q) - 1 \in 1..Len(Tail(q))
      BY <1>1, <1>3
    <3> QED
      BY <1>1, <3>1, HeadTailProperties
  <2>3. Len(Tail(q)) = Len(q) - 1
    BY <1>1
  <2> QED
    BY <1>3, <2>1, <2>2, <2>3
<1> QED
  BY <1>2, <1>3

-----------------------------------------------------------------------------
(* What is known of a region. *)

(* Nothing that is known of a region depends on another one. *)
LEMMA Frame ==
    ASSUME NEW q, Sound(q), config'[q] = config[q], live'[q] = live[q],
           jobs'[q] = jobs[q], step'[q] = step[q], stack'[q] = stack[q],
           pending'[q] = pending[q], wanted' = wanted, misread => misread'
    PROVE  Sound(q)'
<1>1. Existing(q)' = Existing(q)
  BY DEF Existing
<1>2. \A s : Empty(q, s)' <=> Empty(q, s)
  BY DEF Empty
<1>3. Newest(q, stack[q])' = Newest(q, stack[q])
  BY DEF Newest
<1>4. (Owned(q) /\ Single(q) /\ Current(q) /\ Gone(q))'
  BY <1>1, <1>2 DEF Sound, Owned, Single, Current, Gone, At
<1>5. ApplyKnows(q)'
  BY <1>1, <1>3 DEF Sound, ApplyKnows, At
<1>6. DeleteKnows(q)'
  BY <1>1, <1>2, <1>3 DEF Sound, DeleteKnows, At
<1> QED
  BY <1>4, <1>5, <1>6 DEF Sound

(* A script that brings a stack up to date only adds stacks, and jobs to stacks
   that exist: what else is known of its region stays. *)
LEMMA ApplySide ==
    ASSUME NEW r, Sound(r), step[r] \in Applying,
           step'[r] \in {"create", "update", "job", "wait", "failed"},
           live'[r] = live[r], pending'[r] = pending[r],
           Existing(r) \subseteq Existing(r)',
           \A s \in Stacks \ Existing(r)' : jobs'[r][s] = jobs[r][s],
           Single(r)', ApplyKnows(r)'
    PROVE  Sound(r)'
<1>1. Owned(r)'
  BY DEF Sound, Owned, Empty
<1>2. Current(r)' /\ Gone(r)'
  BY DEF Current, Gone, At
<1>3. DeleteKnows(r)'
  BY DEF Sound, DeleteKnows, At
<1> QED
  BY <1>1, <1>2, <1>3 DEF Sound

(* The scripts that bring a stack up to date. *)
LEMMA ApplySound ==
    ASSUME StacksInv, NEW r \in Regions, ApplyStep(r) \/ ApplyWaitEnds(r)
    PROVE  \A q \in Regions : Sound(q)'
<1> DEFINE same(q) == /\ config'[q] = config[q] /\ live'[q] = live[q]
                      /\ jobs'[q] = jobs[q] /\ step'[q] = step[q]
                      /\ stack'[q] = stack[q] /\ pending'[q] = pending[q]
<1>0. StacksTypeOK /\ Sound(r) /\ \A q \in Regions : Sound(q)
  BY DEF StacksInv
<1>1. SUFFICES /\ \A q \in Regions \ {r} : same(q)
               /\ wanted' = wanted /\ (misread => misread')
               /\ Sound(r)'
  BY <1>0, Frame
<1>2. \A q \in Regions \ {r} : same(q)
  BY <1>0 DEF ApplyStep, ListStacks, CreateStack, UpdateStack, CreateApplyJob,
              ApplyWaitEnds, NextAttempt, Upload, Enqueue, Goto, StacksTypeOK,
              manager, script
<1>3. wanted' = wanted /\ (misread => misread')
  BY DEF ApplyStep, ListStacks, CreateStack, UpdateStack, CreateApplyJob,
         ApplyWaitEnds, chance
<1>4. wanted \in Configs /\ wanted # "none"
  BY <1>0 DEF StacksTypeOK
<1>5. ASSUME ListStacks(r) PROVE Sound(r)'
  <2>1. UNCHANGED <<config, live, jobs, pending>> /\ step[r] = "list"
    BY <1>5 DEF ListStacks, manager, At
  <2>2. \/ step'[r] = "update" /\ stack'[r] \in Existing(r)
        \/ step'[r] = "create" /\ Existing(r) = {}
        \/ step'[r] = "create" /\ misread'
    BY <1>0, <1>5 DEF ListStacks, StacksTypeOK, Goto
  <2>3. Existing(r)' = Existing(r)
    BY <2>1 DEF Existing
  <2>4. Single(r)'
    BY <1>0, <1>3, <2>3 DEF Sound, Single
  <2>5. ApplyKnows(r)'
    BY <2>2, <2>3 DEF ApplyKnows, At
  <2> QED
    BY <1>0, <2>1, <2>2, <2>3, <2>4, <2>5, ApplySide DEF Applying
<1>6. ASSUME CreateStack(r) PROVE Sound(r)'
  <2>1. UNCHANGED <<live, jobs, pending, wanted, misread>> /\ step[r] = "create"
    BY <1>6 DEF CreateStack, At
  <2>2. PICK s \in Stacks \ Existing(r) :
          /\ stack'[r] = s
          /\ \/ Upload(r, s) /\ step'[r] \in {"job", "failed"}
             \/ config' = config /\ step'[r] = "failed"
    BY <1>0, <1>6 DEF CreateStack, StacksTypeOK, Goto, Call
  <2>3. CASE config' = config /\ step'[r] = "failed"
    <3>1. Existing(r)' = Existing(r)
      BY <2>3 DEF Existing
    <3>2. Single(r)' /\ ApplyKnows(r)'
      BY <1>0, <2>1, <2>3, <3>1 DEF Sound, Single, ApplyKnows, At
    <3> QED
      BY <1>0, <2>1, <2>3, <3>1, <3>2, ApplySide DEF Applying
  <2>4. CASE Upload(r, s) /\ step'[r] \in {"job", "failed"}
    <3>1. config'[r][s] = wanted /\ \A t \in Stacks \ {s} : config'[r][t] = config[r][t]
      BY <1>0, <2>4 DEF Upload, StacksTypeOK
    <3>2. Existing(r)' = Existing(r) \cup {s}
      BY <1>4, <3>1 DEF Existing
    <3>3. Single(r)'
      BY <1>0, <2>1, <3>2 DEF Sound, Single, ApplyKnows, At
    <3>4. ApplyKnows(r)'
      BY <2>1, <2>2, <2>4, <3>1, <3>2 DEF ApplyKnows, At
    <3> QED
      BY <1>0, <2>1, <2>4, <3>2, <3>3, <3>4, ApplySide DEF Applying
  <2> QED
    BY <2>2, <2>3, <2>4
<1>7. ASSUME UpdateStack(r) PROVE Sound(r)'
  <2>1. UNCHANGED <<live, jobs, stack, pending, wanted, misread>> /\ step[r] = "update"
    BY <1>7 DEF UpdateStack, At
  <2>2. \/ Upload(r, stack[r]) /\ step'[r] \in {"job", "failed"}
        \/ config' = config /\ step'[r] = "failed"
    BY <1>0, <1>7 DEF UpdateStack, StacksTypeOK, Goto, Call
  <2>3. stack[r] \in Existing(r) /\ stack[r] \in Stacks
    BY <1>0, <2>1 DEF Sound, ApplyKnows, At, Existing
  <2>4. Upload(r, stack[r]) =>
          config'[r][stack[r]] = wanted
          /\ \A t \in Stacks \ {stack[r]} : config'[r][t] = config[r][t]
    BY <1>0, <2>3 DEF Upload, StacksTypeOK
  <2>5. Existing(r)' = Existing(r)
    BY <1>4, <2>2, <2>3, <2>4 DEF Existing
  <2>6. Single(r)'
    BY <1>0, <2>1, <2>5 DEF Sound, Single
  <2>7. ApplyKnows(r)'
    BY <2>1, <2>2, <2>3, <2>4, <2>5 DEF ApplyKnows, At
  <2> QED
    BY <1>0, <2>1, <2>2, <2>5, <2>6, <2>7, ApplySide DEF Applying
<1>8. ASSUME CreateApplyJob(r) PROVE Sound(r)'
  <2>1. UNCHANGED <<config, live, stack, pending, wanted, misread>> /\ step[r] = "job"
    BY <1>8 DEF CreateApplyJob, At
  <2>2. stack[r] \in Stacks /\ stack[r] \in Existing(r) /\ config[r][stack[r]] = wanted
    BY <1>0, <2>1 DEF Sound, ApplyKnows, At, Existing
  <2>3. \/ Enqueue(r, stack[r], wanted) /\ step'[r] \in {"wait", "job", "failed"}
        \/ jobs' = jobs /\ step'[r] \in {"job", "failed"}
    BY <1>0, <1>8, <2>2 DEF CreateApplyJob, StacksTypeOK, NextAttempt, Goto, Call
  <2>4. Existing(r)' = Existing(r)
    BY <2>1 DEF Existing
  <2>5. Single(r)'
    BY <1>0, <2>1, <2>4 DEF Sound, Single
  <2>6. Enqueue(r, stack[r], wanted) =>
          /\ Newest(r, stack[r])' = wanted
          /\ \A t \in Stacks \ {stack[r]} : jobs'[r][t] = jobs[r][t]
    BY <1>0, <2>1, <2>2, NewestAdded DEF Newest
  <2>7. ApplyKnows(r)'
    BY <2>1, <2>2, <2>3, <2>4, <2>6 DEF ApplyKnows, At
  <2>8. \A t \in Stacks \ Existing(r)' : jobs'[r][t] = jobs[r][t]
    BY <2>2, <2>3, <2>4, <2>6
  <2> QED
    BY <1>0, <2>1, <2>3, <2>4, <2>5, <2>7, <2>8, ApplySide DEF Applying
<1>9. ASSUME ApplyWaitEnds(r) PROVE Sound(r)'
  <2>1. UNCHANGED <<config, live, jobs, stack, pending, wanted, misread>> /\ step[r] = "wait"
    BY <1>9 DEF ApplyWaitEnds, manager, At
  <2>2. step'[r] \in {"job", "failed"}
    BY <1>0, <1>9 DEF ApplyWaitEnds, NextAttempt, Goto, StacksTypeOK
  <2>3. Existing(r)' = Existing(r)
    BY <2>1 DEF Existing
  <2>4. Single(r)' /\ ApplyKnows(r)'
    BY <1>0, <2>1, <2>2, <2>3 DEF Sound, Single, ApplyKnows, At
  <2> QED
    BY <1>0, <2>1, <2>2, <2>3, <2>4, ApplySide DEF Applying
<1> QED
  BY <1>2, <1>3, <1>5, <1>6, <1>7, <1>8, <1>9 DEF ApplyStep

(* A script that destroys stacks changes neither the resources nor the jobs of the
   stacks it does not look at. *)
LEMMA DeleteSide ==
    ASSUME NEW r, Sound(r), step[r] \in Deleting,
           step'[r] \in Deleting \cup {"deleted", "failed"},
           misread => misread', Existing(r)' \subseteq Existing(r),
           Owned(r)', Gone(r)', DeleteKnows(r)'
    PROVE  Sound(r)'
<1>1. Single(r)'
  BY DEF Sound, Single
<1>2. Current(r)' /\ ApplyKnows(r)'
  BY DEF Current, ApplyKnows, At, Deleting
<1> QED
  BY <1>1, <1>2 DEF Sound

(* The scripts that destroy the stacks of a region. *)
LEMMA DeleteSound ==
    ASSUME StacksInv, NEW r \in Regions, DeleteStep(r) \/ DestroyWaitEnds(r)
    PROVE  \A q \in Regions : Sound(q)'
<1> DEFINE same(q) == /\ config'[q] = config[q] /\ live'[q] = live[q]
                      /\ jobs'[q] = jobs[q] /\ step'[q] = step[q]
                      /\ stack'[q] = stack[q] /\ pending'[q] = pending[q]
<1>0. StacksTypeOK /\ Sound(r) /\ \A q \in Regions : Sound(q)
  BY DEF StacksInv
<1>1. SUFFICES /\ \A q \in Regions \ {r} : same(q)
               /\ wanted' = wanted /\ (misread => misread')
               /\ Sound(r)'
  BY <1>0, Frame
<1>2. \A q \in Regions \ {r} : same(q)
  BY <1>0 DEF DeleteStep, FindStacks, NextStack, CreateDestroyJob, RemoveStack,
              DestroyWaitEnds, Enqueue, Goto, StacksTypeOK, manager, script
<1>3. wanted' = wanted /\ (misread => misread')
  BY DEF DeleteStep, FindStacks, NextStack, CreateDestroyJob, RemoveStack,
         DestroyWaitEnds, chance
<1>4. ASSUME FindStacks(r) PROVE Sound(r)'
  <2>1. UNCHANGED <<config, live, jobs, stack>> /\ step[r] = "find"
    BY <1>4 DEF FindStacks, manager, At
  <2>2. \/ step'[r] = "next" /\ pending'[r] = Existing(r)
        \/ step'[r] = "deleted" /\ pending'[r] = pending[r] /\ misread'
    BY <1>0, <1>4 DEF FindStacks, StacksTypeOK, Goto
  <2>3. Existing(r)' = Existing(r) /\ \A s : Empty(r, s)' <=> Empty(r, s)
    BY <2>1 DEF Existing, Empty
  <2>4. Owned(r)' /\ Gone(r)'
    BY <1>0, <2>2, <2>3 DEF Sound, Owned, Gone, At
  <2>5. DeleteKnows(r)'
    BY <1>0, <2>2, <2>3 DEF Sound, Owned, DeleteKnows, At
  <2> QED
    BY <1>0, <1>3, <2>1, <2>2, <2>3, <2>4, <2>5, DeleteSide DEF Deleting
<1>5. ASSUME NextStack(r) PROVE Sound(r)'
  <2>1. UNCHANGED <<config, live, jobs, pending, misread>> /\ step[r] = "next"
    BY <1>5 DEF NextStack, manager, chance, At
  <2>2. \/ step'[r] = "destroy" /\ stack'[r] \in pending[r]
        \/ step'[r] = "deleted" /\ pending[r] = {}
    BY <1>0, <1>5 DEF NextStack, StacksTypeOK, Goto
  <2>3. Existing(r)' = Existing(r) /\ \A s : Empty(r, s)' <=> Empty(r, s)
    BY <2>1 DEF Existing, Empty
  <2>4. Owned(r)'
    BY <1>0, <2>3 DEF Sound, Owned
  <2>5. Gone(r)' /\ DeleteKnows(r)'
    BY <1>0, <2>1, <2>2, <2>3 DEF Sound, Gone, DeleteKnows, At
  <2> QED
    BY <1>0, <1>3, <2>1, <2>2, <2>3, <2>4, <2>5, DeleteSide DEF Deleting
<1>6. ASSUME CreateDestroyJob(r) PROVE Sound(r)'
  <2>1. UNCHANGED <<config, live, stack, pending, misread>> /\ step[r] = "destroy"
    BY <1>6 DEF CreateDestroyJob, At
  <2>2. stack[r] \in pending[r] /\ stack[r] \in Existing(r) /\ stack[r] \in Stacks
    BY <1>0, <2>1 DEF Sound, DeleteKnows, Existing
  <2>3. \/ Enqueue(r, stack[r], "destroy") /\ step'[r] \in {"await", "failed"}
        \/ jobs' = jobs /\ step'[r] = "failed"
    BY <1>0, <1>6, <2>2 DEF CreateDestroyJob, StacksTypeOK, Goto, Call
  <2>4. Enqueue(r, stack[r], "destroy") =>
          /\ Newest(r, stack[r])' = "destroy"
          /\ \A t \in Stacks \ {stack[r]} : jobs'[r][t] = jobs[r][t]
    <3> SUFFICES ASSUME Enqueue(r, stack[r], "destroy")
                 PROVE  /\ Newest(r, stack[r])' = "destroy"
                        /\ \A t \in Stacks \ {stack[r]} : jobs'[r][t] = jobs[r][t]
      OBVIOUS
    <3>1. PICK s \in Stacks : s = stack[r]
      BY <2>2
    <3>2. /\ Newest(r, s)' = "destroy"
          /\ \A t \in Stacks \ {s} : jobs'[r][t] = jobs[r][t]
      BY <1>0, <3>1, NewestAdded
    <3> QED
      BY <2>1, <3>1, <3>2 DEF Newest
  <2>5. Existing(r)' = Existing(r)
    BY <2>1 DEF Existing
  <2>6. \A t \in Stacks \ {stack[r]} : Empty(r, t) => Empty(r, t)'
    BY <2>1, <2>3, <2>4 DEF Empty
  <2>7. Owned(r)' /\ Gone(r)'
    BY <1>0, <2>2, <2>3, <2>5, <2>6 DEF Sound, Owned, Gone, At
  <2>8. DeleteKnows(r)'
    <3>1. ~misread' => \A t \in Stacks \ pending'[r] : Empty(r, t)'
      BY <1>0, <2>1, <2>2, <2>6 DEF Sound, DeleteKnows
    <3>2. step'[r] = "await" => Newest(r, stack[r])' = "destroy"
      BY <2>3, <2>4
    <3> QED
      BY <1>0, <2>1, <2>2, <2>3, <2>5, <3>1, <3>2 DEF Sound, DeleteKnows, At
  <2> QED
    BY <1>0, <1>3, <2>1, <2>3, <2>5, <2>7, <2>8, DeleteSide DEF Deleting
<1>7. ASSUME RemoveStack(r) PROVE Sound(r)'
  <2>1. UNCHANGED <<live, jobs, stack, misread>> /\ step[r] = "remove"
    BY <1>7 DEF RemoveStack, At
  <2>2. /\ stack[r] \in pending[r] /\ stack[r] \in Existing(r) /\ stack[r] \in Stacks
        /\ Empty(r, stack[r])
    BY <1>0, <2>1 DEF Sound, DeleteKnows, Existing, At
  <2>3. step'[r] = "next" /\ pending'[r] = pending[r] \ {stack[r]}
    BY <1>0, <1>7 DEF RemoveStack, StacksTypeOK, Goto
  <2>4. \A t \in Stacks \ {stack[r]} : config'[r][t] = config[r][t]
    BY <1>0, <1>7, <2>2 DEF RemoveStack, StacksTypeOK
  <2>5. config'[r][stack[r]] \in {"none", config[r][stack[r]]}
    BY <1>0, <1>7, <2>2 DEF RemoveStack, StacksTypeOK
  <2>6. Existing(r)' \subseteq Existing(r) /\ Existing(r) \ {stack[r]} \subseteq Existing(r)'
    BY <2>4, <2>5 DEF Existing
  <2>7. \A s : Empty(r, s)' <=> Empty(r, s)
    BY <2>1 DEF Empty
  <2>8. Owned(r)' /\ Gone(r)'
    BY <1>0, <2>2, <2>3, <2>6, <2>7 DEF Sound, Owned, Gone, At
  <2>9. DeleteKnows(r)'
    BY <1>0, <2>1, <2>2, <2>3, <2>6, <2>7 DEF Sound, DeleteKnows, At
  <2> QED
    BY <1>0, <1>3, <2>1, <2>3, <2>6, <2>8, <2>9, DeleteSide DEF Deleting
<1>8. ASSUME DestroyWaitEnds(r) PROVE Sound(r)'
  <2>1. UNCHANGED <<config, live, jobs, stack, pending, misread>> /\ step[r] = "await"
    BY <1>8 DEF DestroyWaitEnds, manager, At
  <2>2. step'[r] = "failed"
    BY <1>0, <1>8 DEF DestroyWaitEnds, Goto, StacksTypeOK
  <2>3. Existing(r)' = Existing(r) /\ \A s : Empty(r, s)' <=> Empty(r, s)
    BY <2>1 DEF Existing, Empty
  <2>4. (Owned(r) /\ Gone(r) /\ DeleteKnows(r))'
    BY <1>0, <2>1, <2>2, <2>3 DEF Sound, Owned, Gone, DeleteKnows, At
  <2> QED
    BY <1>0, <1>3, <2>1, <2>2, <2>3, <2>4, DeleteSide DEF Deleting
<1> QED
  BY <1>2, <1>3, <1>4, <1>5, <1>6, <1>7, <1>8 DEF DeleteStep

(* Resource Manager changes only stacks that exist, and the script that waits for
   the newest job learns how that very job has ended. *)
LEMMA ManagerSound ==
    ASSUME StacksInv, NEW r \in Regions, NEW s \in Stacks,
           JobSucceeds(r, s) \/ JobFails(r, s)
    PROVE  \A q \in Regions : Sound(q)'
<1> DEFINE same(q) == /\ config'[q] = config[q] /\ live'[q] = live[q]
                      /\ jobs'[q] = jobs[q] /\ step'[q] = step[q]
                      /\ stack'[q] = stack[q] /\ pending'[q] = pending[q]
           good == JobSucceeds(r, s)
<1>0. StacksTypeOK /\ Sound(r) /\ \A q \in Regions : Sound(q)
  BY DEF StacksInv
<1>1. SUFFICES (\A q \in Regions \ {r} : same(q)) /\ Sound(r)'
  <2>1. wanted' = wanted /\ misread' = misread
    BY DEF JobSucceeds, JobFails, chance
  <2> QED
    BY <1>0, <2>1, Frame
<1>2. \A q \in Regions \ {r} : same(q)
  BY <1>0 DEF JobSucceeds, JobFails, Ends, StacksTypeOK
<1>3. UNCHANGED <<config, stack, pending, wanted, misread>> /\ jobs[r][s] # <<>>
  BY DEF JobSucceeds, JobFails, chance
<1>4. /\ jobs'[r][s] = Tail(jobs[r][s])
      /\ \A t \in Stacks \ {s} : jobs'[r][t] = jobs[r][t] /\ live'[r][t] = live[r][t]
      /\ good => live'[r][s] = IF Head(jobs[r][s]) = "destroy" THEN "none"
                               ELSE Head(jobs[r][s])
  <2>1. jobs' = [jobs EXCEPT ![r][s] = Tail(@)]
    BY DEF JobSucceeds, JobFails
  <2>2. CASE good
    BY <1>0, <2>1, <2>2 DEF JobSucceeds, StacksTypeOK
  <2>3. CASE ~good
    <3>1. live' = live \/ live' = [live EXCEPT ![r][s] = "partial"]
      BY <2>3 DEF JobFails
    <3>2. \A t \in Stacks \ {s} : live'[r][t] = live[r][t]
      BY <1>0, <3>1 DEF StacksTypeOK
    <3> QED
      BY <1>0, <2>1, <2>3, <3>2 DEF StacksTypeOK
  <2> QED
    BY <2>2, <2>3
<1>5. jobs[r][s] \in Seq(Configs \cup {"destroy"})
  BY <1>0 DEF StacksTypeOK
<1>6. /\ Awaited(r, s) => jobs'[r][s] = <<>> /\ Head(jobs[r][s]) = Newest(r, s)
      /\ Len(jobs[r][s]) # 1 => Newest(r, s)' = Newest(r, s)
  BY <1>3, <1>4, <1>5, NewestStays DEF Awaited, Newest
<1>7. s \in Existing(r) /\ Existing(r)' = Existing(r)
  BY <1>0, <1>3 DEF Sound, Owned, Empty, Existing
<1>8. \A t \in Stacks \ {s} : Empty(r, t)' <=> Empty(r, t)
  BY <1>4 DEF Empty
<1>9. Owned(r)' /\ Single(r)'
  <2>1. Owned(r)'
    BY <1>0, <1>7, <1>8 DEF Sound, Owned
  <2>2. Single(r)'
    BY <1>0, <1>3, <1>7 DEF Sound, Single
  <2> QED
    BY <2>1, <2>2
<1>10. ~Empty(r, s)
  BY <1>3 DEF Empty
<1>11. CASE Awaited(r, s)
  <2>1. step[r] \in {"wait", "await"} /\ stack[r] = s
    BY <1>11 DEF Awaited
  <2>2. step'[r] = IF ~good THEN "failed" ELSE IF step[r] = "wait" THEN "applied" ELSE "remove"
    <3>1. CASE good
      BY <1>0, <1>11, <3>1 DEF JobSucceeds, Ends, StacksTypeOK
    <3>2. CASE ~good
      BY <1>0, <1>11, <3>2 DEF JobFails, Ends, StacksTypeOK
    <3> QED
      BY <3>1, <3>2
  <2>3. step'[r] = "applied" => live'[r][s] = wanted /\ jobs'[r][s] = <<>>
    <3>1. wanted # "destroy"
      BY <1>0 DEF StacksTypeOK
    <3>2. step[r] = "wait" => Head(jobs[r][s]) = wanted
      BY <1>0, <1>6, <1>11, <2>1 DEF Sound, ApplyKnows, At
    <3> QED
      BY <1>4, <1>6, <1>11, <2>1, <2>2, <3>1, <3>2
  <2>4. step'[r] = "remove" => Empty(r, s)'
    <3>1. step[r] = "await" => Head(jobs[r][s]) = "destroy"
      BY <1>0, <1>6, <1>11, <2>1 DEF Sound, DeleteKnows, At
    <3> QED
      BY <1>4, <1>6, <1>11, <2>1, <2>2, <3>1 DEF Empty
  <2>5. Current(r)' /\ Gone(r)'
    BY <1>3, <2>1, <2>2, <2>3 DEF Current, Gone, At
  <2>6. ApplyKnows(r)'
    <3>1. step'[r] = "applied" => step[r] = "wait"
      BY <2>1, <2>2
    <3> QED
      BY <1>0, <1>3, <1>7, <2>1, <2>2, <3>1 DEF Sound, ApplyKnows, At
  <2>7. DeleteKnows(r)'
    <3>1. pending'[r] \subseteq Existing(r)'
      BY <1>0, <1>3, <1>7 DEF Sound, DeleteKnows
    <3>2. step'[r] = "remove" => step[r] = "await" /\ s \in pending[r]
      BY <1>0, <2>1, <2>2 DEF Sound, DeleteKnows
    <3>3. step'[r] = "remove" /\ ~misread => \A t \in Stacks \ pending[r] : Empty(r, t)'
      BY <1>0, <1>8, <3>2 DEF Sound, DeleteKnows
    <3> QED
      BY <1>3, <2>1, <2>2, <2>4, <3>1, <3>2, <3>3 DEF DeleteKnows, At
  <2> QED
    BY <1>2, <1>9, <2>5, <2>6, <2>7 DEF Sound
<1>12. CASE ~Awaited(r, s)
  <2>1. step' = step
    BY <1>12 DEF JobSucceeds, JobFails, Ends
  <2>2. step[r] \in {"wait", "await"} /\ stack[r] \in Stacks
          => Newest(r, stack[r])' = Newest(r, stack[r])
    <3> SUFFICES ASSUME NEW t \in Stacks, t = stack[r], step[r] \in {"wait", "await"}
                 PROVE  Newest(r, t)' = Newest(r, t)
      BY <1>3 DEF Newest
    <3>1. CASE t = s
      BY <1>6, <1>12, <3>1 DEF Awaited
    <3>2. CASE t # s
      BY <1>4, <3>2 DEF Newest
    <3> QED
      BY <3>1, <3>2
  <2>3. step[r] \in {"wait", "await"} => stack[r] \in Stacks
    BY <1>0 DEF Sound, ApplyKnows, DeleteKnows, Existing
  <2>4. Current(r)' /\ Gone(r)'
    <3>1. At(r, "applied") => stack[r] # s
      BY <1>0, <1>3 DEF Sound, Current
    <3>2. ~(At(r, "deleted") /\ ~misread)
      BY <1>0, <1>10 DEF Sound, Gone
    <3>3. At(r, "applied") => stack[r] \in Stacks
      BY <1>0 DEF Sound, ApplyKnows, At, Existing
    <3> QED
      BY <1>0, <1>3, <1>4, <2>1, <3>1, <3>2, <3>3 DEF Sound, Current, Gone, At
  <2>5. ApplyKnows(r)'
    BY <1>0, <1>3, <1>7, <2>1, <2>2, <2>3 DEF Sound, ApplyKnows, At
  <2>6. DeleteKnows(r)'
    <3>1. At(r, "remove") => stack[r] # s /\ stack[r] \in Stacks
      BY <1>0, <1>10 DEF Sound, DeleteKnows, At, Existing
    <3>2. step[r] \in {"next", "destroy", "await", "remove"} /\ ~misread => s \in pending[r]
      BY <1>0, <1>10 DEF Sound, DeleteKnows
    <3>3. At(r, "remove") => Empty(r, stack[r])'
      BY <1>0, <1>8, <3>1, <1>3 DEF Sound, DeleteKnows
    <3>4. step[r] \in {"next", "destroy", "await", "remove"} /\ ~misread =>
            \A t \in Stacks \ pending[r] : Empty(r, t)'
      BY <1>0, <1>8, <3>2 DEF Sound, DeleteKnows
    <3> QED
      BY <1>0, <1>3, <1>7, <2>1, <2>2, <2>3, <3>3, <3>4 DEF Sound, DeleteKnows, At
  <2> QED
    BY <1>2, <1>9, <2>4, <2>5, <2>6 DEF Sound
<1> QED
  BY <1>11, <1>12

(* The steps of Terraform: scripts start, with a new configuration or not. *)
LEMMA TerraformSound ==
    ASSUME StacksInv, AnyRun \/ AnyApply \/ OtherFault
    PROVE  \A q \in Regions : Sound(q)'
<1>0. StacksTypeOK /\ \A q \in Regions : Sound(q)
  BY DEF StacksInv
<1>1. CASE AnyRun
  <2> SUFFICES ASSUME NEW q \in Regions PROVE Sound(q)'
    OBVIOUS
  <2>1. UNCHANGED <<config, live, jobs, misread>>
    BY <1>1 DEF AnyRun, manager
  <2>2. step'[q] \in {"find", "off"} /\ pending'[q] = {}
    BY <1>1 DEF AnyRun, StartDelete
  <2>3. Existing(q)' = Existing(q) /\ \A s : Empty(q, s)' <=> Empty(q, s)
    BY <2>1 DEF Existing, Empty
  <2>4. (Owned(q) /\ Single(q) /\ Current(q) /\ Gone(q))'
    BY <1>0, <2>1, <2>2, <2>3 DEF Sound, Owned, Single, Current, Gone, At
  <2>5. (ApplyKnows(q) /\ DeleteKnows(q))'
    BY <2>2 DEF ApplyKnows, DeleteKnows, At
  <2> QED
    BY <2>4, <2>5 DEF Sound
<1>2. CASE AnyApply
  <2> SUFFICES ASSUME NEW q \in Regions PROVE Sound(q)'
    OBVIOUS
  <2>1. UNCHANGED <<config, live, jobs, stack, pending, wanted, misread>>
    BY <1>2 DEF AnyApply, StartApply, manager, chance
  <2>2. step'[q] = step[q] \/ step'[q] \in {"list", "skipped"}
    BY <1>2 DEF AnyApply, StartApply
  <2>3. CASE step'[q] = step[q]
    BY <1>0, <2>1, <2>3, Frame
  <2>4. CASE step'[q] \in {"list", "skipped"}
    <3>1. Existing(q)' = Existing(q) /\ \A s : Empty(q, s)' <=> Empty(q, s)
      BY <2>1 DEF Existing, Empty
    <3>2. (Owned(q) /\ Single(q) /\ Current(q) /\ Gone(q))'
      BY <1>0, <2>1, <2>4, <3>1 DEF Sound, Owned, Single, Current, Gone, At
    <3>3. (ApplyKnows(q) /\ DeleteKnows(q))'
      BY <1>0, <2>1, <2>4, <3>1 DEF Sound, ApplyKnows, DeleteKnows, At
    <3> QED
      BY <3>2, <3>3 DEF Sound
  <2> QED
    BY <2>2, <2>3, <2>4
<1>3. CASE OtherFault
  BY <1>0, <1>3, Frame DEF OtherFault, manager, script
<1> QED
  BY <1>1, <1>2, <1>3

-----------------------------------------------------------------------------
(* The scripts start where everything that has to be known is. *)
LEMMA InitSound == StacksInit => StacksInv
<1> SUFFICES ASSUME StacksInit PROVE StacksInv
  OBVIOUS
<1>1. StacksTypeOK
  <2>1. <<>> \in Seq(Configs \cup {"destroy"})
    OBVIOUS
  <2>2. jobs \in [Regions -> [Stacks -> Seq(Configs \cup {"destroy"})]]
    BY <2>1 DEF StacksInit
  <2>3. budget \in [AllFaults -> Nat]
    BY BudgetAssumption DEF StacksInit, BudgetInit
  <2>4. 0 \in 0..MaxStacks /\ 1 \in 1..Attempts
    OBVIOUS
  <2> QED
    BY <2>2, <2>3, <2>4 DEF StacksInit, StacksTypeOK, Over
<1>2. ASSUME NEW r \in Regions PROVE Sound(r)
  BY DEF StacksInit, Sound, Owned, Single, Current, Gone, ApplyKnows, DeleteKnows, At,
         Existing, Empty
<1> QED
  BY <1>1, <1>2 DEF StacksInv

(* Every step keeps what is known of each region. *)
LEMMA StepSound == StacksInv /\ [StacksNext]_stackVars => StacksInv'
<1> SUFFICES ASSUME StacksInv, [StacksNext]_stackVars PROVE StacksInv'
  OBVIOUS
<1>1. CASE StacksNext
  <2>1. \A q \in Regions : Sound(q)'
    BY <1>1, ApplySound, DeleteSound, ManagerSound, TerraformSound
       DEF StacksNext, StacksStep, WaitEnds, ManagerStep
  <2> QED
    BY <1>1, <2>1, TypeStep DEF StacksInv
<1>2. CASE UNCHANGED stackVars
  <2>1. \A q \in Regions : Sound(q)'
    BY <1>2, Frame DEF StacksInv, stackVars, manager, script, chance
  <2>2. StacksTypeOK'
    BY <1>2 DEF StacksInv, StacksTypeOK, stackVars, manager, script, chance
  <2> QED
    BY <2>1, <2>2 DEF StacksInv
<1> QED
  BY <1>1, <1>2

(* For any number of regions, stacks, runs and faults, the scripts know what the
   properties below need, whatever order their calls and jobs are handled in
   (create_apply_regional_stack.sh, delete_stack.sh). *)
THEOREM StacksInvariance == StacksSpec => []StacksInv
  BY InitSound, StepSound, PTL DEF StacksSpec

(* The state of the scripts and of Resource Manager keeps its types. *)
THEOREM StacksTypeCorrect == StacksSpec => []StacksTypeOK
<1>1. StacksInv => StacksTypeOK
  BY DEF StacksInv
<1> QED
  BY <1>1, StacksInvariance, PTL

(* No stack is deleted while it has resources or jobs (delete_stack.sh:24-48). *)
THEOREM NothingOrphaned == StacksSpec => []NoOrphans
<1>1. StacksInv => NoOrphans
  BY DEF StacksInv, Sound, Owned, NoOrphans
<1> QED
  BY <1>1, StacksInvariance, PTL

(* No second stack of the name is made, but after a list that failed
   (create_apply_regional_stack.sh:36-69). *)
THEOREM OneStackPerRegion == StacksSpec => []OneStack
<1>1. StacksInv => OneStack
  BY DEF StacksInv, Sound, Single, OneStack
<1> QED
  BY <1>1, StacksInvariance, PTL

(* An apply script that succeeds leaves what its run wants, for good
   (create_apply_regional_stack.sh:85-118). *)
THEOREM AppliedIsCurrent == StacksSpec => []AppliedMeansCurrent
<1>1. StacksInv => AppliedMeansCurrent
  BY DEF StacksInv, Sound, Current, AppliedMeansCurrent
<1> QED
  BY <1>1, StacksInvariance, PTL

(* A destroy script that succeeds leaves nothing behind (delete_stack.sh:11-51). *)
THEOREM DeletedIsGone == StacksSpec => []DeletedMeansGone
<1>1. StacksInv => DeletedMeansGone
  BY DEF StacksInv, Sound, Gone, DeletedMeansGone
<1> QED
  BY <1>1, StacksInvariance, PTL
-----------------------------------------------------------------------------
(* Why a script ends.  A script that waits always waits for a job Resource
   Manager still has to run, and each of its steps uses up one of a number of
   steps that nothing but the next run of Terraform renews. *)

(* The steps a script at p has left, in its a-th attempt, with n stacks still
   to be destroyed: two for each attempt, four for each stack. *)
Left(p, a, n) ==
    CASE p = "list" -> 2 * Attempts + 2
      [] p \in {"create", "update"} -> 2 * Attempts + 1
      [] p = "job" -> 2 * (Attempts - a) + 2
      [] p = "wait" -> 2 * (Attempts - a) + 1
      [] p = "find" -> 4 * MaxStacks + 2
      [] p = "next" -> 4 * n + 1
      [] p = "destroy" -> 4 * n
      [] p = "await" -> 4 * n - 1
      [] p = "remove" -> 4 * n - 2
      [] p \in Over -> 0
StepsLeft(r) == Left(step[r], attempt[r], Cardinality(pending[r]))

ScriptStep(r) == ApplyStep(r) \/ DeleteStep(r) \/ WaitEnds(r)

(* A script that waits waits for a job that is still to end. *)
WaitsForJob ==
    \A r \in Regions :
        step[r] \in {"wait", "await"} => jobs[r][stack[r]] # <<>>

(* A script has a number of steps left, none only when it has ended. *)
StepsCounted ==
    \A r \in Regions : StepsLeft(r) \in Nat /\ (StepsLeft(r) = 0 <=> step[r] \in Over)

(* It uses them up, and no job, fault or other script gives it more. *)
StepsShrink ==
    \A r \in Regions :
        /\ ScriptStep(r) => StepsLeft(r)' < StepsLeft(r)
        /\ ~AnyRun /\ ~AnyApply => StepsLeft(r)' <= StepsLeft(r)

(* The number of stacks still to be destroyed, before and after a step. *)
LEMMA PendingCount ==
    ASSUME NEW P \in SUBSET Stacks
    PROVE  /\ Cardinality(P) \in 0..MaxStacks
           /\ P # {} => Cardinality(P) # 0
           /\ \A s \in P : Cardinality(P \ {s}) = Cardinality(P) - 1
<1>1. IsFiniteSet(1..MaxStacks) /\ Cardinality(1..MaxStacks) = MaxStacks
  BY FS_Interval
<1>2. IsFiniteSet(P) /\ Cardinality(P) <= MaxStacks
  <2> DEFINE S == 1..MaxStacks
  <2>1. P \in SUBSET S /\ IsFiniteSet(S) /\ Cardinality(S) = MaxStacks
    BY <1>1
  <2> HIDE DEF S
  <2>2. IsFiniteSet(P) /\ Cardinality(P) <= Cardinality(S)
    BY <2>1, FS_Subset
  <2> QED BY <2>1, <2>2
<1>3. Cardinality(P) \in Nat /\ (P # {} => Cardinality(P) # 0)
  BY <1>2, FS_CardinalityType, FS_EmptySet
<1>4. ASSUME NEW s \in P PROVE Cardinality(P \ {s}) = Cardinality(P) - 1
  BY <1>2, FS_RemoveElement
<1> QED BY <1>2, <1>3, <1>4

(* The steps left are a number, wherever a script may be. *)
LEMMA LeftType ==
    ASSUME NEW p \in Places, NEW a \in 1..Attempts, NEW n \in 0..MaxStacks,
           p \in {"destroy", "await", "remove"} => n # 0
    PROVE  Left(p, a, n) \in Nat /\ (Left(p, a, n) = 0 <=> p \in Over)
BY DEF Left, Places, Over, Succeeded, Applying, Deleting

LEMMA StepsAreCounted == StacksInv => StepsCounted
<1> SUFFICES ASSUME StacksInv, NEW r \in Regions
             PROVE  StepsLeft(r) \in Nat /\ (StepsLeft(r) = 0 <=> step[r] \in Over)
  BY DEF StepsCounted
<1>1. /\ step[r] \in Places /\ attempt[r] \in 1..Attempts
      /\ pending[r] \in SUBSET Stacks
      /\ step[r] \in {"destroy", "await", "remove"} => stack[r] \in pending[r]
  BY DEF StacksInv, StacksTypeOK, Sound, DeleteKnows, Places
<1>2. /\ Cardinality(pending[r]) \in 0..MaxStacks
      /\ pending[r] # {} => Cardinality(pending[r]) # 0
  BY <1>1, PendingCount
<1>3. step[r] \in {"destroy", "await", "remove"} => Cardinality(pending[r]) # 0
  BY <1>1, <1>2
<1> QED BY <1>1, <1>2, <1>3, LeftType DEF StepsLeft

(* A step of create_apply_regional_stack.sh. *)
LEMMA LeftApply ==
    ASSUME NEW a \in 1..Attempts, NEW n
    PROVE  /\ \A p \in {"create", "update"} : Left(p, a, n) < Left("list", a, n)
           /\ \A p \in {"create", "update"}, q \in {"job", "failed"} :
                 Left(q, a, n) < Left(p, a, n)
           /\ Left("wait", a, n) < Left("job", a, n)
           /\ \A p \in {"job", "wait"} :
                 /\ Left("failed", a, n) < Left(p, a, n)
                 /\ a < Attempts => Left("job", a + 1, n) < Left(p, a, n)
BY DEF Left, Over, Succeeded

(* A step of delete_stack.sh. *)
LEMMA LeftDelete ==
    ASSUME NEW a, NEW n \in 0..MaxStacks, NEW m \in 0..MaxStacks
    PROVE  /\ \A q \in {"next", "deleted"} : Left(q, a, m) < Left("find", a, n)
           /\ \A q \in {"destroy", "deleted"} : Left(q, a, n) < Left("next", a, n)
           /\ n # 0 => \A q \in {"await", "failed"} : Left(q, a, n) < Left("destroy", a, n)
           /\ n # 0 => \A q \in {"remove", "failed"} : Left(q, a, n) < Left("await", a, n)
           /\ n # 0 /\ m = n - 1 => Left("next", a, m) < Left("remove", a, n)
BY DEF Left, Over, Succeeded

(* One script's move leaves its number of attempts and stacks alone. *)
LEMMA MoveUses ==
    ASSUME StacksTypeOK, NEW r \in Regions, NEW q, Goto(r, q),
           UNCHANGED <<attempt, pending>>,
           Left(q, attempt[r], Cardinality(pending[r])) < StepsLeft(r)
    PROVE  StepsLeft(r)' < StepsLeft(r)
<1>1. step'[r] = q /\ attempt' = attempt /\ pending' = pending
  BY DEF StacksTypeOK, Goto
<1> QED BY <1>1 DEF StepsLeft

LEMMA AttemptUses ==
    ASSUME StacksTypeOK, NEW r \in Regions, step[r] \in {"job", "wait"},
           NextAttempt(r), UNCHANGED pending
    PROVE  StepsLeft(r)' < StepsLeft(r)
<1> DEFINE n == Cardinality(pending[r])
<1>1. attempt[r] \in 1..Attempts /\ pending' = pending
  BY DEF StacksTypeOK
<1>2. CASE attempt[r] < Attempts
  <2>1. step'[r] = "job" /\ attempt'[r] = attempt[r] + 1
    BY <1>2 DEF StacksTypeOK, NextAttempt, Goto
  <2>2. StepsLeft(r)' = Left("job", attempt[r] + 1, n)
    BY <1>1, <2>1 DEF StepsLeft
  <2>3. StepsLeft(r) = Left(step[r], attempt[r], n)
    BY DEF StepsLeft
  <2> HIDE DEF n
  <2> QED BY <1>1, <1>2, <2>2, <2>3, LeftApply
<1>3. CASE ~(attempt[r] < Attempts)
  <2>1. Goto(r, "failed") /\ UNCHANGED attempt
    BY <1>3 DEF NextAttempt
  <2>2. Left("failed", attempt[r], n) < Left(step[r], attempt[r], n)
    <3> HIDE DEF n
    <3> QED BY <1>1, LeftApply
  <2> QED BY <2>1, <2>2, MoveUses DEF StepsLeft
<1> QED BY <1>2, <1>3

LEMMA ScriptStepUses ==
    ASSUME StacksInv, NEW r \in Regions, ScriptStep(r)
    PROVE  StepsLeft(r)' < StepsLeft(r)
<1> DEFINE a == attempt[r]
           n == Cardinality(pending[r])
<1>0. /\ StacksTypeOK /\ a \in 1..Attempts /\ pending[r] \in SUBSET Stacks
      /\ step[r] \in {"destroy", "await", "remove"} => stack[r] \in pending[r]
  BY DEF StacksInv, StacksTypeOK, Sound, DeleteKnows
<1>1. n \in 0..MaxStacks
  BY <1>0, PendingCount
<1>2. step[r] \in {"destroy", "await", "remove"} => n # 0
  BY <1>0, PendingCount
<1>3. StepsLeft(r) = Left(step[r], a, n)
  BY DEF StepsLeft
<1>4. CASE ApplyStep(r)
  <2>1. pending' = pending
    BY <1>4 DEF ApplyStep, ListStacks, CreateStack, UpdateStack, CreateApplyJob
  <2>2. CASE /\ UNCHANGED attempt
             /\ \/ At(r, "list") /\ \E q \in {"create", "update"} : Goto(r, q)
                \/ step[r] \in {"create", "update"} /\ \E q \in {"job", "failed"} : Goto(r, q)
                \/ At(r, "job") /\ Goto(r, "wait")
    <3>1. PICK q : Goto(r, q) /\ Left(q, a, n) < Left(step[r], a, n)
      <4> HIDE DEF a, n
      <4> QED BY <1>0, <2>2, LeftApply DEF At
    <3>2. Left(q, attempt[r], Cardinality(pending[r])) < StepsLeft(r)
      BY <1>3, <3>1
    <3>3. UNCHANGED <<attempt, pending>>
      BY <2>1, <2>2
    <3> HIDE DEF a, n
    <3> QED BY <1>0, <3>1, <3>2, <3>3, MoveUses
  <2>3. CASE At(r, "job") /\ NextAttempt(r)
    BY <1>0, <2>1, <2>3, AttemptUses DEF At
  <2> QED
    BY <1>4, <2>2, <2>3
       DEF ApplyStep, ListStacks, CreateStack, UpdateStack, CreateApplyJob, At
<1>5. CASE WaitEnds(r)
  <2>1. CASE ApplyWaitEnds(r)
    BY <1>0, <2>1, AttemptUses DEF ApplyWaitEnds, At
  <2>2. CASE DestroyWaitEnds(r)
    <3>1. At(r, "await") /\ Goto(r, "failed") /\ UNCHANGED <<attempt, pending>>
      BY <2>2 DEF DestroyWaitEnds
    <3>2. Left("failed", a, n) < Left("await", a, n)
      <4> HIDE DEF a, n
      <4> QED BY <1>1, <1>2, <3>1, LeftDelete DEF At
    <3> QED BY <1>0, <1>3, <3>1, <3>2, MoveUses DEF At
  <2> QED BY <1>5, <2>1, <2>2 DEF WaitEnds
<1>6. CASE DeleteStep(r)
  <2>1. attempt' = attempt
    BY <1>6 DEF DeleteStep, FindStacks, NextStack, CreateDestroyJob, RemoveStack
  <2>2. CASE /\ UNCHANGED pending
             /\ \/ At(r, "find") /\ Goto(r, "deleted")
                \/ At(r, "next") /\ \E q \in {"destroy", "deleted"} : Goto(r, q)
                \/ At(r, "destroy") /\ \E q \in {"await", "failed"} : Goto(r, q)
    <3>1. PICK q : Goto(r, q) /\ Left(q, a, n) < Left(step[r], a, n)
      <4> HIDE DEF a, n
      <4> QED BY <1>1, <1>2, <2>2, LeftDelete DEF At
    <3>2. Left(q, attempt[r], Cardinality(pending[r])) < StepsLeft(r)
      BY <1>3, <3>1
    <3>3. UNCHANGED <<attempt, pending>>
      BY <2>1, <2>2
    <3> HIDE DEF a, n
    <3> QED BY <1>0, <3>1, <3>2, <3>3, MoveUses
  <2>3. CASE At(r, "find") /\ Goto(r, "next") /\ pending' = [pending EXCEPT ![r] = Existing(r)]
    <3>1. step'[r] = "next" /\ attempt' = attempt /\ pending'[r] = Existing(r)
      BY <1>0, <2>1, <2>3 DEF StacksTypeOK, Goto
    <3>2. PICK m \in 0..MaxStacks : m = Cardinality(Existing(r))
      BY PendingCount DEF Existing
    <3>3. StepsLeft(r)' = Left("next", a, m)
      BY <3>1, <3>2 DEF StepsLeft
    <3>4. Left("next", a, m) < Left("find", a, n)
      <4> HIDE DEF a, n
      <4> QED BY <1>1, LeftDelete
    <3> QED BY <1>3, <2>3, <3>3, <3>4 DEF At
  <2>4. CASE /\ At(r, "remove") /\ Goto(r, "next")
             /\ pending' = [pending EXCEPT ![r] = @ \ {stack[r]}]
    <3>1. /\ step'[r] = "next" /\ attempt' = attempt
          /\ pending'[r] = pending[r] \ {stack[r]} /\ stack[r] \in pending[r]
      BY <1>0, <2>1, <2>4 DEF StacksTypeOK, Goto, At
    <3>2. PICK m \in 0..MaxStacks : m = Cardinality(pending[r] \ {stack[r]}) /\ m = n - 1
      <4>1. Cardinality(pending[r] \ {stack[r]}) = n - 1
        BY <1>0, <3>1, PendingCount
      <4>2. n # 0
        BY <1>2, <2>4 DEF At
      <4> HIDE DEF n
      <4>3. n - 1 \in 0..MaxStacks
        BY <1>1, <4>2
      <4> QED BY <4>1, <4>3
    <3>3. StepsLeft(r)' = Left("next", a, m)
      BY <3>1, <3>2 DEF StepsLeft
    <3>4. Left("next", a, m) < Left("remove", a, n)
      <4>1. n # 0
        BY <1>2, <2>4 DEF At
      <4> HIDE DEF a, n
      <4> QED BY <1>1, <3>2, <4>1, LeftDelete
    <3> QED BY <1>3, <2>4, <3>3, <3>4 DEF At
  <2> QED
    BY <1>6, <2>2, <2>3, <2>4
       DEF DeleteStep, FindStacks, NextStack, CreateDestroyJob, RemoveStack
<1> QED BY <1>4, <1>5, <1>6 DEF ScriptStep

(* The end of a job is what a script waited for, or nothing to it. *)
LEMMA JobEndUses ==
    ASSUME StacksInv, NEW r \in Regions, ManagerStep(r)
    PROVE  StepsLeft(r)' <= StepsLeft(r)
<1> DEFINE a == attempt[r]
           n == Cardinality(pending[r])
<1>0. StacksTypeOK /\ StepsCounted /\ StepsLeft(r) = Left(step[r], a, n)
  BY StepsAreCounted DEF StacksInv, StepsLeft
<1>1. attempt' = attempt /\ pending' = pending
  BY DEF ManagerStep, JobSucceeds, JobFails
<1>2. CASE step'[r] = step[r]
  BY <1>0, <1>1, <1>2 DEF StepsLeft, StepsCounted
<1>3. CASE step[r] \in {"wait", "await"} /\ step'[r] \in {"applied", "failed"}
  <2>1. StepsLeft(r)' = 0
    BY <1>1, <1>3 DEF StepsLeft, Left, Over, Succeeded
  <2> QED BY <1>0, <2>1 DEF StepsCounted
<1>4. CASE step[r] = "await" /\ step'[r] = "remove"
  <2>1. StepsLeft(r)' = Left("remove", a, n) /\ StepsLeft(r) = Left("await", a, n)
    BY <1>0, <1>1, <1>4 DEF StepsLeft
  <2>2. n \in 0..MaxStacks
    BY <1>0, PendingCount DEF StacksTypeOK
  <2>3. n # 0
    BY <1>0, <1>4, PendingCount DEF StacksInv, StacksTypeOK, Sound, DeleteKnows
  <2>4. Left("remove", a, n) < Left("await", a, n)
    <3> HIDE DEF a, n
    <3> QED BY <2>2, <2>3, LeftDelete
  <2>5. StepsLeft(r)' < StepsLeft(r) /\ StepsLeft(r) \in Nat
    BY <1>0, <2>1, <2>4 DEF StepsCounted
  <2>6. StepsLeft(r)' \in Int
    <3> HIDE DEF n
    <3> QED BY <2>1, <2>2 DEF Left
  <2> HIDE DEF a, n
  <2> QED BY <2>5, <2>6
<1>5. PICK s \in Stacks, good \in BOOLEAN : Ends(r, s, good)
  BY DEF ManagerStep, JobSucceeds, JobFails
<1>6. \/ step' = step
      \/ /\ step[r] \in {"wait", "await"}
         /\ step' = [step EXCEPT ![r] = IF ~good THEN "failed"
                                        ELSE IF @ = "wait" THEN "applied" ELSE "remove"]
  BY <1>5 DEF Ends, Awaited
<1>7. step \in [Regions -> Places]
  BY <1>0 DEF StacksTypeOK, Places
<1> QED BY <1>2, <1>3, <1>4, <1>6, <1>7

LEMMA OthersGiveNothing ==
    ASSUME StacksInv, StepsCounted', [StacksNext]_stackVars, ~AnyRun, ~AnyApply,
           NEW r \in Regions
    PROVE  StepsLeft(r)' <= StepsLeft(r)
<1>0. StacksTypeOK /\ StepsLeft(r) \in Nat /\ StepsLeft(r)' \in Nat
  BY StepsAreCounted DEF StacksInv, StepsCounted
<1>1. CASE step'[r] = step[r] /\ attempt'[r] = attempt[r] /\ pending'[r] = pending[r]
  <2>1. StepsLeft(r)' = StepsLeft(r)
    BY <1>1 DEF StepsLeft
  <2> QED BY <1>0, <2>1
<1>2. CASE UNCHANGED stackVars \/ OtherFault
  BY <1>1, <1>2 DEF stackVars, OtherFault, script
<1>3. CASE ScriptStep(r)
  BY <1>0, <1>3, ScriptStepUses
<1>4. CASE ManagerStep(r)
  BY <1>4, JobEndUses
<1>5. ASSUME NEW q \in Regions, q # r, StacksStep(q)
      PROVE  step'[r] = step[r] /\ attempt'[r] = attempt[r] /\ pending'[r] = pending[r]
  <2>1. CASE ApplyStep(q) \/ WaitEnds(q)
    BY <1>0, <1>5, <2>1
       DEF ApplyStep, WaitEnds, ListStacks, CreateStack, UpdateStack, CreateApplyJob,
           ApplyWaitEnds, DestroyWaitEnds, NextAttempt, Goto, StacksTypeOK
  <2>2. CASE DeleteStep(q)
    BY <1>0, <1>5, <2>2
       DEF DeleteStep, FindStacks, NextStack, CreateDestroyJob, RemoveStack, Goto, StacksTypeOK
  <2>3. CASE ManagerStep(q)
    <3>1. attempt' = attempt /\ pending' = pending
      BY <2>3 DEF ManagerStep, JobSucceeds, JobFails
    <3>2. PICK s \in Stacks, good \in BOOLEAN : Ends(q, s, good)
      BY <2>3 DEF ManagerStep, JobSucceeds, JobFails
    <3>3. step'[r] = step[r]
      BY <1>0, <1>5, <3>2 DEF Ends, StacksTypeOK
    <3> QED BY <3>1, <3>3
  <2> QED BY <1>5, <2>1, <2>2, <2>3 DEF StacksStep
<1> QED BY <1>1, <1>2, <1>3, <1>4, <1>5 DEF StacksNext, StacksStep, ScriptStep

(* The scripts never wait for a job that has already ended, in whatever order
   the jobs of a stack are created, left behind and run
   (create_apply_regional_stack.sh:85-118, delete_stack.sh:24-44). *)
THEOREM NoWaitForNothing == StacksSpec => []WaitsForJob
<1>1. StacksInv => WaitsForJob
  <2> SUFFICES ASSUME StacksInv, NEW r \in Regions, step[r] \in {"wait", "await"}
               PROVE  jobs[r][stack[r]] # <<>>
    BY DEF WaitsForJob
  <2>1. Newest(r, stack[r]) # "none"
    BY DEF StacksInv, StacksTypeOK, Sound, ApplyKnows, DeleteKnows, At
  <2> QED BY <2>1 DEF Newest
<1> QED BY <1>1, StacksInvariance, PTL

(* A script cannot go on for ever: each of its steps uses up one of at most two
   for each attempt and four for each stack, whatever fails on the way, and only
   the next run of Terraform starts it again
   (create_apply_regional_stack.sh:85, delete_stack.sh:19). *)
THEOREM ScriptsUseUpSteps ==
    StacksSpec => []StepsCounted /\ [][StepsShrink]_stackVars
<1>1. StacksInv => StepsCounted
  BY StepsAreCounted
<1>2. StacksInv' => StepsCounted'
  BY <1>1, PTL
<1>3. StacksInv /\ StacksInv' /\ [StacksNext]_stackVars => [StepsShrink]_stackVars
  <2> SUFFICES ASSUME StacksInv, StacksInv', [StacksNext]_stackVars PROVE StepsShrink
    OBVIOUS
  <2>1. ASSUME NEW r \in Regions, ScriptStep(r) PROVE StepsLeft(r)' < StepsLeft(r)
    BY <2>1, ScriptStepUses
  <2>2. ASSUME NEW r \in Regions, ~AnyRun, ~AnyApply PROVE StepsLeft(r)' <= StepsLeft(r)
    BY <1>2, <2>2, OthersGiveNothing
  <2> QED BY <2>1, <2>2 DEF StepsShrink
<1> QED BY <1>1, <1>3, StacksInvariance, PTL DEF StacksSpec
=============================================================================
