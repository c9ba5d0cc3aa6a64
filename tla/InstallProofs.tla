----------------------------- MODULE InstallProofs ------------------------------
(***************************************************************************)
(* Proofs about Install: a run of Terraform drives the scripts the way     *)
(* RegionalStacks allows, so that all that is proved there holds of it;    *)
(* and what a run knows of its scripts, of the key and of the state makes  *)
(* its result mean what it says.                                           *)
(***************************************************************************)
EXTENDS Install, RegionalStacksProofs, FiniteSetTheorems

Served(r) ==
    /\ \E s \in Existing(r) :
          config[r][s] = wanted /\ live[r][s] = wanted /\ jobs[r][s] = <<>>
    /\ ~misread => Cardinality(Existing(r)) = 1

Filled(r) == \E s \in Stacks : ~Empty(r, s)

(* Which regions the scripts of this run are for. *)
ScriptsBelong ==
    \A r \in Regions :
        /\ step[r] \in Deleting \cup {"deleted"} => r \in tracked \ targets
        /\ step[r] \in Applying \cup {"applied"} =>
              phase = "apply" /\ r \in targets \cap images /\ KmsReady
        /\ At(r, "skipped") => phase = "apply" /\ r \in targets \ images
        /\ At(r, "failed") =>
              r \in tracked \ targets \/ (phase = "apply" /\ r \in targets /\ KmsReady)

Remembered ==
    ~misread =>
        \A r \in Regions \ (tracked \cup strays) : Filled(r) =>
            phase = "apply" /\ r \in targets /\ step[r] \notin {"off", "skipped"}

KeyKnown ==
    /\ phase # "apply" => keyStep = "off"
    /\ keyStep # "off" \/ registered # 0 => Names \subseteq created
    /\ keyStep \in {"evict", "again"} => newKey \in KeyIds
    /\ keyStep = "done" => newKey \in keys

ResultKnown ==
    /\ phase = "idle" => \A r \in Regions : At(r, "off")
    /\ result = "registered" =>
          /\ phase = "apply" /\ keyStep = "done" /\ registered = newKey
          /\ \A r \in reported : At(r, "applied")
    /\ result = "ok" =>
          phase = "idle" /\ registered \in keys /\ \A r \in reported : Served(r)
    /\ result = "removed" => phase = "idle" /\ registered = 0
    /\ phase = "idle" /\ result = "none" => registered = 0

MarkerKnown ==
    /\ ~marker => created = {}
    /\ phase \in {"build", "apply"} => marker
    /\ NoSurprise

InstallInv ==
    /\ InstallTypeOK /\ StacksInv
    /\ ScriptsBelong /\ Remembered /\ KeyKnown /\ ResultKnown /\ MarkerKnown

USE InstallAssumption

-----------------------------------------------------------------------------
(* Types, and the steps of RegionalStacks. *)

(* What a call or a fault of any step does to the faults still to come. *)
LEMMA BudgetKept ==
    ASSUME StacksTypeOK, InstallNext
    PROVE  budget' \in [AllFaults -> Nat] \/ \E r \in Regions : StacksStep(r)
<1> USE FaultType, CallType DEF AllFaults, StacksTypeOK, chance, stackVars
<1>1. CASE AnyBegin
  BY <1>1 DEF AnyBegin, BeginSome, Begin
<1>2. CASE BeginDestroy
  BY <1>2 DEF BeginDestroy
<1>3. CASE Cancel
  BY <1>3 DEF Cancel
<1>4. CASE Terraform
  <2>1. CASE Provision
    BY <2>1 DEF Provision
  <2>2. CASE Register
    BY <2>2 DEF Register
  <2>3. CASE Unregister
    BY <2>3 DEF Unregister
  <2>4. CASE RemoveIdentity
    BY <2>4 DEF RemoveIdentity
  <2>5. CASE StartScripts
    BY <2>5 DEF StartScripts, StartApply
  <2>6. CASE Check \/ Track \/ EndApply \/ EndDestroy
    BY <2>6 DEF Check, Track, EndApply, EndDestroy
  <2> QED
    BY <1>4, <2>1, <2>2, <2>3, <2>4, <2>5, <2>6 DEF Terraform
<1>5. CASE Scripts
  <2>1. CASE KeyStep({registered}, tenancy.limit)
    BY <2>1 DEF KeyStep, UploadKey, EvictOldest, UploadAgain, AwaitKey, CreateKey
  <2> QED
    BY <1>5, <2>1 DEF Scripts, StacksStep
<1> QED
  BY <1>1, <1>2, <1>3, <1>4, <1>5 DEF InstallNext

(* What a run of Terraform does to the scripts is a step of RegionalStacks. *)
LEMMA Refines ==
    ASSUME InstallTypeOK, InstallNext
    PROVE  StacksNext \/ UNCHANGED stackVars
<1>1. CASE \E r \in Regions : StacksStep(r)
  BY <1>1 DEF StacksNext
<1>2. CASE budget' \in [AllFaults -> Nat] /\ ~(\E r \in Regions : StacksStep(r))
  <2> USE <1>2
  <2>1. CASE AnyBegin
    <3>1. PICK c \in Configs, T \in tenancy.plans : \E u, o : Begin(c, T, u, o)
      BY <2>1 DEF AnyBegin, BeginSome
    <3>2. tracked \ T \in SUBSET Regions
      BY DEF InstallTypeOK
    <3>3. AnyRun
      BY <3>1, <3>2 DEF Begin, AnyRun
    <3> QED
      BY <3>3 DEF StacksNext
  <2>2. CASE BeginDestroy
    <3>1. AnyRun
      BY <2>2 DEF BeginDestroy, AnyRun, InstallTypeOK, StacksTypeOK, chance
    <3> QED
      BY <3>1 DEF StacksNext
  <2>3. CASE Cancel \/ EndApply \/ EndDestroy
    <3>1. RunOver /\ UNCHANGED <<manager, wanted, misread>>
      BY <2>3 DEF Cancel, EndApply, EndDestroy, chance
    <3>2. AnyRun
      BY <3>1 DEF RunOver, AnyRun, InstallTypeOK, StacksTypeOK
    <3> QED
      BY <3>2 DEF StacksNext
  <2>4. CASE StartScripts
    <3>1. Startable \in SUBSET Regions /\ \A r \in Startable : At(r, "off")
      BY DEF Startable, InstallTypeOK
    <3>2. AnyApply
      BY <2>4, <3>1 DEF StartScripts, AnyApply, InstallTypeOK
    <3> QED
      BY <3>2 DEF StacksNext
  <2>5. CASE Provision \/ Register \/ Unregister \/ RemoveIdentity
    BY <2>5 DEF Provision, Register, Unregister, RemoveIdentity, StacksNext, OtherFault
  <2>6. CASE Check \/ Track
    BY <2>6 DEF Check, Track
  <2>7. CASE Scripts
    BY <2>7 DEF Scripts, StacksStep, StacksNext, OtherFault
  <2> QED
    BY <2>1, <2>2, <2>3, <2>4, <2>5, <2>6, <2>7 DEF InstallNext, Terraform
<1> QED
  BY <1>1, <1>2, BudgetKept DEF InstallTypeOK

(* Every step keeps the types. *)
LEMMA InstallTypes ==
    ASSUME InstallTypeOK, KeyKnown, StacksTypeOK', InstallNext
    PROVE  InstallTypeOK'
<1> USE DEF InstallTypeOK, KeyOver, terraform, datadog, keyVars
<1>1. CASE AnyBegin
  <2>1. PICK T \in tenancy.plans, o \in tenancy.modes :
          \E c, u : Begin(c, T, u, o)
    BY <1>1 DEF AnyBegin, BeginSome
  <2>2. T \subseteq Regions /\ o \in BOOLEAN
    <3>1. tenancy.plans \in SUBSET SUBSET Regions /\ tenancy.modes \in SUBSET BOOLEAN
      OBVIOUS
    <3> QED
      BY <3>1
  <2> QED
    BY <2>1, <2>2 DEF Begin
<1>2. CASE BeginDestroy
  BY <1>2 DEF BeginDestroy
<1>3. CASE Cancel \/ EndApply \/ EndDestroy
  <2>1. Kept \subseteq Regions
    BY DEF Kept
  <2> QED
    BY <1>3, <2>1 DEF Cancel, EndApply, EndDestroy, RunOver
<1>4. CASE Check \/ Track \/ StartScripts
  <2>1. CASE Check
    BY <2>1 DEF Check
  <2>2. CASE Track
    BY <2>2 DEF Track
  <2>3. CASE StartScripts
    BY <2>3 DEF StartScripts
  <2> QED
    BY <1>4, <2>1, <2>2, <2>3
<1>5. CASE Provision \/ RemoveIdentity
  <2>1. CASE Provision
    <3>1. created' \subseteq Resources /\ keyStep' \in {"upload", "off"}
      BY <2>1 DEF Provision
    <3> QED
      BY <2>1, <3>1 DEF Provision
  <2>2. CASE RemoveIdentity
    <3>1. created' \subseteq created /\ keys' \subseteq keys /\ result' \in {result, "failed"}
      BY <2>2 DEF RemoveIdentity
    <3> QED
      BY <2>2, <3>1 DEF RemoveIdentity
  <2> QED
    BY <1>5, <2>1, <2>2
<1>6. CASE Register \/ Unregister
  BY <1>6 DEF Register, Unregister
<1>7. CASE Scripts
  <2>1. CASE KeyStep({registered}, tenancy.limit) /\ UNCHANGED <<terraform, datadog>>
    <3>1. newKey' \in KeyIds \cup {0}
      BY <2>1 DEF KeyStep, UploadKey, EvictOldest, UploadAgain, AwaitKey, MakePair
    <3>2. keys' \subseteq KeyIds
      <4>1. CASE UploadKey({registered}, tenancy.limit)
        <5>1. newKey' \in KeyIds
          BY <4>1 DEF UploadKey, MakePair
        <5> QED
          BY <4>1, <5>1 DEF UploadKey, CreateKey
      <4>2. CASE UploadAgain(tenancy.limit)
        BY <4>2 DEF UploadAgain, CreateKey, KeyKnown
      <4> QED
        BY <2>1, <4>1, <4>2 DEF KeyStep, EvictOldest, AwaitKey
    <3>3. keyStep' \in KeyOver \cup {"upload", "evict", "again", "poll"}
      BY <2>1 DEF KeyStep, UploadKey, EvictOldest, UploadAgain, AwaitKey, CreateKey
    <3> QED
      BY <2>1, <3>1, <3>2, <3>3
  <2>2. CASE UNCHANGED <<keyVars, terraform, datadog>>
    BY <2>2
  <2> QED
    BY <1>7, <2>1, <2>2 DEF Scripts
<1> QED
  BY <1>1, <1>2, <1>3, <1>4, <1>5, <1>6, <1>7 DEF InstallNext, Terraform

-----------------------------------------------------------------------------
(* What the steps of the scripts do. *)

(* A script moves on in its own region, from one of its places to the next. *)
LEMMA ScriptMoves ==
    ASSUME StacksTypeOK, NEW r \in Regions, StacksStep(r)
    PROVE  /\ \A q \in Regions \ {r} : step'[q] = step[q]
           /\ \/ step'[r] = step[r]
              \/ step[r] \in Applying /\ step'[r] \in Applying \cup {"applied", "failed"}
              \/ step[r] \in Deleting /\ step'[r] \in Deleting \cup {"deleted", "failed"}
<1> USE DEF Goto, At, Applying, Deleting
<1>1. CASE ApplyStep(r)
  BY <1>1 DEF ApplyStep, ListStacks, CreateStack, UpdateStack, CreateApplyJob, NextAttempt,
              StacksTypeOK
<1>2. CASE DeleteStep(r)
  BY <1>2 DEF DeleteStep, FindStacks, NextStack, CreateDestroyJob, RemoveStack, StacksTypeOK
<1>3. CASE WaitEnds(r)
  BY <1>3 DEF WaitEnds, ApplyWaitEnds, DestroyWaitEnds, NextAttempt, StacksTypeOK
<1>4. CASE ManagerStep(r)
  <2>1. PICK s \in Stacks : Ends(r, s, TRUE) \/ Ends(r, s, FALSE)
    BY <1>4 DEF ManagerStep, JobSucceeds, JobFails
  <2> QED
    BY <2>1 DEF Ends, Awaited, StacksTypeOK
<1> QED
  BY <1>1, <1>2, <1>3, <1>4 DEF StacksStep

(* A job that ends changes its own stack's resources and queue. *)
LEMMA JobStep ==
    ASSUME StacksTypeOK, NEW r \in Regions, NEW s \in Stacks,
           JobSucceeds(r, s) \/ JobFails(r, s)
    PROVE  /\ UNCHANGED <<config, wanted, misread>> /\ jobs[r][s] # <<>>
           /\ \A q \in Regions, t \in Stacks : q # r \/ t # s =>
                 live'[q][t] = live[q][t] /\ jobs'[q][t] = jobs[q][t]
<1>1. /\ jobs' = [jobs EXCEPT ![r][s] = Tail(@)]
      /\ live' = live \/ \E v : live' = [live EXCEPT ![r][s] = v]
  BY DEF JobSucceeds, JobFails
<1>2. \A q \in Regions, t \in Stacks : q # r \/ t # s => jobs'[q][t] = jobs[q][t]
  BY <1>1 DEF StacksTypeOK
<1>3. \A q \in Regions, t \in Stacks : q # r \/ t # s => live'[q][t] = live[q][t]
  BY <1>1 DEF StacksTypeOK
<1> QED
  BY <1>2, <1>3 DEF JobSucceeds, JobFails, chance

(* Only a script puts something in a region where nothing is. *)
LEMMA ScriptFills ==
    ASSUME StacksTypeOK, NEW r \in Regions, StacksStep(r)
    PROVE  /\ wanted' = wanted /\ (misread => misread')
           /\ \A q \in Regions : Filled(q)' =>
                 \/ Filled(q)
                 \/ q = r /\ step[r] \in Applying \cup Deleting
<1>1. wanted' = wanted /\ (misread => misread')
  <2>1. CASE ApplyStep(r)
    BY <2>1 DEF ApplyStep, ListStacks, CreateStack, UpdateStack, CreateApplyJob, chance
  <2>2. CASE DeleteStep(r)
    BY <2>2 DEF DeleteStep, FindStacks, NextStack, CreateDestroyJob, RemoveStack, chance
  <2>3. CASE WaitEnds(r)
    BY <2>3 DEF WaitEnds, ApplyWaitEnds, DestroyWaitEnds
  <2>4. CASE ManagerStep(r)
    BY <2>4, JobStep DEF ManagerStep
  <2> QED
    BY <2>1, <2>2, <2>3, <2>4 DEF StacksStep
<1>2. CASE ManagerStep(r)
  <2>1. PICK s \in Stacks : JobSucceeds(r, s) \/ JobFails(r, s)
    BY <1>2 DEF ManagerStep
  <2>2. Filled(r) /\ \A q \in Regions \ {r}, t \in Stacks :
                       live'[q][t] = live[q][t] /\ jobs'[q][t] = jobs[q][t]
    BY <2>1, JobStep DEF Filled, Empty
  <2>3. ASSUME NEW q \in Regions \ {r} PROVE Filled(q)' => Filled(q)
    BY <2>2 DEF Filled, Empty
  <2> QED
    BY <1>1, <2>2, <2>3
<1>3. CASE ~ManagerStep(r)
  <2>1. step[r] \in Applying \cup Deleting
    BY <1>3 DEF StacksStep, ApplyStep, DeleteStep, WaitEnds, ListStacks, CreateStack,
         UpdateStack, CreateApplyJob, FindStacks, NextStack, CreateDestroyJob, RemoveStack,
         ApplyWaitEnds, DestroyWaitEnds, At, Applying, Deleting
  <2>2. live' = live /\ \A q \in Regions \ {r} : jobs'[q] = jobs[q]
    BY <1>3 DEF StacksStep, ApplyStep, DeleteStep, WaitEnds, ListStacks, CreateStack,
         UpdateStack, CreateApplyJob, FindStacks, NextStack, CreateDestroyJob, RemoveStack,
         ApplyWaitEnds, DestroyWaitEnds, manager, Enqueue, StacksTypeOK
  <2>3. ASSUME NEW q \in Regions \ {r} PROVE Filled(q)' => Filled(q)
    BY <2>2 DEF Filled, Empty
  <2> QED
    BY <1>1, <2>1, <2>3
<1> QED
  BY <1>2, <1>3

(* When no script runs, Resource Manager leaves a region alone that has the stack
   and nothing to do for it. *)
LEMMA ServedStays ==
    ASSUME StacksTypeOK, NEW r \in Regions, StacksStep(r),
           \A q \in Regions : At(q, "off"), NEW q \in Regions, Served(q)
    PROVE  Served(q)'
<1>1. PICK s \in Stacks : JobSucceeds(r, s) \/ JobFails(r, s)
  BY DEF StacksStep, ManagerStep, ApplyStep, DeleteStep, WaitEnds, ListStacks, CreateStack,
         UpdateStack, CreateApplyJob, FindStacks, NextStack, CreateDestroyJob, RemoveStack,
         ApplyWaitEnds, DestroyWaitEnds, At
<1>2. UNCHANGED <<config, wanted, misread>>
  BY <1>1, JobStep
<1>3. Existing(q)' = Existing(q)
  BY <1>2 DEF Existing
<1>4. PICK t \in Existing(q) : config[q][t] = wanted /\ live[q][t] = wanted /\ jobs[q][t] = <<>>
  BY DEF Served
<1>5. ~(q = r /\ t = s)
  BY <1>1, <1>4, JobStep
<1>6. live'[q][t] = live[q][t] /\ jobs'[q][t] = jobs[q][t]
  BY <1>1, <1>5, JobStep DEF Existing
<1> QED
  BY <1>2, <1>3, <1>4, <1>6 DEF Served

(* What a region has does not change while Resource Manager does nothing. *)
LEMMA Untouched ==
    ASSUME UNCHANGED manager
    PROVE  \A r \in Regions : /\ Filled(r)' <=> Filled(r)
                              /\ wanted' = wanted /\ misread' = misread /\ Served(r)
                                    => Served(r)'
<1>1. \A r \in Regions : Existing(r)' = Existing(r)
  BY DEF manager, Existing
<1>2. \A r \in Regions : Filled(r)' <=> Filled(r)
  BY DEF manager, Filled, Empty
<1>3. ASSUME NEW r \in Regions, wanted' = wanted, misread' = misread, Served(r)
      PROVE  Served(r)'
  BY <1>1, <1>3 DEF manager, Served
<1> QED
  BY <1>2, <1>3

-----------------------------------------------------------------------------
(* What a run knows, step by step. *)

RunKnows == ScriptsBelong /\ Remembered /\ KeyKnown /\ ResultKnown /\ MarkerKnown

(* The scripts of the regions go on. *)
LEMMA ScriptsKnown ==
    ASSUME InstallInv, NEW r \in Regions, StacksStep(r),
           UNCHANGED <<keyVars, terraform, datadog>>
    PROVE  RunKnows'
<1> USE DEF keyVars, terraform, datadog
<1>0. InstallTypeOK /\ StacksTypeOK
  BY DEF InstallInv, InstallTypeOK
<1>1. ScriptsBelong'
  BY <1>0, ScriptMoves DEF InstallInv, ScriptsBelong, At, KmsReady, Applying, Deleting
<1>2. Remembered'
  <2> SUFFICES ASSUME ~misread', NEW q \in Regions \ (tracked \cup strays), Filled(q)'
               PROVE  phase = "apply" /\ q \in targets /\ step'[q] \notin {"off", "skipped"}
    BY DEF Remembered
  <2>1. ~misread /\ (Filled(q) \/ (q = r /\ step[r] \in Applying \cup Deleting))
    BY <1>0, ScriptFills
  <2>2. phase = "apply" /\ q \in targets /\ step[q] \notin {"off", "skipped"}
    BY <2>1 DEF InstallInv, Remembered, ScriptsBelong, Applying
  <2> QED
    BY <1>0, <2>2, ScriptMoves DEF Applying, Deleting
<1>3. KeyKnown' /\ MarkerKnown'
  BY DEF InstallInv, KeyKnown, MarkerKnown, NoSurprise
<1>4. ResultKnown'
  <2>1. phase = "idle" => \A q \in Regions : At(q, "off")'
    BY <1>0, ScriptMoves DEF InstallInv, ResultKnown, At, Applying, Deleting
  <2>2. result = "registered" => \A q \in reported : At(q, "applied")'
    BY <1>0, ScriptMoves DEF InstallInv, ResultKnown, InstallTypeOK, At, Applying, Deleting
  <2>3. result = "ok" => \A q \in reported : Served(q)'
    BY <1>0, ServedStays DEF InstallInv, ResultKnown, InstallTypeOK
  <2> QED
    BY <2>1, <2>2, <2>3 DEF InstallInv, ResultKnown
<1> QED
  BY <1>1, <1>2, <1>3, <1>4 DEF RunKnows

(* The script of the key goes on. *)
LEMMA KeysKnown ==
    ASSUME InstallInv, KeyStep({registered}, tenancy.limit),
           UNCHANGED <<manager, script, wanted, misread, terraform, datadog>>
    PROVE  RunKnows'
<1> USE DEF manager, script, terraform, datadog
<1>1. phase = "apply" /\ Names \subseteq created /\ keyStep \in {"upload", "evict", "again", "poll"}
  BY DEF InstallInv, KeyKnown, KeyStep, UploadKey, EvictOldest, UploadAgain, AwaitKey
<1>2. ScriptsBelong' /\ Remembered'
  BY Untouched DEF InstallInv, ScriptsBelong, Remembered, At, KmsReady
<1>3. KeyKnown'
  BY <1>1 DEF KeyKnown, KeyStep, UploadKey, EvictOldest, UploadAgain, AwaitKey, CreateKey,
     MakePair, InstallInv
<1>4. ResultKnown'
  BY <1>1 DEF InstallInv, ResultKnown, At
<1>5. MarkerKnown'
  BY DEF InstallInv, MarkerKnown, NoSurprise
<1> QED
  BY <1>2, <1>3, <1>4, <1>5 DEF RunKnows

(* A run begins with the scripts that destroy the regions it is not for. *)
LEMMA BeginKnown ==
    ASSUME InstallInv, NEW c, NEW T, NEW u, NEW o, Begin(c, T, u, o)
    PROVE  RunKnows'
<1> USE DEF Begin, datadog, keyVars
<1>1. \A r \in Regions : step'[r] = IF r \in tracked \ T THEN "find" ELSE "off"
  BY DEF StartDelete
<1>2. ScriptsBelong'
  BY <1>1 DEF ScriptsBelong, At, Deleting, Applying
<1>3. Remembered'
  BY Untouched DEF InstallInv, Remembered
<1>4. KeyKnown' /\ ResultKnown' /\ MarkerKnown'
  BY DEF InstallInv, KeyKnown, ResultKnown, MarkerKnown, NoSurprise
<1> QED
  BY <1>2, <1>3, <1>4 DEF RunKnows

(* A run that destroys the stack begins. *)
LEMMA BeginDestroyKnown ==
    ASSUME InstallInv, BeginDestroy
    PROVE  RunKnows'
<1> USE DEF BeginDestroy, datadog, keyVars, chance
<1>1. \A r \in Regions : step'[r] = IF r \in tracked THEN "find" ELSE "off"
  BY DEF StartDelete
<1>2. ScriptsBelong'
  BY <1>1 DEF ScriptsBelong, At, Deleting, Applying
<1>3. Remembered'
  BY Untouched DEF InstallInv, Remembered
<1>4. KeyKnown' /\ ResultKnown' /\ MarkerKnown'
  BY DEF InstallInv, KeyKnown, ResultKnown, MarkerKnown, NoSurprise
<1> QED
  BY <1>2, <1>3, <1>4 DEF RunKnows

(* The checks of a run: what they accept is what NoSurprise says. *)
LEMMA CheckKnown ==
    ASSUME InstallInv, Check
    PROVE  RunKnows'
<1> USE DEF Check, stackVars, manager, script, chance, datadog, keyVars
<1>1. ~marker /\ marker' => NoSurprise'
  <2> SUFFICES ASSUME ~marker, ~Refuses(Seen)
               PROVE  /\ tenancy.names \subseteq tenancy.owned
                      /\ ~VaultReady(tenancy) => ~tenancy.reuse /\ (tenancy.vault \/ tenancy.gov)
    BY DEF NoSurprise
  <2>1. created = {} /\ tenancy \in Tenancies
    BY DEF InstallInv, MarkerKnown, InstallTypeOK
  <2>2. /\ Seen.names = tenancy.names /\ Seen.owned = tenancy.owned
        /\ Seen.vault = tenancy.vault /\ Seen.gov = tenancy.gov /\ Seen.room = tenancy.room
        /\ Seen.reuse = tenancy.reuse /\ Seen.old = tenancy.old
    BY <2>1 DEF Seen, KmsReady
  <2>3. AlreadyExists(Seen) = {}
        /\ IF Seen.reuse THEN ExistingVaultOK(Seen) ELSE VaultQuotaOK(Seen)
    BY DEF Refuses, Errors
  <2>4. tenancy.names \subseteq tenancy.owned
    BY <2>2, <2>3 DEF AlreadyExists, PolicyOwnedByDatadog
  <2>5. ~VaultReady(tenancy) => ~tenancy.reuse /\ (tenancy.vault \/ tenancy.gov)
    BY <2>2, <2>3 DEF VaultReady, ExistingVaultOK, VaultQuotaOK, VaultExists
  <2> QED
    BY <2>4, <2>5
<1>2. MarkerKnown'
  BY <1>1 DEF InstallInv, MarkerKnown, NoSurprise
<1>3. ScriptsBelong' /\ Remembered'
  BY Untouched DEF InstallInv, ScriptsBelong, Remembered, At, KmsReady
<1>4. KeyKnown' /\ ResultKnown'
  BY DEF InstallInv, KeyKnown, ResultKnown, At
<1> QED
  BY <1>2, <1>3, <1>4 DEF RunKnows

(* Resources are created, and the key script starts when auth is complete. *)
LEMMA ProvisionKnown ==
    ASSUME InstallInv, Provision
    PROVE  RunKnows'
<1> USE DEF Provision, manager, script, datadog
<1>1. created \subseteq created' /\ phase' = "apply" /\ keyStep' \in {"off", "upload"}
  <2>1. created \subseteq created'
    BY Zenon
  <2> QED
    BY <2>1
<1>2. ScriptsBelong'
  BY <1>1 DEF InstallInv, ScriptsBelong, At, KmsReady
<1>3. Remembered'
  BY Untouched DEF InstallInv, Remembered
<1>4. KeyKnown'
  BY <1>1 DEF InstallInv, KeyKnown
<1>5. ResultKnown'
  BY <1>1 DEF InstallInv, ResultKnown
<1>6. MarkerKnown'
  BY <1>1 DEF InstallInv, MarkerKnown, NoSurprise
<1> QED
  BY <1>2, <1>3, <1>4, <1>5, <1>6 DEF RunKnows

(* The regions of the run are in the state. *)
LEMMA TrackKnown ==
    ASSUME InstallInv, Track
    PROVE  RunKnows'
<1> USE DEF Track, stackVars, manager, script, chance, datadog, keyVars
<1>1. ScriptsBelong'
  BY DEF InstallInv, ScriptsBelong, At, KmsReady
<1>2. Remembered'
  BY Untouched DEF InstallInv, Remembered
<1>3. KeyKnown' /\ ResultKnown' /\ MarkerKnown'
  BY DEF InstallInv, KeyKnown, ResultKnown, MarkerKnown, NoSurprise, At
<1> QED
  BY <1>1, <1>2, <1>3 DEF RunKnows

(* The scripts of the regions that have waited long enough start. *)
LEMMA StartKnown ==
    ASSUME InstallInv, StartScripts
    PROVE  RunKnows'
<1> USE DEF StartScripts, StartApply, manager, chance, terraform, datadog, keyVars
<1>1. \A r \in Startable : phase = "apply" /\ KmsReady /\ r \in targets /\ step[r] = "off"
  BY DEF Startable, At
<1>2. \A r \in Regions : 
         \/ step'[r] = step[r]
         \/ r \in Startable /\ step'[r] = IF r \in images THEN "list" ELSE "skipped"
  OBVIOUS
<1>3. ScriptsBelong'
  BY <1>1, <1>2 DEF InstallInv, ScriptsBelong, At, KmsReady, Deleting, Applying
<1>4. Remembered'
  BY <1>1, <1>2, Untouched DEF InstallInv, Remembered
<1>5. KeyKnown' /\ MarkerKnown'
  BY DEF InstallInv, KeyKnown, MarkerKnown, NoSurprise
<1>6. ResultKnown'
  <2>1. result = "registered" => \A r \in reported : At(r, "applied")'
    BY <1>1, <1>2 DEF InstallInv, ResultKnown, InstallTypeOK, At
  <2>2. phase = "apply"
    BY <1>1
  <2> QED
    BY <2>1, <2>2 DEF InstallInv, ResultKnown
<1> QED
  BY <1>3, <1>4, <1>5, <1>6 DEF RunKnows

(* The tenancy is registered with the new key and the regions that have a stack. *)
LEMMA RegisterKnown ==
    ASSUME InstallInv, Register
    PROVE  RunKnows'
<1> USE DEF Register, manager, script, keyVars, datadog
<1>1. ScriptsBelong' /\ Remembered'
  BY Untouched DEF InstallInv, ScriptsBelong, Remembered, At, KmsReady
<1>2. KeyKnown' /\ MarkerKnown'
  BY DEF InstallInv, KeyKnown, MarkerKnown, NoSurprise
<1>3. \A r \in targets \cap images : At(r, "applied")
  BY DEF InstallInv, ScriptsBelong, InstallTypeOK, At, Succeeded
<1>4. result' \in {"registered", "failed"} /\ (result' = "registered" =>
         registered' = newKey /\ reported' = targets \cap images)
  BY DEF Call
<1>5. ResultKnown'
  BY <1>3, <1>4 DEF InstallInv, ResultKnown, At
<1> QED
  BY <1>1, <1>2, <1>5 DEF RunKnows

(* The tenancy is taken out of Datadog. *)
LEMMA UnregisterKnown ==
    ASSUME InstallInv, Unregister
    PROVE  RunKnows'
<1> USE DEF Unregister, manager, script, keyVars, datadog
<1>1. ScriptsBelong' /\ Remembered'
  BY Untouched DEF InstallInv, ScriptsBelong, Remembered, At, KmsReady
<1>2. KeyKnown' /\ MarkerKnown' /\ ResultKnown'
  BY DEF InstallInv, KeyKnown, MarkerKnown, NoSurprise, ResultKnown
<1> QED
  BY <1>1, <1>2 DEF RunKnows

(* The identity goes when Datadog does not know the tenancy any more. *)
LEMMA RemoveIdentityKnown ==
    ASSUME InstallInv, RemoveIdentity
    PROVE  RunKnows'
<1> USE DEF RemoveIdentity, manager, script, datadog
<1>1. ScriptsBelong'
  BY DEF InstallInv, ScriptsBelong, At
<1>2. Remembered'
  BY Untouched DEF InstallInv, Remembered
<1>3. KeyKnown' /\ MarkerKnown' /\ ResultKnown'
  BY DEF InstallInv, KeyKnown, MarkerKnown, NoSurprise, ResultKnown
<1> QED
  BY <1>1, <1>2, <1>3 DEF RunKnows

-----------------------------------------------------------------------------
(* The end of a run: what it takes out of the state is gone, and what it leaves
   out has nothing. *)

LEMMA OverKnown ==
    ASSUME InstallInv, RunOver, UNCHANGED <<manager, misread>>,
           ~misread => \A r \in Regions \ (tracked \cup strays') : ~Filled(r)
    PROVE  ScriptsBelong' /\ Remembered'
<1>1. ScriptsBelong'
  BY DEF RunOver, StartDelete, ScriptsBelong, At, Deleting, Applying
<1>2. ASSUME NEW r \in Regions \ (tracked' \cup strays'), ~misread' PROVE ~Filled(r)'
  <2>1. CASE r \in tracked
    <3>1. At(r, "deleted")
      BY <1>2, <2>1 DEF RunOver, Kept
    <3>2. \A s \in Stacks : Empty(r, s)
      BY <1>2, <3>1 DEF InstallInv, StacksInv, Sound, Gone
    <3> QED
      BY <3>2, Untouched DEF Filled
  <2>2. CASE r \notin tracked
    BY <1>2, <2>2, Untouched
  <2> QED
    BY <2>1, <2>2
<1> QED
  BY <1>1, <1>2 DEF Remembered

(* The end of a run that applies the stack. *)
LEMMA EndApplyKnown ==
    ASSUME InstallInv, EndApply
    PROVE  RunKnows'
<1> USE DEF EndApply, datadog, chance
<1>0. RunOver /\ UNCHANGED <<manager, wanted, misread>>
  OBVIOUS
<1>1. ~misread => \A r \in Regions \ (tracked \cup strays') : ~Filled(r)
  BY DEF InstallInv, Remembered, ScriptsBelong, InstallTypeOK, StacksTypeOK, KmsReady, Over,
         Succeeded, Quiet, At
<1>2. ScriptsBelong' /\ Remembered'
  BY <1>0, <1>1, OverKnown
<1>3. KeyKnown' /\ MarkerKnown'
  BY DEF InstallInv, KeyKnown, MarkerKnown, NoSurprise, RunOver
<1>4. ResultKnown'
  <2>1. phase' = "idle" /\ \A r \in Regions : At(r, "off")'
    BY DEF RunOver, StartDelete, At
  <2>2. result' \in {"refused", "ok", "failed"} /\ (result' = "ok" => result = "registered")
    OBVIOUS
  <2>3. ASSUME result = "registered", NEW r \in reported PROVE Served(r)'
    <3>1. r \in Regions /\ At(r, "applied") /\ Sound(r)
      BY <2>3 DEF InstallInv, ResultKnown, InstallTypeOK, StacksInv
    <3>2. /\ stack[r] \in Existing(r) /\ config[r][stack[r]] = wanted
          /\ live[r][stack[r]] = wanted /\ jobs[r][stack[r]] = <<>>
      BY <3>1 DEF Sound, Current, ApplyKnows, At
    <3>3. ~misread => Existing(r) = {stack[r]}
      BY <3>1, <3>2 DEF Sound, Single
    <3>4. Served(r)
      BY <3>2, <3>3, FS_Singleton DEF Served
    <3> QED
      BY <3>1, <3>4, <1>0, Untouched
  <2> QED
    BY <2>1, <2>2, <2>3 DEF InstallInv, ResultKnown, KeyKnown
<1> QED
  BY <1>2, <1>3, <1>4 DEF RunKnows

(* The end of a run that destroys it. *)
LEMMA EndDestroyKnown ==
    ASSUME InstallInv, EndDestroy
    PROVE  RunKnows'
<1> USE DEF EndDestroy, datadog, chance
<1>0. RunOver /\ UNCHANGED <<manager, wanted, misread>>
  OBVIOUS
<1>1. ~misread => \A r \in Regions \ (tracked \cup strays') : ~Filled(r)
  BY DEF InstallInv, Remembered
<1>2. ScriptsBelong' /\ Remembered'
  BY <1>0, <1>1, OverKnown
<1>3. KeyKnown' /\ MarkerKnown'
  BY DEF InstallInv, KeyKnown, MarkerKnown, NoSurprise, RunOver
<1>4. ResultKnown'
  <2>1. phase' = "idle" /\ \A r \in Regions : At(r, "off")'
    BY DEF RunOver, StartDelete, At
  <2>2. result' = "failed" \/ (result' = "removed" /\ created = {})
    OBVIOUS
  <2>3. created = {} => registered = 0
    BY DEF InstallInv, KeyKnown, Names
  <2> QED
    BY <2>1, <2>2, <2>3 DEF ResultKnown
<1> QED
  BY <1>2, <1>3, <1>4 DEF RunKnows

(* A run that is cancelled. *)
LEMMA CancelKnown ==
    ASSUME InstallInv, Cancel
    PROVE  RunKnows'
<1> USE DEF Cancel, datadog
<1>0. RunOver /\ UNCHANGED <<manager, wanted, misread>>
  OBVIOUS
<1>1. ~misread => \A r \in Regions \ (tracked \cup strays') : ~Filled(r)
  BY DEF InstallInv, Remembered
<1>2. ScriptsBelong' /\ Remembered'
  BY <1>0, <1>1, OverKnown
<1>3. KeyKnown' /\ MarkerKnown'
  BY DEF InstallInv, KeyKnown, MarkerKnown, NoSurprise, RunOver
<1>4. ResultKnown'
  BY DEF ResultKnown, RunOver, StartDelete, At
<1> QED
  BY <1>2, <1>3, <1>4 DEF RunKnows

-----------------------------------------------------------------------------
(* Before the first run there is nothing to know. *)
LEMMA InstallInitKnown == InstallInit => InstallInv
<1> SUFFICES ASSUME InstallInit PROVE InstallInv
  OBVIOUS
<1> USE DEF InstallInit
<1>1. StacksInv
  BY InitSound
<1>2. InstallTypeOK
  BY <1>1 DEF StacksInv, InstallTypeOK, KeysInit, KeyOver
<1>3. ScriptsBelong /\ Remembered
  BY DEF StacksInit, ScriptsBelong, Remembered, At, Deleting, Applying, Filled, Empty
<1>4. KeyKnown /\ ResultKnown /\ MarkerKnown
  BY DEF StacksInit, KeysInit, KeyKnown, ResultKnown, MarkerKnown, NoSurprise, At
<1> QED
  BY <1>1, <1>2, <1>3, <1>4 DEF InstallInv

(* Every step of every run keeps what is known. *)
LEMMA InstallStep == InstallInv /\ [InstallNext]_vars => InstallInv'
<1> SUFFICES ASSUME InstallInv, [InstallNext]_vars PROVE InstallInv'
  OBVIOUS
<1>1. CASE InstallNext
  <2>1. RunKnows'
    BY <1>1, ScriptsKnown, KeysKnown, BeginKnown, BeginDestroyKnown, CheckKnown, ProvisionKnown,
       TrackKnown, StartKnown, RegisterKnown, UnregisterKnown, RemoveIdentityKnown,
       EndApplyKnown, EndDestroyKnown, CancelKnown
       DEF InstallNext, AnyBegin, BeginSome, Scripts, Terraform, StacksStep
  <2>2. StacksInv'
    BY <1>1, Refines, StepSound DEF InstallInv
  <2>3. InstallTypeOK'
    BY <1>1, <2>2, InstallTypes DEF InstallInv, StacksInv
  <2> QED
    BY <2>1, <2>2, <2>3 DEF RunKnows, InstallInv
<1>2. CASE UNCHANGED vars
  <2> USE <1>2 DEF vars, stackVars, manager, script, chance, keyVars, terraform, datadog
  <2>1. StacksInv'
    BY StepSound DEF InstallInv
  <2>2. InstallTypeOK'
    BY <2>1 DEF InstallInv, StacksInv, InstallTypeOK
  <2>3. ScriptsBelong' /\ Remembered'
    BY Untouched DEF InstallInv, ScriptsBelong, Remembered, At, KmsReady
  <2>4. KeyKnown' /\ MarkerKnown'
    BY DEF InstallInv, KeyKnown, MarkerKnown, NoSurprise
  <2>5. ResultKnown'
    BY Untouched DEF InstallInv, InstallTypeOK, ResultKnown, At
  <2> QED
    BY <2>1, <2>2, <2>3, <2>4, <2>5 DEF InstallInv
<1> QED
  BY <1>1, <1>2

(* For any number of regions, runs, keys and faults, a run knows of its scripts, of
   the key and of the state what the properties below need. *)
THEOREM InstallInvariance == InstallSpec => []InstallInv
  BY InstallInitKnown, InstallStep, PTL DEF InstallSpec

(* The state of the stack keeps its types. *)
THEOREM InstallTypeCorrect == InstallSpec => []InstallTypeOK
<1>1. InstallInv => InstallTypeOK
  BY DEF InstallInv
<1> QED
  BY <1>1, InstallInvariance, PTL

(* Terraform runs the scripts the way RegionalStacks allows. *)
THEOREM InstallRefines == InstallSpec => StacksSpec
<1>1. InstallInit => StacksInit
  BY DEF InstallInit
<1>2. InstallInv /\ [InstallNext]_vars => [StacksNext]_stackVars
  BY Refines DEF InstallInv, vars
<1> QED
  BY <1>1, <1>2, InstallInvariance, PTL DEF InstallSpec, StacksSpec

(* No run of Terraform leaves resources or jobs without a stack. *)
THEOREM InstallOrphansNothing == InstallSpec => []NoOrphans
  BY InstallRefines, NothingOrphaned, PTL

(* No run of Terraform makes a second stack, unless a list failed. *)
THEOREM InstallOneStack == InstallSpec => []OneStack
  BY InstallRefines, OneStackPerRegion, PTL

(* Whatever Terraform runs, destroys or cancels, the scripts wait only for jobs
   that are still to end, and have a number of steps that only the next run
   renews: no region keeps a run of Terraform for ever. *)
THEOREM InstallScriptsEnd ==
    InstallSpec => []WaitsForJob /\ []StepsCounted /\ [][StepsShrink]_stackVars
  BY InstallRefines, NoWaitForNothing, ScriptsUseUpSteps, PTL

(* A run that succeeds has told Datadog only of regions that are served as it
   wants them, and of the stacks of a region there is one. *)
THEOREM SuccessIsServed == InstallSpec => []SuccessMeansServed
<1>1. InstallInv => SuccessMeansServed
  BY DEF InstallInv, ResultKnown, SuccessMeansServed, Served
<1> QED
  BY <1>1, InstallInvariance, PTL

(* When a run has succeeded the key Datadog signs with is one of the user's. *)
THEOREM KeyIsInForce == InstallSpec => []KeyInForce
<1>1. InstallInv => KeyInForce
  BY DEF InstallInv, InstallTypeOK, ResultKnown, KeyInForce
<1> QED
  BY <1>1, InstallInvariance, PTL

(* No region with resources or jobs is left out of the state. *)
THEOREM NothingForgotten == InstallSpec => []ForgottenNothing
<1>1. InstallInv => ForgottenNothing
  BY DEF InstallInv, Remembered, Filled, ForgottenNothing
<1> QED
  BY <1>1, InstallInvariance, PTL

(* What the checks accept, the services do not refuse, but for the exceptions. *)
THEOREM ChecksSuffice == InstallSpec => []NoSurprise
<1>1. InstallInv => NoSurprise
  BY DEF InstallInv, MarkerKnown
<1> QED
  BY <1>1, InstallInvariance, PTL

=============================================================================
