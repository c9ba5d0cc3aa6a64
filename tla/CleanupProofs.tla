------------------------------ MODULE CleanupProofs -----------------------------
(***************************************************************************)
(* Proofs about Cleanup, for any regions, resources, command lines and     *)
(* faults.  The inductive invariant says what a run has not handled yet:   *)
(* while no failure is on record, whatever is left is still on a list.     *)
(***************************************************************************)
EXTENDS Cleanup, FiniteSetTheorems, TLAPS

Numbers == INSTANCE FoldLemmas

Running == stage # "idle"
Doing == Running /\ args.execute /\ ~misled /\ ~failures

(* What the regions hold is what was installed, and keys are in their vault. *)
Contents ==
    \A r \in Regions : /\ live[r] \subseteq Installed[r]
                       /\ "key" \in live[r] => "vault" \in live[r]

(* No failure on record: the operator was asked about every extra, and every
   resource is still to be handled, or is a rule nothing finds any more. *)
Asked ==
    Running /\ args.execute /\ ~failures =>
        \A r \in context : "extra" \in live[r] => <<"extra", r>> \in args.approved
Unseen(k) == k = "rule" /\ "tag" \notin home
LeftToDo ==
    Doing => \A r \in context : \A k \in live[r] : k \in todo[r] \/ Unseen(k)

(* The gateways and the VCN wait for the subnet, the subnet for an approved extra. *)
Guarded(r) ==
    /\ {"gateway", "vcn"} \cap todo[r] # {} => "subnet" \in todo[r]
    /\ "subnet" \in todo[r] => "extra" \in todo[r] \/ Unapproved(r)
NetworkGuarded ==
    ~misled => \A r \in Regions : "extra" \in live[r] => Guarded(r)

Stages ==
    /\ \A r \in Regions : todo[r] # {} => stage = "regions" /\ r \in context
    /\ stage = "regions" => plan = HomeKinds
    /\ Running => answer = "none"

RegionsKnown == Contents /\ Asked /\ LeftToDo /\ NetworkGuarded /\ Stages /\ ExtrasPreserved

GroupsKnown ==
    /\ Running /\ groupsGone => \A g \in home \cap Groups : Validated(g)
    /\ Running /\ args.execute /\ groupsGone /\ ~misled => home \cap Groups \subseteq plan
    /\ Running /\ args.execute /\ ~failures => groupsGone

(* What the command line leaves alone. *)
Spared == (IF args.parent THEN {} ELSE {"parent"})
          \cup (IF args.compartment THEN {} ELSE {"compartment"})
HomeLeft == Doing => home \subseteq plan \cup Spared
TeardownKnown ==
    stage = "home" /\ "tag" \notin plan /\ plan # {} /\ args.execute /\ ~misled
        => \A r \in context : Clean(r)

HomeKnown ==
    GroupsKnown /\ HomeLeft /\ TeardownKnown /\ PolicyOutlivesGroups /\ ExitZeroMeansDone

CleanupInv == TypeOK /\ RegionsKnown /\ HomeKnown

-----------------------------------------------------------------------------
(* Small facts. *)

LEMMA StepKinds ==
    /\ Kinds \subseteq Steps /\ Network \subseteq Kinds /\ Kms \subseteq Kinds
    /\ Services \subseteq Kinds /\ Managed \subseteq Kinds
    /\ "job" \notin Kinds /\ "wait" \notin Kinds
  BY DEF Kinds, Steps, Network, Kms, Services, Managed

LEMMA OrderFacts ==
    /\ <<"extra", "subnet">> \in Precedes
    /\ <<"subnet", "gateway">> \in Precedes
    /\ <<"subnet", "vcn">> \in Precedes
  <1>1. DOMAIN Order = 1..16
    BY DEF Order
  <1>2. /\ Order[10] = "extra" /\ Order[11] = "subnet"
        /\ Order[12] = "gateway" /\ Order[13] = "vcn"
    BY DEF Order
  <1>3. \A i, j \in 1..16 : i < j => <<Order[i], Order[j]>> \in Precedes
    <2> SUFFICES ASSUME NEW i \in 1..16, NEW j \in 1..16, i < j
                 PROVE  <<Order[i], Order[j]>> \in Precedes
      OBVIOUS
    <2> DEFINE p == <<i, j>>
    <2>1. p \in (DOMAIN Order) \X (DOMAIN Order) /\ p[1] = i /\ p[2] = j
      BY <1>1
    <2>2. p[1] < p[2]
      BY <2>1
    <2> HIDE DEF p
    <2>3. <<Order[p[1]], Order[p[2]]>> \in Pairs(Order)
      BY <2>1, <2>2, Zenon DEF Pairs
    <2> QED
      BY <2>1, <2>3, Zenon DEF Precedes
  <1>4. /\ <<Order[10], Order[11]>> \in Precedes
        /\ <<Order[11], Order[12]>> \in Precedes
        /\ <<Order[11], Order[13]>> \in Precedes
    <2>1. 10 \in 1..16 /\ 11 \in 1..16 /\ 12 \in 1..16 /\ 13 \in 1..16
      OBVIOUS
    <2> QED
      BY <1>3, <2>1
  <1> QED
    BY <1>2, <1>4

LEMMA HomeOrderFacts ==
    /\ \A g \in Groups : <<g, "dynamicPolicy">> \in HomePrecedes
    /\ \A g \in Groups : <<g, "tag">> \in HomePrecedes /\ <<g, "parent">> \in HomePrecedes
    /\ \A k \in {"namespace", "parent", "compartment"} : <<"tag", k>> \in HomePrecedes
  <1>1. DOMAIN HomeOrder = 1..11
    BY DEF HomeOrder
  <1>2. /\ HomeOrder[1] = "connectorGroup" /\ HomeOrder[2] = "functionGroup"
        /\ HomeOrder[4] = "dynamicPolicy" /\ HomeOrder[8] = "tag"
        /\ HomeOrder[9] = "namespace" /\ HomeOrder[10] = "parent"
        /\ HomeOrder[11] = "compartment"
    BY DEF HomeOrder
  <1>3. \A i, j \in 1..11 : i < j => <<HomeOrder[i], HomeOrder[j]>> \in HomePrecedes
    <2> SUFFICES ASSUME NEW i \in 1..11, NEW j \in 1..11, i < j
                 PROVE  <<HomeOrder[i], HomeOrder[j]>> \in HomePrecedes
      OBVIOUS
    <2> DEFINE p == <<i, j>>
    <2>1. p \in (DOMAIN HomeOrder) \X (DOMAIN HomeOrder) /\ p[1] = i /\ p[2] = j
      BY <1>1
    <2>2. p[1] < p[2]
      BY <2>1
    <2> HIDE DEF p
    <2>3. <<HomeOrder[p[1]], HomeOrder[p[2]]>> \in Pairs(HomeOrder)
      BY <2>1, <2>2, Zenon DEF Pairs
    <2> QED
      BY <2>1, <2>3, Zenon DEF HomePrecedes
  <1>4. /\ <<HomeOrder[1], HomeOrder[4]>> \in HomePrecedes
        /\ <<HomeOrder[2], HomeOrder[4]>> \in HomePrecedes
        /\ <<HomeOrder[1], HomeOrder[8]>> \in HomePrecedes
        /\ <<HomeOrder[2], HomeOrder[8]>> \in HomePrecedes
        /\ <<HomeOrder[1], HomeOrder[10]>> \in HomePrecedes
        /\ <<HomeOrder[2], HomeOrder[10]>> \in HomePrecedes
        /\ <<HomeOrder[8], HomeOrder[9]>> \in HomePrecedes
        /\ <<HomeOrder[8], HomeOrder[10]>> \in HomePrecedes
        /\ <<HomeOrder[8], HomeOrder[11]>> \in HomePrecedes
    <2>1. 1 \in 1..11 /\ 2 \in 1..11 /\ 4 \in 1..11 /\ 8 \in 1..11 /\ 9 \in 1..11 /\ 10 \in 1..11 /\ 11 \in 1..11
      OBVIOUS
    <2> QED
      BY <1>3, <2>1
  <1> QED
    BY <1>2, <1>4 DEF Groups

LEMMA CleanMeans ==
    ASSUME NEW r \in Regions
    PROVE  Clean(r) <=> /\ live[r] \subseteq {"rule"}
                        /\ "rule" \in live[r] => "tag" \notin home
  <1>1. CASE Lost
    BY <1>1 DEF Clean, Lost
  <1>2. CASE ~Lost
    BY <1>2 DEF Clean, Lost
  <1> QED
    BY <1>1, <1>2

LEMMA StaysClean ==
    ASSUME NEW r \in Regions, Clean(r),
           live'[r] \subseteq live[r], home' \subseteq home
    PROVE  Clean(r)'
  <1>1. Clean(r)' <=> /\ live'[r] \subseteq {"rule"}
                      /\ "rule" \in live'[r] => "tag" \notin home'
    <2>1. CASE Lost'
      BY <2>1 DEF Clean, Lost
    <2>2. CASE ~Lost'
      BY <2>2 DEF Clean, Lost
    <2> QED
      BY <2>1, <2>2
  <1> QED
    BY <1>1, CleanMeans

-----------------------------------------------------------------------------
(* What every step of a region does, whatever it is: it touches that region
   only, takes nothing back, and on a run without failures takes from the list
   only what is gone or cannot be seen. *)

SameHome ==
    /\ home' = home /\ choices' = choices /\ stage' = stage /\ plan' = plan
    /\ groupsGone' = groupsGone /\ answer' = answer
NoTakingBack == (failures => failures') /\ (misled => misled')
OnlyIn(r) ==
    /\ \A s \in Regions \ {r} : live'[s] = live[s] /\ todo'[s] = todo[s]
    /\ live'[r] \subseteq live[r] /\ todo'[r] \subseteq todo[r]
    /\ "key" \in live'[r] => "vault" \in live'[r]
Handled(r) ==
    args.execute /\ ~misled' /\ ~failures' =>
        \A k \in live'[r] : k \in todo[r] => k \in todo'[r] \/ Unseen(k)
ExtraGuards(r) ==
    ~misled' /\ "extra" \in live'[r] =>
        /\ Network \cap live[r] \subseteq live'[r]
        /\ Guarded(r)'

RegionEffect(r) == SameHome /\ NoTakingBack /\ OnlyIn(r) /\ Handled(r) /\ ExtraGuards(r)

LEMMA CallOutcome ==
    ASSUME TypeOK, NEW ok \in BOOLEAN, NEW gone \in BOOLEAN, Action(ok, gone) \/ Answered(ok, gone)
    PROVE  /\ misled' \in BOOLEAN /\ budget' \in 0..MaxFaults
           /\ misled => misled'
           /\ args.execute /\ ~misled' /\ ok => gone
           /\ Action(ok, gone) /\ gone => args.execute
  <1>1. MaxFaults \in Nat
    BY ConstantsAssumption
  <1> QED
    BY <1>1 DEF TypeOK, Action, Answered, Fault, world

LEMMA FaultSpent ==
    ASSUME TypeOK, NEW f, Fault(f)
    PROVE  budget' \in 0..MaxFaults
  <1>1. MaxFaults \in Nat
    BY ConstantsAssumption
  <1> QED
    BY <1>1 DEF TypeOK, Fault

LEMMA DiscoverySpends ==
    ASSUME TypeOK, NEW ctx, Discovered(ctx)
    PROVE  budget' \in 0..MaxFaults
  <1>1. CASE UNCHANGED budget
    BY <1>1 DEF TypeOK
  <1>2. CASE Fault("unauthorised")
    BY <1>2, FaultSpent
  <1> QED
    BY <1>1, <1>2 DEF Discovered

LEMMA SkipFacts ==
    ASSUME TypeOK, NEW r \in Regions, NEW kinds, Skip(r, kinds)
    PROVE  /\ todo' \in [Regions -> SUBSET Steps]
           /\ todo'[r] = todo[r] \ kinds
           /\ \A s \in Regions \ {r} : todo'[s] = todo[s]
  BY DEF TypeOK, Skip

LEMMA RemoveFacts ==
    ASSUME TypeOK, NEW r \in Regions, NEW k, Remove(r, k)
    PROVE  /\ live' \in [Regions -> SUBSET Kinds]
           /\ live'[r] = live[r] \ With(k)
           /\ \A s \in Regions \ {r} : live'[s] = live[s]
  BY DEF TypeOK, Remove

LEMMA WithFacts ==
    ASSUME NEW k
    PROVE  /\ k \in With(k)
           /\ "vault" \in With(k) => "key" \in With(k)
           /\ k \notin Network => Network \cap With(k) = {}
           /\ k \in Network => With(k) = {k}
  BY DEF With, Network

(* Nothing goes from the regions: what is struck off the list is not there. *)
LEMMA OnlySkipped ==
    ASSUME CleanupInv, NEW r \in Regions, NEW kinds, Skip(r, kinds),
           SameHome, NoTakingBack, live' = live,
           args.execute /\ ~misled /\ ~failures' =>
               \A k \in live[r] \cap kinds : Unseen(k),
           ~misled /\ "extra" \in live[r] => Guarded(r)'
    PROVE  RegionEffect(r)
  <1>1. TypeOK /\ Contents
    BY DEF CleanupInv, RegionsKnown
  <1>2. OnlyIn(r)
    BY <1>1, SkipFacts DEF OnlyIn, Contents
  <1>3. Handled(r)
    BY <1>1, SkipFacts DEF Handled, NoTakingBack
  <1>4. ExtraGuards(r)
    BY DEF ExtraGuards, NoTakingBack
  <1> QED
    BY <1>2, <1>3, <1>4 DEF RegionEffect

(* The guards survive when nothing of the network is struck off the list, or
   all of it. *)
LEMMA StaysGuarded ==
    ASSUME CleanupInv, NEW r \in Regions, ~misled, "extra" \in live[r], "extra" \in live'[r],
           args' = args, todo'[r] \subseteq todo[r],
           Network \cap todo'[r] = Network \cap todo[r] \/ Network \cap todo'[r] = {}
    PROVE  Guarded(r)'
  <1>1. Guarded(r)
    BY DEF CleanupInv, RegionsKnown, NetworkGuarded
  <1> QED
    BY <1>1 DEF Guarded, Network, Unapproved, Approved

LEMMA StartRegionEffect ==
    ASSUME CleanupInv, NEW r \in Regions, StartRegion(r)
    PROVE  TypeOK' /\ RegionEffect(r)
  <1>1. TypeOK /\ Contents
    BY DEF CleanupInv, RegionsKnown
  <1>2. TypeOK'
    <2>1. r \in context
      BY DEF StartRegion, Waiting, CleanupInv, RegionsKnown, Stages
    <2> QED
      BY <1>1, <2>1 DEF TypeOK, StartRegion, tenancy, choices, notes, world
  <1>3. Skip(r, {})
    BY <1>1 DEF Skip, StartRegion, TypeOK
  <1>4. SameHome /\ NoTakingBack /\ live' = live /\ todo' = todo
    BY DEF SameHome, NoTakingBack, StartRegion, tenancy, choices, notes, world
  <1>5. ~misled /\ "extra" \in live[r] => Guarded(r)'
    BY <1>4, StaysGuarded DEF SameHome, choices
  <1> QED
    BY <1>2, <1>3, <1>4, <1>5, OnlySkipped

LEMMA JobOverEffect ==
    ASSUME CleanupInv, NEW r \in Regions, JobOver(r)
    PROVE  TypeOK' /\ RegionEffect(r)
  <1>1. TypeOK /\ Contents
    BY DEF CleanupInv, RegionsKnown
  <1>2. Skip(r, {"wait"})
    BY DEF JobOver, Done
  <1>3. SameHome /\ NoTakingBack /\ live' = live
    BY DEF SameHome, NoTakingBack, JobOver, tenancy, choices, notes, world
  <1>4. TypeOK'
    BY <1>1, <1>2, SkipFacts DEF TypeOK, JobOver, tenancy, choices, notes, world
  <1>5. ~misled /\ "extra" \in live[r] => Guarded(r)'
    BY <1>1, <1>2, <1>3, SkipFacts, StaysGuarded, StepKinds DEF SameHome, choices, Network
  <1>6. live[r] \cap {"wait"} = {}
    BY <1>1, StepKinds DEF TypeOK
  <1> QED
    BY <1>2, <1>3, <1>4, <1>5, <1>6, OnlySkipped

LEMMA DestroyEffect ==
    ASSUME CleanupInv, NEW r \in Regions, Destroy(r)
    PROVE  TypeOK' /\ RegionEffect(r)
  <1>1. TypeOK /\ Contents
    BY DEF CleanupInv, RegionsKnown
  <1>2. PICK kinds \in SUBSET {"job", "wait"} : Skip(r, kinds)
    BY DEF Destroy, Done
  <1>3. SameHome /\ NoTakingBack /\ live' = live
    BY DEF SameHome, NoTakingBack, Destroy, choices, notes, world
  <1>4. TypeOK'
    <2>1. job' \in [Regions -> {"none", "running", "succeeded", "failed"}]
      BY <1>1 DEF TypeOK, Destroy
    <2> QED
      BY <1>1, <1>2, <2>1, SkipFacts DEF TypeOK, Destroy, choices, notes, world
  <1>5. ~misled /\ "extra" \in live[r] => Guarded(r)'
    BY <1>1, <1>2, <1>3, SkipFacts, StaysGuarded DEF SameHome, choices, Network
  <1>6. live[r] \cap kinds = {}
    BY <1>1, StepKinds DEF TypeOK
  <1> QED
    BY <1>2, <1>3, <1>4, <1>5, <1>6, OnlySkipped

LEMMA WaitFailsEffect ==
    ASSUME CleanupInv, NEW r \in Regions, WaitFails(r)
    PROVE  TypeOK' /\ RegionEffect(r)
  <1>1. TypeOK /\ Contents
    BY DEF CleanupInv, RegionsKnown
  <1>2. Skip(r, {"job", "wait"})
    BY DEF WaitFails
  <1>3. SameHome /\ NoTakingBack /\ live' = live
    BY DEF SameHome, NoTakingBack, WaitFails, tenancy, choices, notes
  <1>4. TypeOK'
    <2>1. budget' \in 0..MaxFaults
      BY <1>1, FaultSpent DEF WaitFails
    <2> QED
      BY <1>1, <1>2, <2>1, SkipFacts DEF TypeOK, WaitFails, tenancy, choices, notes
  <1>5. ~misled /\ "extra" \in live[r] => Guarded(r)'
    BY <1>1, <1>2, <1>3, SkipFacts, StaysGuarded DEF SameHome, choices, Network
  <1>6. live[r] \cap {"job", "wait"} = {}
    BY <1>1, StepKinds DEF TypeOK
  <1> QED
    BY <1>2, <1>3, <1>4, <1>5, <1>6, OnlySkipped

LEMMA RaiseEffect ==
    ASSUME CleanupInv, NEW r \in Regions, Raise(r)
    PROVE  TypeOK' /\ RegionEffect(r)
  <1>1. TypeOK /\ Contents
    BY DEF CleanupInv, RegionsKnown
  <1>2. Skip(r, Steps)
    BY DEF Raise
  <1>3. SameHome /\ NoTakingBack /\ live' = live /\ failures'
    BY DEF SameHome, NoTakingBack, Raise, tenancy, choices
  <1>4. TypeOK'
    <2>1. budget' \in 0..MaxFaults
      BY <1>1, FaultSpent DEF Raise
    <2> QED
      BY <1>1, <1>2, <2>1, SkipFacts DEF TypeOK, Raise, tenancy, choices
  <1>5. Network \cap todo'[r] = {} /\ todo'[r] \subseteq todo[r]
    BY <1>1, <1>2, SkipFacts, StepKinds
  <1>6. ~misled /\ "extra" \in live[r] => Guarded(r)'
    BY <1>1, <1>5, <1>3, StaysGuarded DEF SameHome, choices
  <1> QED
    BY <1>2, <1>3, <1>4, <1>6, OnlySkipped

LEMMA AbsentEffect ==
    ASSUME CleanupInv, NEW r \in Regions, NEW k, Absent(r, k)
    PROVE  TypeOK' /\ RegionEffect(r)
  <1>1. TypeOK /\ Contents
    BY DEF CleanupInv, RegionsKnown
  <1>2. Skip(r, {k})
    BY DEF Absent, Done
  <1>3. SameHome /\ NoTakingBack /\ live' = live
    BY DEF SameHome, NoTakingBack, Absent, tenancy, choices, notes, world
  <1>4. TypeOK'
    BY <1>1, <1>2, SkipFacts DEF TypeOK, Absent, tenancy, choices, notes, world
  <1>5. ~misled /\ "extra" \in live[r] => Guarded(r)'
    <2> SUFFICES ASSUME ~misled, "extra" \in live[r]
                 PROVE  Guarded(r)'
      OBVIOUS
    <2>1. CASE k \in Network
      <3>1. Guarded(r)
        BY DEF CleanupInv, RegionsKnown, NetworkGuarded
      <3>2. k \in {"gateway", "vcn"} /\ k \in todo[r] /\ "subnet" \notin todo[r]
        BY <2>1, OrderFacts DEF Absent, Network, Services, At
      <3> QED
        BY <3>1, <3>2 DEF Guarded
    <2>2. CASE k \notin Network
      BY <1>1, <1>2, <1>3, <2>2, SkipFacts, StaysGuarded DEF SameHome, choices
    <2> QED
      BY <2>1, <2>2
  <1>6. \A j \in live[r] \cap {k} : Unseen(j)
    BY DEF Absent, Found, Unseen
  <1> QED
    BY <1>2, <1>3, <1>4, <1>5, <1>6, OnlySkipped

(* One kind is looked at: it goes, or a failure is on record. *)
LEMMA OneHandled ==
    ASSUME CleanupInv, NEW r \in Regions, NEW k \in Kinds,
           SameHome, NoTakingBack, Done(r, k),
           Remove(r, k) \/ live' = live,
           args.execute /\ ~misled' /\ ~failures' /\ k \in live'[r] => Unseen(k),
           k \in Network /\ ~misled' => "extra" \notin live'[r]
    PROVE  RegionEffect(r)
  <1>1. TypeOK /\ Contents /\ NetworkGuarded
    BY DEF CleanupInv, RegionsKnown
  <1>2. /\ todo'[r] = todo[r] \ {k}
        /\ \A s \in Regions \ {r} : todo'[s] = todo[s] /\ live'[s] = live[s]
        /\ live'[r] = live[r] \ With(k) \/ live'[r] = live[r]
    BY <1>1, SkipFacts, RemoveFacts DEF Done
  <1>3. OnlyIn(r)
    BY <1>1, <1>2, WithFacts DEF OnlyIn, Contents
  <1>4. Handled(r)
    BY <1>2 DEF Handled
  <1>5. ExtraGuards(r)
    <2> SUFFICES ASSUME ~misled', "extra" \in live'[r]
                 PROVE  Network \cap live[r] \subseteq live'[r] /\ Guarded(r)'
      BY DEF ExtraGuards
    <2>1. k \notin Network
      OBVIOUS
    <2>2. Network \cap live[r] \subseteq live'[r]
      BY <2>1, <1>2, WithFacts
    <2>3. Guarded(r)'
      BY <1>2, <1>3, <2>1, StaysGuarded DEF NoTakingBack, SameHome, choices, OnlyIn
    <2> QED
      BY <2>2, <2>3
  <1> QED
    BY <1>3, <1>4, <1>5 DEF RegionEffect

LEMMA StackRecordEffect ==
    ASSUME CleanupInv, NEW r \in Regions, StackRecord(r)
    PROVE  TypeOK' /\ RegionEffect(r)
  <1>1. TypeOK /\ Contents
    BY DEF CleanupInv, RegionsKnown
  <1>2. Done(r, "stack") /\ At(r, "stack")
    BY DEF StackRecord
  <1>3. SameHome
    BY DEF SameHome, StackRecord, choices
  <1>4. /\ Remove(r, "stack") \/ live' = live
        /\ NoTakingBack
        /\ failures' \in BOOLEAN /\ misled' \in BOOLEAN /\ budget' \in 0..MaxFaults
        /\ args.execute /\ ~misled' /\ ~failures' => "stack" \notin live'[r]
    <2>1. CASE "stack" \in live[r] /\ args.execute /\ ~StackAllowed(r)
      BY <2>1, <1>1 DEF StackRecord, TypeOK, NoTakingBack, world
    <2>2. CASE "stack" \notin live[r]
      BY <2>2, <1>1 DEF StackRecord, TypeOK, NoTakingBack, world
    <2>3. CASE "stack" \in live[r] /\ (args.execute => StackAllowed(r))
      <3>1. PICK ok \in BOOLEAN, gone \in BOOLEAN :
               /\ Action(ok, gone) /\ Fail(ok)
               /\ IF gone THEN Remove(r, "stack") ELSE UNCHANGED live
        BY <2>3 DEF StackRecord
      <3>2. gone => "stack" \notin live'[r]
        BY <1>1, <3>1, RemoveFacts, WithFacts
      <3> QED
        BY <1>1, <3>1, <3>2, CallOutcome DEF Fail, NoTakingBack, TypeOK
    <2> QED
      BY <2>1, <2>2, <2>3
  <1>5. TypeOK'
    <2>1. live' \in [Regions -> SUBSET Kinds] /\ \A s \in Regions : live'[s] \subseteq live[s]
      BY <1>1, <1>4, RemoveFacts DEF TypeOK
    <2> QED
      BY <1>1, <1>2, <1>4, <2>1, SkipFacts DEF TypeOK, StackRecord, choices, Done
  <1>6. "stack" \in Kinds /\ "stack" \notin Network
    BY DEF Kinds, Network
  <1> QED
    BY <1>2, <1>3, <1>4, <1>5, <1>6, OneHandled

LEMMA DeleteEffect ==
    ASSUME CleanupInv, NEW r \in Regions, NEW k, Delete(r, k)
    PROVE  TypeOK' /\ RegionEffect(r)
  <1>1. TypeOK /\ Contents /\ NetworkGuarded
    BY DEF CleanupInv, RegionsKnown
  <1>2. Done(r, k) /\ At(r, k) /\ k \in Services /\ k \in Kinds
    BY StepKinds DEF Delete
  <1>3. SameHome
    BY DEF SameHome, Delete, choices
  <1>4. PICK ok \in BOOLEAN, gone \in BOOLEAN :
           /\ Action(ok, gone) /\ Fail(ok)
           /\ IF gone THEN Remove(r, k) ELSE UNCHANGED live
    BY DEF Delete
  <1>5. gone => k \notin live'[r]
    BY <1>1, <1>4, RemoveFacts, WithFacts
  <1>6. /\ Remove(r, k) \/ live' = live
        /\ NoTakingBack
        /\ failures' \in BOOLEAN /\ misled' \in BOOLEAN /\ budget' \in 0..MaxFaults
        /\ args.execute /\ ~misled' /\ ~failures' => k \notin live'[r]
    BY <1>1, <1>4, <1>5, CallOutcome DEF Fail, NoTakingBack, TypeOK
  <1>7. TypeOK'
    <2>1. live' \in [Regions -> SUBSET Kinds] /\ \A s \in Regions : live'[s] \subseteq live[s]
      BY <1>1, <1>6, RemoveFacts DEF TypeOK
    <2> QED
      BY <1>1, <1>2, <1>6, <2>1, SkipFacts DEF TypeOK, Delete, choices, Done
  <1>8. k \in Network /\ ~misled' => "extra" \notin live'[r]
    <2> SUFFICES ASSUME k \in Network, ~misled', "extra" \in live[r]
                 PROVE  FALSE
      BY <1>1, <1>6, RemoveFacts
    <2>1. Guarded(r)
      BY <1>1, <1>6 DEF NetworkGuarded, NoTakingBack
    <2>2. k \in {"gateway", "vcn"} /\ k \in todo[r] /\ "subnet" \notin todo[r]
      BY <1>2, OrderFacts DEF Network, Services, At
    <2> QED
      BY <2>1, <2>2 DEF Guarded
  <1> QED
    BY <1>2, <1>3, <1>6, <1>7, <1>8, OneHandled

LEMMA DeleteExtraEffect ==
    ASSUME CleanupInv, NEW r \in Regions, DeleteExtra(r)
    PROVE  TypeOK' /\ RegionEffect(r)
  <1>1. TypeOK /\ Contents /\ Asked /\ Stages
    BY DEF CleanupInv, RegionsKnown
  <1>2. At(r, "extra") /\ SameHome
    BY DEF DeleteExtra, SameHome, choices
  <1>3. CASE "extra" \in live[r] /\ ~Unapproved(r)
    <2>1. PICK ok \in BOOLEAN, gone \in BOOLEAN :
             /\ Answered(ok, gone) /\ Fail(ok)
             /\ IF gone THEN Remove(r, "extra") ELSE UNCHANGED live
             /\ IF ok THEN Done(r, "extra") ELSE Skip(r, Network)
      BY <1>3 DEF DeleteExtra
    <2>2. args.execute
      BY <1>3 DEF Unapproved, Approved
    <2>3. PICK kinds \in SUBSET Network :
             /\ Skip(r, kinds)
             /\ IF ok THEN kinds = {"extra"} ELSE kinds = Network
      BY <2>1 DEF Done, Network
    <2>4. /\ todo' \in [Regions -> SUBSET Steps]
          /\ todo'[r] = todo[r] \ kinds
          /\ \A s \in Regions \ {r} : todo'[s] = todo[s]
      BY <1>1, <2>3, SkipFacts
    <2>5. /\ live' \in [Regions -> SUBSET Kinds]
          /\ live'[r] = IF gone THEN live[r] \ {"extra"} ELSE live[r]
          /\ \A s \in Regions \ {r} : live'[s] = live[s]
      <3>1. With("extra") = {"extra"}
        BY DEF With
      <3> QED
        BY <1>1, <2>1, <3>1, RemoveFacts DEF TypeOK
    <2>6. /\ NoTakingBack
          /\ failures' \in BOOLEAN /\ misled' \in BOOLEAN /\ budget' \in 0..MaxFaults
          /\ ~misled' /\ ok => gone
          /\ ~ok => failures'
      BY <1>1, <2>1, <2>2, CallOutcome DEF Fail, NoTakingBack, TypeOK
    <2>7. TypeOK'
      <3>1. \A s \in Regions : live'[s] \subseteq live[s]
        BY <2>5
      <3> QED
        BY <1>1, <2>4, <2>5, <2>6, <3>1 DEF TypeOK, DeleteExtra, choices
    <2>8. OnlyIn(r)
      BY <1>1, <2>4, <2>5 DEF OnlyIn, Contents
    <2>9. Handled(r)
      BY <2>3, <2>4, <2>5, <2>6 DEF Handled
    <2>10. ExtraGuards(r)
      <3> SUFFICES ASSUME ~misled', "extra" \in live'[r]
                   PROVE  Network \cap live[r] \subseteq live'[r] /\ Guarded(r)'
        BY DEF ExtraGuards
      <3>1. ~ok /\ ~gone /\ live'[r] = live[r]
        BY <2>5, <2>6
      <3>2. Network \cap todo'[r] = {} /\ todo'[r] \subseteq todo[r]
        BY <2>3, <2>4, <3>1
      <3> QED
        BY <1>2, <2>6, <3>1, <3>2, StaysGuarded DEF NoTakingBack, SameHome, choices
    <2> QED
      BY <1>2, <2>6, <2>7, <2>8, <2>9, <2>10 DEF RegionEffect
  <1>4. CASE Unapproved(r) \/ "extra" \notin live[r]
    <2>1. Done(r, "extra") /\ live' = live /\ failures' = failures /\ world' = world
      BY <1>4 DEF DeleteExtra, Unapproved
    <2>2. TypeOK'
      BY <1>1, <2>1, SkipFacts DEF TypeOK, DeleteExtra, choices, world, Done
    <2>3. NoTakingBack
      BY <2>1 DEF NoTakingBack, world
    <2>4. args.execute /\ ~misled /\ ~failures => "extra" \notin live[r]
      <3>1. r \in context /\ Running
        BY <1>1, <1>2 DEF At, TypeOK, Running
      <3> QED
        BY <1>1, <1>4, <3>1 DEF Asked, Unapproved, Approved
    <2>5. ~misled /\ "extra" \in live[r] => Guarded(r)'
      <3>1. "extra" \in live[r] => Unapproved(r)'
        BY <1>2, <1>4, <2>1 DEF Unapproved, Approved, SameHome, choices
      <3>2. \A j \in {"subnet", "gateway", "vcn"} : j \in todo'[r] <=> j \in todo[r]
        BY <1>1, <2>1, SkipFacts DEF Done
      <3>3. ~misled /\ "extra" \in live[r] => Guarded(r)
        BY DEF CleanupInv, RegionsKnown, NetworkGuarded
      <3> QED
        BY <3>1, <3>2, <3>3 DEF Guarded
    <2> QED
      BY <1>2, <2>1, <2>2, <2>3, <2>4, <2>5, OnlySkipped DEF Done
  <1> QED
    BY <1>3, <1>4

LEMMA DeleteSubnetEffect ==
    ASSUME CleanupInv, NEW r \in Regions, DeleteSubnet(r)
    PROVE  TypeOK' /\ RegionEffect(r)
  <1>1. TypeOK /\ Contents /\ NetworkGuarded
    BY DEF CleanupInv, RegionsKnown
  <1>2. At(r, "subnet") /\ SameHome
    BY DEF DeleteSubnet, SameHome, choices
  <1>3. ~misled /\ "extra" \in live[r] => Unapproved(r)
    <2>1. "subnet" \in todo[r] /\ "extra" \notin todo[r]
      BY <1>2, OrderFacts DEF At
    <2> QED
      BY <1>1, <2>1 DEF NetworkGuarded, Guarded
  <1>4. CASE "subnet" \in live[r] /\ ~Unapproved(r)
    <2>1. PICK ok \in BOOLEAN, gone \in BOOLEAN :
             /\ Action(ok, gone)
             /\ IF gone THEN Remove(r, "subnet") ELSE UNCHANGED live
             /\ IF ok THEN Done(r, "subnet") ELSE Skip(r, Network)
             /\ Fail(ok)
      BY <1>4 DEF DeleteSubnet
    <2>3. PICK kinds \in SUBSET Network :
             /\ Skip(r, kinds)
             /\ ~ok \/ kinds = {"subnet"}
      BY <2>1 DEF Done, Network
    <2>4. /\ todo' \in [Regions -> SUBSET Steps]
          /\ todo'[r] = todo[r] \ kinds
          /\ \A s \in Regions \ {r} : todo'[s] = todo[s]
      BY <1>1, <2>3, SkipFacts
    <2>5. /\ live' \in [Regions -> SUBSET Kinds]
          /\ live'[r] = IF gone THEN live[r] \ {"subnet"} ELSE live[r]
          /\ \A s \in Regions \ {r} : live'[s] = live[s]
      <3>1. With("subnet") = {"subnet"}
        BY DEF With
      <3> QED
        BY <1>1, <2>1, <3>1, RemoveFacts DEF TypeOK
    <2>6. /\ NoTakingBack
          /\ failures' \in BOOLEAN /\ misled' \in BOOLEAN /\ budget' \in 0..MaxFaults
          /\ args.execute /\ ~misled' /\ ok => gone
          /\ ~ok => failures'
      BY <1>1, <2>1, CallOutcome DEF Fail, NoTakingBack, TypeOK
    <2>7. TypeOK'
      <3>1. \A s \in Regions : live'[s] \subseteq live[s]
        BY <2>5
      <3> QED
        BY <1>1, <2>4, <2>5, <2>6, <3>1 DEF TypeOK, DeleteSubnet, choices
    <2>8. OnlyIn(r)
      BY <1>1, <2>4, <2>5 DEF OnlyIn, Contents
    <2>9. Handled(r)
      BY <2>3, <2>4, <2>5, <2>6 DEF Handled
    <2>10. ExtraGuards(r)
      BY <1>3, <1>4, <2>5, <2>6 DEF ExtraGuards, NoTakingBack
    <2> QED
      BY <1>2, <2>6, <2>7, <2>8, <2>9, <2>10 DEF RegionEffect
  <1>5. CASE Unapproved(r)
    <2>1. Skip(r, Network) /\ live' = live /\ failures' /\ world' = world
      BY <1>5 DEF DeleteSubnet
    <2>2. TypeOK'
      BY <1>1, <2>1, SkipFacts DEF TypeOK, DeleteSubnet, choices, world
    <2>3. NoTakingBack
      BY <2>1 DEF NoTakingBack, world
    <2>4. Network \cap todo'[r] = {} /\ todo'[r] \subseteq todo[r]
      BY <1>1, <2>1, SkipFacts
    <2>5. ~misled /\ "extra" \in live[r] => Guarded(r)'
      BY <1>2, <2>1, <2>4, StaysGuarded DEF SameHome, choices
    <2> QED
      BY <1>2, <2>1, <2>2, <2>3, <2>5, OnlySkipped
  <1>6. CASE "subnet" \notin live[r] /\ ~Unapproved(r)
    <2>1. Done(r, "subnet") /\ live' = live /\ failures' = failures /\ world' = world
      BY <1>6 DEF DeleteSubnet
    <2>2. TypeOK'
      BY <1>1, <2>1, SkipFacts DEF TypeOK, DeleteSubnet, choices, world, Done
    <2>3. NoTakingBack
      BY <2>1 DEF NoTakingBack, world
    <2>4. ~misled /\ "extra" \in live[r] => Guarded(r)'
      BY <1>3, <1>6
    <2> QED
      BY <1>2, <1>6, <2>1, <2>2, <2>3, <2>4, OnlySkipped DEF Done
  <1> QED
    BY <1>4, <1>5, <1>6

LEMMA ScheduleKmsEffect ==
    ASSUME CleanupInv, NEW r \in Regions, NEW k, ScheduleKms(r, k)
    PROVE  TypeOK' /\ RegionEffect(r)
  <1>1. TypeOK /\ Contents
    BY DEF CleanupInv, RegionsKnown
  <1>2. Done(r, k) /\ At(r, k) /\ k \in Kms /\ k \in Kinds /\ k \notin Network
    BY StepKinds DEF ScheduleKms, Kms, Network
  <1>3. SameHome
    BY DEF SameHome, ScheduleKms, choices
  <1>4. /\ Remove(r, k) \/ live' = live
        /\ NoTakingBack
        /\ failures' \in BOOLEAN /\ misled' \in BOOLEAN /\ budget' \in 0..MaxFaults
        /\ kmsPending' \in BOOLEAN
        /\ args.execute /\ ~misled' /\ ~failures' => k \notin live'[r]
        /\ scheduled' = scheduled \/ Schedule(r, k)
    <2>1. CASE k \in live[r] /\ (k = "key" => "vault" \in live[r])
      <3>1. PICK ok \in BOOLEAN, gone \in BOOLEAN :
               /\ Action(ok, gone) /\ Fail(ok)
               /\ IF gone THEN Schedule(r, k) ELSE UNCHANGED <<live, scheduled>>
        BY <2>1 DEF ScheduleKms
      <3>2. kmsPending' = TRUE
        BY <2>1 DEF ScheduleKms
      <3>3. gone => k \notin live'[r]
        BY <1>1, <3>1, RemoveFacts, WithFacts DEF Schedule
      <3> QED
        BY <1>1, <3>1, <3>2, <3>3, CallOutcome DEF Fail, NoTakingBack, TypeOK, Schedule
    <2>2. CASE k \notin live[r] \/ (k = "key" /\ "vault" \notin live[r])
      <3>1. k \notin live[r]
        BY <1>1, <2>2 DEF Contents
      <3>2. kmsPending' \in BOOLEAN /\ UNCHANGED <<live, scheduled, failures, world>>
        BY <1>1, <2>2 DEF ScheduleKms, TypeOK
      <3> QED
        BY <1>1, <3>1, <3>2 DEF NoTakingBack, TypeOK, world
    <2> QED
      BY <2>1, <2>2
  <1>5. TypeOK'
    <2>1. live' \in [Regions -> SUBSET Kinds] /\ \A s \in Regions : live'[s] \subseteq live[s]
      BY <1>1, <1>4, RemoveFacts DEF TypeOK
    <2>2. /\ scheduled' \in [Regions -> SUBSET Kms]
          /\ \A s \in Regions : live'[s] \cap scheduled'[s] = {}
      <3>1. CASE scheduled' = scheduled
        BY <1>1, <2>1, <3>1 DEF TypeOK
      <3>2. CASE Schedule(r, k)
        <4>1. With(k) \subseteq Kms
          BY <1>2 DEF With, Kms
        <4>2. Remove(r, k) /\ scheduled' = [scheduled EXCEPT ![r] = @ \cup (live[r] \cap With(k))]
          BY <3>2 DEF Schedule
        <4> QED
          BY <1>1, <4>1, <4>2, RemoveFacts DEF TypeOK
      <3> QED
        BY <1>4, <3>1, <3>2
    <2> QED
      BY <1>1, <1>2, <1>4, <2>1, <2>2, SkipFacts DEF TypeOK, ScheduleKms, choices, Done
  <1> QED
    BY <1>2, <1>3, <1>4, <1>5, OneHandled

LEMMA JobEndsEffect ==
    ASSUME CleanupInv, NEW r \in Regions, JobEnds(r)
    PROVE  TypeOK' /\ RegionEffect(r)
  <1>1. TypeOK /\ Contents /\ NetworkGuarded
    BY DEF CleanupInv, RegionsKnown
  <1>2. SameHome /\ NoTakingBack /\ todo' = todo
    BY DEF SameHome, NoTakingBack, JobEnds, choices, progress, notes, world
  <1>3. /\ live' \in [Regions -> SUBSET Kinds]
        /\ \A s \in Regions \ {r} : live'[s] = live[s]
        /\ live'[r] = live[r] \/ (live'[r] = live[r] \ Managed /\ "extra" \notin live[r])
    BY <1>1 DEF JobEnds, TypeOK
  <1>4. TypeOK'
    <2>1. /\ scheduled' \in [Regions -> SUBSET Kms]
          /\ \A s \in Regions : live'[s] \cap scheduled'[s] = {}
      BY <1>1 DEF JobEnds, TypeOK, Managed
    <2>2. job' \in [Regions -> {"none", "running", "succeeded", "failed"}]
      BY <1>1 DEF JobEnds, TypeOK
    <2> QED
      BY <1>1, <1>3, <2>1, <2>2 DEF TypeOK, JobEnds, choices, progress, notes, world
  <1>5. OnlyIn(r)
    BY <1>1, <1>2, <1>3 DEF OnlyIn, Contents, Managed, Kms
  <1>6. Handled(r)
    BY <1>2 DEF Handled
  <1>7. ExtraGuards(r)
    <2>1. "extra" \in live'[r] => live'[r] = live[r]
      BY <1>3
    <2> QED
      BY <1>2, <2>1, StaysGuarded DEF ExtraGuards, NoTakingBack, SameHome, choices
  <1> QED
    BY <1>2, <1>4, <1>5, <1>6, <1>7 DEF RegionEffect

LEMMA PendingEndsEffect ==
    ASSUME CleanupInv, NEW r \in Regions, NEW k, PendingEnds(r, k)
    PROVE  TypeOK' /\ RegionEffect(r)
  <1>1. TypeOK /\ Contents
    BY DEF CleanupInv, RegionsKnown
  <1>2. SameHome /\ NoTakingBack /\ todo' = todo /\ live' = live
    BY DEF SameHome, NoTakingBack, PendingEnds, choices, progress, notes, world
  <1>3. Skip(r, {})
    BY <1>1, <1>2 DEF Skip, TypeOK
  <1>4. TypeOK'
    BY <1>1 DEF TypeOK, PendingEnds, choices, progress, notes, world
  <1>5. ~misled /\ "extra" \in live[r] => Guarded(r)'
    BY <1>2, StaysGuarded DEF SameHome, choices
  <1> QED
    BY <1>2, <1>3, <1>4, <1>5, OnlySkipped

-----------------------------------------------------------------------------
(* A step of a region keeps the invariant. *)

LEMMA RegionsKept ==
    ASSUME CleanupInv, NEW r \in Regions, TypeOK', RegionEffect(r)
    PROVE  RegionsKnown'
  <1>1. /\ home' = home /\ args' = args /\ context' = context /\ stage' = stage
        /\ plan' = plan /\ answer' = answer
        /\ (failures => failures') /\ (misled => misled')
    BY DEF RegionEffect, SameHome, NoTakingBack, choices
  <1>2. TypeOK /\ OnlyIn(r)
    BY DEF CleanupInv, RegionEffect
  <1>3. \A s \in Regions : live'[s] \subseteq live[s] /\ todo'[s] \subseteq todo[s]
    BY <1>2 DEF OnlyIn
  <1>4. Contents'
    BY <1>2, <1>3 DEF CleanupInv, RegionsKnown, Contents, OnlyIn
  <1>5. Asked'
    BY <1>1, <1>2, <1>3 DEF CleanupInv, RegionsKnown, Asked, Running, TypeOK
  <1>6. LeftToDo'
    <2> SUFFICES ASSUME Doing', NEW s \in context', NEW k \in live'[s]
                 PROVE  k \in todo'[s] \/ Unseen(k)'
      BY DEF LeftToDo
    <2>1. s \in Regions /\ s \in context /\ k \in live[s] /\ Doing
      BY <1>1, <1>2, <1>3 DEF Doing, Running, TypeOK
    <2>2. k \in todo[s] \/ Unseen(k)
      BY <2>1 DEF CleanupInv, RegionsKnown, LeftToDo
    <2>3. Unseen(k)' <=> Unseen(k)
      BY <1>1 DEF Unseen
    <2>4. CASE s = r
      BY <1>1, <2>1, <2>2, <2>3, <2>4 DEF RegionEffect, Handled, Doing
    <2>5. CASE s # r
      BY <1>2, <2>1, <2>2, <2>3, <2>5 DEF OnlyIn
    <2> QED
      BY <2>4, <2>5
  <1>7. NetworkGuarded'
    <2> SUFFICES ASSUME ~misled', NEW s \in Regions, "extra" \in live'[s]
                 PROVE  Guarded(s)'
      BY DEF NetworkGuarded
    <2>1. CASE s = r
      BY <2>1 DEF RegionEffect, ExtraGuards
    <2>2. CASE s # r
      <3>1. Guarded(s)
        BY <1>1, <1>3 DEF CleanupInv, RegionsKnown, NetworkGuarded
      <3>2. todo'[s] = todo[s] /\ live'[s] = live[s]
        BY <1>2, <2>2 DEF OnlyIn
      <3> QED
        BY <1>1, <3>1, <3>2 DEF Guarded, Unapproved, Approved
    <2> QED
      BY <2>1, <2>2
  <1>8. Stages'
    BY <1>1, <1>3 DEF CleanupInv, RegionsKnown, Stages, Running
  <1>9. ExtrasPreserved'
    <2> SUFFICES ASSUME ~misled', NEW s \in Regions, "extra" \in live'[s]
                 PROVE  Network \cap Installed[s] \subseteq live'[s]
      BY DEF ExtrasPreserved
    <2>1. Network \cap Installed[s] \subseteq live[s]
      BY <1>1, <1>3 DEF CleanupInv, RegionsKnown, ExtrasPreserved
    <2>2. Network \cap live[s] \subseteq live'[s]
      BY DEF RegionEffect, ExtraGuards, OnlyIn
    <2> QED
      BY <2>1, <2>2
  <1> QED
    BY <1>4, <1>5, <1>6, <1>7, <1>8, <1>9 DEF RegionsKnown

LEMMA HomeKept ==
    ASSUME CleanupInv, NEW r \in Regions, TypeOK', RegionEffect(r)
    PROVE  HomeKnown'
  <1>1. /\ home' = home /\ args' = args /\ context' = context /\ stage' = stage
        /\ plan' = plan /\ answer' = answer /\ groupsGone' = groupsGone
        /\ (failures => failures') /\ (misled => misled')
    BY DEF RegionEffect, SameHome, NoTakingBack, choices
  <1>2. TypeOK /\ HomeKnown
    BY DEF CleanupInv
  <1>3. \A s \in Regions : Clean(s) => Clean(s)'
    <2>1. \A s \in Regions : live'[s] \subseteq live[s]
      BY DEF RegionEffect, OnlyIn
    <2> QED
      BY <1>1, <2>1, StaysClean
  <1>4. GroupsKnown'
    <2>1. \A g : Validated(g)' <=> Validated(g)
      BY <1>1 DEF Validated, Approved
    <2> QED
      BY <1>1, <1>2, <2>1 DEF HomeKnown, GroupsKnown, Running
  <1>5. HomeLeft'
    BY <1>1, <1>2 DEF HomeKnown, HomeLeft, Doing, Running, Spared
  <1>6. TeardownKnown'
    BY <1>1, <1>2, <1>3 DEF HomeKnown, TeardownKnown, TypeOK
  <1>7. PolicyOutlivesGroups'
    BY <1>1, <1>2 DEF HomeKnown, PolicyOutlivesGroups
  <1>8. ExitZeroMeansDone'
    BY <1>1, <1>2, <1>3 DEF HomeKnown, ExitZeroMeansDone, TypeOK
  <1> QED
    BY <1>4, <1>5, <1>6, <1>7, <1>8 DEF HomeKnown

LEMMA RegionsStepKeeps ==
    ASSUME CleanupInv, NEW r \in Regions, RegionStep(r) \/ WaitFails(r) \/ Raise(r) \/ Tenancy(r)
    PROVE  CleanupInv'
  <1>1. TypeOK' /\ RegionEffect(r)
    <2>1. CASE RegionStep(r)
      BY <2>1, StartRegionEffect, DestroyEffect, JobOverEffect, StackRecordEffect,
         DeleteExtraEffect, DeleteSubnetEffect, AbsentEffect, DeleteEffect, ScheduleKmsEffect
         DEF RegionStep
    <2>2. CASE WaitFails(r)
      BY <2>2, WaitFailsEffect
    <2>3. CASE Raise(r)
      BY <2>3, RaiseEffect
    <2>4. CASE Tenancy(r)
      BY <2>4, JobEndsEffect, PendingEndsEffect DEF Tenancy
    <2> QED
      BY <2>1, <2>2, <2>3, <2>4
  <1> QED
    BY <1>1, RegionsKept, HomeKept DEF CleanupInv

-----------------------------------------------------------------------------
(* What the steps of the home region do: they take one kind off the plan. *)

HomeEffect(k) ==
    /\ stage = "home" /\ stage' = stage /\ choices' = choices /\ answer' = answer
    /\ live' = live /\ todo' = todo
    /\ NoTakingBack
    /\ home' \subseteq home /\ plan' = plan \ {k} /\ k \in plan
    /\ args.execute /\ ~misled' /\ ~failures' => k \notin home' \/ k \in Spared

GroupEffect(k) ==
    /\ groupsGone' => groupsGone
    /\ ~failures' => groupsGone' = groupsGone
    /\ args.execute /\ groupsGone' /\ ~misled' /\ k \in Groups => k \notin home'
    /\ "dynamicPolicy" \in home /\ "dynamicPolicy" \notin home' /\ ~misled'
           => home \cap Groups = {}

LEMMA HomeStepKeeps ==
    ASSUME CleanupInv, NEW k, TypeOK', HomeEffect(k), GroupEffect(k),
           k = "tag" => ~failures
    PROVE  CleanupInv'
  <1>1. /\ stage = "home" /\ stage' = stage /\ answer' = answer
        /\ args' = args /\ context' = context /\ live' = live /\ todo' = todo
        /\ (failures => failures') /\ (misled => misled')
        /\ home' \subseteq home /\ plan' = plan \ {k} /\ k \in plan
    BY DEF HomeEffect, NoTakingBack, choices
  <1>2. TypeOK /\ RegionsKnown /\ HomeKnown
    BY DEF CleanupInv
  <1>3. Contents' /\ Asked' /\ NetworkGuarded' /\ Stages' /\ ExtrasPreserved'
    <2>1. Contents'
      BY <1>1, <1>2 DEF RegionsKnown, Contents
    <2>2. Asked'
      BY <1>1, <1>2 DEF RegionsKnown, Asked, Running
    <2>3. NetworkGuarded'
      BY <1>1, <1>2 DEF RegionsKnown, NetworkGuarded, Guarded, Unapproved, Approved
    <2>4. Stages'
      BY <1>1, <1>2 DEF RegionsKnown, Stages, Running
    <2>5. ExtrasPreserved'
      BY <1>1, <1>2 DEF RegionsKnown, ExtrasPreserved
    <2> QED
      BY <2>1, <2>2, <2>3, <2>4, <2>5
  <1>4. LeftToDo'
    BY <1>1, <1>2 DEF RegionsKnown, LeftToDo, Doing, Running, Unseen
  <1>5. GroupsKnown'
    <2>1. \A g : Validated(g)' <=> Validated(g)
      BY <1>1 DEF Validated, Approved
    <2>2. Running /\ Running' <=> TRUE
      BY <1>1 DEF Running
    <2>3. GroupsKnown /\ GroupEffect(k)
      BY <1>2 DEF HomeKnown
    <2>4. groupsGone' => \A g \in home' \cap Groups : Validated(g)'
      BY <1>1, <2>1, <2>2, <2>3 DEF GroupsKnown, GroupEffect
    <2>5. args'.execute /\ groupsGone' /\ ~misled' => home' \cap Groups \subseteq plan'
      BY <1>1, <2>2, <2>3 DEF GroupsKnown, GroupEffect
    <2>6. args'.execute /\ ~failures' => groupsGone'
      BY <1>1, <2>2, <2>3 DEF GroupsKnown, GroupEffect
    <2> QED
      BY <2>4, <2>5, <2>6 DEF GroupsKnown
  <1>6. HomeLeft'
    BY <1>1, <1>2 DEF HomeKnown, HomeLeft, Doing, Running, Spared, HomeEffect
  <1>7. TeardownKnown'
    <2> SUFFICES ASSUME stage' = "home", "tag" \notin plan', plan' # {}, args'.execute, ~misled',
                        NEW r \in context'
                 PROVE  Clean(r)'
      BY DEF TeardownKnown
    <2>1. r \in context /\ r \in Regions
      BY <1>1, <1>2 DEF TypeOK
    <2>2. CASE k = "tag"
      <3>1. Doing /\ todo[r] = {}
        BY <1>1, <1>2, <2>1, <2>2 DEF Doing, Running, RegionsKnown, Stages
      <3>2. \A j \in live[r] : Unseen(j)
        BY <1>2, <2>1, <3>1 DEF RegionsKnown, LeftToDo
      <3>3. Clean(r)
        BY <2>1, <3>2, CleanMeans DEF Unseen
      <3> QED
        BY <1>1, <2>1, <3>3, StaysClean
    <2>3. CASE k # "tag"
      <3>1. Clean(r)
        BY <1>1, <1>2, <2>1, <2>3 DEF HomeKnown, TeardownKnown
      <3> QED
        BY <1>1, <2>1, <3>1, StaysClean
    <2> QED
      BY <2>2, <2>3
  <1>8. PolicyOutlivesGroups'
    BY <1>1, <1>2 DEF HomeKnown, PolicyOutlivesGroups, GroupEffect
  <1>9. ExitZeroMeansDone'
    BY <1>1 DEF ExitZeroMeansDone
  <1> QED
    BY <1>3, <1>4, <1>5, <1>6, <1>7, <1>8, <1>9 DEF CleanupInv, RegionsKnown, HomeKnown

LEMMA HomeCall ==
    ASSUME TypeOK, NEW k \in HomeKinds, NEW ok \in BOOLEAN, HomeAction(k, ok), Fail(ok)
    PROVE  /\ home' \subseteq home /\ NoTakingBack
           /\ failures' \in BOOLEAN /\ misled' \in BOOLEAN /\ budget' \in 0..MaxFaults
           /\ args.execute /\ ~misled' /\ ok => k \notin home'
           /\ ~ok => failures'
           /\ home' # home => home' = home \ HomeWith(k) /\ args.execute
  <1>1. PICK gone \in BOOLEAN :
           Action(ok, gone) /\ home' = IF gone THEN home \ HomeWith(k) ELSE home
    BY DEF HomeAction
  <1>2. k \in HomeWith(k)
    BY DEF HomeWith
  <1> QED
    BY <1>1, <1>2, CallOutcome DEF Fail, NoTakingBack, TypeOK

LEMMA DeleteGroupKeeps ==
    ASSUME CleanupInv, NEW g, DeleteGroup(g)
    PROVE  CleanupInv'
  <1>1. TypeOK /\ GroupsKnown
    BY DEF CleanupInv, HomeKnown
  <1>2. /\ g \in Groups /\ g \in HomeKinds /\ g \in plan /\ stage = "home" /\ Running
        /\ plan' = plan \ {g}
        /\ UNCHANGED <<live, scheduled, job, choices, stage, started, todo, kmsPending, answer>>
    BY DEF DeleteGroup, Handling, HomeDone, Running, HomeKinds
  <1>3. HomeWith(g) = {g}
    BY <1>2 DEF HomeWith, Groups
  <1>4. /\ home' \subseteq home /\ NoTakingBack
        /\ failures' \in BOOLEAN /\ misled' \in BOOLEAN /\ budget' \in 0..MaxFaults
        /\ groupsGone' \in BOOLEAN
        /\ args.execute /\ ~misled' /\ groupsGone' => g \notin home'
        /\ groupsGone' => groupsGone
        /\ ~failures' => groupsGone' = groupsGone
        /\ home' = home \/ home' = home \ {g}
    <2>1. CASE g \in home /\ Validated(g)
      <3>1. PICK ok \in BOOLEAN :
               /\ HomeAction(g, ok) /\ Fail(ok)
               /\ groupsGone' = (groupsGone /\ ok)
        BY <2>1 DEF DeleteGroup
      <3> QED
        BY <1>1, <1>2, <1>3, <3>1, HomeCall DEF TypeOK
    <2>2. CASE ~(g \in home /\ Validated(g))
      <3>1. UNCHANGED <<home, failures, groupsGone, world>>
        BY <2>2 DEF DeleteGroup
      <3>2. groupsGone => g \notin home
        BY <1>1, <1>2, <2>2 DEF GroupsKnown
      <3> QED
        BY <1>1, <3>1, <3>2 DEF TypeOK, NoTakingBack, world
    <2> QED
      BY <2>1, <2>2
  <1>5. TypeOK'
    BY <1>1, <1>2, <1>4 DEF TypeOK, choices
  <1>6. args.execute /\ ~failures' => groupsGone
    BY <1>1, <1>2, <1>4 DEF GroupsKnown, NoTakingBack
  <1>7. HomeEffect(g)
    BY <1>1, <1>2, <1>4, <1>6 DEF HomeEffect, choices
  <1>8. GroupEffect(g)
    <2>1. g # "dynamicPolicy"
      BY <1>2 DEF Groups
    <2> QED
      BY <1>4, <2>1 DEF GroupEffect
  <1>9. g # "tag"
    BY <1>2 DEF Groups
  <1> QED
    BY <1>5, <1>7, <1>8, <1>9, HomeStepKeeps

(* The other deletions of the home region, all alike for the groups. *)
LEMMA HomeDeletion ==
    ASSUME CleanupInv, NEW k \in HomeKinds, stage = "home", k \in plan, k \notin Groups,
           plan' = plan \ {k}, groupsGone' = groupsGone,
           UNCHANGED <<live, scheduled, job, choices, stage, started, todo, kmsPending, answer>>,
           \/ \E ok \in BOOLEAN : HomeAction(k, ok) /\ Fail(ok)
           \/ /\ UNCHANGED <<home, world>> /\ failures' \in BOOLEAN /\ (failures => failures')
              /\ args.execute /\ ~misled /\ ~failures' => k \notin home \/ k \in Spared,
           k = "tag" => ~failures,
           k = "dynamicPolicy" /\ home' # home => groupsGone /\ Handling(k)
    PROVE  CleanupInv'
  <1>1. TypeOK /\ GroupsKnown
    BY DEF CleanupInv, HomeKnown
  <1>2. /\ home' \subseteq home /\ NoTakingBack
        /\ failures' \in BOOLEAN /\ misled' \in BOOLEAN /\ budget' \in 0..MaxFaults
        /\ args.execute /\ ~misled' /\ ~failures' => k \notin home' \/ k \in Spared
        /\ home' # home => home' = home \ HomeWith(k) /\ args.execute
    <2>1. CASE \E ok \in BOOLEAN : HomeAction(k, ok) /\ Fail(ok)
      BY <1>1, <2>1, HomeCall
    <2>2. CASE /\ UNCHANGED <<home, world>> /\ failures' \in BOOLEAN /\ (failures => failures')
               /\ args.execute /\ ~misled /\ ~failures' => k \notin home \/ k \in Spared
      BY <1>1, <2>2 DEF TypeOK, NoTakingBack, world
    <2> QED
      BY <2>1, <2>2
  <1>3. TypeOK'
    BY <1>1, <1>2 DEF TypeOK, choices
  <1>4. HomeEffect(k)
    BY <1>2 DEF HomeEffect
  <1>5. GroupEffect(k)
    <2>1. "dynamicPolicy" \in home /\ "dynamicPolicy" \notin home' => k = "dynamicPolicy"
      BY <1>2 DEF HomeWith
    <2>2. ASSUME k = "dynamicPolicy", home' # home, ~misled'
          PROVE  home \cap Groups = {}
      <3>1. groupsGone /\ args.execute /\ Running /\ ~misled /\ Handling(k)
        BY <1>2, <2>2 DEF Running, NoTakingBack
      <3>2. home \cap Groups \subseteq plan
        BY <1>1, <3>1 DEF GroupsKnown
      <3>3. plan \cap Groups = {}
        BY <2>2, <3>1, HomeOrderFacts DEF Handling
      <3> QED
        BY <3>2, <3>3
    <2> QED
      BY <2>1, <2>2 DEF GroupEffect
  <1> QED
    BY <1>3, <1>4, <1>5, HomeStepKeeps

LEMMA DeleteIdentityKeeps ==
    ASSUME CleanupInv, NEW k, DeleteIdentity(k)
    PROVE  CleanupInv'
  <1>1. TypeOK /\ GroupsKnown
    BY DEF CleanupInv, HomeKnown
  <1>2. /\ k \in Identity /\ k \in HomeKinds /\ k \in plan /\ stage = "home" /\ Running /\ Handling(k)
        /\ plan' = plan \ {k}
        /\ UNCHANGED <<live, scheduled, job, choices, stage, started, todo, kmsPending, groupsGone, answer>>
    BY DEF DeleteIdentity, Handling, HomeDone, Running, HomeKinds
  <1>3. k \notin Groups /\ k # "tag"
    BY <1>2 DEF Groups, Identity
  <1>4. \/ \E ok \in BOOLEAN : HomeAction(k, ok) /\ Fail(ok)
        \/ /\ UNCHANGED <<home, world>> /\ failures' \in BOOLEAN /\ (failures => failures')
           /\ args.execute /\ ~misled /\ ~failures' => k \notin home \/ k \in Spared
    <2>1. CASE k \in home /\ (k = "dynamicPolicy" => groupsGone)
      BY <2>1 DEF DeleteIdentity
    <2>2. CASE ~(k \in home /\ (k = "dynamicPolicy" => groupsGone))
      <3>1. UNCHANGED <<home, failures, world>>
        BY <2>2 DEF DeleteIdentity
      <3>2. args.execute /\ ~failures => groupsGone
        BY <1>1, <1>2 DEF GroupsKnown
      <3> QED
        BY <1>1, <2>2, <3>1, <3>2 DEF TypeOK
    <2> QED
      BY <2>1, <2>2
  <1>5. k = "dynamicPolicy" /\ home' # home => groupsGone /\ Handling(k)
    BY <1>2 DEF DeleteIdentity
  <1> QED
    BY <1>2, <1>3, <1>4, <1>5, HomeDeletion

LEMMA DeleteTagsKeeps ==
    ASSUME CleanupInv, NEW k, DeleteTags(k)
    PROVE  CleanupInv'
  <1>1. TypeOK
    BY DEF CleanupInv
  <1>2. /\ k \in {"tag", "namespace"} /\ k \in HomeKinds /\ k \in plan /\ stage = "home"
        /\ plan' = plan \ {k} /\ (k = "tag" => ~failures)
        /\ UNCHANGED <<live, scheduled, job, choices, stage, started, todo, kmsPending, groupsGone, answer>>
    BY DEF DeleteTags, Handling, HomeDone, HomeKinds
  <1>3. k \notin Groups /\ k # "dynamicPolicy"
    BY <1>2 DEF Groups
  <1>4. \/ \E ok \in BOOLEAN : HomeAction(k, ok) /\ Fail(ok)
        \/ /\ UNCHANGED <<home, world>> /\ failures' \in BOOLEAN /\ (failures => failures')
           /\ args.execute /\ ~misled /\ ~failures' => k \notin home \/ k \in Spared
    BY <1>1 DEF DeleteTags, TypeOK
  <1> QED
    BY <1>2, <1>3, <1>4, HomeDeletion

LEMMA DeleteParentKeeps ==
    ASSUME CleanupInv, DeleteParent
    PROVE  CleanupInv'
  <1>1. TypeOK
    BY DEF CleanupInv
  <1> DEFINE k == "parent"
  <1>2. /\ k \in HomeKinds /\ k \in plan /\ stage = "home"
        /\ plan' = plan \ {k} /\ k # "tag" /\ k # "dynamicPolicy" /\ k \notin Groups
        /\ UNCHANGED <<live, scheduled, job, choices, stage, started, todo, kmsPending, groupsGone, answer>>
    BY DEF DeleteParent, Handling, HomeDone, HomeKinds, Groups
  <1>3. \/ \E ok \in BOOLEAN : HomeAction(k, ok) /\ Fail(ok)
        \/ /\ UNCHANGED <<home, world>> /\ failures' \in BOOLEAN /\ (failures => failures')
           /\ args.execute /\ ~misled /\ ~failures' => k \notin home \/ k \in Spared
    BY <1>1 DEF DeleteParent, TypeOK, Spared
  <1> HIDE DEF k
  <1> QED
    BY <1>2, <1>3, HomeDeletion

LEMMA DeleteCompartmentKeeps ==
    ASSUME CleanupInv, DeleteCompartment
    PROVE  CleanupInv'
  <1>1. TypeOK
    BY DEF CleanupInv
  <1> DEFINE k == "compartment"
  <1>2. /\ k \in HomeKinds /\ k \in plan /\ stage = "home"
        /\ plan' = plan \ {k} /\ k # "tag" /\ k # "dynamicPolicy" /\ k \notin Groups
        /\ UNCHANGED <<live, scheduled, job, choices, stage, started, todo, kmsPending, groupsGone, answer>>
    BY DEF DeleteCompartment, Handling, HomeDone, HomeKinds, Groups
  <1>3. \/ \E ok \in BOOLEAN : HomeAction(k, ok) /\ Fail(ok)
        \/ /\ UNCHANGED <<home, world>> /\ failures' \in BOOLEAN /\ (failures => failures')
           /\ args.execute /\ ~misled /\ ~failures' => k \notin home \/ k \in Spared
    <2>1. CASE ~args.compartment /\ UNCHANGED <<home, failures, world>>
      BY <1>1, <2>1 DEF TypeOK, Spared
    <2>2. CASE failures' = TRUE /\ UNCHANGED <<home, world>>
      BY <2>2
    <2>3. CASE \E ok \in BOOLEAN : HomeAction(k, ok) /\ Fail(ok)
      BY <2>3
    <2> QED
      BY <2>1, <2>2, <2>3 DEF DeleteCompartment
  <1> HIDE DEF k
  <1> QED
    BY <1>2, <1>3, HomeDeletion

-----------------------------------------------------------------------------
(* A run begins, passes from the regions to the home region, and ends. *)

LEMMA BeginKeeps ==
    ASSUME CleanupInv, NEW m \in Modes, Begin(m)
    PROVE  CleanupInv'
  <1>1. TypeOK /\ Contents /\ ExtrasPreserved /\ PolicyOutlivesGroups
    BY DEF CleanupInv, RegionsKnown, HomeKnown
  <1>2. /\ stage' = "regions" /\ args' = m /\ plan' = HomeKinds /\ answer' = "none"
        /\ started' = {} /\ kmsPending' = FALSE
        /\ UNCHANGED <<live, scheduled, job, home, misled>>
    BY DEF Begin, tenancy
  <1>3. context' \subseteq Regions /\ budget' \in 0..MaxFaults
    <2>1. PICK ctx \in SUBSET Regions : Discovered(ctx) /\ context' = ctx
      BY DEF Begin
    <2> QED
      BY <1>1, <2>1, DiscoverySpends
  <1> DEFINE open == Unanswered(m, context')
  <1>4. /\ failures' = (m.execute /\ open # {})
        /\ groupsGone' = (open \cap ({"group"} \X Groups) = {})
    BY DEF Begin
  <1>5. /\ todo' \in [Regions -> SUBSET Steps]
        /\ \A r \in Regions : /\ todo'[r] # {} => r \in context'
                              /\ r \in context' => Installed[r] \subseteq todo'[r]
                              /\ todo'[r] \cap Kinds \subseteq Installed[r]
    <2>1. todo' = [r \in Regions |-> {k \in Steps : r \in context' /\ Handles(r, k)}]
      BY DEF Begin
    <2>2. Installed \in [Regions -> SUBSET Kinds]
      BY ConstantsAssumption
    <2> QED
      BY <2>1, <2>2, StepKinds DEF Handles
  <1>6. /\ \A r \in context' :
              m.execute /\ open = {} /\ "extra" \in live[r] => <<"extra", r>> \in m.approved
        /\ \A g \in InvalidGroups \cap home :
              open \cap ({"group"} \X Groups) = {} => m.execute /\ <<"group", g>> \in m.approved
    <2>1. \A r \in context' : "extra" \in live[r] =>
              <<"extra", r>> \in open \/ (m.execute /\ <<"extra", r>> \in m.approved)
      BY DEF Unanswered
    <2>2. \A g \in InvalidGroups \cap home :
              <<"group", g>> \in open \/ (m.execute /\ <<"group", g>> \in m.approved)
      BY DEF Unanswered
    <2>3. InvalidGroups \subseteq Groups
      BY ConstantsAssumption
    <2> HIDE DEF open
    <2> QED
      BY <2>1, <2>2, <2>3
  <1>7. failures' \in BOOLEAN /\ groupsGone' \in BOOLEAN
    <2>1. m.execute \in BOOLEAN
      BY ConstantsAssumption
    <2> QED
      BY <1>4, <2>1
  <1> HIDE DEF open
  <1>8. TypeOK'
    BY <1>1, <1>2, <1>3, <1>5, <1>7 DEF TypeOK
  <1>9. RegionsKnown'
    <2>1. Contents'
      BY <1>1, <1>2 DEF Contents
    <2>2. Asked'
      <3> SUFFICES ASSUME args'.execute, ~failures', NEW r \in context', "extra" \in live'[r]
                   PROVE  <<"extra", r>> \in args'.approved
        BY DEF Asked
      <3> QED
        BY <1>2, <1>4, <1>6
    <2>3. LeftToDo'
      <3> SUFFICES ASSUME NEW r \in context', NEW k \in live'[r]
                   PROVE  k \in todo'[r]
        BY DEF LeftToDo
      <3> QED
        BY <1>1, <1>2, <1>3, <1>5 DEF Contents
    <2>4. NetworkGuarded'
      <3> SUFFICES ASSUME NEW r \in Regions, "extra" \in live'[r]
                   PROVE  Guarded(r)'
        BY DEF NetworkGuarded
      <3>1. "extra" \in Installed[r] /\ "subnet" \in Installed[r]
        BY <1>1, <1>2, ConstantsAssumption DEF Contents
      <3>2. todo'[r] # {} => {"extra", "subnet"} \subseteq todo'[r]
        BY <1>5, <3>1
      <3> QED
        BY <3>2 DEF Guarded
    <2>5. Stages'
      BY <1>2, <1>5 DEF Stages
    <2>6. ExtrasPreserved'
      BY <1>1, <1>2 DEF ExtrasPreserved
    <2> QED
      BY <2>1, <2>2, <2>3, <2>4, <2>5, <2>6 DEF RegionsKnown
  <1>10. HomeKnown'
    <2>1. GroupsKnown'
      <3>1. groupsGone' => \A g \in home' \cap Groups : Validated(g)'
        BY <1>2, <1>4, <1>6 DEF Validated, Approved
      <3>2. home' \cap Groups \subseteq plan'
        BY <1>2 DEF HomeKinds
      <3>3. args'.execute /\ ~failures' => groupsGone'
        BY <1>2, <1>4
      <3> QED
        BY <3>1, <3>2, <3>3 DEF GroupsKnown
    <2>2. HomeLeft'
      BY <1>1, <1>2 DEF HomeLeft, TypeOK
    <2>3. TeardownKnown' /\ ExitZeroMeansDone'
      BY <1>2 DEF TeardownKnown, ExitZeroMeansDone
    <2>4. PolicyOutlivesGroups'
      BY <1>1, <1>2 DEF PolicyOutlivesGroups
    <2> QED
      BY <2>1, <2>2, <2>3, <2>4 DEF HomeKnown
  <1> QED
    BY <1>8, <1>9, <1>10 DEF CleanupInv

LEMMA JoinRegionsKeeps ==
    ASSUME CleanupInv, JoinRegions
    PROVE  CleanupInv'
  <1>1. TypeOK /\ RegionsKnown /\ HomeKnown
    BY DEF CleanupInv
  <1>2. /\ stage = "regions" /\ stage' = "home" /\ \A r \in Regions : todo[r] = {}
        /\ UNCHANGED <<live, scheduled, job, home, args, context, started, todo, plan,
                       failures, kmsPending, groupsGone, answer, misled, budget>>
    BY DEF JoinRegions, tenancy, choices, progress, notes, world
  <1>3. TypeOK'
    BY <1>1, <1>2 DEF TypeOK
  <1>4. RegionsKnown'
    <2>1. Contents' /\ ExtrasPreserved'
      BY <1>1, <1>2 DEF RegionsKnown, Contents, ExtrasPreserved
    <2>2. Asked'
      BY <1>1, <1>2 DEF RegionsKnown, Asked, Running
    <2>3. LeftToDo'
      BY <1>1, <1>2 DEF RegionsKnown, LeftToDo, Doing, Running, Unseen
    <2>4. NetworkGuarded'
      BY <1>1, <1>2 DEF RegionsKnown, NetworkGuarded, Guarded, Unapproved, Approved
    <2>5. Stages'
      BY <1>1, <1>2 DEF RegionsKnown, Stages, Running
    <2> QED
      BY <2>1, <2>2, <2>3, <2>4, <2>5 DEF RegionsKnown
  <1>5. HomeKnown'
    <2>1. GroupsKnown'
      <3>1. \A g : Validated(g)' <=> Validated(g)
        BY <1>2 DEF Validated, Approved
      <3> QED
        BY <1>1, <1>2, <3>1 DEF HomeKnown, GroupsKnown, Running
    <2>2. HomeLeft'
      BY <1>1, <1>2 DEF HomeKnown, HomeLeft, Doing, Running, Spared
    <2>3. "tag" \in plan'
      BY <1>1, <1>2 DEF RegionsKnown, Stages, HomeKinds
    <2>4. PolicyOutlivesGroups'
      BY <1>1, <1>2 DEF HomeKnown, PolicyOutlivesGroups
    <2> QED
      BY <1>2, <2>1, <2>2, <2>3, <2>4 DEF HomeKnown, TeardownKnown, ExitZeroMeansDone
  <1> QED
    BY <1>3, <1>4, <1>5 DEF CleanupInv

LEMMA PreserveKeeps ==
    ASSUME CleanupInv, Preserve
    PROVE  CleanupInv'
  <1>1. TypeOK /\ RegionsKnown /\ HomeKnown
    BY DEF CleanupInv
  <1>2. /\ stage = "home" /\ failures /\ plan' = {}
        /\ UNCHANGED <<live, scheduled, job, home, args, context, stage, started, todo,
                       failures, kmsPending, groupsGone, answer, misled, budget>>
    BY DEF Preserve, Handling, tenancy, choices, notes, world
  <1>3. TypeOK'
    BY <1>1, <1>2 DEF TypeOK
  <1>4. RegionsKnown'
    <2>1. Contents' /\ ExtrasPreserved'
      BY <1>1, <1>2 DEF RegionsKnown, Contents, ExtrasPreserved
    <2>2. Asked' /\ LeftToDo'
      BY <1>2 DEF Asked, LeftToDo, Doing
    <2>3. NetworkGuarded'
      BY <1>1, <1>2 DEF RegionsKnown, NetworkGuarded, Guarded, Unapproved, Approved
    <2>4. Stages'
      BY <1>1, <1>2 DEF RegionsKnown, Stages, Running
    <2> QED
      BY <2>1, <2>2, <2>3, <2>4 DEF RegionsKnown
  <1>5. HomeKnown'
    <2>1. GroupsKnown'
      <3>1. \A g : Validated(g)' <=> Validated(g)
        BY <1>2 DEF Validated, Approved
      <3>2. plan \cap Groups = {}
        BY HomeOrderFacts DEF Preserve, Handling
      <3> QED
        BY <1>1, <1>2, <3>1, <3>2 DEF HomeKnown, GroupsKnown, Running
    <2>2. HomeLeft'
      BY <1>2 DEF HomeLeft, Doing
    <2>3. PolicyOutlivesGroups'
      BY <1>1, <1>2 DEF HomeKnown, PolicyOutlivesGroups
    <2> QED
      BY <1>2, <2>1, <2>2, <2>3 DEF HomeKnown, TeardownKnown, ExitZeroMeansDone
  <1> QED
    BY <1>3, <1>4, <1>5 DEF CleanupInv

(* However a run ends, its process leaves nothing behind but the tenancy; an
   answer of 0 has to be earned. *)
LEMMA EndKeeps ==
    ASSUME CleanupInv, EndRun, UNCHANGED <<tenancy, misled>>,
           args' \in Modes, context' \subseteq Regions, budget' \in 0..MaxFaults, answer' \in {"none", "0", "1"},
           answer' = "0" => ExitZeroMeansDone'
    PROVE  CleanupInv'
  <1>1. TypeOK /\ RegionsKnown /\ HomeKnown
    BY DEF CleanupInv
  <1>2. /\ stage' = "idle" /\ started' = {} /\ plan' = {}
        /\ failures' = FALSE /\ kmsPending' = FALSE /\ groupsGone' = TRUE
        /\ todo' \in [Regions -> SUBSET Steps] /\ \A r \in Regions : todo'[r] = {}
        /\ UNCHANGED <<live, scheduled, job, home, misled>>
    BY DEF EndRun, tenancy
  <1>3. TypeOK'
    BY <1>1, <1>2 DEF TypeOK
  <1>4. RegionsKnown'
    <2>1. Contents' /\ ExtrasPreserved'
      BY <1>1, <1>2 DEF RegionsKnown, Contents, ExtrasPreserved
    <2>2. Asked' /\ LeftToDo' /\ Stages'
      BY <1>2 DEF Asked, LeftToDo, Doing, Running, Stages
    <2>3. NetworkGuarded'
      BY <1>2 DEF NetworkGuarded, Guarded
    <2> QED
      BY <2>1, <2>2, <2>3 DEF RegionsKnown
  <1>5. HomeKnown'
    <2>1. PolicyOutlivesGroups'
      BY <1>1, <1>2 DEF HomeKnown, PolicyOutlivesGroups
    <2>2. GroupsKnown' /\ HomeLeft' /\ TeardownKnown'
      BY <1>2 DEF GroupsKnown, HomeLeft, Doing, Running, TeardownKnown
    <2>3. ExitZeroMeansDone'
      BY DEF ExitZeroMeansDone
    <2> QED
      BY <2>1, <2>2, <2>3 DEF HomeKnown
  <1> QED
    BY <1>3, <1>4, <1>5 DEF CleanupInv

LEMMA FinishKeeps ==
    ASSUME CleanupInv, Finish
    PROVE  CleanupInv'
  <1>1. TypeOK /\ RegionsKnown /\ HomeKnown
    BY DEF CleanupInv
  <1>2. /\ stage = "home" /\ plan = {} /\ EndRun
        /\ answer' = IF failures THEN "1" ELSE "0"
        /\ UNCHANGED <<live, home, args, context, misled, budget>>
        /\ UNCHANGED <<tenancy, choices>>
    BY DEF Finish, tenancy, choices, world
  <1>3. answer' = "0" => ExitZeroMeansDone'
    <2> SUFFICES ASSUME ~failures, args.execute, ~misled
                 PROVE  /\ \A r \in context' : Clean(r)'
                        /\ home' \subseteq Spared'
      BY <1>2 DEF ExitZeroMeansDone, Spared
    <2>1. Doing
      BY <1>2 DEF Doing, Running
    <2>2. home \subseteq Spared
      BY <1>1, <1>2, <2>1 DEF HomeKnown, HomeLeft
    <2>3. \A r \in context : Clean(r)
      <3> SUFFICES ASSUME NEW r \in context PROVE Clean(r)
        OBVIOUS
      <3>1. r \in Regions /\ todo[r] = {}
        BY <1>1, <1>2 DEF TypeOK, RegionsKnown, Stages
      <3>2. \A k \in live[r] : Unseen(k)
        BY <1>1, <2>1, <3>1 DEF RegionsKnown, LeftToDo
      <3> QED
        BY <3>1, <3>2, CleanMeans DEF Unseen
    <2>4. \A r \in context : Clean(r)'
      BY <1>1, <1>2, <2>3, StaysClean DEF TypeOK
    <2> QED
      BY <1>2, <2>2, <2>4 DEF Spared
  <1> QED
    BY <1>1, <1>2, <1>3, EndKeeps DEF TypeOK

LEMMA CutShortKeeps ==
    ASSUME CleanupInv, Abort \/ Kill
    PROVE  CleanupInv'
  <1>1. TypeOK /\ Stages /\ ExitZeroMeansDone
    BY DEF CleanupInv, RegionsKnown, HomeKnown
  <1>2. EndRun /\ UNCHANGED <<tenancy, choices, misled>> /\ budget' \in 0..MaxFaults
    BY <1>1, FaultSpent DEF Abort, Kill
  <1>3. answer' \in {"none", "1"}
    BY <1>1 DEF Abort, Kill, Stages, Running
  <1>4. args' \in Modes /\ context' \subseteq Regions
    BY <1>1, <1>2 DEF choices, TypeOK
  <1> QED
    BY <1>2, <1>3, <1>4, EndKeeps

LEMMA DiscoveryFailsKeeps ==
    ASSUME CleanupInv, NEW m \in Modes, DiscoveryFails(m)
    PROVE  CleanupInv'
  <1>1. TypeOK
    BY DEF CleanupInv
  <1>2. /\ EndRun /\ UNCHANGED <<tenancy, misled>>
        /\ args' = m /\ context' = {} /\ answer' = "1"
    BY DEF DiscoveryFails
  <1>3. budget' \in 0..MaxFaults
    BY <1>1, DiscoverySpends, FaultSpent DEF DiscoveryFails
  <1> QED
    BY <1>1, <1>2, <1>3, EndKeeps

-----------------------------------------------------------------------------
(* The theorems. *)

LEMMA InitKnown ==
    ASSUME Init
    PROVE  CleanupInv
  <1>1. /\ live = Installed /\ home = HomeKinds /\ stage = "idle" /\ plan = {}
        /\ todo = [r \in Regions |-> {}] /\ failures = FALSE /\ groupsGone = TRUE
        /\ answer = "none" /\ misled = FALSE /\ context = {} /\ started = {}
    BY DEF Init
  <1>2. /\ Installed \in [Regions -> SUBSET Kinds] /\ MaxFaults \in Nat
        /\ \A r \in Regions : "key" \in Installed[r] => "vault" \in Installed[r]
    BY ConstantsAssumption
  <1>3. TypeOK
    <2>1. /\ scheduled = [r \in Regions |-> {}] /\ job = [r \in Regions |-> "none"]
          /\ args \in Modes /\ kmsPending = FALSE /\ budget = MaxFaults
      BY DEF Init
    <2>2. budget \in 0..MaxFaults
      BY <1>2, <2>1
    <2>3. \A r \in Regions : live[r] \cap scheduled[r] = {}
      BY <2>1
    <2> QED
      BY <1>1, <1>2, <2>1, <2>2, <2>3 DEF TypeOK
  <1>4. RegionsKnown
    <2>1. \A r \in Regions : todo[r] = {} /\ live[r] = Installed[r]
      BY <1>1
    <2>2. Contents /\ ExtrasPreserved
      BY <1>2, <2>1 DEF Contents, ExtrasPreserved
    <2>3. Asked /\ LeftToDo /\ Stages
      BY <1>1, <2>1 DEF Asked, LeftToDo, Doing, Running, Stages
    <2>4. NetworkGuarded
      BY <2>1 DEF NetworkGuarded, Guarded
    <2> QED
      BY <2>2, <2>3, <2>4 DEF RegionsKnown
  <1>5. HomeKnown
    <2>1. GroupsKnown /\ HomeLeft
      BY <1>1 DEF GroupsKnown, HomeLeft, Doing, Running
    <2>2. TeardownKnown /\ ExitZeroMeansDone
      BY <1>1 DEF TeardownKnown, ExitZeroMeansDone
    <2>3. PolicyOutlivesGroups
      BY <1>1 DEF PolicyOutlivesGroups, HomeKinds, Identity
    <2> QED
      BY <2>1, <2>2, <2>3 DEF HomeKnown
  <1> QED
    BY <1>3, <1>4, <1>5 DEF CleanupInv

LEMMA StutterKeeps ==
    ASSUME CleanupInv, UNCHANGED vars
    PROVE  CleanupInv'
  <1>1. UNCHANGED <<live, scheduled, job, home, args, context, stage, started, todo, plan,
                    failures, kmsPending, groupsGone, answer, misled, budget>>
    BY DEF vars, tenancy, choices, progress, notes, world
  <1>2. TypeOK' /\ RegionsKnown'
    <2>1. TypeOK'
      BY <1>1 DEF CleanupInv, TypeOK
    <2>2. Contents' /\ Asked' /\ LeftToDo' /\ Stages' /\ ExtrasPreserved'
      BY <1>1 DEF CleanupInv, RegionsKnown, Contents, Asked, LeftToDo, Doing, Running,
                  Unseen, Stages, ExtrasPreserved
    <2>3. NetworkGuarded'
      BY <1>1 DEF CleanupInv, RegionsKnown, NetworkGuarded, Guarded, Unapproved, Approved
    <2> QED
      BY <2>1, <2>2, <2>3 DEF RegionsKnown
  <1>3. HomeKnown'
    <2>1. \A r \in Regions : Clean(r) => Clean(r)'
      BY <1>1, StaysClean
    <2>2. \A g : Validated(g)' <=> Validated(g)
      BY <1>1 DEF Validated, Approved
    <2>3. GroupsKnown' /\ HomeLeft' /\ PolicyOutlivesGroups'
      BY <1>1, <2>2 DEF CleanupInv, HomeKnown, GroupsKnown, HomeLeft, Doing, Running, Spared,
                        PolicyOutlivesGroups
    <2>4. TeardownKnown' /\ ExitZeroMeansDone'
      BY <1>1, <2>1 DEF CleanupInv, HomeKnown, TeardownKnown, ExitZeroMeansDone, TypeOK
    <2> QED
      BY <2>3, <2>4 DEF HomeKnown
  <1> QED
    BY <1>2, <1>3 DEF CleanupInv

LEMMA StepKeeps ==
    ASSUME CleanupInv, [Next]_vars
    PROVE  CleanupInv'
  <1>1. ASSUME NEW m \in Modes, Begin(m) \/ DiscoveryFails(m) PROVE CleanupInv'
    BY <1>1, BeginKeeps, DiscoveryFailsKeeps
  <1>2. ASSUME NEW r \in Regions, RegionStep(r) \/ WaitFails(r) \/ Raise(r) \/ Tenancy(r)
        PROVE  CleanupInv'
    BY <1>2, RegionsStepKeeps
  <1>3. CASE HomeStep
    BY <1>3, JoinRegionsKeeps, PreserveKeeps, DeleteParentKeeps, DeleteCompartmentKeeps,
       FinishKeeps, DeleteGroupKeeps, DeleteIdentityKeeps, DeleteTagsKeeps DEF HomeStep
  <1>4. CASE Abort \/ Kill
    BY <1>4, CutShortKeeps
  <1>5. CASE UNCHANGED vars
    BY <1>5, StutterKeeps
  <1> QED
    BY <1>1, <1>2, <1>3, <1>4, <1>5 DEF Next

(* Every reachable state satisfies the inductive invariant: on a run with no
   failure on record, whatever is left is on a list still to be handled. *)
THEOREM CleanupInvariance == Spec => []CleanupInv
  <1>1. Init => CleanupInv
    BY InitKnown
  <1>2. CleanupInv /\ [Next]_vars => CleanupInv'
    BY StepKeeps
  <1> QED
    BY <1>1, <1>2, PTL DEF Spec

(* The variables keep their types, and what is pending deletion is not live. *)
THEOREM CleanupTypeCorrect == Spec => []TypeOK
  <1>1. CleanupInv => TypeOK
    BY DEF CleanupInv
  <1> QED
    BY <1>1, CleanupInvariance, PTL

(* run goes on to the tag namespace, the parent stack and the compartment only
   once the regions of the run are clean, whatever became of the workers. *)
THEOREM TeardownIsLast == Spec => []TeardownAfterClean
  <1>1. CleanupInv => TeardownAfterClean
    <2> SUFFICES ASSUME CleanupInv, args.execute, ~misled,
                        Handling("namespace") \/ Handling("parent") \/ Handling("compartment"),
                        NEW r \in context
                 PROVE  Clean(r)
      BY DEF TeardownAfterClean
    <2>1. stage = "home" /\ plan # {} /\ "tag" \notin plan
      BY HomeOrderFacts DEF Handling
    <2> QED
      BY <2>1 DEF CleanupInv, HomeKnown, TeardownKnown
  <1> QED
    BY <1>1, CleanupInvariance, PTL

(* Exit status 0 of an execution in a tenancy where no deletion was ever
   misreported: in the regions the run looked at nothing is left but rules that
   the deleted tag can no longer tell, and at home what the command line spares.
   Of a region that discovery skipped it says nothing. *)
THEOREM ExitZero == Spec => []ExitZeroMeansDone
  <1>1. CleanupInv => ExitZeroMeansDone
    BY DEF CleanupInv, HomeKnown
  <1> QED
    BY <1>1, CleanupInvariance, PTL

(* cleanup_home_identity deletes the policy of the dynamic groups only when the
   groups are gone, over any number of runs. *)
THEOREM PolicyOutlives == Spec => []PolicyOutlivesGroups
  <1>1. CleanupInv => PolicyOutlivesGroups
    BY DEF CleanupInv, HomeKnown
  <1> QED
    BY <1>1, CleanupInvariance, PTL

(* The network around a resource that is not Datadog's stays as long as it does. *)
THEOREM ExtrasKept == Spec => []ExtrasPreserved
  <1>1. CleanupInv => ExtrasPreserved
    BY DEF CleanupInv, RegionsKnown
  <1> QED
    BY <1>1, CleanupInvariance, PTL

-----------------------------------------------------------------------------
(* What a step of the regions or the home region never does. *)

LEMMA LiveChanges ==
    ASSUME TypeOK, NEW r \in Regions, RegionStep(r) \/ WaitFails(r) \/ Raise(r), ~args.execute
    PROVE  live' = live /\ job' = job
  <1>1. ASSUME NEW ok \in BOOLEAN, NEW gone \in BOOLEAN, Action(ok, gone)
        PROVE  ~gone
    BY <1>1 DEF Action
  <1>2. ~Approved(<<"extra", r>>)
    BY DEF Approved
  <1>3. CASE StartRegion(r) \/ JobOver(r) \/ WaitFails(r) \/ Raise(r)
    BY <1>3 DEF StartRegion, JobOver, WaitFails, Raise, tenancy
  <1>4. CASE Destroy(r)
    BY <1>4 DEF Destroy
  <1>5. CASE StackRecord(r)
    BY <1>1, <1>5 DEF StackRecord
  <1>6. CASE DeleteExtra(r)
    BY <1>2, <1>6 DEF DeleteExtra, Unapproved
  <1>7. CASE DeleteSubnet(r)
    BY <1>1, <1>7 DEF DeleteSubnet
  <1>8. CASE \E k \in Kinds : Absent(r, k) \/ Delete(r, k) \/ ScheduleKms(r, k)
    <2>1. PICK k \in Kinds : Absent(r, k) \/ Delete(r, k) \/ ScheduleKms(r, k)
      BY <1>8
    <2>2. CASE Absent(r, k)
      BY <2>2 DEF Absent, tenancy
    <2>3. CASE Delete(r, k)
      BY <1>1, <2>3 DEF Delete
    <2>4. CASE ScheduleKms(r, k)
      BY <1>1, <2>4 DEF ScheduleKms
    <2> QED
      BY <2>1, <2>2, <2>3, <2>4
  <1> QED
    BY <1>3, <1>4, <1>5, <1>6, <1>7, <1>8 DEF RegionStep

LEMMA HomeChanges ==
    ASSUME HomeStep, home' # home
    PROVE  /\ args.execute
           /\ "compartment" \in home /\ "compartment" \notin home' => DeleteCompartment /\ Empty
  <1>1. ASSUME NEW k, NEW ok \in BOOLEAN, HomeAction(k, ok)
        PROVE  /\ args.execute
               /\ "compartment" \in home /\ "compartment" \notin home' => k = "compartment"
    BY <1>1 DEF HomeAction, Action, HomeWith
  <1>2. CASE JoinRegions \/ Preserve \/ Finish
    BY <1>2 DEF JoinRegions, Preserve, Finish, tenancy
  <1>3. CASE DeleteParent
    BY <1>1, <1>3 DEF DeleteParent
  <1>4. CASE DeleteCompartment
    <2>1. PICK ok \in BOOLEAN : HomeAction("compartment", ok)
      BY <1>4 DEF DeleteCompartment
    <2>2. args.execute => Empty
      BY <1>4 DEF DeleteCompartment
    <2> QED
      BY <1>1, <1>4, <2>1, <2>2
  <1>5. CASE \E k \in HomeKinds : DeleteGroup(k) \/ DeleteIdentity(k) \/ DeleteTags(k)
    <2>1. PICK k \in HomeKinds : DeleteGroup(k) \/ DeleteIdentity(k) \/ DeleteTags(k)
      BY <1>5
    <2>2. k # "compartment"
      BY <2>1 DEF DeleteGroup, DeleteIdentity, DeleteTags, Groups, Identity
    <2>3. PICK ok \in BOOLEAN : HomeAction(k, ok)
      BY <2>1 DEF DeleteGroup, DeleteIdentity, DeleteTags
    <2> QED
      BY <1>1, <2>2, <2>3
  <1> QED
    BY <1>2, <1>3, <1>4, <1>5 DEF HomeStep

LEMMA OthersKeepHome ==
    ASSUME Next, ~HomeStep
    PROVE  home' = home
  <1>1. CASE Abort \/ Kill
    BY <1>1 DEF Abort, Kill, tenancy
  <1>2. CASE \E m \in Modes : Begin(m) \/ DiscoveryFails(m)
    BY <1>2 DEF Begin, DiscoveryFails, tenancy
  <1>3. CASE \E r \in Regions : RegionStep(r) \/ WaitFails(r) \/ Raise(r) \/ Tenancy(r)
    BY <1>3 DEF RegionStep, WaitFails, Raise, Tenancy, StartRegion, Destroy, JobOver,
                StackRecord, DeleteExtra, DeleteSubnet, Absent, Delete, ScheduleKms,
                JobEnds, PendingEnds, tenancy
  <1> QED
    BY <1>1, <1>2, <1>3 DEF Next

(* delete_compartment deletes the compartment only when its inventory finds the
   regions of the run empty, whatever the run has been told before. *)
THEOREM CompartmentIsEmptied == Spec => CompartmentEmptied
  <1> DEFINE Step == "compartment" \in home /\ "compartment" \notin home'
                         => \A r \in context : Residuals(r) = {}
  <1>1. [Next]_vars => Step
    <2> SUFFICES ASSUME [Next]_vars, "compartment" \in home, "compartment" \notin home'
                 PROVE  Empty
      BY DEF Empty
    <2>1. Next
      BY DEF vars, tenancy
    <2>2. HomeStep
      BY <2>1, OthersKeepHome
    <2> QED
      BY <2>2, HomeChanges
  <1>2. [Next]_vars => [Step]_vars
    BY <1>1
  <1> QED
    BY <1>2, PTL DEF Spec, CompartmentEmptied

(* Without --execute nothing is removed and no destroy job is begun; what the
   tenancy does meanwhile is the work of earlier runs. *)
THEOREM DryRunKeeps == Spec => DryRunReadOnly
  <1> DEFINE Step == ~args.execute =>
                /\ home' = home
                /\ \A r \in Regions :
                      /\ job'[r] # job[r] => job[r] = "running"
                      /\ live'[r] # live[r] =>
                            job'[r] # job[r] \/ scheduled'[r] # scheduled[r]
  <1>1. TypeOK /\ [Next]_vars => Step
    <2> SUFFICES ASSUME TypeOK, [Next]_vars, ~args.execute
                 PROVE  Step
      OBVIOUS
    <2>1. home' = home
      <3>1. CASE Next
        BY <3>1, HomeChanges, OthersKeepHome
      <3>2. CASE UNCHANGED vars
        BY <3>2 DEF vars, tenancy
      <3> QED
        BY <3>1, <3>2
    <2>2. \A r \in Regions : /\ job'[r] # job[r] => job[r] = "running"
                             /\ live'[r] # live[r] => job'[r] # job[r]
      <3>1. CASE live' = live /\ job' = job
        BY <3>1
      <3>2. ASSUME NEW r \in Regions, Tenancy(r)
            PROVE  (live' = live /\ job' = job) \/ JobEnds(r)
        BY <3>2 DEF Tenancy, PendingEnds
      <3>3. ASSUME NEW r \in Regions, JobEnds(r), NEW s \in Regions
            PROVE  /\ job'[s] # job[s] => job[s] = "running"
                   /\ live'[s] # live[s] => job'[s] # job[s]
        BY <3>3 DEF JobEnds, TypeOK
      <3>4. CASE \/ HomeStep \/ Abort \/ Kill \/ UNCHANGED vars
                 \/ \E m \in Modes : Begin(m) \/ DiscoveryFails(m)
        <4>1. live' = live /\ job' = job
          BY <3>4 DEF HomeStep, Abort, Kill, Begin, DiscoveryFails, JoinRegions, Preserve, Finish, DeleteParent,
                      DeleteCompartment, DeleteGroup, DeleteIdentity, DeleteTags, vars, tenancy
        <4> QED
          BY <4>1, <3>1
      <3> QED
        BY <3>1, <3>2, <3>3, <3>4, LiveChanges DEF Next
    <2> QED
      BY <2>1, <2>2
  <1>2. TypeOK /\ [Next]_vars => [Step]_vars
    BY <1>1
  <1> QED
    BY <1>2, CleanupTypeCorrect, PTL DEF Spec, DryRunReadOnly

-----------------------------------------------------------------------------
(* A list of n members, each of them once. *)
Lists(list, n, members) ==
    /\ DOMAIN list = 1..n
    /\ \A i, j \in 1..n : list[i] = list[j] => i = j
    /\ \A k \in members : \E i \in 1..n : list[i] = k

(* Of some members of a list, one comes before the others. *)
LEMMA Earliest ==
    ASSUME NEW list, NEW n \in Nat, NEW members, Lists(list, n, members),
           NEW S, S \subseteq members, S # {}
    PROVE  \E k \in S : \A j \in S : <<j, k>> \notin Pairs(list)
  <1> DEFINE T == {i \in 1..n : list[i] \in S}
  <1>1. T \subseteq Nat /\ T # {}
    BY DEF Lists
  <1>2. PICK x \in T : \A y \in T : x <= y
    <2> HIDE DEF T
    <2> QED
      BY <1>1, Numbers!LeastNat
  <1>3. x \in 1..n /\ list[x] \in S
    OBVIOUS
  <1>4. ASSUME NEW j \in S, <<j, list[x]>> \in Pairs(list)
        PROVE  FALSE
    <2>1. PICK p \in {q \in (DOMAIN list) \X (DOMAIN list) : q[1] < q[2]} :
              <<j, list[x]>> = <<list[p[1]], list[p[2]]>>
      BY <1>4, Zenon DEF Pairs
    <2>2. p[1] \in 1..n /\ p[2] \in 1..n /\ p[1] < p[2]
      BY <2>1 DEF Lists
    <2>3. list[p[1]] = j /\ list[p[2]] = list[x]
      BY <2>1
    <2>4. p[2] = x /\ p[1] \in T
      BY <1>3, <2>2, <2>3 DEF Lists
    <2> QED
      BY <1>2, <1>3, <2>2, <2>4
  <1> QED
    BY <1>3, <1>4

(* The members of a list are finitely many. *)
LEMMA ListedAreFinite ==
    ASSUME NEW list, NEW n \in Nat, NEW members, Lists(list, n, members)
    PROVE  IsFiniteSet(members)
  <1> DEFINE f == [i \in 1..n |-> list[i]]
             T == {list[i] : i \in 1..n}
  <1>1. IsFiniteSet(1..n)
    BY FS_Interval
  <1>2. f \in Surjection(1..n, T)
    BY DEF Surjection
  <1>3. members \subseteq T
    BY DEF Lists
  <1>4. IsFiniteSet(T)
    <2> HIDE DEF f, T
    <2> QED
      BY <1>1, <1>2, FS_Surjection
  <1> QED
    BY <1>3, <1>4, FS_Subset

(* The orders of a region's kinds and of the home region's are such lists. *)
LEMMA OrderLists == Lists(Order, 16, Steps) /\ Lists(HomeOrder, 11, HomeKinds)
  <1>1. DOMAIN Order = 1..16 /\ DOMAIN HomeOrder = 1..11
    BY DEF Order, HomeOrder
  <1>2. \A i, j \in 1..16 : Order[i] = Order[j] => i = j
    BY DEF Order
  <1>3. \A i, j \in 1..11 : HomeOrder[i] = HomeOrder[j] => i = j
    BY DEF HomeOrder
  <1>4. \A k \in Steps : \E i \in 1..16 : Order[i] = k
    BY DEF Order, Steps, Kinds
  <1>5. \A k \in HomeKinds : \E i \in 1..11 : HomeOrder[i] = k
    BY DEF HomeOrder, HomeKinds, Groups, Identity
  <1> QED
    BY <1>1, <1>2, <1>3, <1>4, <1>5 DEF Lists

-----------------------------------------------------------------------------
(* Progress of a run. *)

(* The worker of a region waits for a destroy job, of this run or an earlier
   one (domains/stacks.py:63-113). *)
JobAwaited(r) ==
    /\ At(r, "wait") \/ (At(r, "job") /\ args.execute /\ StackAllowed(r))
    /\ job[r] = "running"

(* The pool can take the region, or its worker can handle the next kind. *)
RegionReady(r) ==
    \/ Waiting(r) /\ Cardinality(Active) < Workers
    \/ \E k \in Steps : At(r, k) /\ ~JobAwaited(r)

(* The regions can be joined, or the home stage can go on or end. *)
HomeReady ==
    \/ stage = "regions" /\ \A r \in Regions : todo[r] = {}
    \/ stage = "home" /\ plan = {}
    \/ \E k \in HomeKinds : Handling(k)

NeverStuck ==
    Running => HomeReady \/ \E r \in Regions : RegionReady(r) \/ JobAwaited(r)

(* A run never waits for itself: as long as it runs, it can go on, or one of its
   workers waits for a destroy job that is still to end; a region finds a worker
   however many regions there are to a worker, and each has a next kind
   (engine.py:54-67). *)
THEOREM CleanupNeverStuck == Spec => []NeverStuck
  <1>1. ASSUME TypeOK, NEW r \in Regions, stage = "regions", r \in started, todo[r] # {}
        PROVE  RegionReady(r) \/ JobAwaited(r)
    <2>1. todo[r] \subseteq Steps
      BY <1>1 DEF TypeOK
    <2>2. PICK k \in todo[r] : \A j \in todo[r] : <<j, k>> \notin Pairs(Order)
      <3>1. 16 \in Nat
        OBVIOUS
      <3> QED
        BY <1>1, <2>1, <3>1, OrderLists, Earliest
    <2>3. At(r, k) /\ k \in Steps
      BY <1>1, <2>1, <2>2 DEF At, Precedes
    <2> QED
      BY <2>3 DEF RegionReady
  <1>2. ASSUME TypeOK, stage = "regions"
        PROVE  NeverStuck
    <2>1. CASE \A r \in Regions : todo[r] = {}
      BY <1>2, <2>1 DEF NeverStuck, HomeReady
    <2>2. CASE \E r \in Active : TRUE
      <3>1. PICK r \in Regions : r \in started /\ todo[r] # {}
        BY <1>2, <2>2 DEF Active, TypeOK
      <3> QED
        BY <1>1, <1>2, <3>1 DEF NeverStuck
    <2>3. CASE Active = {} /\ \E r \in Regions : todo[r] # {}
      <3>1. PICK r \in Regions : todo[r] # {}
        BY <2>3
      <3>2. Waiting(r)
        BY <1>2, <2>3, <3>1 DEF Waiting, Active
      <3>3. Cardinality(Active) = 0 /\ Workers \in Nat \ {0}
        BY <2>3, FS_EmptySet, ConstantsAssumption
      <3>4. Cardinality(Active) < Workers
        BY <3>3
      <3> QED
        BY <3>2, <3>4 DEF NeverStuck, RegionReady
    <2> QED
      BY <2>1, <2>2, <2>3
  <1>3. ASSUME TypeOK, stage = "home"
        PROVE  NeverStuck
    <2>1. CASE plan = {}
      BY <1>3, <2>1 DEF NeverStuck, HomeReady
    <2>2. CASE plan # {}
      <3>1. plan \subseteq HomeKinds
        BY <1>3 DEF TypeOK
      <3>2. PICK k \in plan : \A j \in plan : <<j, k>> \notin Pairs(HomeOrder)
        <4>1. 11 \in Nat
          OBVIOUS
        <4> QED
          BY <2>2, <3>1, <4>1, OrderLists, Earliest
      <3>3. Handling(k) /\ k \in HomeKinds
        BY <1>3, <3>1, <3>2 DEF Handling, HomePrecedes
      <3> QED
        BY <3>3 DEF NeverStuck, HomeReady
    <2> QED
      BY <2>1, <2>2
  <1>4. TypeOK => NeverStuck
    <2>1. TypeOK => stage \in {"idle", "regions", "home"}
      BY DEF TypeOK
    <2> QED
      BY <1>2, <1>3, <2>1 DEF NeverStuck, Running
  <1> QED
    BY <1>4, CleanupTypeCorrect, PTL

(* What a run has still to do: the kinds of each region, the regions to be taken
   by a worker, the kinds of the home region, its stages. *)
RegionWork == {p \in Regions \X Steps : p[2] \in todo[p[1]]}
Queue == {r \in Regions \ started : todo[r] # {}}
StagesLeft == {s \in {"regions", "home"} : stage \in {"regions", s}}

FiniteWork ==
    /\ IsFiniteSet(RegionWork) /\ IsFiniteSet(Queue)
    /\ IsFiniteSet(plan) /\ IsFiniteSet(StagesLeft)

WorkKept ==
    /\ RegionWork' = RegionWork /\ Queue' = Queue
    /\ plan' = plan /\ StagesLeft' = StagesLeft
WorkShrinks ==
    /\ RegionWork' \subseteq RegionWork /\ Queue' \subseteq Queue
    /\ plan' \subseteq plan /\ StagesLeft' \subseteq StagesLeft
    /\ ~WorkKept

(* Each step of the run takes from the work, what ends in the tenancy leaves it. *)
RunOfWork ==
    \/ \E m \in Modes : Begin(m) \/ DiscoveryFails(m)
    \/ (\E r \in Regions : Tenancy(r)) /\ WorkKept
    \/ WorkShrinks

LEMMA SkippingShrinks ==
    ASSUME TypeOK, NEW r \in Regions, NEW kinds, Skip(r, kinds), todo[r] \cap kinds # {},
           started' = started, plan' = plan, stage' = stage
    PROVE  WorkShrinks
  <1>1. /\ todo' \in [Regions -> SUBSET Steps] /\ todo'[r] = todo[r] \ kinds
        /\ \A s \in Regions \ {r} : todo'[s] = todo[s]
    BY SkipFacts
  <1>2. \A s \in Regions : todo'[s] \subseteq todo[s]
    BY <1>1
  <1>3. RegionWork' \subseteq RegionWork
    BY <1>2 DEF RegionWork
  <1>4. Queue' \subseteq Queue
    BY <1>2 DEF Queue
  <1>5. RegionWork' # RegionWork
    <2>1. PICK k \in todo[r] : k \in kinds
      OBVIOUS
    <2>2. k \in Steps /\ k \notin todo'[r]
      BY <1>1, <2>1 DEF TypeOK
    <2>3. <<r, k>> \in RegionWork /\ <<r, k>> \notin RegionWork'
      BY <2>1, <2>2 DEF RegionWork
    <2> QED
      BY <2>3
  <1>6. StagesLeft' = StagesLeft
    BY DEF StagesLeft
  <1> QED
    BY <1>3, <1>4, <1>5, <1>6 DEF WorkShrinks, WorkKept

LEMMA RegionStepShrinks ==
    ASSUME TypeOK, NEW r \in Regions, RegionStep(r) \/ WaitFails(r) \/ Raise(r)
    PROVE  WorkShrinks
  <1>1. CASE StartRegion(r)
    <2>1. todo' = todo /\ plan' = plan /\ stage' = stage /\ started' = started \cup {r}
      BY <1>1 DEF StartRegion
    <2>2. r \in Queue /\ r \notin Queue' /\ Queue' \subseteq Queue
      BY <1>1, <2>1 DEF StartRegion, Waiting, Queue
    <2>3. RegionWork' = RegionWork /\ StagesLeft' = StagesLeft
      BY <2>1 DEF RegionWork, StagesLeft
    <2> QED
      BY <2>1, <2>2, <2>3 DEF WorkShrinks, WorkKept
  <1>2. ASSUME ~StartRegion(r)
        PROVE  /\ started' = started /\ plan' = plan /\ stage' = stage
               /\ \E kinds : Skip(r, kinds) /\ todo[r] \cap kinds # {}
    <2>1. CASE Destroy(r) \/ WaitFails(r)
      <3>1. started' = started /\ plan' = plan /\ stage' = stage
        BY <2>1 DEF Destroy, WaitFails
      <3>2. PICK k \in {"job", "wait"} : k \in todo[r] /\ At(r, k)
        BY <2>1 DEF Destroy, WaitFails, At
      <3>3. Skip(r, {"job", "wait"}) \/ (At(r, "job") /\ Skip(r, {"job"}))
        BY <2>1 DEF Destroy, WaitFails, Done
      <3> QED
        BY <3>1, <3>2, <3>3 DEF At
    <2>2. CASE Raise(r)
      <3>1. started' = started /\ plan' = plan /\ stage' = stage /\ Skip(r, Steps)
        BY <2>2 DEF Raise
      <3>2. todo[r] # {} /\ todo[r] \subseteq Steps
        BY <2>2 DEF Raise, Active, TypeOK
      <3>3. todo[r] \cap Steps # {}
        BY <3>2
      <3> QED
        BY <3>1, <3>3
    <2>3. CASE DeleteExtra(r) \/ DeleteSubnet(r)
      <3>1. started' = started /\ plan' = plan /\ stage' = stage
        BY <2>3 DEF DeleteExtra, DeleteSubnet
      <3>2. PICK k \in {"extra", "subnet"} :
                k \in todo[r] /\ (Skip(r, {k}) \/ Skip(r, Network))
        BY <2>3 DEF DeleteExtra, DeleteSubnet, At, Done
      <3> QED
        BY <3>1, <3>2 DEF Network
    <2>4. CASE JobOver(r) \/ StackRecord(r)
               \/ \E k \in Kinds : Absent(r, k) \/ Delete(r, k) \/ ScheduleKms(r, k)
      <3>1. started' = started /\ plan' = plan /\ stage' = stage
        BY <2>4 DEF JobOver, StackRecord, Absent, Delete, ScheduleKms
      <3>2. PICK k : k \in todo[r] /\ Skip(r, {k})
        BY <2>4 DEF JobOver, StackRecord, Absent, Delete, ScheduleKms, At, Done
      <3> QED
        BY <3>1, <3>2
    <2> QED
      BY <1>2, <2>1, <2>2, <2>3, <2>4 DEF RegionStep
  <1> QED
    BY <1>1, <1>2, SkippingShrinks

LEMMA HomeStepShrinks ==
    ASSUME TypeOK, Stages, HomeStep \/ Abort \/ Kill
    PROVE  WorkShrinks
  <1>1. CASE JoinRegions
    <2>1. UNCHANGED <<started, todo, plan>> /\ stage = "regions" /\ stage' = "home"
      BY <1>1 DEF JoinRegions, progress
    <2>2. RegionWork' = RegionWork /\ Queue' = Queue
      BY <2>1 DEF RegionWork, Queue
    <2>3. "regions" \in StagesLeft /\ StagesLeft' = {"home"} /\ "home" \in StagesLeft
      BY <2>1 DEF StagesLeft
    <2> QED
      BY <2>1, <2>2, <2>3 DEF WorkShrinks, WorkKept
  <1>2. CASE Finish \/ Abort \/ Kill
    <2>1. EndRun /\ stage # "idle"
      BY <1>2 DEF Finish, Abort, Kill, Handling
    <2>2. RegionWork' = {} /\ Queue' = {} /\ StagesLeft' = {} /\ plan' = {}
      BY <2>1 DEF EndRun, RegionWork, Queue, StagesLeft
    <2>3. "home" \in StagesLeft
      BY <2>1 DEF StagesLeft, TypeOK
    <2> QED
      BY <2>2, <2>3 DEF WorkShrinks, WorkKept
  <1>3. CASE \/ Preserve \/ DeleteParent \/ DeleteCompartment
             \/ \E k \in HomeKinds : DeleteGroup(k) \/ DeleteIdentity(k) \/ DeleteTags(k)
    <2>1. UNCHANGED <<started, todo, stage>>
      BY <1>3 DEF Preserve, DeleteParent, DeleteCompartment, DeleteGroup, DeleteIdentity,
                  DeleteTags
    <2>2. \E k : Handling(k) /\ plan' \in {plan \ {k}, {}}
      BY <1>3 DEF Preserve, DeleteParent, DeleteCompartment, DeleteGroup, DeleteIdentity,
                  DeleteTags, HomeDone
    <2>3. plan' \subseteq plan /\ plan' # plan
      BY <2>2 DEF Handling
    <2>4. RegionWork' = RegionWork /\ Queue' = Queue /\ StagesLeft' = StagesLeft
      BY <2>1 DEF RegionWork, Queue, StagesLeft
    <2> QED
      BY <2>3, <2>4 DEF WorkShrinks, WorkKept
  <1> QED
    BY <1>1, <1>2, <1>3 DEF HomeStep

LEMMA WorkIsFinite ==
    ASSUME TypeOK
    PROVE  FiniteWork
  <1>1. IsFiniteSet(Regions)
    BY ConstantsAssumption
  <1>2. IsFiniteSet(Steps) /\ IsFiniteSet(HomeKinds)
    <2>1. 16 \in Nat /\ 11 \in Nat
      OBVIOUS
    <2> QED
      BY <2>1, OrderLists, ListedAreFinite
  <1>3. IsFiniteSet(RegionWork)
    <2>1. IsFiniteSet(Regions \X Steps)
      BY <1>1, <1>2, FS_Product
    <2>2. RegionWork \subseteq Regions \X Steps
      BY DEF RegionWork
    <2> QED
      BY <2>1, <2>2, FS_Subset
  <1>4. Queue \subseteq Regions /\ plan \subseteq HomeKinds
    BY DEF Queue, TypeOK
  <1>5. IsFiniteSet(StagesLeft)
    <2>1. IsFiniteSet({}) /\ IsFiniteSet({"regions"}) /\ IsFiniteSet({"regions"} \cup {"home"})
      BY FS_EmptySet, FS_AddElement
    <2>2. StagesLeft \subseteq {"regions"} \cup {"home"}
      BY DEF StagesLeft
    <2> QED
      BY <2>1, <2>2, FS_Subset
  <1> QED
    BY <1>1, <1>2, <1>3, <1>4, <1>5, FS_Subset DEF FiniteWork

(* A run of the tool cannot go on for ever: its work is finite, each of its
   steps, failures included, leaves less of it, and only the next run, which may
   fail at once in discovery, has more. *)
THEOREM CleanupUsesUpWork == Spec => []FiniteWork /\ [][RunOfWork]_vars
  <1>1. CleanupInv => FiniteWork
    BY WorkIsFinite DEF CleanupInv
  <1>2. CleanupInv /\ [Next]_vars => [RunOfWork]_vars
    <2> SUFFICES ASSUME CleanupInv, Next
                 PROVE  RunOfWork
      OBVIOUS
    <2>1. TypeOK /\ Stages
      BY DEF CleanupInv, RegionsKnown
    <2>2. ASSUME NEW r \in Regions, RegionStep(r) \/ WaitFails(r) \/ Raise(r)
          PROVE  RunOfWork
      BY <2>1, <2>2, RegionStepShrinks DEF RunOfWork
    <2>3. ASSUME NEW r \in Regions, Tenancy(r)
          PROVE  RunOfWork
      <3>1. UNCHANGED <<started, todo, plan, stage>>
        BY <2>3 DEF Tenancy, JobEnds, PendingEnds, progress
      <3>2. WorkKept
        BY <3>1 DEF WorkKept, RegionWork, Queue, StagesLeft
      <3> QED
        BY <2>3, <3>2 DEF RunOfWork
    <2>4. CASE HomeStep \/ Abort \/ Kill
      BY <2>1, <2>4, HomeStepShrinks DEF RunOfWork
    <2>5. CASE \E m \in Modes : Begin(m) \/ DiscoveryFails(m)
      BY <2>5 DEF RunOfWork
    <2> QED
      BY <2>2, <2>3, <2>4, <2>5 DEF Next
  <1> QED
    BY <1>1, <1>2, CleanupInvariance, PTL DEF Spec

=============================================================================
