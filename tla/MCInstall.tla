-------------------------------- MODULE MCInstall -------------------------------
(* An instance of Install: one region with every fault and some pairs of them, two
   regions with a job that fails, and tenancies the checks should stop at. *)
EXTENDS Install

None == [f \in AllFaults |-> 0]
One(f) == [None EXCEPT ![f] = 1]
Two(f, g) == [One(f) EXCEPT ![g] = @ + 1]
Singles == {One(f) : f \in AllFaults}
Pairs == {Two("lost", "kill"), Two("wait", "refuse")}
MCBudgets == {None} \cup Singles \cup Pairs

OneRegion ==
    [plans |-> {{}, {1}}, limit |-> 2, modes |-> {FALSE}, mishaps |-> Singles,
     home |-> TRUE, image |-> TRUE, names |-> {}, owned |-> {}, vault |-> FALSE,
     room |-> TRUE, gov |-> FALSE, reuse |-> FALSE, old |-> {}, unread |-> {}]
Pair == [OneRegion EXCEPT !.limit = 1, !.mishaps = Pairs]
SideBySide ==
    [OneRegion EXCEPT !.plans = {{1}, {1, 2}}, !.limit = 1, !.mishaps = {One("job")}]
InOrder == [SideBySide EXCEPT !.modes = {TRUE}]

Plain == [OneRegion EXCEPT !.limit = 1, !.mishaps = {None}]
Taken == {[Plain EXCEPT !.names = {n}] : n \in Names}
Tagged == {[Plain EXCEPT !.names = {n}, !.owned = {n}, !.unread = u] :
              n \in Policies, u \in {{}, {"owner"}}}
Full == {[Plain EXCEPT !.room = FALSE, !.vault = v, !.gov = g, !.unread = u] :
            v, g \in BOOLEAN, u \in {{}, {"vaults"}}}
Reused == {[Plain EXCEPT !.reuse = TRUE, !.room = FALSE, !.old = o] :
              o \in {Usable} \cup {Usable \ {x} : x \in Usable}}
Unread == {[Plain EXCEPT !.unread = {q}] : q \in Queries}
Elsewhere == {[Plain EXCEPT !.home = FALSE], [Plain EXCEPT !.image = FALSE]}

MCTenancies == {OneRegion, Pair, SideBySide, InOrder} \cup Taken \cup Tagged \cup Full
                  \cup Reused \cup Unread \cup Elsewhere
=============================================================================
