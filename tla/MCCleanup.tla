------------------------------ MODULE MCCleanup ------------------------------
(* A small instance of Cleanup for TLC: a region with a stack and a vault, and
   a region with a network and an event rule outside the compartment. *)
EXTENDS Cleanup

TwoRegions == {"r1", "r2"}
SmallInstall ==
    [r1 |-> {"stack", "vault"},
     r2 |-> {"rule", "extra", "subnet", "vcn"}]
OneStackUntagged == {"r1"}
OneInvalidGroup == {"functionGroup"}
SmallModes ==
    {Full,
     [Full EXCEPT !.execute = FALSE],
     [execute |-> TRUE, parent |-> FALSE, compartment |-> FALSE, approved |-> {}]}
OnlyFull == {Full}
EveryFault == AllFaults
SkippedRegions == {"unauthorised"}
=============================================================================
