------------------------------ MODULE MCBackfill ------------------------------
(* Small instances of Backfill for TLC. *)
EXTENDS Backfill, TLC

CONSTANTS w1, w2

TwoWorkers == {w1, w2}
Symmetry == Permutations(TwoWorkers)
NoneMalformed == {}
SecondMalformed == {2}
DeadlineFaults == {"expire"}
ServiceFaults == AllFaults \ {"expire"}
NoFaults == {}
Either == {401, 403}
OnlyForbidden == {403}
=============================================================================
