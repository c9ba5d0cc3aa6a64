------------------------------- MODULE MCForward -------------------------------
(* Small instances of Forward for TLC. *)
EXTENDS Forward, TLC

CONSTANTS c1, c2, m1, m2

TwoContainers == {c1, c2}
OneContainer == {c1}
TwoMessages == {m1, m2}
OneMessage == {m1}
Symmetry == Permutations(TwoContainers)
OneMalformed == {<<m2, 1>>}
NoneMalformed == {}
SharedFaults == {"crash", "expire", "prepare", "rotate"}
KeyFaults == {"rotate", "vault"}
Either == {401, 403}
DeadlineFaults == {"expire"}
=============================================================================
