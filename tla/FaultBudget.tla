------------------------------- MODULE FaultBudget ------------------------------
(***************************************************************************)
(* What may go wrong while the Datadog stack is installed, and how often.  *)
(***************************************************************************)
EXTENDS Integers

AllFaults == {"list",    \* a list fails and reads as an empty one
              "refuse",  \* a call fails, nothing has changed
              "lost",    \* a call is taken for failed, yet happens
              "job",     \* a job of Resource Manager fails
              "wait",    \* a script stops waiting for what it started
              "image",   \* a region's image is not seen
              "kill"}    \* the run of Terraform is cancelled

CONSTANT Budgets   \* bound: how often each fault can happen, in a behaviour

ASSUME BudgetAssumption == Budgets \subseteq [AllFaults -> Nat]

VARIABLE budget   \* faults still to come

BudgetInit == budget \in Budgets

Fault(f) == budget[f] > 0 /\ budget' = [budget EXCEPT ![f] = @ - 1]

(* What a call does: it happens or not, and the caller learns it or not. *)
Call(ok, done) ==
    \/ ok /\ done /\ UNCHANGED budget
    \/ ~ok /\ ~done /\ Fault("refuse")
    \/ ~ok /\ done /\ Fault("lost")
=============================================================================
