----------------------------- MODULE MCScheduler -----------------------------
(* Small instances of Scheduler for TLC.                                   *)
EXTENDS Scheduler, TLC

CONSTANTS d1, d2, site1, site2, w1, w2

On(scopes) == [eligible |-> TRUE, bootstrap |-> FALSE, scopes |-> scopes]
Off(scopes) == [eligible |-> FALSE, bootstrap |-> FALSE, scopes |-> scopes]
Booting(scopes) == [eligible |-> TRUE, bootstrap |-> TRUE, scopes |-> scopes]

\* One device that is enabled, disabled and bootstrapped; its scopes are fixed.
OneDevice ==
  [d \in {d1} |-> {On({site1}), Off({site1}), Booting({site1})}]

\* One device that is enabled and disabled.
ToggledDevice == [d \in {d1} |-> {On({site1}), Off({site1})}]

\* Two devices of one site.
TwoDevices ==
  [d \in {d1, d2} |-> IF d = d1 THEN {On({site1}), Off({site1})} ELSE {On({site1})}]

\* One device that moves from one site to another.
MovingDevice == [d \in {d1} |-> {On({site1}), On({site2})}]

BudgetOne == [c \in VolatilityClasses |-> 1]

LimitOne == [s \in ScopeKeys |-> 1]

LimitTwo == [s \in ScopeKeys |-> 2]

WorkerSymmetry == Permutations(Workers)
=============================================================================
