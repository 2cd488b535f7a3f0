---------------------------- MODULE AutomationsMC ----------------------------
(* Instances of Automations for TLC. *)
EXTENDS Automations, TLC

CONSTANTS owen, ana, theo, everything, bot1, w1, w2

OneAgent == [a \in Automations |-> bot1]
Clerks == Permutations({ana, theo})
ClerksAndProcesses == Clerks \union Permutations({w1, w2})

OwnedByOwen == [a \in Automations |-> owen]

=============================================================================
