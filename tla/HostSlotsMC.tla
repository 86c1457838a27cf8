---------------------------- MODULE HostSlotsMC ----------------------------
(* Small instances of HostSlots for TLC. *)
EXTENDS HostSlots, TLC

CONSTANTS m1, m2, c1, c2, c3

TwoMachines == {m1, m2}
TwoCalls == {c1, c2}
ThreeCalls == {c1, c2, c3}
AnyEvent == {"manual", "retry", "down", "unreachable", "lost", "delete", "day"}

\* Machines are alike, and so are calls but the one of the periodic pass.
Alike == Permutations(TwoMachines) \cup Permutations({c2, c3})
=============================================================================
