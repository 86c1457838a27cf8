----------------------------- MODULE ServicesMC -----------------------------
(* Small instances of Services for TLC. *)
EXTENDS Services, Functions

OnlyReconcile == {"reconcile"}

None == {}
First == {1}
Second == {2}

TwoFires == {2, 4}
TwoFiresClose == {2, 3}
Both == {1, 2}
Immediate == {"immediate"}
Replaying == {"immediate", "most-recent"}
EveryPolicy == {"immediate", "most-recent", "skip"}
PanelAndSync == {"panel", "sync"}
WithRestart == {"panel", "sync", "boot"}
AgentAndController ==
  {"unanswered", "offline", "error", "kill", "undelivered", "unheard", "restart", "boot"}
AnyUpset == {"refused", "slow", "cancel", "restart"}
AnyTrouble == AgentAndController \cup {"orphan", "cancel", "retry", "old"}

\* One of the probes and the operator has read the hosts and will save them.
OneSaver == part = "health" => Cardinality({w \in Writers : writes[w].step = "read"}) <= 1

\* A second run of the machine, or passes that overlap and a mishap.
OneComplication ==
  part = "reconcile" /\ session[RunCount] # "unborn" /\ RunCount > 1 =>
    mishaps = 0 /\ Cardinality(UnderWay) <= 1

\* Two backups land: both of the first machine, or one of each and nothing out of the ordinary.
TwoBackups ==
  /\ FoldFunction(+, 0, landed) <= 2
  /\ \A vm \in VMs \ {1} : landed[vm] > 0 => landed[vm] = 1 /\ troubles = 0
=============================================================================
