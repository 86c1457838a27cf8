------------------------- MODULE ControllerOutboxMC -------------------------
(* A small instance of ControllerOutbox for TLC, in which a job is deleted. *)
EXTENDS ControllerOutbox

CONSTANTS j1, j2

TwoJobs == {j1, j2}
OneJob == {j1}
DownOnly == {"down"}
=============================================================================
