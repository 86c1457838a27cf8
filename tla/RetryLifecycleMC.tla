-------------------------- MODULE RetryLifecycleMC --------------------------
(* A small instance of RetryLifecycle for TLC, in which a backup is cancelled. *)
EXTENDS RetryLifecycle

CONSTANTS j1, c1, c2

OneJob == {j1}
TwoCalls == {c1, c2}
=============================================================================
