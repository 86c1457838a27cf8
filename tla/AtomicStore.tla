----------------------------- MODULE AtomicStore -----------------------------
(***************************************************************************)
(* What the controller's JSON store promises its callers: one value per    *)
(* file, changed only by whole updates.  FileStorage implements it.        *)
(***************************************************************************)
CONSTANT Clients

VARIABLES value,      \* the set of updates a reader of the file would see
          forfeited   \* updates a damaged copy or a power loss took away

vars == <<value, forfeited>>

Init == value = {} /\ forfeited = {}

\* An update takes effect as a whole and removes no other update.
Commit(c) == /\ value' = value \cup {c}
             /\ UNCHANGED forfeited

\* A fault takes some updates; nothing else ever disappears.
Fault(S) == /\ value' = value \ S
            /\ forfeited' = forfeited \cup S

Next == \/ \E c \in Clients : Commit(c)
        \/ \E S \in SUBSET value : Fault(S)

Spec == Init /\ [][Next]_vars
=============================================================================
