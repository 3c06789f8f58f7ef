---------------------------- MODULE AuditedTruth ----------------------------
(***************************************************************************)
(* What the command bus promises, whoever calls it: the durable rows of    *)
(* the system change only in a step that also records one new state change *)
(* and the audit event that names its outcome.  "Every state mutation is   *)
(* audited" (docs/implementation_gap_analysis.md), "audited commands are   *)
(* the only path into durable operational truth" (README.md).              *)
(*                                                                         *)
(* The modules of the endpoints refine this one.                           *)
(***************************************************************************)
CONSTANTS Ids,     \* identities of command applications
          Tables,  \* tables a command inserts into
          None     \* "not recorded"

VARIABLES rows,    \* inserted rows, each with the application that inserted it
          values,  \* the rows that commands update in place
          ledger,  \* state_changes: the outcome of each application
          trail    \* the audit events of state changes

vars == <<rows, values, ledger, trail>>

Outcomes == {"applied", "failed"}

Init ==
    /\ rows = {}
    /\ ledger = [c \in Ids |-> None]
    /\ trail = {}

\* The applications a step records; a transaction may apply several commands.
Recorded == {c \in Ids : ledger'[c] # ledger[c]}

\* Applications insert rows of their own and may update others; an application is
\* recorded once, with its audit event, and nothing is ever removed.
Record ==
    /\ Recorded # {}
    /\ DOMAIN ledger' = Ids
    /\ \A c \in Recorded : ledger[c] = None /\ ledger'[c] \in Outcomes
    /\ trail' = trail \cup {<<ledger'[c], c>> : c \in Recorded}
    /\ rows \subseteq rows'
    /\ rows' \ rows \subseteq Tables \X Recorded

Next == Record

Spec == Init /\ [][Next]_vars

=============================================================================
