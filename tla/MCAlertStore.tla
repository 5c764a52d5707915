---------------------------- MODULE MCAlertStore ----------------------------
(***************************************************************************)
(* Instances of AlertStore for TLC: what the alerts table may hold when    *)
(* the process first starts.                                               *)
(***************************************************************************)
EXTENDS AlertStore, TLC

CONSTANTS a1, a2, a3, c1, c2

\* HTTP threads are alike.
Threads == Permutations({c1, c2})

ActiveRow(chained) ==
    [status |-> "active", gate |-> FALSE, dep |-> NoAlert, chained |-> chained]

StepBehind(p) ==
    [status |-> "waiting", gate |-> FALSE, dep |-> p, chained |-> TRUE]

Nothing == [a \in Alerts |-> Absent]

\* An empty table.
EmptyTable == {Nothing}

\* An alert from before queues existed (no chain), an alert with a step queued
\* behind it, or nothing.
MixedTable == {Nothing,
               [Nothing EXCEPT ![a1] = ActiveRow(FALSE)],
               [Nothing EXCEPT ![a1] = ActiveRow(TRUE), ![a2] = StepBehind(a1)]}

\* A step queued behind an active alert, or already armed by it.
QueuedTable == {[Nothing EXCEPT ![a1] = ActiveRow(TRUE), ![a2] = StepBehind(a1)],
                [Nothing EXCEPT ![a1] = Triggered(ActiveRow(TRUE)), ![a2] = Armed(StepBehind(a1))]}

=============================================================================
