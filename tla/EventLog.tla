------------------------------ MODULE EventLog ------------------------------
(***************************************************************************)
(* What the room promises an Agent about its events: one append-only log,  *)
(* and one position per Agent that only moves forward.  Whatever an Agent  *)
(* may see and has behind its position became its business: it answered,   *)
(* is about to answer, or was told that the event is gone.                 *)
(*                                                                         *)
(* void ends the promise: a record older than the persisted one was saved. *)
(***************************************************************************)
EXTENDS Naturals, Sequences

CONSTANT Agents

VARIABLES
    log,      \* the readers of every event, in the order of their sequence
    pos,      \* pos[a]: the sequence through which Agent a has received
    settled,  \* settled[a]: the events that became a's business
    void

logvars == <<log, pos, settled, void>>

VisibleTo(a, n) == {i \in 1..n : a \in log[i]}

Init ==
    /\ log = <<>>
    /\ pos = [a \in Agents |-> 0]
    /\ settled = [a \in Agents |-> {}]
    /\ void = FALSE

Record(R) ==
    /\ log' = Append(log, R)
    /\ UNCHANGED <<pos, settled, void>>

\* Agent a moves on to n, which settles all it may see up to there.
Advance(a, n) ==
    /\ n \in pos[a]..Len(log)
    /\ pos' = [pos EXCEPT ![a] = n]
    /\ settled' = [settled EXCEPT ![a] = @ \cup VisibleTo(a, n)]
    /\ UNCHANGED <<log, void>>

Next ==
    \/ \E R \in SUBSET Agents : Record(R)
    \/ \E a \in Agents : \E n \in 0..Len(log) : Advance(a, n)
    \/ void'

Spec == Init /\ [][Next]_logvars
=============================================================================
