------------------------- MODULE MCAgentEventStream -------------------------
(* Instances of AgentEventStream for its runs. *)
EXTENDS AgentEventStream, TLC

Resting(a) ==
    /\ sock[a] = None /\ held[a] = None /\ reply[a] = None
    /\ reader[a] = None /\ late[a] = None /\ cursor[a] = 0

\* One runtime is at work, the events are for all Agents or for none, nobody is
\* in the middle of a frame while an upload waits for its body, and behaviours
\* end where the record changes under an upload.
OneRuntime ==
    /\ \E a \in Agents : \A b \in Agents \ {a} : Resting(b)'
    /\ \A i \in 1..Len(history') : history'[i] \in {{}, Agents}
    /\ uploads' # {} => \A a \in Agents : reader[a]' = None /\ late[a]' = None
    /\ \A u \in uploads' : u.loaded = room'
=============================================================================
