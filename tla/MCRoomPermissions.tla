------------------------- MODULE MCRoomPermissions -------------------------
(***************************************************************************)
(* RoomPermissions for TLC: two requests of one Agent that are posted      *)
(* once, or one request that is posted again while other messages push its *)
(* own out of the ring.  `part` tells which, and fairness is stated of the *)
(* second.                                                                 *)
(***************************************************************************)
EXTENDS RoomPermissions

CONSTANTS a1, r1, r2, allow, deny

VARIABLE part

OneAgent == {a1}
TwoRequests == {r1, r2}
TwoOptions == {allow, deny}

MCvars == <<part, vars>>
Again == part = "again"

MCInit == Init /\ part \in {"both", "again"}

OneEach == Chats' = {} /\ \A r \in Requests : sends'[r] <= 1

\* Of what is chosen only "allow" matters to one request.
OneOnly ==
    /\ call'[r2] = call[r2]
    /\ \A i \in 1..Len(room'.messages) :
          room'.messages[i].kind = "resolved" => room'.messages[i].option = allow

MCNext ==
    /\ UNCHANGED part
    /\ IF Again THEN Next /\ OneOnly ELSE Next /\ OneEach

\* The deadline and the call of r1, the alarm, and the loop of the stream go on.
MCFairness ==
    /\ WF_MCvars(/\ Again /\ UNCHANGED part
                 /\ DeadlinePasses(r1) \/ PostReturns(r1) \/ TakeDecision(r1))
    /\ WF_MCvars(Again /\ UNCHANGED part /\ Alarm({}))
    /\ WF_MCvars(/\ Again /\ UNCHANGED part
                 /\ NoticeLoss(a1) \/ Reconnect(a1) \/ Receive(a1))

MCSpec == MCInit /\ [][MCNext]_MCvars /\ MCFairness

\* No card stays open for ever, and a parked call whose request has ended is released
\* unless the ring forgot the outcome.
RequestsAreSettled == Again => RequestEnds(r1) /\ OutcomeReleasesCall(r1)
=============================================================================
