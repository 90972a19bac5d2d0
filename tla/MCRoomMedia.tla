---------------------------- MODULE MCRoomMedia ----------------------------
EXTENDS RoomMedia, TLC
CONSTANTS a1, a2, h1, h2, s1, s2, s3, m1, m2, w1, w2
OneHost == [a \in Agents |-> {h1}]
AnyProjection == BOOLEAN \X BOOLEAN
\* A Host that loses both in one report does to each what losing it alone does.
BothOrOne == AnyProjection \ {<<FALSE, FALSE>>}
OneMoves == [a \in Agents |-> IF a = a1 THEN Hosts ELSE {h1}]

(* Two Agents that share the listening grants of one Host, until the first *)
(* one moves, or that Agent speaks on two Hosts with two requests: an      *)
(* instance that follows both at once shows nothing new and is out of      *)
(* reach.                                                                  *)
BusyWorkers == {w \in Workers : worker[w].step # "idle"}
Listening ==
  /\ room.tts = {} /\ egress = {} /\ room.stt \subseteq {h1}
  /\ a2 \in room.members => room.hostOf[a2] = h1
  /\ Cardinality(BusyWorkers) <= 1
  /\ \A w \in Workers : worker[w].purpose # "voice-reply"
Speaking ==
  /\ room.stt = {} /\ ingress = {} /\ room.members \subseteq {a1}
  /\ \A w \in Workers : worker[w].purpose \in {"session", "voice-reply"}
  /\ \A a \in room.members : room.subscribed[a] = {}
ListenOrSpeak == Init /\ [][Next /\ (Listening \/ Speaking)']_vars

(* The cleanup of what an Agent listens to; a voice is only granted and    *)
(* taken away.                                                             *)
VoiceStaysSilent ==
  room.tts = {} \/ (Speaking /\ egress = {} /\ BusyWorkers = {} /\ room.pending = {})

Symmetric ==
  Permutations(Sessions) \union Permutations(Mids) \union Permutations(Workers)
=============================================================================
