---------------------------- MODULE RoomAppHosts ----------------------------
(***************************************************************************)
(* The curated Apps of a room: the page of a Human announces the App whose *)
(* iframe has answered the handshake, a chat that can wake the Agent tells *)
(* it which Apps it may call, and a request of the Agent goes to one page  *)
(* (do/RoomSession.ts, common/roomApp.ts, hooks/useSfuChatRoom.ts and      *)
(* components/RoomAppHost.tsx).                                            *)
(*                                                                         *)
(* The catalog of the Apps is fetched when it is older than a minute, and  *)
(* while a handler waits for it other events are handled.  Everybody who   *)
(* waits for one fetch goes on when it is answered.                        *)
(***************************************************************************)
EXTENDS Integers, FiniteSets, Sequences

CONSTANTS
    People,          \* the Humans of the room
    IdOrder,         \* IdOrder[h]: the order of the participants' ids
    Apps,            \* the curated Apps
    Requests,        \* requests of the Agent
    NoApp,
    MaxInstances,    \* ROOM_APP_MAX_INSTANCES
    MaxInFlight,     \* ROOM_APP_AGENT_MAX_IN_FLIGHT
    MaxNonce         \* bound: connections of a Human

VARIABLES
    host,       \* host[h]: the Apps that answered the handshake, and the requests the page holds
    sockets,    \* sockets[h]: open, its nonce, and activeRoomAppInstances of its attachment
    frames,     \* frames[h]: frames of h on their way to the room
    called,     \* called[h]: requests on their way to the page
    fresh,      \* the catalog is cached
    barrier,    \* pendingRoomAppHostStates: the announcements that wait, oldest first
    resident,   \* the socket of the Agent's runtime is open
    call,       \* call[r]: how far the request r is
    chat,       \* how far the chat is
    latest,     \* history: latest[h], the App that h announced last, had a place and is not withdrawn
    owed,       \* history: what the chat that waits must tell the Agent
    missed      \* history: what a chat did not tell the Agent

hostvars == <<host, sockets, frames, called, fresh, barrier, resident, call, chat, latest, owed, missed>>

Hosting == People \X Apps
HostFrames == [kind : {"ready", "unready"}, app : Apps] \cup [kind : {"chat"}]
              \cup [kind : {"answer"}, request : Requests]
Waits == [human : People, nonce : 1..MaxNonce, seen : SUBSET Apps, app : Apps]
Calls == [at : {"idle", "catalog", "resumed", "answered", "failed"}, app : Apps]
         \cup [at : {"sent"}, app : Apps, human : People, nonce : 1..MaxNonce]

ASSUME HostConstantsFit ==
    /\ IdOrder \in [People -> Nat]
    /\ IsFiniteSet(Apps) /\ IsFiniteSet(Requests) /\ NoApp \notin Apps
    /\ MaxInstances \in Nat \ {0} /\ MaxInFlight \in Nat /\ MaxNonce \in Nat \ {0}

HostsTypeOK ==
    /\ host \in [People -> [ready : SUBSET Apps, asked : SUBSET Requests]]
    /\ sockets \in [People -> [open : BOOLEAN, nonce : 1..MaxNonce, active : SUBSET Apps]]
    /\ frames \in [People -> Seq(HostFrames)] /\ called \in [People -> Seq(Requests)]
    /\ fresh \in BOOLEAN /\ resident \in BOOLEAN
    /\ barrier \in Seq(Waits) /\ (fresh => barrier = <<>>)
    /\ call \in [Requests -> Calls]
    /\ chat \in {"none", "barrier", "catalog", "resumed", "accepted"}
    /\ latest \in [People -> Apps \cup {NoApp}]
    /\ owed \subseteq Hosting /\ missed \subseteq Hosting

HostsInit ==
    /\ host = [h \in People |-> [ready |-> {}, asked |-> {}]]
    /\ sockets = [h \in People |-> [open |-> TRUE, nonce |-> 1, active |-> {}]]
    /\ frames = [h \in People |-> <<>>] /\ called = [h \in People |-> <<>>]
    /\ fresh = FALSE /\ barrier = <<>> /\ resident = TRUE
    /\ call \in [Requests -> [at : {"idle"}, app : Apps]]
    /\ chat = "none" /\ latest = [h \in People |-> NoApp] /\ owed = {} /\ missed = {}

-----------------------------------------------------------------------------
(* The host *)

roomside == <<sockets, fresh, barrier, resident, call, chat, latest, owed, missed>>

Sends(h, frame) ==
    frames' = IF sockets[h].open THEN [frames EXCEPT ![h] = Append(@, frame)] ELSE frames

\* The App answers the handshake.  A page that launches one App more than it may have
\* takes down the oldest first.
Handshake(h, a) ==
    /\ a \notin host[h].ready /\ Cardinality(host[h].ready) < MaxInstances
    /\ host' = [host EXCEPT ![h].ready = @ \cup {a}]
    /\ Sends(h, [kind |-> "ready", app |-> a])
    /\ UNCHANGED <<called, roomside>>

\* The iframe of the App loads again, or its host goes away.
Withdraw(h, a) ==
    /\ a \in host[h].ready
    /\ host' = [host EXCEPT ![h] = [ready |-> @.ready \ {a},
                                    asked |-> {r \in @.asked : call[r].app # a}]]
    /\ Sends(h, [kind |-> "unready", app |-> a])
    /\ UNCHANGED <<called, roomside>>

\* A request reaches the page; an App that is not ready does not see it.
Asked(h) ==
    /\ called[h] # <<>>
    /\ LET r == Head(called[h])
       IN  host' = [host EXCEPT ![h].asked = IF call[r].app \in host[h].ready THEN @ \cup {r} ELSE @]
    /\ called' = [called EXCEPT ![h] = Tail(@)]
    /\ UNCHANGED <<frames, roomside>>

Answer(h, r) ==
    /\ r \in host[h].asked
    /\ host' = [host EXCEPT ![h].asked = @ \ {r}]
    /\ Sends(h, [kind |-> "answer", request |-> r])
    /\ UNCHANGED <<called, roomside>>

\* The Human writes to the Agent.
Say(h) ==
    /\ sockets[h].open /\ chat = "none"
    /\ \A g \in People : \A i \in 1..Len(frames[g]) : frames[g][i].kind # "chat"
    /\ Sends(h, [kind |-> "chat"])
    /\ UNCHANGED <<host, called, roomside>>

-----------------------------------------------------------------------------
(* The room *)

HasFrame(h, kind) == IF frames[h] = <<>> THEN FALSE ELSE Head(frames[h]).kind = kind
TakeOff(h) == frames' = [frames EXCEPT ![h] = Tail(@)]

InFlight == {r \in Requests : call[r].at = "sent"}

\* finishRoomAppAgentRequest with an error, for the requests R
FailAll(R) ==
    call' = [r \in Requests |-> IF r \in R THEN [at |-> "failed", app |-> call[r].app] ELSE call[r]]

\* The requests that are out to the page of h, on its present connection
OutTo(h) == {r \in InFlight : call[r].human = h /\ call[r].nonce = sockets[h].nonce}

\* An attachment has no more Apps than the maximum; one that comes too late is cut off.
HasPlace(S, a) == a \in S \/ Cardinality(S) < MaxInstances
Joined(S, a) == IF HasPlace(S, a) THEN S \cup {a} ELSE S

\* handleRoomAppHostState with `ready`: the attachment it extends is the one it was
\* called with, before the wait for the catalog.
Announce(h) ==
    /\ HasFrame(h, "ready")
    /\ LET a == Head(frames[h]).app
       IN  /\ IF fresh
              THEN /\ sockets' = [sockets EXCEPT ![h].active = Joined(@, a)]
                   /\ latest' = [latest EXCEPT ![h] = IF HasPlace(sockets[h].active, a) THEN a ELSE NoApp]
                   /\ UNCHANGED barrier
              ELSE /\ barrier' = Append(barrier, [human |-> h, nonce |-> sockets[h].nonce,
                                                  seen |-> sockets[h].active, app |-> a])
                   /\ latest' = [latest EXCEPT ![h] = a]
                   /\ UNCHANGED sockets
    /\ owed' = {x \in owed : x[1] # h}
    /\ TakeOff(h)
    /\ UNCHANGED <<host, called, fresh, resident, call, chat, missed>>

\* Mutant: the requests for the App are left to their timeouts.
RetireQuietly(h) ==
    /\ HasFrame(h, "unready")
    /\ LET a == Head(frames[h]).app
       IN  /\ sockets' = [sockets EXCEPT ![h].active = @ \ {a}]
           /\ latest' = [latest EXCEPT ![h] = IF @ = a THEN NoApp ELSE @]
           /\ owed' = owed \ {<<h, a>>}
    /\ TakeOff(h)
    /\ UNCHANGED <<host, called, fresh, barrier, resident, call, chat, missed>>

\* handleRoomAppHostState without it, which waits for nothing
Retire(h) ==
    /\ HasFrame(h, "unready")
    /\ LET a == Head(frames[h]).app
       IN  /\ sockets' = [sockets EXCEPT ![h].active = @ \ {a}]
           /\ FailAll({r \in OutTo(h) : call[r].app = a})
           /\ latest' = [latest EXCEPT ![h] = IF @ = a THEN NoApp ELSE @]
           /\ owed' = owed \ {<<h, a>>}
    /\ TakeOff(h)
    /\ UNCHANGED <<host, called, fresh, barrier, resident, chat, missed>>

\* handleRoomAppAgentResponse: an answer of another connection is ignored.
TakeAnswer(h) ==
    /\ HasFrame(h, "answer")
    /\ LET r == Head(frames[h]).request
       IN  call' = IF r \in OutTo(h) /\ call[r].app \in sockets[h].active
                   THEN [call EXCEPT ![r] = [at |-> "answered", app |-> @.app]]
                   ELSE call
    /\ TakeOff(h)
    /\ UNCHANGED <<host, sockets, called, fresh, barrier, resident, chat, latest, owed, missed>>

\* A chat that can wake the Agent: it waits for the announcements that wait.
TakeChat(h) ==
    /\ HasFrame(h, "chat")
    /\ chat' = "barrier"
    /\ owed' = {x \in Hosting : latest[x[1]] = x[2]}
    /\ TakeOff(h)
    /\ UNCHANGED <<host, sockets, called, fresh, barrier, resident, call, latest, missed>>

\* Mutant: the chat waits neither for the announcements nor for the catalog.
PassAtOnce ==
    /\ chat = "barrier"
    /\ chat' = "resumed"
    /\ UNCHANGED <<host, sockets, frames, called, fresh, barrier, resident, call, latest, owed, missed>>

\* Nothing is left in pendingRoomAppHostStates.
PassBarrier ==
    /\ chat = "barrier" /\ barrier = <<>>
    /\ chat' = IF fresh THEN "resumed" ELSE "catalog"
    /\ UNCHANGED <<host, sockets, frames, called, fresh, barrier, resident, call, latest, owed, missed>>

\* projectRoomAppsForAgent
Callable == {x \in Hosting : sockets[x[1]].open /\ x[2] \in sockets[x[1]].active}

AcceptChat ==
    /\ chat = "resumed"
    /\ chat' = "accepted"
    /\ missed' = owed \ Callable /\ owed' = {}
    /\ UNCHANGED <<host, sockets, frames, called, fresh, barrier, resident, call, latest>>

\* handleAgentRoomAppRequest up to the catalog
CallApp(r) ==
    /\ call[r].at = "idle"
    /\ call' = [call EXCEPT ![r].at = IF fresh THEN "resumed" ELSE "catalog"]
    /\ UNCHANGED <<host, sockets, frames, called, fresh, barrier, resident, chat, latest, owed, missed>>

HostsOf(a) == {h \in People : <<h, a>> \in Callable}
Target(a) == CHOOSE h \in HostsOf(a) : \A g \in HostsOf(a) : IdOrder[h] <= IdOrder[g]

\* What it checks when it has the catalog, the bound last.
MayDispatch(r) ==
    /\ resident /\ HostsOf(call[r].app) # {}
    /\ Cardinality(InFlight) < MaxInFlight

\* handleAgentRoomAppRequest from there on
SendOut(r) ==
    /\ call[r].at = "resumed"
    /\ LET a == call[r].app
       IN  IF MayDispatch(r)
           THEN /\ call' = [call EXCEPT ![r] = [at |-> "sent", app |-> a, human |-> Target(a),
                                                nonce |-> sockets[Target(a)].nonce]]
                /\ called' = [called EXCEPT ![Target(a)] = Append(@, r)]
           ELSE call' = [call EXCEPT ![r].at = "failed"] /\ UNCHANGED called
    /\ UNCHANGED <<host, sockets, frames, fresh, barrier, resident, chat, latest, owed, missed>>

\* The connection of the announcement w is still the one of its Human.
Stands(w) == sockets[w.human].open /\ sockets[w.human].nonce = w.nonce

\* The announcements of h that are still of its connection, by their place
Standing(h) == {i \in 1..Len(barrier) : barrier[i].human = h /\ Stands(barrier[i])}
Latest(h) == CHOOSE i \in Standing(h) : \A j \in Standing(h) : j <= i

\* The announcements that waited write their attachments, in their order: the one that
\* comes last overwrites the others.
Attached ==
    [h \in People |->
        IF Standing(h) = {} THEN sockets[h]
        ELSE [sockets[h] EXCEPT !.active = Joined(barrier[Latest(h)].seen, barrier[Latest(h)].app)]]

\* The announcement of h that comes last is cut off.
CutOff(h) ==
    IF Standing(h) = {} THEN FALSE
    ELSE ~HasPlace(barrier[Latest(h)].seen, barrier[Latest(h)].app)

\* Mutant: an announcement is not taken out of pendingRoomAppHostStates.
FetchedKeepsWaiting ==
    /\ ~fresh
    /\ barrier # <<>> \/ chat = "catalog" \/ \E r \in Requests : call[r].at = "catalog"
    /\ fresh' = TRUE
    /\ sockets' = Attached
    /\ UNCHANGED <<host, frames, called, barrier, resident, call, chat, latest, owed, missed>>

\* The fetch of the catalog is answered; everybody who waits for it goes on.
Fetched ==
    /\ ~fresh
    /\ barrier # <<>> \/ chat = "catalog" \/ \E r \in Requests : call[r].at = "catalog"
    /\ fresh' = TRUE
    /\ sockets' = Attached /\ barrier' = <<>>
    /\ call' = [r \in Requests |->
        IF call[r].at = "catalog" THEN [call[r] EXCEPT !.at = "resumed"] ELSE call[r]]
    /\ chat' = IF chat = "catalog" THEN "resumed" ELSE chat
    /\ latest' = [h \in People |-> IF CutOff(h) THEN NoApp ELSE latest[h]]
    /\ owed' = {x \in owed : ~CutOff(x[1])}
    /\ UNCHANGED <<host, frames, called, resident, missed>>

\* BROWSER_ROOM_APP_CATALOG_CACHE_TTL_MS has passed.
Expire ==
    /\ fresh
    /\ fresh' = FALSE
    /\ UNCHANGED <<host, sockets, frames, called, barrier, resident, call, chat, latest, owed, missed>>

\* Fifteen seconds have passed since the request went out.
Timeout(r) ==
    /\ call[r].at = "sent"
    /\ FailAll({r})
    /\ UNCHANGED <<host, sockets, frames, called, fresh, barrier, resident, chat, latest, owed, missed>>

\* What the room has of h that ends with its connection
Gone(h) ==
    /\ latest' = [latest EXCEPT ![h] = NoApp]
    /\ owed' = {x \in owed : x[1] # h}
    /\ called' = [called EXCEPT ![h] = <<>>]

\* webSocketClose of the present connection
CloseSocket(h) ==
    /\ sockets[h].open
    /\ sockets' = [sockets EXCEPT ![h].open = FALSE]
    /\ FailAll(OutTo(h))
    /\ frames' = [frames EXCEPT ![h] = <<>>]
    /\ Gone(h)
    /\ UNCHANGED <<host, fresh, barrier, resident, chat, missed>>

\* The members of S, each once, in some order
Orders(S) == {s \in [1..Cardinality(S) -> S] : \A a \in S : \E i \in DOMAIN s : s[i] = a}

\* A new connection, perhaps before the close of the one before is known, which is then
\* nobody's.  The page announces the Apps that are ready once more.
OpenSocket(h) ==
    /\ sockets[h].nonce < MaxNonce
    /\ sockets' = [sockets EXCEPT ![h] = [open |-> TRUE, nonce |-> @.nonce + 1, active |-> {}]]
    /\ \E order \in Orders(host[h].ready) :
        frames' = [frames EXCEPT ![h] = [i \in DOMAIN order |-> [kind |-> "ready", app |-> order[i]]]]
    /\ Gone(h)
    /\ UNCHANGED <<host, fresh, barrier, resident, call, chat, missed>>

\* webSocketClose of the stream of the Agent, and a new one
AgentLeaves ==
    /\ resident
    /\ resident' = FALSE
    /\ FailAll(InFlight)
    /\ UNCHANGED <<host, sockets, frames, called, fresh, barrier, chat, latest, owed, missed>>

AgentReturns ==
    /\ ~resident
    /\ resident' = TRUE
    /\ UNCHANGED <<host, sockets, frames, called, fresh, barrier, call, chat, latest, owed, missed>>

HostSteps ==
    \/ \E h \in People :
        \/ Announce(h) \/ Retire(h) \/ TakeAnswer(h) \/ TakeChat(h) \/ Asked(h)
        \/ Say(h) \/ \E a \in Apps : Handshake(h, a)
        \/ \E r \in Requests : Answer(h, r)
    \/ \E r \in Requests : CallApp(r) \/ SendOut(r)
    \/ PassBarrier \/ AcceptChat \/ Fetched \/ AgentReturns

\* What comes to an end: an App, a connection, a request, the Agent's stream, the cache
HostEnds ==
    \/ \E h \in People : CloseSocket(h) \/ OpenSocket(h) \/ \E a \in Apps : Withdraw(h, a)
    \/ \E r \in Requests : Timeout(r)
    \/ AgentLeaves \/ Expire

HostsNext == HostSteps \/ HostEnds

HostsSpec == HostsInit /\ [][HostsNext]_hostvars

-----------------------------------------------------------------------------
(* Properties *)

\* However many requests wait for one fetch of the catalog, no more than the bound of
\* docs/room-app-host-contract.md are out: it is compared after the wait.
InFlightBounded == Cardinality(InFlight) <= MaxInFlight

\* The projection with which a chat wakes the Agent has the App that a page announced
\* last before the chat, and has neither withdrawn nor followed by another since, even
\* when the announcement waited for the catalog: the barrier in webSocketMessage.  The
\* App had a place in the attachment; it has none only after an announcement that waited
\* has put an App back that its page had withdrawn.
ChatSeesItsApp == missed = {}

\* A request that is out on the present connection of a page is out to an App that the
\* room has as callable there: when the page withdraws the App or disconnects, it fails
\* at once and the Agent does not wait for the timeout.
AskedPageHosts ==
    \A h \in People : \A r \in OutTo(h) : <<h, call[r].app>> \in Callable

\* Requests are out within their bound, and only to pages that host their App.
AskedHosts == InFlightBounded /\ AskedPageHosts

\* No frame of h is on its way, and no announcement waits.
AtRest(h) == sockets[h].open /\ frames[h] = <<>> /\ barrier = <<>>

\* docs/room-app-host-contract.md: each App that has completed its handshake on the page
\* of a connected Human is callable.
ReadyIsCallable == \A h \in People : AtRest(h) => host[h].ready = sockets[h].active
=============================================================================
