---------------------------- MODULE TaskSessions ----------------------------
(***************************************************************************)
(* Starting a Task on a conversation the Agent already has: the Human asks *)
(* the room, the room asks the Agent's runtime to prepare, and only when   *)
(* the runtime answers that it is prepared does the room create the Task   *)
(* (do/RoomSession.ts, agent/internal/runtime/session_discovery.go and     *)
(* session_adoption.go).                                                   *)
(*                                                                         *)
(* There is one Agent.  Expiry times are flags: a record is late once its  *)
(* time to live has passed.  The registry of Tasks is the set of the ids   *)
(* it knows; TaskRegistry has its detail.                                  *)
(***************************************************************************)
EXTENDS Integers, FiniteSets, Sequences

CONSTANTS
    Humans,
    Tasks,           \* request ids, each chosen by the browser of its owner
    Owner,           \* Owner[t]: the Human whose browser chose t
    None,
    MaxAsks,         \* bound: requests of the browsers, numbered
    MaxConnections,  \* bound: connections of one Human
    MaxStreams,      \* bound: event streams of the Agent
    MaxFrames        \* bound: frames on their way in one direction

VARIABLES
    created,     \* Tasks whose request is a message of the room
    known,       \* the Tasks of the registry
    warm,        \* collabRebuilt
    brief,       \* Tasks whose brief is an attachment of the room
    human,       \* human[h]: the socket, its nonce and its pending request
    slot,        \* pendingSessionControl of the Agent's socket
    down, up,    \* frames on that socket, to the runtime and to the room
    busy,        \* the control that the runtime executes
    adoption,    \* pendingAdoption
    declined,    \* declinedPrepared
    seen,        \* Tasks whose trigger the runtime has accepted
    admitting,   \* the Task at the admission boundary, with the adoption it read (its ask)
    scope,       \* scope[t]: the conversation the Task runs on
    asks,        \* requests so far
    streams,     \* the Agent's event streams so far
    continued,   \* history: Tasks created because the runtime was prepared
    armed,       \* history: Tasks for which the runtime was prepared
    withBrief,   \* history: Tasks created with their brief
    claims,      \* history: Tasks whose trigger claimed their preparation
    forgotten    \* history: Tasks that left declinedPrepared

roomvars == <<created, known, warm, brief, human, slot, down>>
agentvars == <<up, busy, adoption, declined, seen, admitting, scope>>
histories == <<asks, streams, continued, armed, withBrief, claims, forgotten>>
vars == <<roomvars, agentvars, histories>>

Asks == 1..MaxAsks
Nonces == 1..MaxConnections
Pending == [ask : Asks, op : {"list", "prepare"}, task : Tasks \cup {None},
            brief : BOOLEAN, late : BOOLEAN]
Sockets == [nonce : Nonces, open : BOOLEAN, ask : Pending \cup {None}]
Slots == [ask : Asks, op : {"list", "prepare"}, task : Tasks \cup {None},
          human : Humans, nonce : Nonces, late : BOOLEAN]
Controls == [op : {"list", "prepare", "cancel"}, ask : Asks \cup {None},
             human : Humans, task : Tasks \cup {None}]
Results == [op : {"list", "prepare", "cancel"}, ask : Asks \cup {None}, ok : BOOLEAN]
Adoptions == [task : Tasks, human : Humans, ask : Asks, fence : SUBSET Tasks,
              claimed : BOOLEAN, late : BOOLEAN]
Executions == [control : Controls, stream : 1..MaxStreams, done : BOOLEAN]
Admissions == [task : Tasks, ask : Asks]

\* What the constants are
ConstantsFit ==
    /\ Owner \in [Tasks -> Humans]
    /\ MaxAsks \in Nat /\ {MaxConnections, MaxStreams} \subseteq Nat \ {0}
    /\ None \notin Pending \cup Slots \cup Executions \cup Adoptions \cup Admissions

ASSUME ConstantsAreFit == ConstantsFit

TypeOK ==
    /\ created \subseteq Tasks /\ known \subseteq Tasks /\ brief \subseteq Tasks
    /\ warm \in BOOLEAN
    /\ human \in [Humans -> Sockets]
    /\ slot \in Slots \cup {None}
    /\ down \in Seq(Controls) /\ up \in Seq(Results)
    /\ busy \in Executions \cup {None}
    /\ adoption \in Adoptions \cup {None}
    /\ declined \subseteq Tasks /\ seen \subseteq created
    /\ admitting \in Admissions \cup {None}
    /\ scope \in [Tasks -> {"none", "adopted", "failed", "declined", "fresh"}]
    /\ asks \in 0..MaxAsks /\ streams \in 1..MaxStreams
    /\ \A S \in {continued, armed, withBrief, claims, forgotten} : S \subseteq Tasks

Init ==
    /\ created = {} /\ known = {} /\ warm = FALSE /\ brief = {}
    /\ human = [h \in Humans |-> [nonce |-> 1, open |-> TRUE, ask |-> None]]
    /\ slot = None /\ down = <<>> /\ up = <<>>
    /\ busy = None /\ adoption = None /\ declined = {} /\ seen = {} /\ admitting = None
    /\ scope = [t \in Tasks |-> "none"]
    /\ asks = 0 /\ streams = 1
    /\ continued = {} /\ armed = {} /\ withBrief = {}
    /\ claims = {} /\ forgotten = {}

-----------------------------------------------------------------------------
(* The room *)

\* Mutant: a restarted instance asks the empty registry.
ColdKnown == known

\* warmCollabRegistry
Known == IF warm THEN known ELSE created

WarmUp(ids) == known' = ids /\ warm' = TRUE

\* pruneTaskSessionPending, hasOutstandingTaskSessionRequest
Outstanding(h) == human[h].ask # None /\ ~human[h].ask.late

Cancel(h, t) == [op |-> "cancel", ask |-> None, human |-> h, task |-> t]

\* sendAgentSessionCancel: no correlation is installed.
SendCancel(h, t) == down' = Append(down, Cancel(h, t))

\* sendAgentSessionControl, sendAgentSessionFrame: a correlation that is not late
\* is never overwritten.
SlotFree == slot # None => slot.late

\* A brief of h is staged for the Task it will belong to (handleAttachmentUpload).
Stage(t) ==
    /\ t \notin brief /\ t \notin Known
    /\ brief' = brief \cup {t}
    /\ UNCHANGED <<created, known, warm, human, slot, down, agentvars, histories>>

\* handleTaskSessionList and handleTaskSessionStart, with the pending record on
\* the Human's socket and the correlation on the Agent's.
Ask(h, op, t) ==
    /\ human[h].open /\ asks < MaxAsks /\ Len(down) < MaxFrames
    /\ ~Outstanding(h) /\ SlotFree
    /\ IF op = "list" THEN t = None /\ UNCHANGED <<known, warm>>
       ELSE t # None /\ Owner[t] = h /\ t \notin Known /\ WarmUp(Known)
    /\ asks' = asks + 1
    /\ human' = [human EXCEPT ![h].ask =
         [ask |-> asks', op |-> op, task |-> t, brief |-> t \in brief, late |-> FALSE]]
    /\ slot' = [ask |-> asks', op |-> op, task |-> t, human |-> h,
                nonce |-> human[h].nonce, late |-> FALSE]
    /\ down' = Append(down, [op |-> op, ask |-> asks', human |-> h, task |-> t])
    /\ UNCHANGED <<created, brief, agentvars, streams, continued, armed, withBrief, claims, forgotten>>

\* The same where it is refused: "task_session_busy" (an earlier, late record of
\* this socket is dropped) or "task_request_id_in_use".
AskRefused(h) ==
    /\ human[h].open
    /\ \/ human[h].ask # None /\ human[h].ask.late /\ ~SlotFree
          /\ human' = [human EXCEPT ![h].ask = None]
       \/ \E t \in Known : Owner[t] = h /\ UNCHANGED human
    /\ WarmUp(Known)
    /\ UNCHANGED <<created, brief, slot, down, agentvars, histories>>

\* ingestCollabWorkRequest for an id the registry does not know.  The save may be
\* refused after the registry has taken the id.
CreateTask(t, refs) ==
    /\ WarmUp(Known \cup {t})
    /\ created' = created \cup {t}
    /\ withBrief' = IF refs THEN withBrief \cup {t} ELSE withBrief

CreateRefused(t) ==
    /\ WarmUp(Known \cup {t})
    /\ UNCHANGED <<created, withBrief>>

\* A Human's collab-request: the Task runs on a conversation of its own.
Request(h, t) ==
    /\ human[h].open /\ Owner[t] = h /\ t \notin Known
    /\ CreateTask(t, t \in brief) \/ CreateRefused(t)
    /\ UNCHANGED <<brief, human, slot, down, agentvars, asks, streams, continued, armed, claims, forgotten>>

\* A result is accepted only against the exact correlation of the socket.
Matches(r) == slot # None /\ slot.ask = r.ask /\ slot.op = r.op

\* humanSocketFor, and the pending record of that socket
Originator(s) ==
    LET k == human[s.human]
    IN  IF k.open /\ k.nonce = s.nonce /\ k.ask # None /\ k.ask.ask = s.ask /\ ~k.ask.late
        THEN k.ask ELSE None

\* handleAgentSessionResult
Result ==
    /\ up # <<>> /\ up' = Tail(up)
    /\ IF ~Matches(Head(up))
       THEN UNCHANGED <<created, known, warm, human, slot, down, continued, withBrief>>
       ELSE LET r == Head(up)
                pending == IF slot.late THEN None ELSE Originator(slot)
                h == slot.human
            IN  /\ slot' = None
                /\ IF pending = None
                   THEN /\ IF slot.op = "prepare" THEN SendCancel(h, slot.task) ELSE UNCHANGED down
                        /\ UNCHANGED <<created, known, warm, human, continued, withBrief>>
                   ELSE /\ human' = [human EXCEPT ![h].ask = None]
                        /\ IF slot.op = "list" \/ ~r.ok
                           THEN UNCHANGED <<created, known, warm, down, continued, withBrief>>
                           ELSE \/ /\ pending.task \notin Known
                                   /\ CreateTask(pending.task, pending.brief)
                                   /\ pending.brief => pending.task \in brief
                                   /\ continued' = continued \cup {pending.task}
                                   /\ UNCHANGED down
                                \/ /\ IF pending.task \in Known
                                      THEN UNCHANGED <<created, withBrief>> /\ WarmUp(Known)
                                      ELSE CreateRefused(pending.task)
                                   /\ SendCancel(h, pending.task)
                                   /\ UNCHANGED continued
    /\ UNCHANGED <<brief, busy, adoption, declined, seen, admitting, scope,
                   asks, streams, armed, claims, forgotten>>

\* "human-discard-task-attachment": the brief of a Task stays, and a preparation
\* that waits for it is released.
Discard(t) ==
    LET h == Owner[t]
        waits == human[h].ask # None /\ human[h].ask.task = t /\ human[h].ask.brief
        installed == slot # None /\ slot.op = "prepare" /\ slot.human = h /\ slot.task = t
    IN  /\ t \in brief /\ Len(down) < MaxFrames
        /\ WarmUp(Known)
        /\ IF t \in Known THEN UNCHANGED <<brief, human, slot, down>>
           ELSE /\ brief' = brief \ {t}
                /\ human' = IF waits THEN [human EXCEPT ![h].ask = None] ELSE human
                /\ slot' = IF installed THEN None ELSE slot
                /\ IF waits \/ installed THEN SendCancel(h, t) ELSE UNCHANGED down
        /\ UNCHANGED <<created, agentvars, histories>>

\* The Human's page connects again: the new socket has no pending record.
Reconnect(h) ==
    /\ human[h].nonce < MaxConnections
    /\ human' = [human EXCEPT ![h] = [nonce |-> @.nonce + 1, open |-> TRUE, ask |-> None]]
    /\ UNCHANGED <<created, known, warm, brief, slot, down, agentvars, histories>>

Leave(h) ==
    /\ human[h].open
    /\ human' = [human EXCEPT ![h].open = FALSE, ![h].ask = None]
    /\ UNCHANGED <<created, known, warm, brief, slot, down, agentvars, histories>>

\* The Agent's socket is replaced: its correlation and its frames are gone.
NewStream ==
    /\ streams < MaxStreams
    /\ streams' = streams + 1
    /\ slot' = None /\ down' = <<>> /\ up' = <<>>
    /\ UNCHANGED <<created, known, warm, brief, human, busy, adoption, declined, seen,
                   admitting, scope, asks, continued, armed, withBrief, claims, forgotten>>

\* The instance hibernates: sockets keep their attachments, the registry is lost.
Hibernate ==
    /\ known' = {} /\ warm' = FALSE
    /\ UNCHANGED <<created, brief, human, slot, down, agentvars, histories>>

\* TASK_SESSION_PENDING_TTL_MS passes; the Human's record was made first.
Lapse ==
    /\ \/ \E h \in Humans : /\ human[h].ask # None /\ ~human[h].ask.late
                            /\ human' = [human EXCEPT ![h].ask.late = TRUE]
                            /\ UNCHANGED slot
       \/ /\ slot # None /\ ~slot.late /\ Originator(slot) = None
          /\ slot' = [slot EXCEPT !.late = TRUE]
          /\ UNCHANGED human
    /\ UNCHANGED <<created, known, warm, brief, down, agentvars, histories>>

RoomNext ==
    \/ \E t \in Tasks : Stage(t) \/ Discard(t)
    \/ \E h \in Humans : \/ \E t \in Tasks : Ask(h, "prepare", t) \/ Request(h, t)
                         \/ Ask(h, "list", None) \/ AskRefused(h)
                         \/ Reconnect(h) \/ Leave(h)
    \/ Result \/ NewStream \/ Hibernate \/ Lapse

-----------------------------------------------------------------------------
(* The runtime *)

Reply(stream, op, ask, ok) ==
    IF stream = streams /\ op # "cancel"
    THEN up' = Append(up, [op |-> op, ask |-> ask, ok |-> ok])
    ELSE UNCHANGED up

\* dispatchSessionControl: one control at a time, others are refused.
Dispatch ==
    /\ down # <<>> /\ Len(up) < MaxFrames
    /\ down' = Tail(down)
    /\ IF busy = None
       THEN busy' = [control |-> Head(down), stream |-> streams, done |-> FALSE] /\ UNCHANGED up
       ELSE Reply(streams, Head(down).op, Head(down).ask, FALSE) /\ UNCHANGED busy
    /\ UNCHANGED <<created, known, warm, brief, human, slot, adoption, declined, seen,
                   admitting, scope, histories>>

\* ArmPreparedSessionAdoption and ArmPreparedProjectTask, once the token, the
\* Human and the directory have passed their checks
Arm(c) ==
    /\ adoption = None
    /\ adoption' = [task |-> c.task, human |-> c.human, ask |-> c.ask, fence |-> seen,
                    claimed |-> FALSE, late |-> FALSE]
    /\ armed' = armed \cup {c.task}
    /\ Reply(busy.stream, "prepare", c.ask, TRUE)

\* prepareTaskSession without success, for an adoption that is armed already or
\* for the token, the Human or the directory
NotArmed(c) ==
    /\ Reply(busy.stream, "prepare", c.ask, FALSE)
    /\ UNCHANGED <<adoption, armed>>

\* cancelTaskSession
Release(c) ==
    /\ adoption' = IF adoption # None /\ adoption.task = c.task THEN None ELSE adoption
    /\ UNCHANGED <<up, armed>>

\* runSessionControl and replySessionResult
Execute ==
    /\ busy # None /\ ~busy.done /\ Len(up) < MaxFrames
    /\ busy' = [busy EXCEPT !.done = TRUE]
    /\ LET c == busy.control
       IN  \/ c.op = "list" /\ Reply(busy.stream, "list", c.ask, TRUE) /\ UNCHANGED <<adoption, armed>>
           \/ c.op = "prepare" /\ (Arm(c) \/ NotArmed(c))
           \/ c.op = "cancel" /\ Release(c)
    /\ UNCHANGED <<roomvars, declined, seen, admitting, scope, asks, streams, continued,
                   withBrief, claims, forgotten>>

\* setTaskSessionControlBusy(false), after the reply was written
Idle ==
    /\ busy # None /\ busy.done
    /\ busy' = None
    /\ UNCHANGED <<roomvars, up, adoption, declined, seen, admitting, scope, histories>>

\* The preparation is for t, and the trigger of t was not there before it
\* (claimPreparedAdoptionLocked, adoptionMayBind).
IsFor(prepared, t) ==
    prepared # None /\ prepared.task = t /\ prepared.human = Owner[t] /\ t \notin prepared.fence

\* claimPreparedAdoptionLocked, for the request of t
Claim(t) == IF IsFor(adoption, t) THEN [adoption EXCEPT !.claimed = TRUE] ELSE adoption

\* The trigger of t arrives and is accepted into the empty queue of its scope.
Deliver(t) ==
    /\ t \in created \ seen
    /\ seen' = seen \cup {t}
    /\ adoption' = Claim(t)
    /\ claims' = IF IsFor(adoption, t) THEN claims \cup {t} ELSE claims
    /\ UNCHANGED <<roomvars, up, busy, declined, admitting, scope, asks, streams,
                   continued, armed, withBrief, forgotten>>

\* admitHarnessSession, up to the load, with expirePreparedAdoptionLocked.  That
\* a preparation was declined is only looked up when none is armed.
Admit(t) ==
    LET expired == adoption # None /\ adoption.late /\ ~adoption.claimed
        still == IF expired THEN None ELSE adoption
        refused == declined \cup (IF expired THEN {adoption.task} ELSE {})
        become(s) == scope' = [scope EXCEPT ![t] = s] /\ UNCHANGED admitting
    IN  /\ t \in seen /\ scope[t] = "none" /\ admitting = None
        /\ adoption' = still /\ declined' = refused
        /\ CASE IsFor(still, t) -> /\ admitting' = [task |-> t, ask |-> still.ask]
                                   /\ UNCHANGED scope
             [] still = None /\ t \in refused -> become("declined")
             [] OTHER -> become("fresh")
        /\ UNCHANGED <<roomvars, up, busy, seen, histories>>

\* bindSessionAdoption: the session is loaded, or that fails for good.
Bind ==
    /\ admitting # None /\ admitting' = None
    /\ IF adoption # None /\ adoption.ask = admitting.ask
       THEN /\ adoption' = None
            /\ \E s \in {"adopted", "failed"} : scope' = [scope EXCEPT ![admitting.task] = s]
       ELSE /\ scope' = [scope EXCEPT ![admitting.task] = "fresh"]
            /\ UNCHANGED adoption
    /\ UNCHANGED <<roomvars, up, busy, declined, seen, histories>>

\* preparedAdoptionTTL passes, which is longer than the room's time to live.
Age ==
    /\ adoption # None /\ ~adoption.late /\ ~adoption.claimed
    /\ (slot # None => slot.late \/ slot.ask # adoption.ask)
    /\ adoption' = [adoption EXCEPT !.late = TRUE]
    /\ UNCHANGED <<roomvars, up, busy, declined, seen, admitting, scope, histories>>

\* declinedPreparedAdoptionTTL passes (pruneDeclinedPreparedLocked).
Forget(t) ==
    /\ t \in declined
    /\ declined' = declined \ {t} /\ forgotten' = forgotten \cup {t}
    /\ UNCHANGED <<roomvars, up, busy, adoption, seen, admitting, scope, asks, streams,
                   continued, armed, withBrief, claims>>

RuntimeNext ==
    \/ Dispatch \/ Execute \/ Idle \/ Bind \/ Age
    \/ \E t \in Tasks : Deliver(t) \/ Admit(t) \/ Forget(t)

Next == RoomNext \/ RuntimeNext

Spec == Init /\ [][Next]_vars

-----------------------------------------------------------------------------
(* Properties *)

\* A Task the Human asked to continue, once the runtime has accepted it, runs on
\* the conversation it was prepared for: also behind a turn that outlasts the time
\* to live of the preparation, and whatever the room cancels meanwhile.
ClaimedIsBound ==
    \A t \in continued \cap claims : scope[t] \in {"none", "adopted", "failed"}

\* The room creates such a Task only when the runtime was prepared for that very
\* id, whatever results of earlier requests are still on their way.
CreatedWasPrepared == continued \subseteq armed

\* A brief the room has given to a Task is not discarded any more, also not by an
\* instance that has forgotten the Task.
BriefOfTaskStays == withBrief \subseteq brief

\* What a Human gave to a Task at its start stays with it: the conversation, the consent
\* of the runtime and the brief.
StartStays == ClaimedIsBound /\ CreatedWasPrepared /\ BriefOfTaskStays
=============================================================================
