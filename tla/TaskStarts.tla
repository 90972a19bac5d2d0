----------------------------- MODULE TaskStarts -----------------------------
(***************************************************************************)
(* The Start Task dialog of one Human's page (components/RoomContent.tsx,  *)
(* hooks/useSfuChatRoom.ts): it lists the conversations of one Agent, sends *)
(* the brief as an attachment, asks the room to start the Task, and tells  *)
(* the Human how that ended.                                               *)
(*                                                                         *)
(* The room's side is that of TaskSessions for one Human, one Agent whose  *)
(* runtime answers as it likes, and no expiry but of what is pending.  The *)
(* number of a request also stands for the id of the Task that it starts.  *)
(***************************************************************************)
EXTENDS Integers, FiniteSets, Sequences

CONSTANTS
    None,
    Views,        \* what the picker can show: the recent conversations, or a project's
    Recent,       \* the view without a project
    MaxRequests,  \* bound: requests of the page, numbered
    MaxBriefs,    \* bound: briefs the Human pastes, numbered
    MaxSockets,   \* bound: WebSockets of the page, numbered
    MaxFaults     \* bound: answers lost, late or refused for the room's own reasons

VARIABLES
    dialog,    \* the dialog: taskAgent, taskBrief, taskStarting
    picker,    \* its list of conversations: taskSession*
    req,       \* the requests so far, with what the page knows of them
    pending,   \* pendingTaskSessionRequestsRef
    socket,    \* the number of the page's WebSocket and whether it is open
    up, down,  \* frames on it
    posts,     \* uploads of a brief on their way, and whether the room has stored it
    discards,  \* requests to discard a brief on their way
    store,     \* requests whose brief is an attachment of the room
    ask,       \* the pending record on the Human's socket
    slot,      \* the request that the Agent's runtime is asked about
    created,   \* Tasks, with the brief each was created with
    faults,
    unheard,   \* history: starts the page gave up after it had sent them
    left,      \* history: briefs no page knows to discard
    carried    \* history: a project was still chosen when the dialog turned to conversations

vars == <<dialog, picker, req, pending, socket, up, down, posts, discards, store, ask,
          slot, created, faults, unheard, left, carried>>
roomvars == <<store, ask, slot, created>>
histories == <<unheard, left, carried>>

StartRequests == 1..MaxRequests
Briefs == 1..MaxBriefs
Starts == {"project", "continue"}       \* startTaskWithSession
Ways == Starts \cup {"list", "brief", "plain"}
Record == [way : Ways, brief : Briefs \cup {None}, view : Views, append : BOOLEAN,
           phase : {"staging", "sent", "ok", "failed"}]

TypeOK ==
    /\ dialog \in [open : BOOLEAN, brief : Briefs \cup {None}, starting : BOOLEAN, briefs : 0..MaxBriefs]
    /\ picker \in [mode : {"new", "continue"}, status : {"idle", "loading", "ready", "error"},
                   view : Views, rows : SUBSET Views, adding : BOOLEAN,
                   current : StartRequests \cup {None}]
    /\ req \in Seq(Record) /\ pending \subseteq DOMAIN req
    /\ socket \in [n : 1..MaxSockets, open : BOOLEAN]
    /\ up \in Seq(StartRequests) /\ down \in Seq([req : StartRequests, ok : BOOLEAN])
    /\ posts \subseteq [req : StartRequests, at : {"sent", "stored", "refused"}]
    /\ discards \subseteq StartRequests /\ store \subseteq StartRequests
    /\ ask \in [req : StartRequests, late : BOOLEAN] \cup {None}
    /\ slot \in [req : StartRequests, late : BOOLEAN] \cup {None}
    /\ created \subseteq [req : StartRequests, brief : Briefs \cup {None}]
    /\ faults \in 0..MaxFaults
    /\ unheard \subseteq StartRequests /\ left \subseteq StartRequests /\ carried \in BOOLEAN

NoPicker == [mode |-> "new", status |-> "idle", view |-> Recent, rows |-> {},
             adding |-> FALSE, current |-> None]

Init ==
    /\ dialog = [open |-> FALSE, brief |-> None, starting |-> FALSE, briefs |-> 0]
    /\ picker = NoPicker
    /\ req = <<>> /\ pending = {}
    /\ socket = [n |-> 1, open |-> TRUE]
    /\ up = <<>> /\ down = <<>> /\ posts = {} /\ discards = {}
    /\ store = {} /\ ask = None /\ slot = None /\ created = {}
    /\ faults = 0 /\ unheard = {} /\ left = {} /\ carried = FALSE

Fault == faults < MaxFaults /\ faults' = faults + 1

-----------------------------------------------------------------------------
(* How the page takes the end of a request *)

\* loadTaskSessions: no later one was made, and the dialog was not reset.
IsCurrent(r) == picker.current = r

\* loadTaskSessions, when its request has ended
Listed(r, ok) ==
    picker' =
      IF ~IsCurrent(r) THEN picker
      ELSE IF ~ok
      THEN [picker EXCEPT !.current = None, !.adding = FALSE,
              !.status = IF req[r].append /\ picker.rows # {} THEN "ready" ELSE "error"]
      ELSE [picker EXCEPT !.current = None, !.adding = FALSE, !.status = "ready",
              !.rows = {req[r].view} \cup (IF req[r].append THEN @ ELSE {})]

\* submitTask, when its request has ended.  The brief stays in the dialog when the Task
\* was continued.
Answered(r, ok) ==
    IF ~ok THEN dialog' = [dialog EXCEPT !.starting = FALSE] /\ UNCHANGED picker
    ELSE /\ picker' = NoPicker
         /\ dialog' = [dialog EXCEPT !.open = FALSE, !.starting = FALSE,
                         !.brief = IF req[r].way = "continue" THEN @ ELSE None]

\* A request ends for the page; a brief that is known to be in the room is discarded.
Settle(r, ok) ==
    /\ req' = [req EXCEPT ![r].phase = IF ok THEN "ok" ELSE "failed"]
    /\ IF req[r].way = "list" THEN Listed(r, ok) /\ UNCHANGED dialog ELSE Answered(r, ok)
    /\ discards' = IF ~ok /\ req[r].way \in Starts /\ req[r].phase = "sent" /\ req[r].brief # None
                   THEN discards \cup {r} ELSE discards

-----------------------------------------------------------------------------
(* The dialog *)

\* handleStartTask
Open ==
    /\ ~dialog.open
    /\ dialog' = [dialog EXCEPT !.open = TRUE, !.starting = FALSE]
    /\ picker' = NoPicker
    /\ UNCHANGED <<req, pending, socket, up, down, posts, discards, roomvars, faults, histories>>

\* closeTaskComposer, by Cancel
Close ==
    /\ dialog.open /\ ~dialog.starting
    /\ dialog' = [dialog EXCEPT !.open = FALSE, !.brief = None]
    /\ picker' = NoPicker
    /\ UNCHANGED <<req, pending, socket, up, down, posts, discards, roomvars, faults, histories>>

\* handleTaskInstructionPaste
Paste ==
    /\ dialog.open /\ ~dialog.starting /\ dialog.brief = None /\ dialog.briefs < MaxBriefs
    /\ dialog' = [dialog EXCEPT !.brief = dialog.briefs + 1, !.briefs = @ + 1]
    /\ UNCHANGED <<picker, req, pending, socket, up, down, posts, discards, roomvars, faults, histories>>

New(way, brief, view, append, phase) ==
    /\ Len(req) < MaxRequests
    /\ req' = Append(req, [way |-> way, brief |-> brief, view |-> view, append |-> append,
                           phase |-> phase])

\* requestTaskSessions, with the part of loadTaskSessions before it; its result is
\* at hand when nothing can be sent.
Load(view, append) ==
    LET r == Len(req) + 1
        p == [picker EXCEPT !.view = view, !.current = r, !.adding = @ \/ append,
                                !.status = IF append THEN @ ELSE "loading"]
    IN  /\ IF socket.open
           THEN /\ New("list", None, view, append, "sent")
                /\ pending' = pending \cup {r} /\ up' = Append(up, r) /\ picker' = p
           ELSE /\ New("list", None, view, append, "failed")
                /\ picker' = [p EXCEPT !.current = None, !.adding = FALSE,
                       !.status = IF append /\ picker.rows # {} THEN "ready" ELSE "error"]
                /\ UNCHANGED <<pending, up>>
        /\ UNCHANGED <<dialog, socket, down, posts, discards, roomvars, faults>>

\* handleTaskSessionProjectChange; handleTaskSessionRefresh, and the button that
\* chooses a project, for the view that is chosen already
Choose(view) ==
    /\ dialog.open /\ ~dialog.starting
    /\ picker.mode = "continue" \/ picker.status # "idle" \/ view = picker.view
    /\ view = picker.view => picker.status # "loading"
    /\ Load(view, FALSE) /\ UNCHANGED histories

\* handleTaskSessionLoadMore.  Among projects it is there also while they are loaded.
LoadMore ==
    /\ dialog.open /\ ~dialog.starting
    /\ picker.rows # {} /\ (picker.mode = "continue" => picker.status = "ready")
    /\ ~picker.adding
    /\ Load(picker.view, TRUE) /\ UNCHANGED histories

\* handleTaskSessionModeChange("continue"): the chosen project stays, and the recent
\* conversations are asked for.
Continue ==
    /\ dialog.open /\ ~dialog.starting
    /\ LET r == Len(req) + 1
       IN  /\ IF socket.open
              THEN /\ New("list", None, Recent, FALSE, "sent")
                   /\ pending' = pending \cup {r} /\ up' = Append(up, r)
              ELSE New("list", None, Recent, FALSE, "failed") /\ UNCHANGED <<pending, up>>
           /\ picker' = [picker EXCEPT !.mode = "continue",
                           !.current = IF socket.open THEN r ELSE None,
                           !.adding = @ /\ socket.open,
                           !.status = IF socket.open THEN "loading" ELSE "error"]
    /\ carried' = (picker.view # Recent)
    /\ UNCHANGED <<dialog, socket, down, posts, discards, roomvars, faults, unheard, left>>

\* handleTaskSessionModeChange("new")
StartAnew ==
    /\ dialog.open /\ ~dialog.starting
    /\ picker' = NoPicker
    /\ UNCHANGED <<dialog, req, pending, socket, up, down, posts, discards, roomvars, faults, histories>>

\* submitTask: which request it makes
Way ==
    IF picker.mode = "continue" THEN "continue"
    ELSE IF picker.view # Recent THEN "project"
    ELSE IF dialog.brief # None THEN "brief" ELSE "plain"

\* sendCollabRequest: the dialog is left as soon as the request is sent.
SendsPlain(r) ==
    /\ New("plain", None, picker.view, FALSE, "ok")
    /\ dialog' = [dialog EXCEPT !.open = FALSE] /\ picker' = NoPicker
    /\ up' = Append(up, r) /\ UNCHANGED <<pending, posts>>

\* startTaskWithSession and startTaskWithBrief up to their first await: a brief is
\* staged before anything is sent.
Begins(r, staging) ==
    /\ New(Way, dialog.brief, picker.view, FALSE, IF staging THEN "staging" ELSE "sent")
    /\ dialog' = [dialog EXCEPT !.starting = TRUE]
    /\ pending' = IF Way \in Starts THEN pending \cup {r} ELSE pending
    /\ posts' = IF staging THEN posts \cup {[req |-> r, at |-> "sent"]} ELSE posts
    /\ up' = IF staging THEN up ELSE Append(up, r)
    /\ UNCHANGED picker

\* submitTask up to its await
Submit ==
    LET r == Len(req) + 1
    IN  /\ dialog.open /\ ~dialog.starting /\ (Way = "continue" => picker.rows # {})
        /\ IF ~socket.open
           THEN /\ New(Way, dialog.brief, picker.view, FALSE, "failed")
                /\ UNCHANGED <<dialog, picker, pending, up, posts>>
           ELSE IF Way = "plain" THEN SendsPlain(r) ELSE Begins(r, dialog.brief # None)
        /\ UNCHANGED <<socket, down, discards, roomvars, faults, histories>>

\* sendStart: only the exact request that is still pending crosses the wire.
StillPending(r) == r \in pending

\* Mutant: a brief that comes too late is nobody's.
LeavesIt(r) == UNCHANGED discards

\* sendStart: the brief of a request that has ended meanwhile
DiscardsLate(r) == discards' = discards \cup {r}

\* The rest of startTaskWithBrief: a brief that was staged is not discarded.
SendsBrief(r, ok) ==
    /\ Settle(r, ok /\ socket.open)
    /\ up' = IF ok /\ socket.open THEN Append(up, r) ELSE up
    /\ UNCHANGED pending

\* The rest of startTaskWithSession
SendsStart(r, ok) ==
    IF StillPending(r)
    THEN IF ok
         THEN /\ req' = [req EXCEPT ![r].phase = IF @ = "failed" THEN @ ELSE "sent"]
              /\ up' = Append(up, r)
              /\ UNCHANGED <<pending, dialog, picker, discards>>
         ELSE Settle(r, FALSE) /\ pending' = pending \ {r} /\ UNCHANGED up
    ELSE /\ IF ok THEN DiscardsLate(r) ELSE UNCHANGED discards
         /\ UNCHANGED <<req, up, pending, dialog, picker>>

\* The answer of the upload
Staged(p, ok) ==
    LET r == p.req
    IN  /\ p \in posts /\ p.at # "sent" /\ posts' = posts \ {p}
        /\ ok => p.at = "stored"
        /\ IF ok = (p.at = "stored") THEN UNCHANGED faults ELSE Fault
        /\ IF req[r].way \in Starts THEN SendsStart(r, ok) ELSE SendsBrief(r, ok)
        /\ left' = IF p.at = "stored" /\ (~ok \/ req[r].way = "brief") THEN left \cup {r} ELSE left
        /\ UNCHANGED <<socket, down, roomvars, unheard, carried>>

\* socket.onmessage: task-session-list-result and task-session-start-result
HearResult ==
    /\ socket.open /\ down # <<>> /\ down' = Tail(down)
    /\ LET f == Head(down)
       IN  IF f.req \in pending
           THEN Settle(f.req, f.ok) /\ pending' = pending \ {f.req}
           ELSE UNCHANGED <<req, pending, dialog, picker, discards>>
    /\ UNCHANGED <<socket, up, posts, roomvars, faults, histories>>

\* TASK_SESSION_CLIENT_TIMEOUT_MS passes.
TimesOut(r) ==
    /\ r \in pending /\ Fault
    /\ Settle(r, FALSE) /\ pending' = pending \ {r}
    /\ unheard' = IF req[r].phase = "sent" THEN unheard \cup {r} ELSE unheard
    /\ UNCHANGED <<socket, up, down, posts, roomvars, left, carried>>

\* socket.onclose: everything that is pending ends.  At most one request of the picker
\* is current, and at most one start is under way.
Closes ==
    LET starts == {r \in pending : req[r].way \in Starts}
        staged == {r \in starts : req[r].phase = "sent" /\ req[r].brief # None}
        ended == {r \in pending : req[r].way = "list" /\ IsCurrent(r)}
    IN  /\ socket.open /\ Fault
        /\ socket' = [socket EXCEPT !.open = FALSE] /\ down' = <<>>
        /\ req' = [r \in DOMAIN req |->
             IF r \in pending THEN [req[r] EXCEPT !.phase = "failed"] ELSE req[r]]
        /\ pending' = {}
        /\ discards' = discards \cup staged
        /\ dialog' = IF starts = {} THEN dialog ELSE [dialog EXCEPT !.starting = FALSE]
        /\ IF ended = {} THEN UNCHANGED picker ELSE \E r \in ended : Listed(r, FALSE)
        /\ unheard' = unheard \cup {r \in starts : req[r].phase = "sent"}
        /\ UNCHANGED <<up, posts, roomvars, left, carried>>

\* connectWebSocket; the room knows the page's old WebSocket no more.
Reconnects ==
    /\ ~socket.open /\ socket.n < MaxSockets
    /\ socket' = [n |-> socket.n + 1, open |-> TRUE]
    /\ up' = <<>> /\ down' = <<>> /\ ask' = None
    /\ UNCHANGED <<dialog, picker, req, pending, posts, discards, store, slot, created, faults, histories>>

-----------------------------------------------------------------------------
(* The room *)

\* sendHumanTaskSessionStartResult, sendHumanTaskSessionListResult
Reply(r, ok) == down' = IF socket.open THEN Append(down, [req |-> r, ok |-> ok]) ELSE down

\* handleAttachmentUpload for a Task to come: refused when the store is full.
Stores(p) ==
    /\ p \in posts /\ p.at = "sent"
    /\ \/ /\ posts' = (posts \ {p}) \cup {[p EXCEPT !.at = "stored"]}
          /\ store' = store \cup {p.req} /\ UNCHANGED faults
       \/ /\ posts' = (posts \ {p}) \cup {[p EXCEPT !.at = "refused"]}
          /\ Fault /\ UNCHANGED store
    /\ UNCHANGED <<dialog, picker, req, pending, socket, up, down, discards, ask, slot, created, histories>>

\* An ordinary upload takes the place of the oldest attachment.
Evict(r) ==
    /\ r \in store /\ Fault /\ store' = store \ {r}
    /\ UNCHANGED <<dialog, picker, req, pending, socket, up, down, posts, discards, ask, slot,
                   created, histories>>

\* The references of a request name what the room has (validateCollabEvent,
\* humanTaskContextReferenceIds).
Refers(r) == req[r].brief # None => r \in store

\* ingestCollabWorkRequest; its save may fail.
Create(r) == created' = created \cup {[req |-> r, brief |-> req[r].brief]} /\ UNCHANGED faults
CreateFails == Fault /\ UNCHANGED created

Free(x) == x # None => x.late

\* handleTaskSessionList, handleTaskSessionStart, and collab-request
RoomHears ==
    /\ up # <<>> /\ up' = Tail(up)
    /\ LET r == Head(up)
       IN  IF req[r].way \in {"plain", "brief"}
           THEN /\ IF Refers(r) THEN Create(r) \/ CreateFails ELSE UNCHANGED <<created, faults>>
                /\ UNCHANGED <<ask, slot, down>>
           ELSE /\ UNCHANGED <<created, faults>>
                /\ IF Refers(r) /\ Free(ask) /\ Free(slot)
                   THEN /\ ask' = [req |-> r, late |-> FALSE] /\ slot' = ask' /\ UNCHANGED down
                   ELSE /\ ask' = IF Free(ask) THEN None ELSE ask
                        /\ Reply(r, FALSE) /\ UNCHANGED slot
    /\ UNCHANGED <<dialog, picker, req, pending, socket, posts, discards, store, histories>>

\* handleAgentSessionResult, for what the runtime answers
Result(ok) ==
    /\ slot # None /\ slot' = None
    /\ IF slot.late \/ ask = None \/ ask.req # slot.req \/ ask.late
       THEN UNCHANGED <<ask, created, faults, down>>
       ELSE LET r == slot.req
            IN  /\ ask' = None
                /\ IF req[r].way = "list" \/ ~ok
                   THEN Reply(r, ok) /\ UNCHANGED <<created, faults>>
                   ELSE \/ Refers(r) /\ Create(r) /\ Reply(r, TRUE)
                        \/ ~Refers(r) /\ UNCHANGED <<created, faults>> /\ Reply(r, FALSE)
                        \/ CreateFails /\ Reply(r, FALSE)
    /\ UNCHANGED <<dialog, picker, req, pending, socket, up, posts, discards, store, histories>>

\* TASK_SESSION_PENDING_TTL_MS passes.
Lapses ==
    /\ slot # None /\ ~slot.late /\ Fault
    /\ slot' = [slot EXCEPT !.late = TRUE]
    /\ ask' = IF ask = None THEN None ELSE [ask EXCEPT !.late = TRUE]
    /\ UNCHANGED <<dialog, picker, req, pending, socket, up, down, posts, discards, store,
                   created, histories>>

IsTask(r) == \E c \in created : c.req = r

\* "human-discard-task-attachment": the preparation that waits for the brief
StopsAsking(r) ==
    /\ IF ask # None /\ ask.req = r THEN ask' = None /\ Reply(r, FALSE) ELSE UNCHANGED <<ask, down>>
    /\ slot' = IF slot # None /\ slot.req = r THEN None ELSE slot

\* discardStagedBrief, which may be lost
Discards(r) ==
    /\ r \in discards /\ discards' = discards \ {r}
    /\ \/ /\ Fault /\ left' = left \cup {r} /\ UNCHANGED <<store, ask, slot, down>>
       \/ /\ UNCHANGED <<faults, left>>
          /\ IF r \notin store \/ IsTask(r) THEN UNCHANGED <<store, ask, slot, down>>
             ELSE store' = store \ {r} /\ StopsAsking(r)
    /\ UNCHANGED <<dialog, picker, req, pending, socket, up, posts, created, unheard, carried>>

-----------------------------------------------------------------------------

DialogNext ==
    \/ Open \/ Close \/ Paste \/ LoadMore \/ Continue \/ StartAnew \/ Submit
    \/ \E v \in Views : Choose(v)

PageNext ==
    \/ \E p \in posts, ok \in BOOLEAN : Staged(p, ok)
    \/ HearResult \/ Closes \/ Reconnects
    \/ \E r \in pending : TimesOut(r)

RoomNext ==
    \/ \E p \in posts : Stores(p)
    \/ \E r \in store : Evict(r)
    \/ RoomHears \/ Lapses
    \/ \E ok \in BOOLEAN : Result(ok)
    \/ \E r \in discards : Discards(r)

Next == DialogNext \/ PageNext \/ RoomNext

Spec == Init /\ [][Next]_vars

-----------------------------------------------------------------------------
(* Properties *)

\* What the dialog tells of a start is so: after a success the Task is there, after a
\* failure there is none, also not later, unless the page gave it up unheard.  A Task
\* that was started with a brief has it from its creation.
StartIsTrue ==
    /\ \A r \in DOMAIN req : req[r].way \in Starts \cup {"brief"} =>
         /\ req[r].way \in Starts /\ req[r].phase = "ok" => IsTask(r)
         /\ req[r].phase = "failed" /\ r \notin unheard => ~IsTask(r)
    /\ \A c \in created : c.brief = req[c.req].brief

\* A start that failed leaves no brief in the room, once nothing of it is on its way,
\* unless the page had no answer to the upload, or its request to discard was lost.
\* What startTaskWithBrief has staged it does not discard.
NoBriefIsLeft ==
    \A r \in store : req[r].phase = "failed" /\ ~IsTask(r) =>
        r \in discards \cup left \/ \E p \in posts : p.req = r

\* The conversations on show are those of the view that is chosen, whatever requests
\* for other views are answered late, unless a chosen project was carried over.
RowsAreOfTheView ==
    picker.mode = "continue" /\ picker.status = "ready" => picker.rows \subseteq {picker.view} \/ carried
=============================================================================
