------------------------- MODULE TaskSessionsProofs -------------------------
(***************************************************************************)
(* For any number of Humans, Tasks, requests, connections, streams and     *)
(* frames: what a Human gave to a Task at its start stays with it.         *)
(*                                                                         *)
(* A request has a number of its own, and whoever mentions the number      *)
(* means the same Task.  The rest is about the cancel: a Task is only      *)
(* created as prepared when every cancel of it has left the queue of the   *)
(* runtime, because the answer that creates it was given behind them.      *)
(***************************************************************************)
EXTENDS TaskSessions, TLAPS

-----------------------------------------------------------------------------
(* What the invariant says *)

\* The places that mention a request, each as <<number, operation, Task, Human>>.
InSlot == {<<s.ask, s.op, s.task, s.human>> : s \in {slot} \ {None}}
OfHumans ==
    {<<human[h].ask.ask, human[h].ask.op, human[h].ask.task, h>> :
        h \in {k \in Humans : human[k].ask # None}}
Numbered(c) == c.op # "cancel"
Queued ==
    {<<down[i].ask, down[i].op, down[i].task, down[i].human>> :
        i \in {j \in 1..Len(down) : Numbered(down[j])}}
Executing ==
    {<<b.control.ask, b.control.op, b.control.task, b.control.human>> :
        b \in {x \in {busy} \ {None} : Numbered(x.control)}}
Adopting == {<<a.ask, "prepare", a.task, a.human>> : a \in {adoption} \ {None}}
Admitting == {<<a.ask, "prepare", a.task, Owner[a.task]>> : a \in {admitting} \ {None}}
Mentioned == InSlot \cup OfHumans \cup Queued \cup Executing \cup Adopting \cup Admitting

Mention(x) ==
    /\ x[1] \in 1..asks
    /\ x[2] = "prepare" => x[3] \in Tasks /\ x[4] = Owner[x[3]]

OneMeaning ==
    /\ \A x \in Mentioned : Mention(x)
    /\ \A x, y \in Mentioned : x[1] = y[1] => x = y

\* A runtime that answers that it is prepared has been armed for the Task of the number.
Consents(r, a) == r.op = "prepare" /\ r.ok /\ r.ask = a

ConsentsAreTrue ==
    \A i \in 1..Len(up) : up[i].op = "prepare" /\ up[i].ok =>
        /\ up[i].ask \in 1..asks
        /\ \A x \in Mentioned : x[1] = up[i].ask => x[3] \in armed

\* A cancel of t
Cancels(c, t) == c.op = "cancel" /\ c.task = t
NoneQueued(t) == \A i \in 1..Len(down) : ~Cancels(down[i], t)
NoneExecuting(t) == busy # None /\ ~busy.done => ~Cancels(busy.control, t)

\* The preparation that the correlation waits for has every cancel of its Task in front.
Prepares(c, a) == c.op = "prepare" /\ c.ask = a
CancelsAreAhead ==
    slot # None /\ slot.op = "prepare" =>
        /\ \A i, j \in 1..Len(down) :
              i < j /\ Prepares(down[i], slot.ask) => ~Cancels(down[j], slot.task)
        /\ busy # None /\ Prepares(busy.control, slot.ask) => NoneQueued(slot.task)
        /\ \A i \in 1..Len(up) :
              Consents(up[i], slot.ask) => NoneQueued(slot.task) /\ NoneExecuting(slot.task)

\* Nobody cancels a Task that was created as prepared.
NotCancelled ==
    \A t \in continued :
        /\ NoneQueued(t) /\ NoneExecuting(t)
        /\ ~(slot # None /\ slot.op = "prepare" /\ slot.task = t)

\* What the room knows of its Tasks.
TasksAreKnown ==
    /\ withBrief \subseteq created /\ continued \subseteq created
    /\ warm => created \subseteq known
    /\ claims \subseteq seen

\* What the runtime knows of its scopes.
ScopesAreSeen ==
    /\ \A t \in Tasks \ seen : scope[t] = "none"
    /\ admitting # None => admitting.task \in seen /\ scope[admitting.task] = "none"

\* The claimed preparation of such a Task waits until the Task is bound to it.
ClaimIsHeld ==
    \A t \in continued \cap claims : scope[t] = "none" =>
        /\ IsFor(adoption, t) /\ adoption.claimed
        /\ admitting # None /\ admitting.task = t => admitting.ask = adoption.ask

IInv ==
    /\ TypeOK
    /\ OneMeaning /\ ConsentsAreTrue
    /\ CancelsAreAhead /\ NotCancelled
    /\ TasksAreKnown /\ ScopesAreSeen /\ ClaimIsHeld
    /\ StartStays

-----------------------------------------------------------------------------
(* Part 1: a number keeps its meaning *)

\* An action is a step of the room that is not a request, a request, or a step of the
\* runtime.
Quiet ==
    \/ \E t \in Tasks : Stage(t) \/ Discard(t)
    \/ \E h \in Humans : \/ \E t \in Tasks : Request(h, t)
                         \/ AskRefused(h) \/ Reconnect(h) \/ Leave(h)
    \/ Result \/ NewStream \/ Hibernate \/ Lapse
    \/ RuntimeNext
    \/ UNCHANGED vars

Asking == \E h \in Humans : (\E t \in Tasks : Ask(h, "prepare", t)) \/ Ask(h, "list", None)

LEMMA NextCases == [Next]_vars => Asking \/ Quiet
  BY DEF Next, RoomNext, Quiet, Asking

LEMMA SameMentions ==
    /\ UNCHANGED slot => InSlot' = InSlot
    /\ UNCHANGED human => OfHumans' = OfHumans
    /\ UNCHANGED down => Queued' = Queued
    /\ UNCHANGED busy => Executing' = Executing
    /\ UNCHANGED adoption => Adopting' = Adopting
    /\ UNCHANGED admitting => Admitting' = Admitting
<1>1. UNCHANGED slot => InSlot' = InSlot
  BY DEF InSlot
<1>2. UNCHANGED human => OfHumans' = OfHumans
  BY DEF OfHumans
<1>3. UNCHANGED down => Queued' = Queued
  BY DEF Queued
<1>4. UNCHANGED busy => Executing' = Executing
  BY DEF Executing
<1>5. UNCHANGED adoption => Adopting' = Adopting
  BY DEF Adopting
<1>6. UNCHANGED admitting => Admitting' = Admitting
  BY DEF Admitting
<1>7. QED
  BY <1>1, <1>2, <1>3, <1>4, <1>5, <1>6

\* What a step does to the places, if it is no request: a control moves from the queue to
\* its execution, into an adoption, and to the Task that is admitted.
Moves ==
    /\ asks' = asks
    /\ InSlot' \subseteq InSlot /\ OfHumans' \subseteq OfHumans /\ Queued' \subseteq Queued
    /\ Executing' \subseteq Executing \cup Queued
    /\ Adopting' \subseteq Adopting \cup Executing
    /\ Admitting' \subseteq Admitting \cup Adopting

LEMMA MovesKeepMentions == Moves => asks' = asks /\ Mentioned' \subseteq Mentioned
  BY DEF Moves, Mentioned

\* A human's record that is dropped, or only becomes late, mentions nothing new.
LEMMA HumanMoves ==
    ASSUME \A h \in Humans : human'[h].ask # None =>
              /\ human[h].ask # None
              /\ human'[h].ask.ask = human[h].ask.ask /\ human'[h].ask.op = human[h].ask.op
              /\ human'[h].ask.task = human[h].ask.task
    PROVE  OfHumans' \subseteq OfHumans
  BY DEF OfHumans

\* A frame that leaves or a cancel that joins the queue mentions nothing new.
LEMMA TailOfQueue ==
    ASSUME TypeOK, down # <<>>, down' = Tail(down)
    PROVE  Queued' \subseteq Queued
<1>1. \A i \in 1..Len(down') : i + 1 \in 1..Len(down) /\ down'[i] = down[i + 1]
  BY DEF TypeOK
<1>2. QED
  BY <1>1 DEF Queued

LEMMA CancelMentionsNothing ==
    ASSUME TypeOK, NEW h, NEW t, SendCancel(h, t)
    PROVE  Queued' \subseteq Queued
<1>1. /\ Len(down') = Len(down) + 1
      /\ \A i \in 1..Len(down) : down'[i] = down[i]
      /\ down'[Len(down')] = Cancel(h, t)
  BY DEF TypeOK, SendCancel
<1>2. \A i \in 1..Len(down') : Numbered(down'[i]) => i \in 1..Len(down)
  BY <1>1 DEF Numbered, Cancel, TypeOK
<1>3. QED
  BY <1>1, <1>2 DEF Queued

\* The steps of the room move nothing into an execution.
LEMMA RoomMoves ==
    ASSUME ConstantsFit, TypeOK,
           \/ \E t \in Tasks : Stage(t) \/ Discard(t)
           \/ \E h \in Humans : \/ \E t \in Tasks : Request(h, t)
                                \/ AskRefused(h) \/ Reconnect(h) \/ Leave(h)
           \/ Result \/ NewStream \/ Hibernate \/ Lapse
    PROVE  Moves
<1>1. ASSUME NEW t \in Tasks, Stage(t) PROVE Moves
  BY <1>1, SameMentions DEF Stage, Moves, agentvars, histories
<1>2. ASSUME NEW t \in Tasks, Discard(t) PROVE Moves
  <2>1. OfHumans' \subseteq OfHumans
    <3>1. \A k \in Humans : human'[k].ask # None => human'[k] = human[k]
      BY <1>2 DEF Discard, TypeOK, ConstantsFit, Sockets
    <3>2. QED
      BY <3>1, HumanMoves
  <2>2. InSlot' \subseteq InSlot
    BY <1>2 DEF Discard, InSlot
  <2>3. Queued' \subseteq Queued
    BY <1>2, SameMentions, CancelMentionsNothing DEF Discard
  <2>4. QED
    BY <1>2, <2>1, <2>2, <2>3, SameMentions DEF Discard, Moves, agentvars, histories
<1>3. ASSUME NEW h \in Humans, NEW t \in Tasks, Request(h, t) PROVE Moves
  BY <1>3, SameMentions DEF Request, Moves, agentvars
<1>4. ASSUME NEW h \in Humans, AskRefused(h) PROVE Moves
  <2>1. OfHumans' \subseteq OfHumans
    <3>1. \A k \in Humans : human'[k].ask # None => human'[k] = human[k]
      BY <1>4 DEF AskRefused, TypeOK, Sockets
    <3>2. QED
      BY <3>1, HumanMoves
  <2>2. QED
    BY <1>4, <2>1, SameMentions DEF AskRefused, Moves, agentvars, histories
<1>5. ASSUME NEW h \in Humans, Reconnect(h) \/ Leave(h) PROVE Moves
  <2>1. OfHumans' \subseteq OfHumans
    <3>1. \A k \in Humans : human'[k].ask # None => human'[k] = human[k]
      BY <1>5 DEF Reconnect, Leave, TypeOK, Sockets
    <3>2. QED
      BY <3>1, HumanMoves
  <2>2. QED
    BY <1>5, <2>1, SameMentions DEF Reconnect, Leave, Moves, agentvars, histories
<1>6. ASSUME Result PROVE Moves
  <2>1. OfHumans' \subseteq OfHumans
    <3>1. \A k \in Humans : human'[k].ask # None => human'[k] = human[k]
      BY <1>6 DEF Result, TypeOK, Sockets
    <3>2. QED
      BY <3>1, HumanMoves
  <2>2. InSlot' \subseteq InSlot
    BY <1>6 DEF Result, InSlot
  <2>3. UNCHANGED down \/ (\E h, t : SendCancel(h, t))
    BY <1>6 DEF Result
  <2>4. Queued' \subseteq Queued
    BY <2>3, SameMentions, CancelMentionsNothing
  <2>5. QED
    BY <1>6, <2>1, <2>2, <2>4, SameMentions DEF Result, Moves
<1>7. ASSUME NewStream PROVE Moves
  <2>1. InSlot' = {} /\ Queued' = {}
    BY <1>7 DEF NewStream, InSlot, Queued
  <2>2. QED
    BY <1>7, <2>1, SameMentions DEF NewStream, Moves
<1>8. ASSUME Hibernate PROVE Moves
  BY <1>8, SameMentions DEF Hibernate, Moves, agentvars, histories
<1>9. ASSUME Lapse PROVE Moves
  <2>1. OfHumans' \subseteq OfHumans
    <3>1. \A k \in Humans : human'[k].ask # None =>
            /\ human[k].ask # None
            /\ human'[k].ask.ask = human[k].ask.ask /\ human'[k].ask.op = human[k].ask.op
            /\ human'[k].ask.task = human[k].ask.task
      BY <1>9 DEF Lapse, TypeOK, Pending, Sockets
    <3>2. QED
      BY <3>1, HumanMoves
  <2>2. InSlot' \subseteq InSlot
    BY <1>9 DEF Lapse, InSlot, TypeOK, Slots
  <2>3. QED
    BY <1>9, <2>1, <2>2, SameMentions DEF Lapse, Moves, agentvars, histories
<1>10. QED
  BY <1>1, <1>2, <1>3, <1>4, <1>5, <1>6, <1>7, <1>8, <1>9

LEMMA RuntimeMoves ==
    ASSUME ConstantsFit, TypeOK, OneMeaning, RuntimeNext
    PROVE  Moves
<1>1. ASSUME Dispatch PROVE Moves
  <2>1. Queued' \subseteq Queued
    BY <1>1, TailOfQueue DEF Dispatch
  <2>2. Executing' \subseteq Executing \cup Queued
    <3>1. CASE busy = None
      <4>1. busy' = [control |-> Head(down), stream |-> streams, done |-> FALSE]
        BY <1>1, <3>1 DEF Dispatch
      <4>2. Head(down) = down[1] /\ 1 \in 1..Len(down)
        BY <1>1 DEF Dispatch, TypeOK
      <4>3. QED
        BY <4>1, <4>2 DEF Executing, Queued
    <3>2. CASE busy # None
      BY <1>1, <3>2, SameMentions DEF Dispatch
    <3>3. QED
      BY <3>1, <3>2
  <2>3. QED
    BY <1>1, <2>1, <2>2, SameMentions DEF Dispatch, Moves, histories
<1>2. ASSUME Execute PROVE Moves
  <2>1. Executing' \subseteq Executing
    BY <1>2 DEF Execute, Executing, TypeOK, Executions
  <2>2. Adopting' \subseteq Adopting \cup Executing
    <3>1. CASE busy.control.op = "prepare" /\ Arm(busy.control)
      BY <1>2, <3>1 DEF Execute, Arm, Adopting, Executing, Numbered
    <3>2. CASE UNCHANGED adoption \/ Release(busy.control)
      BY <3>2 DEF Release, Adopting
    <3>3. QED
      BY <1>2, <3>1, <3>2 DEF Execute, NotArmed
  <2>3. QED
    BY <1>2, <2>1, <2>2, SameMentions DEF Execute, Moves, roomvars
<1>3. ASSUME Idle PROVE Moves
  <2>1. Executing' = {}
    BY <1>3 DEF Idle, Executing
  <2>2. QED
    BY <1>3, <2>1, SameMentions DEF Idle, Moves, roomvars, histories
<1>4. ASSUME Bind PROVE Moves
  <2>1. Admitting' = {} /\ Adopting' \subseteq Adopting
    BY <1>4 DEF Bind, Admitting, Adopting
  <2>2. QED
    BY <1>4, <2>1, SameMentions DEF Bind, Moves, roomvars, histories
<1>5. ASSUME Age PROVE Moves
  <2>1. Adopting' \subseteq Adopting
    BY <1>5 DEF Age, Adopting, TypeOK, Adoptions
  <2>2. QED
    BY <1>5, <2>1, SameMentions DEF Age, Moves, roomvars, histories
<1>6. ASSUME NEW t \in Tasks, Deliver(t) PROVE Moves
  <2>1. Adopting' \subseteq Adopting
    BY <1>6 DEF Deliver, Claim, IsFor, Adopting, TypeOK, Adoptions
  <2>2. QED
    BY <1>6, <2>1, SameMentions DEF Deliver, Moves, roomvars
<1>7. ASSUME NEW t \in Tasks, Admit(t) PROVE Moves
  <2>1. Adopting' \subseteq Adopting
    BY <1>7 DEF Admit, Adopting
  <2>2. Admitting' \subseteq Admitting \cup Adopting
    <3>1. CASE UNCHANGED admitting
      BY <3>1, SameMentions
    <3>2. CASE IsFor(adoption, t) /\ admitting' = [task |-> t, ask |-> adoption.ask]
      BY <3>2 DEF IsFor, Admitting, Adopting
    <3>3. QED
      BY <1>7, <3>1, <3>2 DEF Admit, IsFor
  <2>3. QED
    BY <1>7, <2>1, <2>2, SameMentions DEF Admit, Moves, roomvars, histories
<1>8. ASSUME NEW t \in Tasks, Forget(t) PROVE Moves
  BY <1>8, SameMentions DEF Forget, Moves, roomvars
<1>9. QED
  BY <1>1, <1>2, <1>3, <1>4, <1>5, <1>6, <1>7, <1>8 DEF RuntimeNext

\* A request takes the next number.
LEMMA AskMentions ==
    ASSUME ConstantsFit, TypeOK, NEW h \in Humans, NEW op, NEW t, Ask(h, op, t),
           \/ op = "prepare" /\ t \in Tasks
           \/ op = "list" /\ t = None
    PROVE  /\ asks' = asks + 1
           /\ Mentioned' \subseteq Mentioned \cup {<<asks + 1, op, t, h>>}
           /\ op = "prepare" => h = Owner[t]
<1> DEFINE new == <<asks + 1, op, t, h>>
<1>1. asks' = asks + 1 /\ (op = "prepare" => h = Owner[t])
  BY DEF Ask
<1>2. InSlot' \subseteq {new}
  BY DEF Ask, InSlot
<1>3. OfHumans' \subseteq OfHumans \cup {new}
  <2>1. \A k \in Humans : k # h => human'[k] = human[k]
    BY DEF Ask, TypeOK
  <2>2. human'[h].ask = [ask |-> asks + 1, op |-> op, task |-> t, brief |-> t \in brief, late |-> FALSE]
    BY DEF Ask, TypeOK
  <2>3. QED
    BY <2>1, <2>2 DEF OfHumans
<1>4. Queued' \subseteq Queued \cup {new}
  <2>1. /\ Len(down') = Len(down) + 1 /\ Len(down) \in Nat
        /\ \A i \in 1..Len(down) : down'[i] = down[i]
        /\ down'[Len(down) + 1] = [op |-> op, ask |-> asks + 1, human |-> h, task |-> t]
    BY <1>1 DEF TypeOK, Ask
  <2>2. QED
    BY <2>1 DEF Queued
<1>5. Executing' = Executing /\ Adopting' = Adopting /\ Admitting' = Admitting
  BY SameMentions DEF Ask, agentvars
<1>6. QED
  BY <1>1, <1>2, <1>3, <1>4, <1>5 DEF Mentioned

LEMMA MeaningKept ==
    ASSUME ConstantsFit, TypeOK, OneMeaning, [Next]_vars
    PROVE  /\ OneMeaning' /\ asks <= asks' /\ asks \in Nat
           /\ \A x \in Mentioned' : x[1] <= asks => x \in Mentioned
<1>1. asks \in Nat
  BY DEF TypeOK, ConstantsFit
<1>2. CASE Quiet
  <2>1. Moves
    <3>1. UNCHANGED vars => Moves
      BY SameMentions DEF vars, roomvars, agentvars, histories, Moves
    <3>2. QED
      BY <1>2, <3>1, RoomMoves, RuntimeMoves DEF Quiet
  <2>2. asks' = asks /\ Mentioned' \subseteq Mentioned
    BY <2>1, MovesKeepMentions
  <2>3. OneMeaning'
    BY <2>2 DEF OneMeaning, Mention
  <2>4. QED
    BY <1>1, <2>2, <2>3
<1>3. ASSUME NEW h \in Humans, NEW op, NEW t, Ask(h, op, t),
             \/ op = "prepare" /\ t \in Tasks
             \/ op = "list" /\ t = None
      PROVE  OneMeaning' /\ asks' = asks + 1 /\ (\A x \in Mentioned' : x[1] <= asks => x \in Mentioned)
  <2> DEFINE new == <<asks + 1, op, t, h>>
  <2>1. asks' = asks + 1 /\ Mentioned' \subseteq Mentioned \cup {new}
    BY <1>3, AskMentions
  <2>2. op = "prepare" => t \in Tasks /\ h = Owner[t]
    BY <1>3, AskMentions
  <2>3. \A x \in Mentioned : x[1] \in 1..asks /\ Mention(x)
    BY DEF OneMeaning, Mention
  <2>4. new[1] = asks + 1 /\ new[2] = op /\ new[3] = t /\ new[4] = h
    OBVIOUS
  <2> HIDE DEF new
  <2>5. \A x \in Mentioned' : Mention(x)'
    BY <1>1, <2>1, <2>2, <2>3, <2>4 DEF Mention
  <2>6. \A x, y \in Mentioned' : x[1] = y[1] => x = y
    BY <1>1, <2>1, <2>3, <2>4 DEF OneMeaning
  <2>7. QED
    BY <1>1, <2>1, <2>3, <2>4, <2>5, <2>6 DEF OneMeaning
<1>4. CASE Asking
  BY <1>1, <1>3, <1>4 DEF Asking
<1>5. QED
  BY <1>2, <1>4, NextCases

-----------------------------------------------------------------------------
(* Part 2: types *)

LEMMA QueueTypes ==
    ASSUME TypeOK, NEW S, NEW q \in Seq(S), NEW x \in S
    PROVE  Append(q, x) \in Seq(S) /\ (q # <<>> => Tail(q) \in Seq(S) /\ Head(q) \in S)
  OBVIOUS

\* What the room sends as a cancel
LEMMA CancelTypes ==
    ASSUME TypeOK, NEW h \in Humans, NEW t \in Tasks \cup {None}, SendCancel(h, t)
    PROVE  down' \in Seq(Controls)
<1>1. Cancel(h, t) \in Controls
  BY DEF Cancel, Controls
<1>2. QED
  BY <1>1, QueueTypes DEF SendCancel, TypeOK

\* A reply of the runtime
LEMMA ReplyTypes ==
    ASSUME TypeOK, NEW stream, NEW op \in {"list", "prepare", "cancel"},
           NEW a \in Asks \cup {None}, NEW ok \in BOOLEAN, Reply(stream, op, a, ok)
    PROVE  up' \in Seq(Results)
<1>1. [op |-> op, ask |-> a, ok |-> ok] \in Results
  BY DEF Results
<1>2. up \in Seq(Results)
  BY DEF TypeOK
<1>3. Append(up, [op |-> op, ask |-> a, ok |-> ok]) \in Seq(Results)
  BY <1>1, <1>2, QueueTypes
<1>4. QED
  BY <1>2, <1>3 DEF Reply

\* A control that prepares names a Task of its Human.
LEMMA PrepareHasTask ==
    ASSUME ConstantsFit, TypeOK, OneMeaning, busy # None, busy.control.op = "prepare"
    PROVE  /\ busy.control.ask \in Asks /\ busy.control.ask \in 1..asks
           /\ busy.control.task \in Tasks /\ busy.control.human = Owner[busy.control.task]
<1> DEFINE x == <<busy.control.ask, busy.control.op, busy.control.task, busy.control.human>>
<1>1. x \in Mentioned
  BY DEF Mentioned, Executing, Numbered
<1>2. Mention(x)
  BY <1>1 DEF OneMeaning
<1>3. busy.control.ask \in 1..asks
  BY <1>2 DEF Mention
<1>4. busy.control.ask \in Asks
  BY <1>3 DEF Asks, TypeOK, ConstantsFit
<1>5. QED
  BY <1>2, <1>3, <1>4 DEF Mention

\* So does a correlation, and the Human's record of the same number is about it too.
LEMMA SlotHasTask ==
    ASSUME TypeOK, OneMeaning, slot # None, slot.op = "prepare"
    PROVE  slot.task \in Tasks /\ slot.human = Owner[slot.task] /\ slot.ask \in 1..asks
<1> DEFINE x == <<slot.ask, slot.op, slot.task, slot.human>>
<1>1. x \in Mentioned
  BY DEF Mentioned, InSlot
<1>2. QED
  BY <1>1 DEF OneMeaning, Mention

LEMMA OriginatorAgrees ==
    ASSUME ConstantsFit, TypeOK, OneMeaning, slot # None, Originator(slot) # None
    PROVE  /\ Originator(slot) = human[slot.human].ask /\ Originator(slot) \in Pending
           /\ Originator(slot).task = slot.task /\ Originator(slot).op = slot.op
           /\ Originator(slot).ask = slot.ask /\ slot.human \in Humans
<1>1. slot.human \in Humans
  BY DEF TypeOK, Slots
<1>2. /\ Originator(slot) = human[slot.human].ask /\ human[slot.human].ask.ask = slot.ask
      /\ human[slot.human].ask # None
  BY DEF Originator
<1>3. Originator(slot) \in Pending
  BY <1>1, <1>2 DEF TypeOK, Sockets
<1> DEFINE x == <<slot.ask, slot.op, slot.task, slot.human>>
           y == <<human[slot.human].ask.ask, human[slot.human].ask.op,
                  human[slot.human].ask.task, slot.human>>
<1>4. x \in Mentioned /\ y \in Mentioned
  BY <1>1, <1>2 DEF Mentioned, InSlot, OfHumans
<1>5. x[1] = y[1]
  BY <1>2
<1>6. x = y
  BY <1>4, <1>5 DEF OneMeaning
<1>7. QED
  BY <1>1, <1>2, <1>3, <1>6

\* The record of a Human's socket is replaced, or its request is dropped or changed.
LEMMA SocketTypes ==
    ASSUME TypeOK, NEW h \in Humans
    PROVE  /\ \A s \in Sockets : [human EXCEPT ![h] = s] \in [Humans -> Sockets]
           /\ [human EXCEPT ![h].ask = None] \in [Humans -> Sockets]
           /\ \A v \in Pending \cup {None} : [human EXCEPT ![h].ask = v] \in [Humans -> Sockets]
           /\ [human EXCEPT ![h].open = FALSE, ![h].ask = None] \in [Humans -> Sockets]
           /\ human[h].ask # None => [human EXCEPT ![h].ask.late = TRUE] \in [Humans -> Sockets]
<1>1. human \in [Humans -> Sockets] /\ human[h] \in Sockets
  BY DEF TypeOK
<1>2. \A s \in Sockets : [human EXCEPT ![h] = s] \in [Humans -> Sockets]
  BY <1>1
<1>3. \A v \in Pending \cup {None} : [human[h] EXCEPT !.ask = v] \in Sockets
  BY <1>1 DEF Sockets
<1>4. [[human[h] EXCEPT !.open = FALSE] EXCEPT !.ask = None] \in Sockets
  BY <1>1 DEF Sockets
<1>5. human[h].ask # None => [human[h].ask EXCEPT !.late = TRUE] \in Pending
  BY <1>1 DEF Sockets, Pending
<1>6. \A v \in Pending \cup {None} : [human EXCEPT ![h].ask = v] \in [Humans -> Sockets]
  BY <1>1, <1>3
<1>7. [human EXCEPT ![h].open = FALSE, ![h].ask = None] \in [Humans -> Sockets]
  BY <1>1 DEF Sockets
<1>8. human[h].ask # None => [human EXCEPT ![h].ask.late = TRUE] \in [Humans -> Sockets]
  BY <1>1, <1>3, <1>5
<1>9. QED
  BY <1>2, <1>6, <1>7, <1>8

LEMMA RoomTypes ==
    ASSUME ConstantsFit, TypeOK, OneMeaning, RoomNext
    PROVE  TypeOK'
<1> USE DEF ConstantsFit
<1>1. ASSUME NEW t \in Tasks, Stage(t) PROVE TypeOK'
  BY <1>1 DEF Stage, TypeOK, agentvars, histories
<1>2. ASSUME NEW t \in Tasks, Discard(t) PROVE TypeOK'
  <2>1. Known \subseteq Tasks
    BY DEF TypeOK, Known
  <2>2. down' \in Seq(Controls)
    BY <1>2, CancelTypes DEF Discard, TypeOK
  <2>3. /\ brief' \subseteq Tasks /\ slot' \in Slots \cup {None}
        /\ human' \in [Humans -> Sockets]
    <3>1. Owner[t] \in Humans
      BY DEF ConstantsFit
    <3>2. human' = human \/ human' = [human EXCEPT ![Owner[t]].ask = None]
      BY <1>2 DEF Discard
    <3>3. human' \in [Humans -> Sockets]
      <4>1. [human EXCEPT ![Owner[t]].ask = None] \in [Humans -> Sockets]
        BY <3>1, SocketTypes
      <4>2. human \in [Humans -> Sockets]
        BY DEF TypeOK
      <4>3. QED
        BY <3>2, <4>1, <4>2
    <3>4. brief' \subseteq Tasks /\ slot' \in Slots \cup {None}
      BY <1>2 DEF Discard, TypeOK
    <3>5. QED
      BY <3>3, <3>4
  <2>4. QED
    BY <1>2, <2>1, <2>2, <2>3 DEF Discard, TypeOK, agentvars, histories, WarmUp
<1>3. ASSUME NEW h \in Humans, NEW op \in {"list", "prepare"}, NEW t \in Tasks \cup {None}, Ask(h, op, t)
      PROVE  TypeOK'
  <2>1. asks' \in Asks /\ asks' = asks + 1 /\ asks' \in 0..MaxAsks
    <3>1. asks' = asks + 1 /\ asks < MaxAsks
      BY <1>3 DEF Ask
    <3>2. asks \in 0..MaxAsks
      BY DEF TypeOK
    <3>3. QED
      BY <3>1, <3>2 DEF Asks
  <2>2. slot' \in Slots
    BY <1>3, <2>1 DEF Ask, TypeOK, Slots, Sockets
  <2>3. human' \in [Humans -> Sockets]
    <3>1. [ask |-> asks', op |-> op, task |-> t, brief |-> t \in brief, late |-> FALSE] \in Pending
      BY <2>1 DEF Pending
    <3>2. QED
      BY <1>3, <3>1, SocketTypes DEF Ask
  <2>4. down' \in Seq(Controls)
    <3>1. [op |-> op, ask |-> asks', human |-> h, task |-> t] \in Controls
      BY <2>1 DEF Controls
    <3>2. QED
      BY <1>3, <3>1, QueueTypes DEF Ask, TypeOK
  <2>5. known' \subseteq Tasks /\ warm' \in BOOLEAN
    BY <1>3 DEF Ask, WarmUp, Known, TypeOK
  <2>6. QED
    BY <1>3, <2>1, <2>2, <2>3, <2>4, <2>5 DEF Ask, TypeOK, agentvars
<1>4. ASSUME NEW h \in Humans, AskRefused(h) PROVE TypeOK'
  <2>1. known' \subseteq Tasks /\ warm' \in BOOLEAN
    BY <1>4 DEF AskRefused, WarmUp, Known, TypeOK
  <2>2. human' \in [Humans -> Sockets]
    <3>1. human' = human \/ human' = [human EXCEPT ![h].ask = None]
      BY <1>4 DEF AskRefused
    <3>2. [human EXCEPT ![h].ask = None] \in [Humans -> Sockets]
      BY SocketTypes
    <3>3. human \in [Humans -> Sockets]
      BY DEF TypeOK
    <3>4. QED
      BY <3>1, <3>2, <3>3
  <2>3. QED
    BY <1>4, <2>1, <2>2 DEF AskRefused, TypeOK, agentvars, histories
<1>5. ASSUME NEW h \in Humans, NEW t \in Tasks, Request(h, t) PROVE TypeOK'
  <2>1. /\ known' \subseteq Tasks /\ warm' \in BOOLEAN /\ withBrief' \subseteq Tasks
        /\ created' \subseteq Tasks /\ created \subseteq created'
    BY <1>5 DEF Request, CreateTask, CreateRefused, WarmUp, Known, TypeOK
  <2>2. QED
    BY <1>5, <2>1 DEF Request, TypeOK, agentvars
<1>6. ASSUME NEW h \in Humans, Reconnect(h) PROVE TypeOK'
  <2>1. [nonce |-> human[h].nonce + 1, open |-> TRUE, ask |-> None]
           \in Sockets
    BY <1>6 DEF Reconnect, TypeOK, Nonces, Sockets
  <2>2. human' \in [Humans -> Sockets]
    BY <1>6, <2>1, SocketTypes DEF Reconnect
  <2>3. QED
    BY <1>6, <2>2 DEF Reconnect, TypeOK, agentvars, histories
<1>7. ASSUME NEW h \in Humans, Leave(h) PROVE TypeOK'
  <2>1. human' \in [Humans -> Sockets]
    BY <1>7, SocketTypes DEF Leave
  <2>2. QED
    BY <1>7, <2>1 DEF Leave, TypeOK, agentvars, histories
<1>8. ASSUME Result PROVE TypeOK'
  <2>1. up' \in Seq(Results)
    BY <1>8, QueueTypes DEF Result, TypeOK
  <2>2. CASE ~Matches(Head(up))
    BY <1>8, <2>1, <2>2 DEF Result, TypeOK
  <2>3. CASE Matches(Head(up))
    <3>1. slot # None /\ slot' = None /\ slot.human \in Humans /\ slot.task \in Tasks \cup {None}
      BY <1>8, <2>3 DEF Result, Matches, TypeOK, Slots
    <3>2. human' \in [Humans -> Sockets]
      <4>1. human' = human \/ human' = [human EXCEPT ![slot.human].ask = None]
        BY <1>8 DEF Result
      <4>2. [human EXCEPT ![slot.human].ask = None] \in [Humans -> Sockets]
        BY <3>1, SocketTypes
      <4>3. human \in [Humans -> Sockets]
        BY DEF TypeOK
      <4>4. QED
        BY <4>1, <4>2, <4>3
    <3>3. Originator(slot) # None => Originator(slot).task = slot.task
      BY <3>1, OriginatorAgrees
    <3>4. down' \in Seq(Controls)
      <4>1. UNCHANGED down \/ SendCancel(slot.human, slot.task)
        BY <1>8, <2>3, <3>3 DEF Result
      <4>2. QED
        BY <3>1, <4>1, CancelTypes DEF TypeOK
    <3>5. /\ created' \subseteq Tasks /\ known' \subseteq Tasks /\ warm' \in BOOLEAN
          /\ continued' \subseteq Tasks /\ withBrief' \subseteq Tasks /\ created \subseteq created'
      <4>1. CASE UNCHANGED <<created, known, warm, continued, withBrief>>
        BY <4>1 DEF TypeOK
      <4>2. CASE /\ slot.op # "list" /\ Originator(slot) # None
                 /\ \/ \E b : CreateTask(slot.task, b) /\ continued' = continued \cup {slot.task}
                    \/ /\ UNCHANGED continued
                       /\ \/ CreateRefused(slot.task)
                          \/ WarmUp(Known) /\ UNCHANGED <<created, withBrief>>
        <5>1. slot.op = "prepare"
          BY <3>1, <4>2 DEF TypeOK, Slots
        <5>2. slot.task \in Tasks
          BY <3>1, <5>1, SlotHasTask
        <5>3. QED
          BY <4>2, <5>2 DEF CreateTask, CreateRefused, WarmUp, Known, TypeOK
      <4>3. QED
        BY <1>8, <2>3, <3>3, <4>1, <4>2 DEF Result
    <3>6. QED
      BY <1>8, <2>1, <3>1, <3>2, <3>4, <3>5 DEF Result, TypeOK
  <2>4. QED
    BY <2>2, <2>3
<1>9. ASSUME NewStream PROVE TypeOK'
  BY <1>9 DEF NewStream, TypeOK
<1>10. ASSUME Hibernate PROVE TypeOK'
  BY <1>10 DEF Hibernate, TypeOK, agentvars, histories
<1>11. ASSUME Lapse PROVE TypeOK'
  <2>1. /\ slot' \in Slots \cup {None}
        /\ human' \in [Humans -> Sockets]
    <3>1. slot' \in Slots \cup {None}
      <4>1. slot' = slot \/ (slot # None /\ slot' = [slot EXCEPT !.late = TRUE])
        BY <1>11 DEF Lapse
      <4>2. slot \in Slots \cup {None}
        BY DEF TypeOK
      <4>3. QED
        BY <4>1, <4>2 DEF Slots
    <3>2. human' \in [Humans -> Sockets]
      <4>1. human' = human \/ (\E h \in Humans : /\ human[h].ask # None
                                                /\ human' = [human EXCEPT ![h].ask.late = TRUE])
        BY <1>11 DEF Lapse
      <4>2. human \in [Humans -> Sockets]
        BY DEF TypeOK
      <4>3. ASSUME NEW h \in Humans, human[h].ask # None, human' = [human EXCEPT ![h].ask.late = TRUE]
            PROVE  human' \in [Humans -> Sockets]
        BY <4>3, SocketTypes
      <4>4. QED
        BY <4>1, <4>2, <4>3
    <3>3. QED
      BY <3>1, <3>2
  <2>2. QED
    BY <1>11, <2>1 DEF Lapse, TypeOK, agentvars, histories
<1>12. QED
  BY <1>1, <1>2, <1>3, <1>4, <1>5, <1>6, <1>7, <1>8, <1>9, <1>10, <1>11 DEF RoomNext

LEMMA RuntimeTypes ==
    ASSUME ConstantsFit, TypeOK, OneMeaning, RuntimeNext
    PROVE  TypeOK'
<1> USE DEF ConstantsFit
<1>1. ASSUME Dispatch PROVE TypeOK'
  <2>1. Head(down) \in Controls /\ down' \in Seq(Controls)
    BY <1>1, QueueTypes DEF Dispatch, TypeOK
  <2>2. busy' \in Executions \cup {None} /\ up' \in Seq(Results)
    <3>1. CASE busy = None
      <4>1. busy' = [control |-> Head(down), stream |-> streams, done |-> FALSE] /\ up' = up
        BY <1>1, <3>1 DEF Dispatch
      <4>2. streams \in 1..MaxStreams /\ up \in Seq(Results)
        BY DEF TypeOK
      <4>3. QED
        BY <2>1, <4>1, <4>2 DEF Executions
    <3>2. CASE busy # None
      <4>1. Head(down).op \in {"list", "prepare", "cancel"} /\ Head(down).ask \in Asks \cup {None}
        BY <2>1 DEF Controls
      <4>2. QED
        BY <1>1, <3>2, <4>1, ReplyTypes DEF Dispatch, TypeOK
    <3>3. QED
      BY <3>1, <3>2
  <2>3. QED
    BY <1>1, <2>1, <2>2 DEF Dispatch, TypeOK, histories
<1>2. ASSUME Execute PROVE TypeOK'
  <2>1. /\ busy \in Executions /\ busy.control \in Controls
        /\ busy.control.op \in {"list", "prepare", "cancel"}
        /\ busy.control.ask \in Asks \cup {None}
    BY <1>2 DEF Execute, TypeOK, Executions, Controls
  <2>2. busy' \in Executions
    BY <1>2, <2>1 DEF Execute, Executions
  <2>3. up' \in Seq(Results)
    <3>1. UNCHANGED up \/ (\E op \in {"list", "prepare", "cancel"}, ok \in BOOLEAN :
                              Reply(busy.stream, op, busy.control.ask, ok))
      BY <1>2 DEF Execute, Arm, NotArmed, Release
    <3>2. up \in Seq(Results)
      BY DEF TypeOK
    <3>3. ASSUME NEW op \in {"list", "prepare", "cancel"}, NEW ok \in BOOLEAN,
                 Reply(busy.stream, op, busy.control.ask, ok)
          PROVE  up' \in Seq(Results)
      BY <2>1, <3>3, ReplyTypes
    <3>4. QED
      BY <3>1, <3>2, <3>3
  <2>4. adoption' \in Adoptions \cup {None} /\ armed' \subseteq Tasks
    <3>1. CASE busy.control.op = "prepare" /\ Arm(busy.control)
      <4>1. busy.control.ask \in Asks /\ busy.control.task \in Tasks /\ busy.control.human \in Humans
        BY <1>2, <3>1, PrepareHasTask DEF Execute
      <4>2. seen \subseteq Tasks
        BY DEF TypeOK
      <4>3. QED
        BY <3>1, <4>1, <4>2 DEF Arm, TypeOK, Adoptions
    <3>2. CASE UNCHANGED <<adoption, armed>> \/ Release(busy.control)
      BY <3>2 DEF Release, TypeOK
    <3>3. QED
      BY <1>2, <3>1, <3>2 DEF Execute, NotArmed
  <2>5. QED
    BY <1>2, <2>2, <2>3, <2>4 DEF Execute, TypeOK, roomvars
<1>3. ASSUME Idle PROVE TypeOK'
  BY <1>3 DEF Idle, TypeOK, roomvars, histories
<1>4. ASSUME Bind PROVE TypeOK'
  <2>1. admitting.task \in Tasks
    BY <1>4 DEF Bind, TypeOK, Admissions
  <2>2. QED
    BY <1>4, <2>1 DEF Bind, TypeOK, roomvars, histories
<1>5. ASSUME Age PROVE TypeOK'
  BY <1>5 DEF Age, TypeOK, Adoptions, roomvars, histories
<1>6. ASSUME NEW t \in Tasks, Deliver(t) PROVE TypeOK'
  <2>1. adoption' \in Adoptions \cup {None}
    BY <1>6 DEF Deliver, Claim, IsFor, TypeOK, Adoptions
  <2>2. QED
    BY <1>6, <2>1 DEF Deliver, TypeOK, roomvars
<1>7. ASSUME NEW t \in Tasks, Admit(t) PROVE TypeOK'
  <2>1. adoption' \in Adoptions \cup {None} /\ declined' \subseteq Tasks
    BY <1>7 DEF Admit, TypeOK, Adoptions
  <2>2. /\ scope' \in [Tasks -> {"none", "adopted", "failed", "declined", "fresh"}]
        /\ admitting' \in Admissions \cup {None}
    BY <1>7 DEF Admit, IsFor, TypeOK, Adoptions, Admissions
  <2>3. QED
    BY <1>7, <2>1, <2>2 DEF Admit, TypeOK, roomvars, histories
<1>8. ASSUME NEW t \in Tasks, Forget(t) PROVE TypeOK'
  BY <1>8 DEF Forget, TypeOK, roomvars
<1>9. QED
  BY <1>1, <1>2, <1>3, <1>4, <1>5, <1>6, <1>7, <1>8 DEF RuntimeNext

LEMMA TypesKept ==
    ASSUME ConstantsFit, TypeOK, OneMeaning, [Next]_vars
    PROVE  TypeOK'
<1>1. UNCHANGED vars => TypeOK'
  BY DEF vars, roomvars, agentvars, histories, TypeOK
<1>2. QED
  BY <1>1, RoomTypes, RuntimeTypes DEF Next

-----------------------------------------------------------------------------
(* Part 3: consents and cancels *)

\* The runtime consents to a preparation by being armed for it.
Arms(a) == Execute /\ busy.control.op = "prepare" /\ Arm(busy.control) /\ a = busy.control.ask

LEMMA LastAppended ==
    ASSUME NEW S, NEW q \in Seq(S), NEW x
    PROVE  \A i \in 1..Len(Append(q, x)) :
              Append(q, x)[i] = x \/ (\E j \in 1..Len(q) : Append(q, x)[i] = q[j])
<1>1. /\ Len(Append(q, x)) = Len(q) + 1 /\ Len(q) \in Nat
      /\ \A i \in 1..Len(q) : Append(q, x)[i] = q[i]
      /\ Append(q, x)[Len(q) + 1] = x
  OBVIOUS
<1>2. QED
  BY <1>1

LEMMA NewConsents ==
    ASSUME ConstantsFit, TypeOK, [Next]_vars
    PROVE  /\ armed \subseteq armed'
           /\ \A i \in 1..Len(up') : up'[i].op = "prepare" /\ up'[i].ok =>
                 (\E j \in 1..Len(up) : up'[i] = up[j]) \/ Arms(up'[i].ask)
<1>1. CASE UNCHANGED <<up, armed>>
  BY <1>1
<1>2. CASE Result
  <2>1. \A i \in 1..Len(up') : i + 1 \in 1..Len(up) /\ up'[i] = up[i + 1]
    BY <1>2 DEF Result, TypeOK
  <2>2. QED
    BY <1>2, <2>1 DEF Result
<1>3. CASE NewStream
  BY <1>3 DEF NewStream
<1>4. CASE Dispatch
  <2>1. UNCHANGED up \/ (\E op, a : up' = Append(up, [op |-> op, ask |-> a, ok |-> FALSE]))
    BY <1>4 DEF Dispatch, Reply
  <2>2. armed' = armed /\ up \in Seq(Results)
    BY <1>4 DEF Dispatch, histories, TypeOK
  <2>3. CASE UNCHANGED up
    BY <2>2, <2>3
  <2>4. ASSUME NEW op, NEW a, up' = Append(up, [op |-> op, ask |-> a, ok |-> FALSE])
        PROVE  \A i \in 1..Len(up') : up'[i].ok => \E j \in 1..Len(up) : up'[i] = up[j]
    BY <2>2, <2>4, LastAppended
  <2>5. QED
    BY <2>1, <2>2, <2>3, <2>4
<1>5. CASE Execute
  <2>1. UNCHANGED up \/ (\E op, a, ok : /\ up' = Append(up, [op |-> op, ask |-> a, ok |-> ok])
                                        /\ op = "prepare" /\ ok => Arms(a))
    BY <1>5 DEF Execute, Arm, NotArmed, Release, Reply, Arms
  <2>2. armed \subseteq armed' /\ up \in Seq(Results)
    BY <1>5 DEF Execute, Arm, NotArmed, Release, TypeOK
  <2>3. CASE UNCHANGED up
    BY <2>2, <2>3
  <2>4. ASSUME NEW op, NEW a, NEW ok, up' = Append(up, [op |-> op, ask |-> a, ok |-> ok]),
               op = "prepare" /\ ok => Arms(a)
        PROVE  \A i \in 1..Len(up') : up'[i].op = "prepare" /\ up'[i].ok =>
                  (\E j \in 1..Len(up) : up'[i] = up[j]) \/ Arms(up'[i].ask)
    BY <2>2, <2>4, LastAppended
  <2>5. QED
    BY <2>1, <2>2, <2>3, <2>4
<1>6. CASE UNCHANGED vars
  BY <1>6, <1>1 DEF vars, agentvars, histories
<1>7. CASE RoomNext
  BY <1>7, <1>1, <1>2, <1>3
     DEF RoomNext, Stage, Discard, Ask, Request, AskRefused, Reconnect, Leave, Hibernate, Lapse,
         agentvars, histories
<1>8. CASE RuntimeNext
  BY <1>8, <1>1, <1>4, <1>5 DEF RuntimeNext, Idle, Bind, Age, Deliver, Admit, Forget, histories
<1>9. QED
  BY <1>6, <1>7, <1>8 DEF Next

LEMMA ConsentsKept ==
    ASSUME ConstantsFit, TypeOK, OneMeaning, ConsentsAreTrue, [Next]_vars
    PROVE  ConsentsAreTrue'
<1> SUFFICES ASSUME NEW i \in 1..Len(up'), up'[i].op = "prepare", up'[i].ok
             PROVE  /\ up'[i].ask \in 1..asks'
                    /\ \A x \in Mentioned' : x[1] = up'[i].ask => x[3] \in armed'
  BY DEF ConsentsAreTrue
<1>1. asks \in Nat /\ asks' \in Nat /\ asks <= asks' /\ armed \subseteq armed'
  <2>1. asks \in Nat /\ asks <= asks'
    BY MeaningKept
  <2>2. armed \subseteq armed'
    BY NewConsents
  <2>3. TypeOK'
    BY TypesKept
  <2>4. asks' \in Nat
    BY <2>3 DEF TypeOK, ConstantsFit
  <2>5. QED
    BY <2>1, <2>2, <2>4
<1>2. CASE \E j \in 1..Len(up) : up'[i] = up[j]
  <2>1. /\ up'[i].ask \in 1..asks
        /\ \A x \in Mentioned : x[1] = up'[i].ask => x[3] \in armed
    BY <1>2 DEF ConsentsAreTrue
  <2>2. QED
    BY <1>1, <2>1, MeaningKept
<1>3. CASE Arms(up'[i].ask)
  <2> DEFINE m == <<busy.control.ask, busy.control.op, busy.control.task, busy.control.human>>
  <2>1. busy # None /\ busy.control.op = "prepare" /\ busy.control.ask = up'[i].ask
        /\ busy.control.task \in armed'
    BY <1>3 DEF Arms, Execute, Arm
  <2>2. m \in Mentioned
    BY <2>1 DEF Mentioned, Executing, Numbered
  <2>3. up'[i].ask \in 1..asks
    BY <2>1, PrepareHasTask
  <2>4. \A x \in Mentioned : x[1] = up'[i].ask => x = m
    BY <2>1, <2>2 DEF OneMeaning
  <2>5. m[3] = busy.control.task
    OBVIOUS
  <2> HIDE DEF m
  <2>6. QED
    BY <1>1, <2>1, <2>3, <2>4, <2>5, MeaningKept
<1>4. QED
  BY <1>2, <1>3, NewConsents

\* Whoever waits for an answer keeps waiting for the same preparation.
SameSlot ==
    slot' # None =>
        slot # None /\ slot'.op = slot.op /\ slot'.ask = slot.ask /\ slot'.task = slot.task

LEMMA NothingSent ==
    ASSUME CancelsAreAhead, NotCancelled, SameSlot, UNCHANGED <<down, busy, up, continued>>
    PROVE  CancelsAreAhead' /\ NotCancelled'
<1>1. \A t : NoneQueued(t)' <=> NoneQueued(t)
  BY DEF NoneQueued
<1>2. \A t : NoneExecuting(t)' <=> NoneExecuting(t)
  BY DEF NoneExecuting
<1>3. CancelsAreAhead'
  BY <1>1, <1>2 DEF CancelsAreAhead, SameSlot
<1>4. NotCancelled'
  BY <1>1, <1>2 DEF NotCancelled, SameSlot
<1>5. QED
  BY <1>3, <1>4

\* The control of a number that was not given yet is nowhere.
LEMMA NextNumberIsNew ==
    ASSUME TypeOK, ConstantsFit, OneMeaning, ConsentsAreTrue
    PROVE  /\ \A i \in 1..Len(down) : ~Prepares(down[i], asks + 1)
           /\ busy # None => ~Prepares(busy.control, asks + 1)
           /\ \A i \in 1..Len(up) : ~Consents(up[i], asks + 1)
<1>1. asks \in Nat
  BY DEF TypeOK, ConstantsFit
<1>2. \A x \in Mentioned : x[1] <= asks
  BY <1>1 DEF OneMeaning, Mention
<1>3. ASSUME NEW i \in 1..Len(down), Prepares(down[i], asks + 1) PROVE FALSE
  <2> DEFINE x == <<down[i].ask, down[i].op, down[i].task, down[i].human>>
  <2>1. x \in Mentioned /\ x[1] = asks + 1
    BY <1>3 DEF Mentioned, Queued, Numbered, Prepares
  <2>2. QED
    BY <1>1, <1>2, <2>1
<1>4. ASSUME busy # None, Prepares(busy.control, asks + 1) PROVE FALSE
  <2>1. busy.control.ask \in 1..asks
    BY <1>4, PrepareHasTask DEF Prepares
  <2>2. QED
    BY <1>1, <1>4, <2>1 DEF Prepares
<1>5. ASSUME NEW i \in 1..Len(up), Consents(up[i], asks + 1) PROVE FALSE
  BY <1>1, <1>5 DEF Consents, ConsentsAreTrue
<1>6. QED
  BY <1>3, <1>4, <1>5

LEMMA AskCancels ==
    ASSUME IInv, ConstantsFit, NEW h, NEW op \in {"list", "prepare"}, NEW t, Ask(h, op, t)
    PROVE  CancelsAreAhead' /\ NotCancelled'
<1>1. /\ TypeOK /\ OneMeaning /\ ConsentsAreTrue /\ NotCancelled /\ TasksAreKnown
  BY DEF IInv
<1>2. /\ slot'.ask = asks + 1 /\ slot'.op = op /\ slot'.task = t
      /\ busy' = busy /\ up' = up /\ continued' = continued
      /\ op = "prepare" => t \notin Known
  BY DEF Ask, agentvars
<1>3. /\ Len(down') = Len(down) + 1 /\ Len(down) \in Nat
      /\ \A i \in 1..Len(down) : down'[i] = down[i]
      /\ down'[Len(down) + 1].op = op
  BY <1>1 DEF Ask, TypeOK
<1>4. /\ \A i \in 1..Len(down) : ~Prepares(down[i], asks + 1)
      /\ busy # None => ~Prepares(busy.control, asks + 1)
      /\ \A i \in 1..Len(up) : ~Consents(up[i], asks + 1)
  BY <1>1, NextNumberIsNew
<1>5. CancelsAreAhead'
  <2>1. \A i, j \in 1..Len(down') : i < j => ~Prepares(down'[i], slot'.ask)
    BY <1>2, <1>3, <1>4
  <2>2. QED
    BY <1>2, <1>4, <2>1 DEF CancelsAreAhead
<1>6. ASSUME NEW u \in continued
      PROVE  /\ NoneQueued(u)' /\ NoneExecuting(u)'
             /\ ~(slot' # None /\ slot'.op = "prepare" /\ slot'.task = u)
  <2>1. NoneQueued(u) /\ NoneExecuting(u) /\ u \in created
    BY <1>1 DEF NotCancelled, TasksAreKnown
  <2>2. u \in Known
    BY <1>1, <2>1 DEF Known, TasksAreKnown
  <2>3. NoneQueued(u)'
    BY <1>3, <2>1 DEF NoneQueued, Cancels
  <2>4. NoneExecuting(u)'
    BY <1>2, <2>1 DEF NoneExecuting
  <2>5. QED
    BY <1>2, <2>2, <2>3, <2>4
<1>7. QED
  BY <1>2, <1>5, <1>6 DEF NotCancelled

\* A cancel joins the queue; nobody waits for its Task any more.
LEMMA CancelSent ==
    ASSUME TypeOK, CancelsAreAhead, NotCancelled, NEW h, NEW t, t \notin continued, SendCancel(h, t),
           UNCHANGED <<busy, up, continued>>,
           slot' = None \/ (slot' = slot /\ (slot # None /\ slot.op = "prepare" => slot.task # t))
    PROVE  CancelsAreAhead' /\ NotCancelled'
<1>1. /\ Len(down') = Len(down) + 1 /\ Len(down) \in Nat
      /\ \A i \in 1..Len(down) : down'[i] = down[i]
      /\ down'[Len(down) + 1] = Cancel(h, t)
  BY DEF SendCancel, TypeOK
<1>2. \A u : u # t /\ NoneQueued(u) => NoneQueued(u)'
  BY <1>1 DEF NoneQueued, Cancels, Cancel
<1>3. \A u : NoneExecuting(u)' <=> NoneExecuting(u)
  BY DEF NoneExecuting
<1>4. CancelsAreAhead'
  <2> SUFFICES ASSUME slot # None, slot.op = "prepare", slot' = slot, slot.task # t
               PROVE  CancelsAreAhead'
    BY DEF CancelsAreAhead
  <2>1. \A i, j \in 1..Len(down') :
          i < j /\ Prepares(down'[i], slot.ask) => ~Cancels(down'[j], slot.task)
    <3>1. ~Cancels(down'[Len(down) + 1], slot.task)
      BY <1>1 DEF Cancels, Cancel
    <3>2. QED
      BY <1>1, <3>1 DEF CancelsAreAhead
  <2>2. QED
    BY <1>2, <1>3, <2>1 DEF CancelsAreAhead
<1>5. NotCancelled'
  BY <1>2, <1>3 DEF NotCancelled
<1>6. QED
  BY <1>4, <1>5

\* A result that creates a Task as prepared is a consent to its correlation.
Created == Result /\ continued' # continued

LEMMA CreatedFacts ==
    ASSUME IInv, ConstantsFit, Created
    PROVE  /\ up # <<>> /\ slot # None /\ slot' = None /\ slot.op = "prepare" /\ slot.task \in Tasks
           /\ continued' = continued \cup {slot.task} /\ created' = created \cup {slot.task}
           /\ slot.task \notin Known /\ UNCHANGED <<down, busy>>
           /\ Consents(up[1], slot.ask) /\ 1 \in 1..Len(up)
           /\ slot.task \in armed
<1>1. TypeOK /\ OneMeaning /\ ConsentsAreTrue
  BY DEF IInv
<1>2. up # <<>> /\ Head(up) = up[1] /\ 1 \in 1..Len(up) /\ up[1] \in Results
  BY <1>1 DEF Created, Result, TypeOK
<1>3. /\ slot # None /\ slot' = None /\ slot.ask = up[1].ask /\ slot.op = up[1].op
      /\ slot.op # "list" /\ up[1].ok /\ Originator(slot) # None
      /\ UNCHANGED <<down, busy>>
      /\ \E b : CreateTask(Originator(slot).task, b)
      /\ Originator(slot).task \notin Known
      /\ continued' = continued \cup {Originator(slot).task}
  BY <1>2 DEF Created, Result, Matches
<1>4. slot.op = "prepare"
  BY <1>1, <1>3 DEF TypeOK, Slots
<1>5. Originator(slot).task = slot.task /\ slot.task \in Tasks
  BY <1>1, <1>3, <1>4, OriginatorAgrees, SlotHasTask
<1>6. Consents(up[1], slot.ask)
  BY <1>3, <1>4 DEF Consents
<1> DEFINE x == <<slot.ask, slot.op, slot.task, slot.human>>
<1>7. x \in Mentioned /\ x[1] = up[1].ask /\ x[3] = slot.task
  BY <1>3 DEF Mentioned, InSlot
<1> HIDE DEF x
<1>8. slot.task \in armed
  BY <1>1, <1>2, <1>6, <1>7 DEF ConsentsAreTrue, Consents
<1>9. created' = created \cup {slot.task}
  BY <1>3, <1>5 DEF CreateTask
<1>10. QED
  BY <1>2, <1>3, <1>4, <1>5, <1>6, <1>8, <1>9

LEMMA RoomCancels ==
    ASSUME IInv, ConstantsFit, RoomNext
    PROVE  CancelsAreAhead' /\ NotCancelled'
<1>1. /\ TypeOK /\ OneMeaning /\ ConsentsAreTrue /\ CancelsAreAhead /\ NotCancelled /\ TasksAreKnown
  BY DEF IInv
<1>2. continued \subseteq Known
  BY <1>1 DEF TasksAreKnown, Known
<1>3. ASSUME NEW t \in Tasks, Discard(t) PROVE CancelsAreAhead' /\ NotCancelled'
  <2>1. UNCHANGED <<busy, up, continued>>
    BY <1>3 DEF Discard, agentvars, histories
  <2>2. CASE UNCHANGED <<slot, down>>
    BY <1>1, <2>1, <2>2, NothingSent DEF SameSlot
  <2>3. CASE slot' = None /\ UNCHANGED down
    BY <1>1, <2>1, <2>3, NothingSent DEF SameSlot
  <2>4. CASE t \notin Known /\ SendCancel(Owner[t], t)
    <3>1. t \notin continued
      BY <1>2, <2>4
    <3>2. slot' = None \/ (slot' = slot /\ (slot # None /\ slot.op = "prepare" => slot.task # t))
      BY <1>1, <1>3, <2>4, SlotHasTask DEF Discard
    <3>3. QED
      BY <1>1, <2>1, <2>4, <3>1, <3>2, CancelSent
  <2>5. QED
    BY <1>3, <2>2, <2>3, <2>4 DEF Discard
<1>4. ASSUME Result PROVE CancelsAreAhead' /\ NotCancelled'
  <2>1. UNCHANGED busy /\ up # <<>>
    BY <1>4 DEF Result
  <2>2. \A i \in 1..Len(up') : i + 1 \in 1..Len(up) /\ up'[i] = up[i + 1]
    BY <1>1, <1>4 DEF Result, TypeOK
  <2>3. \A t : NoneExecuting(t)' <=> NoneExecuting(t)
    BY <2>1 DEF NoneExecuting
  <2>4. CASE UNCHANGED <<slot, down, continued>>
    <3>1. \A t : NoneQueued(t)' <=> NoneQueued(t)
      BY <2>4 DEF NoneQueued
    <3>2. CancelsAreAhead'
      BY <1>1, <2>1, <2>2, <2>3, <2>4, <3>1 DEF CancelsAreAhead
    <3>3. NotCancelled'
      BY <1>1, <2>3, <2>4, <3>1 DEF NotCancelled
    <3>4. QED
      BY <3>2, <3>3
  <2>5. CASE slot' = None
    <3>1. CancelsAreAhead'
      BY <2>5 DEF CancelsAreAhead
    <3>2. CASE continued' # continued
      <4>1. /\ continued' = continued \cup {slot.task} /\ down' = down
            /\ NoneQueued(slot.task) /\ NoneExecuting(slot.task)
        BY <1>1, <1>4, <3>2, CreatedFacts DEF Created, CancelsAreAhead
      <4>2. \A t : NoneQueued(t)' <=> NoneQueued(t)
        BY <4>1 DEF NoneQueued
      <4>3. QED
        BY <1>1, <2>3, <2>5, <3>1, <4>1, <4>2 DEF NotCancelled
    <3>3. CASE continued' = continued /\ down' = down
      <4>1. \A t : NoneQueued(t)' <=> NoneQueued(t)
        BY <3>3 DEF NoneQueued
      <4>2. QED
        BY <1>1, <2>3, <2>5, <3>1, <3>3, <4>1 DEF NotCancelled
    <3>4. CASE continued' = continued /\ down' # down
      <4>1. slot # None /\ Matches(Head(up))
        BY <1>4, <3>4 DEF Result, Matches
      <4>2. slot.op = "prepare" /\ SendCancel(slot.human, slot.task)
        <5>1. Originator(slot) # None => Originator(slot).task = slot.task
          BY <1>1, <4>1, OriginatorAgrees
        <5>2. slot.op \in {"list", "prepare"}
          BY <1>1, <4>1 DEF TypeOK, Slots
        <5>3. QED
          BY <1>4, <3>4, <4>1, <5>1, <5>2 DEF Result
      <4>3. slot.task \notin continued
        BY <1>1, <4>1, <4>2 DEF NotCancelled
      <4>4. \A i \in 1..Len(down) : down'[i] = down[i]
        BY <1>1, <4>2 DEF SendCancel, TypeOK
      <4>5. /\ Len(down') = Len(down) + 1 /\ Len(down) \in Nat
            /\ down'[Len(down) + 1] = Cancel(slot.human, slot.task)
        BY <1>1, <4>2 DEF SendCancel, TypeOK
      <4>6. \A u : u # slot.task /\ NoneQueued(u) => NoneQueued(u)'
        BY <4>4, <4>5 DEF NoneQueued, Cancels, Cancel
      <4>7. NotCancelled'
        BY <1>1, <2>3, <2>5, <3>4, <4>3, <4>6 DEF NotCancelled
      <4>8. QED
        BY <3>1, <4>7
    <3>5. QED
      BY <3>2, <3>3, <3>4
  <2>6. QED
    BY <1>4, <2>4, <2>5 DEF Result
<1>5. ASSUME NewStream PROVE CancelsAreAhead' /\ NotCancelled'
  <2>1. slot' = None /\ down' = <<>> /\ UNCHANGED <<busy, continued>>
    BY <1>5 DEF NewStream
  <2>2. \A t : NoneQueued(t)' /\ (NoneExecuting(t)' <=> NoneExecuting(t))
    BY <2>1 DEF NoneQueued, NoneExecuting
  <2>3. QED
    BY <1>1, <2>1, <2>2 DEF CancelsAreAhead, NotCancelled
<1>6. ASSUME Lapse PROVE CancelsAreAhead' /\ NotCancelled'
  <2>1. SameSlot
    BY <1>1, <1>6 DEF Lapse, SameSlot, TypeOK, Slots
  <2>2. UNCHANGED <<down, busy, up, continued>>
    BY <1>6 DEF Lapse, agentvars, histories
  <2>3. QED
    BY <1>1, <2>1, <2>2, NothingSent
<1>7. ASSUME \/ \E t \in Tasks : Stage(t)
             \/ \E h \in Humans : \/ \E t \in Tasks : Request(h, t)
                                  \/ AskRefused(h) \/ Reconnect(h) \/ Leave(h)
             \/ Hibernate
      PROVE  CancelsAreAhead' /\ NotCancelled'
  <2>1. UNCHANGED <<slot, down, busy, up, continued>>
    BY <1>7 DEF Stage, Request, AskRefused, Reconnect, Leave, Hibernate, agentvars, histories
  <2>2. QED
    BY <1>1, <2>1, NothingSent DEF SameSlot
<1>8. QED
  BY <1>3, <1>4, <1>5, <1>6, <1>7, AskCancels DEF RoomNext

LEMMA RuntimeCancels ==
    ASSUME IInv, ConstantsFit, RuntimeNext
    PROVE  CancelsAreAhead' /\ NotCancelled'
<1>1. /\ TypeOK /\ OneMeaning /\ ConsentsAreTrue /\ CancelsAreAhead /\ NotCancelled
  BY DEF IInv
<1>2. ASSUME Dispatch PROVE CancelsAreAhead' /\ NotCancelled'
  <2>1. /\ UNCHANGED <<slot, continued>> /\ 1 \in 1..Len(down) /\ Head(down) = down[1]
        /\ \A i \in 1..Len(down') : i + 1 \in 1..Len(down) /\ down'[i] = down[i + 1]
    BY <1>1, <1>2 DEF Dispatch, histories, TypeOK
  <2>2. \A t : NoneQueued(t) => NoneQueued(t)'
    BY <2>1 DEF NoneQueued
  <2>3. busy' = busy \/ (busy' # None /\ busy'.control = down[1])
    <3>1. CASE busy = None
      <4>1. busy' = [control |-> down[1], stream |-> streams, done |-> FALSE]
        BY <1>2, <2>1, <3>1 DEF Dispatch
      <4>2. busy' \in Executions
        BY <1>1, <2>1, <4>1 DEF TypeOK, Executions
      <4>3. QED
        BY <4>1, <4>2 DEF ConstantsFit
    <3>2. CASE busy # None
      BY <1>2, <3>2 DEF Dispatch
    <3>3. QED
      BY <3>1, <3>2
  <2>4. \A t : NoneQueued(t) /\ NoneExecuting(t) => NoneExecuting(t)'
    BY <2>1, <2>3 DEF NoneQueued, NoneExecuting
  <2>5. \A i \in 1..Len(up') : Consents(up'[i], slot.ask) => \E j \in 1..Len(up) : up'[i] = up[j]
    <3>1. UNCHANGED up \/ (\E op, a : up' = Append(up, [op |-> op, ask |-> a, ok |-> FALSE]))
      BY <1>2 DEF Dispatch, Reply
    <3>2. up \in Seq(Results)
      BY <1>1 DEF TypeOK
    <3>3. ASSUME NEW op, NEW a, up' = Append(up, [op |-> op, ask |-> a, ok |-> FALSE])
          PROVE  \A i \in 1..Len(up') : up'[i].ok => \E j \in 1..Len(up) : up'[i] = up[j]
      BY <3>2, <3>3, LastAppended
    <3>4. QED
      BY <3>1, <3>3 DEF Consents
  <2>6. CancelsAreAhead'
    <3> SUFFICES ASSUME slot # None, slot.op = "prepare" PROVE CancelsAreAhead'
      BY <2>1 DEF CancelsAreAhead
    <3>1. \A i, j \in 1..Len(down') :
            i < j /\ Prepares(down'[i], slot.ask) => ~Cancels(down'[j], slot.task)
      <4>1. \A i, j \in 1..Len(down') : i < j => i + 1 < j + 1
        BY <1>1 DEF TypeOK
      <4>2. QED
        BY <1>1, <2>1, <4>1 DEF CancelsAreAhead
    <3>2. busy' # None /\ Prepares(busy'.control, slot.ask) => NoneQueued(slot.task)'
      <4>1. CASE busy' = busy
        <5>1. busy # None /\ Prepares(busy.control, slot.ask) => NoneQueued(slot.task)
          BY <1>1 DEF CancelsAreAhead
        <5>2. QED
          BY <2>1, <2>2, <4>1, <5>1
      <4>2. CASE busy'.control = down[1]
        <5>1. \A i \in 1..Len(down') : 1 < i + 1
          BY <1>1, <2>1 DEF TypeOK
        <5>2. QED
          BY <1>1, <2>1, <4>2, <5>1 DEF CancelsAreAhead, NoneQueued
      <4>3. QED
        BY <2>3, <4>1, <4>2
    <3>3. \A i \in 1..Len(up') : 
            Consents(up'[i], slot.ask) => NoneQueued(slot.task)' /\ NoneExecuting(slot.task)'
      <4>1. \A i \in 1..Len(up) :
              Consents(up[i], slot.ask) => NoneQueued(slot.task) /\ NoneExecuting(slot.task)
        BY <1>1 DEF CancelsAreAhead
      <4>2. QED
        BY <2>1, <2>2, <2>4, <2>5, <4>1
    <3>4. QED
      BY <2>1, <3>1, <3>2, <3>3 DEF CancelsAreAhead
  <2>7. NotCancelled'
    BY <1>1, <2>1, <2>2, <2>4 DEF NotCancelled
  <2>8. QED
    BY <2>6, <2>7
<1>3. ASSUME Execute PROVE CancelsAreAhead' /\ NotCancelled'
  <2>1. UNCHANGED <<slot, down, continued>> /\ busy # None /\ busy' = [busy EXCEPT !.done = TRUE]
    BY <1>3 DEF Execute, roomvars
  <2>2. busy'.done /\ busy'.control = busy.control
    BY <1>1, <2>1 DEF TypeOK, Executions
  <2>3. \A t : (NoneQueued(t)' <=> NoneQueued(t)) /\ NoneExecuting(t)'
    BY <2>1, <2>2 DEF NoneQueued, NoneExecuting
  <2>4. \A i \in 1..Len(up') : Consents(up'[i], slot.ask) =>
          (\E j \in 1..Len(up) : up'[i] = up[j]) \/ Prepares(busy.control, slot.ask)
    <3>1. [Next]_vars
      BY <1>3 DEF Next, RuntimeNext
    <3>2. QED
      BY <1>1, <3>1, NewConsents DEF Consents, Arms, Prepares
  <2>5. CancelsAreAhead'
    <3> SUFFICES ASSUME slot # None, slot.op = "prepare" PROVE CancelsAreAhead'
      BY <2>1 DEF CancelsAreAhead
    <3>1. \A i \in 1..Len(up') : Consents(up'[i], slot.ask) => NoneQueued(slot.task)
      BY <1>1, <2>1, <2>4 DEF CancelsAreAhead
    <3>2. QED
      BY <1>1, <2>1, <2>2, <2>3, <3>1 DEF CancelsAreAhead
  <2>6. NotCancelled'
    BY <1>1, <2>1, <2>3 DEF NotCancelled
  <2>7. QED
    BY <2>5, <2>6
<1>4. ASSUME Idle PROVE CancelsAreAhead' /\ NotCancelled'
  <2>1. UNCHANGED <<slot, down, up, continued>> /\ busy' = None
    BY <1>4 DEF Idle, roomvars, histories
  <2>2. \A t : (NoneQueued(t)' <=> NoneQueued(t)) /\ NoneExecuting(t)'
    BY <2>1 DEF NoneQueued, NoneExecuting
  <2>3. QED
    BY <1>1, <2>1, <2>2 DEF CancelsAreAhead, NotCancelled
<1>5. ASSUME Bind \/ Age \/ (\E t \in Tasks : Deliver(t) \/ Admit(t) \/ Forget(t))
      PROVE  CancelsAreAhead' /\ NotCancelled'
  <2>1. UNCHANGED <<slot, down, busy, up, continued>>
    BY <1>5 DEF Bind, Age, Deliver, Admit, Forget, roomvars, histories
  <2>2. QED
    BY <1>1, <2>1, NothingSent DEF SameSlot
<1>6. QED
  BY <1>2, <1>3, <1>4, <1>5 DEF RuntimeNext

-----------------------------------------------------------------------------
(* Part 4: Tasks and their scopes *)

\* What every step leaves of the Tasks of the room
LEMMA TasksKept ==
    ASSUME IInv, ConstantsFit, [Next]_vars
    PROVE  TasksAreKnown' /\ BriefOfTaskStays' /\ CreatedWasPrepared'
<1>1. /\ TypeOK /\ TasksAreKnown /\ withBrief \subseteq brief /\ continued \subseteq armed
  BY DEF IInv, StartStays, BriefOfTaskStays, CreatedWasPrepared
<1>2. created \subseteq Known /\ seen \subseteq created
  BY <1>1 DEF TasksAreKnown, Known, TypeOK
<1>3. ASSUME NEW t \in Tasks, Discard(t) PROVE TasksAreKnown' /\ BriefOfTaskStays' /\ CreatedWasPrepared'
  <2>1. /\ UNCHANGED <<created, seen, withBrief, continued, claims, armed>>
        /\ known' = Known
        /\ t \notin Known => brief' = brief \ {t}
        /\ t \in Known => brief' = brief
    BY <1>3 DEF Discard, WarmUp, agentvars, histories
  <2>2. QED
    BY <1>1, <1>2, <2>1 DEF TasksAreKnown, BriefOfTaskStays, CreatedWasPrepared
<1>4. ASSUME NEW h \in Humans, NEW t \in Tasks, Request(h, t)
      PROVE  TasksAreKnown' /\ BriefOfTaskStays' /\ CreatedWasPrepared'
  <2>1. /\ UNCHANGED <<seen, brief, continued, claims, armed>> /\ known' = Known \cup {t}
        /\ \/ /\ created' = created \cup {t}
              /\ withBrief' = withBrief \/ (withBrief' = withBrief \cup {t} /\ t \in brief)
           \/ created' = created /\ withBrief' = withBrief
    BY <1>4 DEF Request, CreateTask, CreateRefused, WarmUp, agentvars
  <2>2. QED
    BY <1>1, <1>2, <2>1 DEF TasksAreKnown, BriefOfTaskStays, CreatedWasPrepared
<1>5. ASSUME Result PROVE TasksAreKnown' /\ BriefOfTaskStays' /\ CreatedWasPrepared'
  <2>1. UNCHANGED <<seen, brief, claims, armed>>
    BY <1>5 DEF Result
  <2>2. CASE UNCHANGED <<created, known, warm, continued, withBrief>>
    BY <1>1, <2>1, <2>2 DEF TasksAreKnown, BriefOfTaskStays, CreatedWasPrepared
  <2>3. CASE /\ Originator(slot).task \notin Known
             /\ CreateTask(Originator(slot).task, Originator(slot).brief)
             /\ Originator(slot).brief => Originator(slot).task \in brief
             /\ continued' = continued \cup {Originator(slot).task}
    <3>1. known' = Known \cup {Originator(slot).task} /\ created' = created \cup {Originator(slot).task}
          /\ \/ withBrief' = withBrief
             \/ /\ withBrief' = withBrief \cup {Originator(slot).task}
                /\ Originator(slot).task \in brief
      BY <2>3 DEF CreateTask, WarmUp
    <3>2. continued' \subseteq armed
      <4>1. CASE continued' = continued
        BY <1>1, <4>1
      <4>2. CASE continued' # continued
        BY <1>1, <1>5, <4>2, CreatedFacts DEF Created
      <4>3. QED
        BY <4>1, <4>2
    <3>3. QED
      BY <1>1, <1>2, <2>1, <2>3, <3>1, <3>2 DEF TasksAreKnown, BriefOfTaskStays, CreatedWasPrepared
  <2>4. CASE /\ UNCHANGED <<created, withBrief, continued>>
             /\ \E S : WarmUp(Known \cup S)
    BY <1>1, <1>2, <2>1, <2>4 DEF WarmUp, TasksAreKnown, BriefOfTaskStays, CreatedWasPrepared
  <2>5. WarmUp(Known) => WarmUp(Known \cup {})
    BY DEF WarmUp
  <2>6. QED
    BY <1>5, <2>2, <2>3, <2>4, <2>5 DEF Result, CreateRefused
<1>6. ASSUME NEW t \in Tasks, Deliver(t) PROVE TasksAreKnown' /\ BriefOfTaskStays' /\ CreatedWasPrepared'
  <2>1. /\ UNCHANGED <<created, known, warm, brief, withBrief, continued, armed>>
        /\ seen' = seen \cup {t} /\ claims' \subseteq claims \cup {t}
    BY <1>6 DEF Deliver, roomvars
  <2>2. QED
    BY <1>1, <2>1 DEF TasksAreKnown, BriefOfTaskStays, CreatedWasPrepared
<1>7. ASSUME \/ \E t \in Tasks : Stage(t)
             \/ \E h \in Humans : \/ \E op, t : Ask(h, op, t)
                                  \/ AskRefused(h) \/ Reconnect(h) \/ Leave(h)
             \/ NewStream \/ Hibernate \/ Lapse
             \/ Dispatch \/ Execute \/ Idle \/ Bind \/ Age
             \/ \E t \in Tasks : Admit(t) \/ Forget(t)
             \/ UNCHANGED vars
      PROVE  TasksAreKnown' /\ BriefOfTaskStays' /\ CreatedWasPrepared'
  <2>1. /\ UNCHANGED <<created, seen, withBrief, continued, claims>>
        /\ brief \subseteq brief'
    BY <1>7 DEF Stage, Ask, AskRefused, Reconnect, Leave, NewStream, Hibernate, Lapse, Dispatch,
       Execute, Idle, Bind, Age, Admit, Forget, vars, roomvars, agentvars, histories
  <2>2. (UNCHANGED <<known, warm>>) \/ WarmUp(Known) \/ warm' = FALSE
    <3>1. CASE \E h \in Humans : (\E op, t : Ask(h, op, t)) \/ AskRefused(h)
      BY <3>1 DEF Ask, AskRefused
    <3>2. CASE Hibernate
      BY <3>2 DEF Hibernate
    <3>3. CASE \/ \E t \in Tasks : Stage(t)
               \/ \E h \in Humans : Reconnect(h) \/ Leave(h)
               \/ NewStream \/ Lapse
      BY <3>3 DEF Stage, Reconnect, Leave, NewStream, Lapse
    <3>4. CASE \/ Dispatch \/ Execute \/ Idle \/ Bind \/ Age
               \/ \E t \in Tasks : Admit(t) \/ Forget(t)
               \/ UNCHANGED vars
      BY <3>4 DEF Dispatch, Execute, Idle, Bind, Age, Admit, Forget, vars, roomvars
    <3>5. QED
      BY <1>7, <3>1, <3>2, <3>3, <3>4
  <2>3. armed \subseteq armed'
    BY <1>1, NewConsents
  <2>4. QED
    BY <1>1, <1>2, <2>1, <2>2, <2>3 DEF WarmUp, TasksAreKnown, BriefOfTaskStays, CreatedWasPrepared
<1>8. QED
  BY <1>3, <1>4, <1>5, <1>6, <1>7 DEF Next, RoomNext, RuntimeNext

LEMMA ScopesKept ==
    ASSUME IInv, ConstantsFit, [Next]_vars
    PROVE  ScopesAreSeen'
<1>1. TypeOK /\ ScopesAreSeen
  BY DEF IInv
<1>2. ASSUME NEW t \in Tasks, Deliver(t) PROVE ScopesAreSeen'
  BY <1>1, <1>2 DEF Deliver, ScopesAreSeen
<1>3. ASSUME NEW t \in Tasks, Admit(t) PROVE ScopesAreSeen'
  <2>1. t \in seen /\ seen' = seen /\ scope[t] = "none" /\ admitting = None
    BY <1>3 DEF Admit
  <2>2. \A u \in Tasks : u # t => scope'[u] = scope[u]
    BY <1>1, <1>3 DEF Admit, TypeOK
  <2>3. UNCHANGED admitting \/ (UNCHANGED scope /\ \E a : admitting' = [task |-> t, ask |-> a])
    BY <1>3 DEF Admit
  <2>4. QED
    BY <1>1, <2>1, <2>2, <2>3 DEF ScopesAreSeen
<1>4. ASSUME Bind PROVE ScopesAreSeen'
  <2>1. admitting # None /\ admitting' = None /\ seen' = seen
    BY <1>4 DEF Bind
  <2>2. \A u \in Tasks : u # admitting.task => scope'[u] = scope[u]
    BY <1>1, <1>4 DEF Bind, TypeOK
  <2>3. QED
    BY <1>1, <2>1, <2>2 DEF ScopesAreSeen
<1>5. ASSUME UNCHANGED <<seen, scope, admitting>> PROVE ScopesAreSeen'
  BY <1>1, <1>5 DEF ScopesAreSeen
<1>6. QED
  BY <1>2, <1>3, <1>4, <1>5
     DEF Next, RoomNext, RuntimeNext, Stage, Discard, Ask, Request, AskRefused, Reconnect, Leave, Result,
         NewStream, Hibernate, Lapse, Dispatch, Execute, Idle, Age, Forget, vars, roomvars, agentvars, histories

\* The claim of a Task that was created as prepared, and what it has led to.
ClaimHolds(t) ==
    /\ scope[t] = "none" =>
          /\ IsFor(adoption, t) /\ adoption.claimed
          /\ admitting # None /\ admitting.task = t => admitting.ask = adoption.ask
    /\ scope[t] \in {"none", "adopted", "failed"}

LEMMA ClaimsKept ==
    ASSUME IInv, ConstantsFit, [Next]_vars, TypeOK'
    PROVE  ClaimIsHeld' /\ ClaimedIsBound'
<1>1. /\ TypeOK /\ OneMeaning /\ NotCancelled /\ TasksAreKnown /\ ScopesAreSeen
      /\ \A t \in continued \cap claims : ClaimHolds(t)
  BY DEF IInv, StartStays, ClaimedIsBound, ClaimIsHeld, ClaimHolds
<1>2. continued \subseteq Tasks /\ claims \subseteq seen /\ seen \subseteq created /\ created \subseteq Known
  BY <1>1 DEF TypeOK, TasksAreKnown, Known
<1> SUFFICES ASSUME NEW t \in continued' \cap claims' PROVE ClaimHolds(t)'
  BY DEF ClaimIsHeld, ClaimedIsBound, ClaimHolds
<1>3. CASE UNCHANGED <<adoption, admitting, scope, claims>>
  <2>1. t \in continued
    <3>1. CASE continued' = continued
      BY <3>1
    <3>2. CASE Created
      BY <1>2, <1>3, <3>2, CreatedFacts
    <3>3. continued' # continued => Created
      BY DEF Created, Next, RoomNext, RuntimeNext, Stage, Discard, Ask, Request, AskRefused, Reconnect, Leave,
         NewStream, Hibernate, Lapse, Dispatch, Execute, Idle, Bind, Age, Deliver, Admit, Forget,
         vars, roomvars, agentvars, histories
    <3>4. QED
      BY <3>1, <3>2, <3>3
  <2>2. ClaimHolds(t)
    BY <1>1, <1>3, <2>1
  <2>3. QED
    BY <1>3, <2>2 DEF ClaimHolds
<1>4. CASE Execute
  <2>1. ClaimHolds(t) /\ t \in continued /\ t \in Tasks /\ UNCHANGED <<admitting, scope>>
    BY <1>1, <1>2, <1>4 DEF Execute
  <2>2. scope[t] = "none" => adoption' = adoption
    <3> SUFFICES ASSUME scope[t] = "none" PROVE adoption' = adoption
      OBVIOUS
    <3>1. adoption # None /\ adoption.task = t
      BY <2>1 DEF ClaimHolds, IsFor
    <3>2. busy # None /\ ~busy.done /\ (busy.control.op = "cancel" => busy.control.task # t)
      BY <1>1, <1>4, <2>1 DEF Execute, NotCancelled, NoneExecuting, Cancels
    <3>3. QED
      BY <1>4, <3>1, <3>2 DEF Execute, Arm, NotArmed, Release
  <2>3. QED
    BY <2>1, <2>2 DEF ClaimHolds
<1>5. CASE Bind
  <2>1. ClaimHolds(t) /\ t \in Tasks /\ t \in seen /\ admitting # None /\ admitting' = None
    BY <1>1, <1>2, <1>5 DEF Bind, histories
  <2>2. CASE t # admitting.task
    <3>1. scope'[t] = scope[t]
      BY <1>1, <1>5, <2>1, <2>2 DEF Bind, TypeOK
    <3>2. scope[t] = "none" => adoption' = adoption
      <4> SUFFICES ASSUME scope[t] = "none", adoption' # adoption PROVE FALSE
        OBVIOUS
      <4>1. adoption # None /\ adoption.task = t /\ adoption.ask = admitting.ask
        BY <1>5, <2>1 DEF Bind, ClaimHolds, IsFor
      <4> DEFINE x == <<adoption.ask, "prepare", adoption.task, adoption.human>>
                 y == <<admitting.ask, "prepare", admitting.task, Owner[admitting.task]>>
      <4>2. x \in Mentioned /\ y \in Mentioned
        BY <2>1, <4>1 DEF Mentioned, Adopting, Admitting
      <4>3. x[1] = y[1] /\ x[3] # y[3]
        BY <2>2, <4>1
      <4> HIDE DEF x, y
      <4>4. QED
        BY <1>1, <4>2, <4>3 DEF OneMeaning
    <3>3. QED
      BY <2>1, <3>1, <3>2 DEF ClaimHolds
  <2>3. CASE t = admitting.task
    <3>1. scope[t] = "none"
      BY <1>1, <2>1, <2>3 DEF ScopesAreSeen
    <3>2. adoption # None /\ adoption.ask = admitting.ask
      BY <2>1, <2>3, <3>1 DEF ClaimHolds, IsFor
    <3>3. scope'[t] \in {"adopted", "failed"}
      BY <1>1, <1>5, <2>1, <2>3, <3>2 DEF Bind, TypeOK
    <3>4. QED
      BY <3>3 DEF ClaimHolds
  <2>4. QED
    BY <2>2, <2>3
<1>6. CASE Age
  <2>1. ClaimHolds(t) /\ UNCHANGED <<admitting, scope>> /\ ~adoption.claimed
    BY <1>1, <1>6 DEF Age, histories
  <2>2. QED
    BY <2>1 DEF ClaimHolds
<1>7. ASSUME NEW u \in Tasks, Deliver(u) PROVE ClaimHolds(t)'
  <2>1. UNCHANGED <<admitting, scope, continued>> /\ u \notin seen /\ adoption' = Claim(u)
    BY <1>7 DEF Deliver, roomvars
  <2>2. CASE t \in claims
    <3>1. ClaimHolds(t) /\ t # u
      BY <1>1, <1>2, <2>1, <2>2
    <3>2. adoption # None /\ adoption.task = t => adoption' = adoption
      BY <2>1, <3>1 DEF Claim, IsFor
    <3>3. QED
      BY <2>1, <3>1, <3>2 DEF ClaimHolds, IsFor
  <2>3. CASE t \notin claims
    <3>1. t = u /\ IsFor(adoption, u)
      BY <1>7, <2>3 DEF Deliver
    <3>2. adoption \in Adoptions /\ adoption' = [adoption EXCEPT !.claimed = TRUE]
      BY <1>1, <2>1, <3>1 DEF Claim, IsFor, TypeOK
    <3>3. adoption' \in Adoptions
      BY <3>2 DEF Adoptions
    <3>4. /\ adoption' # None /\ adoption'.claimed /\ adoption'.task = adoption.task
          /\ adoption'.human = adoption.human /\ adoption'.fence = adoption.fence
      BY <3>2, <3>3 DEF Adoptions, ConstantsFit
    <3>5. IsFor(adoption', t)
      BY <3>1, <3>4 DEF IsFor
    <3>6. scope[t] = "none" /\ (admitting # None => admitting.task # t)
      BY <1>1, <2>1, <3>1 DEF ScopesAreSeen
    <3>7. QED
      BY <2>1, <3>4, <3>5, <3>6 DEF ClaimHolds, IsFor
  <2>4. QED
    BY <2>2, <2>3
<1>8. ASSUME NEW u \in Tasks, Admit(u) PROVE ClaimHolds(t)'
  <2>1. ClaimHolds(t) /\ t \in Tasks /\ scope[u] = "none" /\ admitting = None
    BY <1>1, <1>2, <1>8 DEF Admit, histories
  <2>2. CASE scope[t] # "none"
    <3>1. scope'[t] = scope[t]
      BY <1>1, <1>8, <2>1, <2>2 DEF Admit, TypeOK
    <3>2. QED
      BY <2>1, <2>2, <3>1 DEF ClaimHolds
  <2>3. CASE scope[t] = "none"
    <3>1. IsFor(adoption, t) /\ adoption.claimed /\ adoption # None
      BY <2>1, <2>3 DEF ClaimHolds, IsFor
    <3>2. adoption' = adoption
      BY <1>8, <3>1 DEF Admit
    <3>3. CASE t = u
      <4>1. UNCHANGED scope /\ admitting' = [task |-> t, ask |-> adoption.ask]
        BY <1>8, <3>1, <3>3 DEF Admit
      <4>2. QED
        BY <2>1, <2>3, <3>1, <3>2, <4>1 DEF ClaimHolds
    <3>4. CASE t # u
      <4>1. scope'[t] = scope[t]
        BY <1>1, <1>8, <2>1, <3>4 DEF Admit, TypeOK
      <4>2. admitting' = None
        <5>1. ~IsFor(adoption, u)
          BY <3>1, <3>4 DEF IsFor
        <5>2. QED
          BY <1>8, <2>1, <3>1, <5>1 DEF Admit
      <4>3. QED
        BY <2>1, <3>2, <4>1, <4>2 DEF ClaimHolds
    <3>5. QED
      BY <3>3, <3>4
  <2>4. QED
    BY <2>2, <2>3
<1>9. QED
  BY <1>3, <1>4, <1>5, <1>6, <1>7, <1>8
     DEF Next, RoomNext, RuntimeNext, Stage, Discard, Ask, Request, AskRefused, Reconnect, Leave, Result,
         NewStream, Hibernate, Lapse, Dispatch, Idle, Forget, vars, roomvars, agentvars, histories

-----------------------------------------------------------------------------
(* Part 5: the theorem *)

LEMMA InitHolds == ConstantsFit /\ Init => IInv
<1> SUFFICES ASSUME ConstantsFit, Init PROVE IInv
  OBVIOUS
<1>1. TypeOK
  <2>1. [nonce |-> 1, open |-> TRUE, ask |-> None] \in Sockets
    BY DEF ConstantsFit, Sockets, Nonces
  <2>2. /\ human \in [Humans -> Sockets]
        /\ scope \in [Tasks -> {"none", "adopted", "failed", "declined", "fresh"}]
    BY <2>1 DEF Init
  <2>3. asks \in 0..MaxAsks /\ streams \in 1..MaxStreams
    BY DEF ConstantsFit, Init
  <2>4. <<>> \in Seq(Controls) /\ <<>> \in Seq(Results)
    OBVIOUS
  <2>5. \A S \in {continued, armed, withBrief, claims, forgotten} : S \subseteq Tasks
    BY DEF Init
  <2>6. QED
    BY <2>2, <2>3, <2>4, <2>5 DEF Init, TypeOK
<1>2. Mentioned = {}
  BY DEF Init, Mentioned, InSlot, OfHumans, Queued, Executing, Adopting, Admitting
<1>3. OneMeaning /\ ConsentsAreTrue
  BY <1>2 DEF OneMeaning, ConsentsAreTrue, Init
<1>4. /\ CancelsAreAhead /\ NotCancelled /\ TasksAreKnown /\ ScopesAreSeen /\ ClaimIsHeld
      /\ StartStays
  BY DEF Init, CancelsAreAhead, NotCancelled, TasksAreKnown, ScopesAreSeen, ClaimIsHeld,
         StartStays, ClaimedIsBound, CreatedWasPrepared, BriefOfTaskStays
<1>5. QED
  BY <1>1, <1>3, <1>4 DEF IInv

LEMMA StepHolds == ConstantsFit /\ IInv /\ [Next]_vars => IInv'
<1> SUFFICES ASSUME ConstantsFit, IInv, [Next]_vars PROVE IInv'
  OBVIOUS
<1>1. TypeOK /\ OneMeaning /\ ConsentsAreTrue /\ CancelsAreAhead /\ NotCancelled
  BY DEF IInv
<1>2. TypeOK' /\ OneMeaning' /\ ConsentsAreTrue'
  BY <1>1, TypesKept, MeaningKept, ConsentsKept
<1>3. CancelsAreAhead' /\ NotCancelled'
  <2>1. CASE UNCHANGED vars
    BY <1>1, <2>1, NothingSent DEF SameSlot, vars, roomvars, agentvars, histories
  <2>2. QED
    BY <2>1, RoomCancels, RuntimeCancels DEF Next
<1>4. TasksAreKnown' /\ BriefOfTaskStays' /\ CreatedWasPrepared' /\ ScopesAreSeen'
  BY TasksKept, ScopesKept
<1>5. ClaimIsHeld' /\ ClaimedIsBound'
  BY <1>2, ClaimsKept
<1>6. QED
  BY <1>2, <1>3, <1>4, <1>5 DEF IInv, StartStays

\* What a Human gave to a Task at its start stays with it, for any number of everything
\* (handleAgentSessionResult, RoomSession.ts; claimPreparedAdoptionLocked,
\* session_adoption.go).
THEOREM StartsStay == Spec => []StartStays
<1>1. Init => IInv
  BY InitHolds, ConstantsAreFit
<1>2. IInv /\ [Next]_vars => IInv'
  BY StepHolds, ConstantsAreFit
<1>3. IInv => StartStays
  BY DEF IInv
<1>4. QED
  BY <1>1, <1>2, <1>3, PTL DEF Spec

\* The records of the room and of the runtime keep their types.
THEOREM TypeCorrect == Spec => []TypeOK
<1>1. Init => IInv
  BY InitHolds, ConstantsAreFit
<1>2. IInv /\ [Next]_vars => IInv'
  BY StepHolds, ConstantsAreFit
<1>3. IInv => TypeOK
  BY DEF IInv
<1>4. QED
  BY <1>1, <1>2, <1>3, PTL DEF Spec

=============================================================================
