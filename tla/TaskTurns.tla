----------------------------- MODULE TaskTurns ------------------------------
(***************************************************************************)
(* The turns of one Task: instructions of Humans become messages of the    *)
(* room, the Agent's runtime queues them, prompts its Harness with one at  *)
(* a time and publishes which one runs; with that a Human may interrupt    *)
(* the turn it sees or put an instruction before the waiting ones          *)
(* (do/RoomSession.ts; agent/internal/runtime/task_control.go,             *)
(* task_execution.go, turn_retry.go, runtime.go, helpers.go, activity.go). *)
(*                                                                         *)
(* A turn is named by the sequence of its instruction.  0 is no turn.      *)
(***************************************************************************)
EXTENDS Integers, FiniteSets, SequencesExt

CONSTANTS
    None,
    MaxRetries,       \* maxTurnRetryAttempts
    MaxPending,       \* MaxPendingTurns, the bound of the runtime's queue
    MaxInstructions,  \* bound: instructions of the Humans
    MaxControls,      \* bound: controls on their way
    MaxStreams        \* bound: event streams of the Agent

VARIABLES
    posted,     \* instructions that are messages of the room
    online,     \* the Agent's socket is connected
    memory,     \* transientTaskExecutions: the projection the room has
    attached,   \* activeTaskTurns of the socket, which hibernates with it
    shown,      \* turns that some Human's page has shown as running
    wire,       \* frames on the socket, oldest first
    streams,    \* event streams so far
    received,   \* receivedThrough
    pending,    \* pendingAddressed
    delivered,  \* those of pending that reached the Harness
    steered,    \* those of pending that go first
    cursor,     \* deliveredThrough
    lane,       \* the turn that has an execution lane (activeTurns)
    step,       \* where runTurn is
    result,     \* what the attempt came to
    turn,       \* the turn that is active (activities)
    working,    \* the turn whose prompt the Harness works on (the adapter's activeTurns)
    marker,     \* the turn that a Human interrupted (interrupts)
    tries,      \* turnRetries, the failed attempts of each turn
    blocked,    \* the Task needs the attention of a Human
    yield,      \* the turn the reader still has to ask to yield
    grip,       \* the turn for which the reader holds turnControlMu, to write its cancel
    publish,    \* publish[g]: how far goroutine g is with a publication
    outbox,     \* taskExecutionPublishQueue
    sending,    \* the update that is on its way
    stale,      \* history: the last update was lost
    settled,    \* history: turns that ended, with a result or interrupted
    dropped     \* history: instructions the runtime gave up, with a word or without

roomvars == <<posted, online, memory, attached, shown>>
queuevars == <<received, pending, delivered, steered, cursor, tries, blocked>>
turnvars == <<lane, step, result, turn, working, marker>>
readervars == <<yield, grip>>
pubvars == <<publish, outbox, sending, stale>>
histories == <<settled, dropped>>
vars == <<roomvars, wire, streams, queuevars, turnvars, readervars, pubvars, histories>>

Instructions == 1..MaxInstructions
Turns == 0..MaxInstructions
Projections == [turn : Turns, stopping : BOOLEAN]
Frames == [kind : {"event", "interrupt", "steer"}, turn : Turns, seq : Turns]
          \cup [kind : {"resync"}]
Goroutines == {"turn", "reader"}
Publications == [at : {"no", "due", "held"}, turn : Turns, stopping : BOOLEAN]
NoPublication == [at |-> "no", turn |-> 0, stopping |-> FALSE]

\* What the constants are
ConstantsFit ==
    /\ {MaxRetries, MaxPending, MaxInstructions} \subseteq Nat
    /\ MaxStreams \in Nat \ {0}
    /\ None \notin Projections

ASSUME ConstantsAreFit == ConstantsFit

TypeOK ==
    /\ posted \in Turns /\ online \in BOOLEAN
    /\ memory \in Projections \cup {None} /\ attached \in Turns /\ shown \subseteq Instructions
    /\ wire \in Seq(Frames) /\ streams \in 1..MaxStreams
    /\ received \in Turns /\ cursor \in Turns
    /\ pending \in Seq(Instructions) /\ Len(pending) <= MaxPending
    /\ delivered \cup steered \subseteq ToSet(pending)
    /\ lane \in Turns /\ turn \in {0, lane} /\ {working, marker, yield, grip} \subseteq Turns
    /\ step \in {"idle", "admit", "begun", "prompt", "returned", "consumed", "settled"}
    /\ result \in {"none", "ok", "error", "fatal", "deferred", "interrupted"}
    /\ tries \in [Instructions -> 0..MaxRetries] /\ blocked \in BOOLEAN
    /\ publish \in [Goroutines -> Publications]
    /\ outbox \in Projections \cup {None} /\ sending \in Projections \cup {None}
    /\ stale \in BOOLEAN
    /\ settled \cup dropped \subseteq Instructions

Init ==
    /\ posted = 0 /\ online = TRUE /\ memory = None /\ attached = 0 /\ shown = {}
    /\ wire = <<>> /\ streams = 1
    /\ received = 0 /\ pending = <<>> /\ delivered = {} /\ steered = {} /\ cursor = 0
    /\ tries = [i \in Instructions |-> 0] /\ blocked = FALSE
    /\ lane = 0 /\ step = "idle" /\ result = "none" /\ turn = 0 /\ working = 0 /\ marker = 0
    /\ yield = 0 /\ grip = 0
    /\ publish = [g \in Goroutines |-> NoPublication] /\ outbox = None /\ sending = None /\ stale = FALSE
    /\ settled = {} /\ dropped = {}

-----------------------------------------------------------------------------
(* The room *)

\* taskExecutionFor: the projection of this instance, else the socket's attachment
CurrentTurn ==
    IF ~online THEN 0
    ELSE IF memory # None THEN memory.turn
    ELSE attached

Push(frames) == wire' = IF online THEN wire \o frames ELSE wire

\* taskExecutionsForState: the pages show the turn n
Shows(n) == shown' = shown \cup ({n} \ {0})

\* recordAttachmentActiveTaskTurn: the projection is kept twice.
Records(projection) == memory' = projection /\ attached' = projection.turn

Due(g) == publish' = [publish EXCEPT ![g].at = "due"]

Event(s) == [kind |-> "event", turn |-> 0, seq |-> s]
Controls == SelectSeq(wire, LAMBDA f : f.kind # "event")

\* appendHumanText with a Task
Say ==
    /\ posted < MaxInstructions
    /\ posted' = posted + 1
    /\ Push(<<Event(posted')>>)
    /\ UNCHANGED <<online, memory, attached, shown, streams, queuevars, turnvars, readervars, pubvars, histories>>

\* "task-interrupt-and-send": the instruction is kept whatever became of the turn
\* the Human saw; the control only goes to that turn.
InterruptAndSend(n) ==
    /\ posted < MaxInstructions /\ Len(Controls) < MaxControls
    /\ posted' = posted + 1
    /\ Push(<<Event(posted')>> \o
            IF CurrentTurn = n THEN <<[kind |-> "steer", turn |-> n, seq |-> posted']>> ELSE <<>>)
    /\ UNCHANGED <<online, memory, attached, shown, streams, queuevars, turnvars, readervars, pubvars, histories>>

\* "task-interrupt" (resolveInterruptTarget, sendAgentTaskControl)
Interrupt(n) ==
    /\ CurrentTurn = n /\ Len(Controls) < MaxControls
    /\ Push(<<[kind |-> "interrupt", turn |-> n, seq |-> 0]>>)
    /\ UNCHANGED <<roomvars, streams, queuevars, turnvars, readervars, pubvars, histories>>

\* A Human joins or asks for the state: requestTaskExecutionReconciliation.
Resync ==
    /\ online /\ Len(Controls) < MaxControls
    /\ Shows(CurrentTurn)
    /\ Push(<<[kind |-> "resync"]>>)
    /\ UNCHANGED <<posted, online, memory, attached, streams, queuevars, turnvars, readervars, pubvars, histories>>

\* "agent-task-execution", with recordAttachmentActiveTaskTurn
Ingest ==
    /\ sending # None /\ sending' = None
    /\ IF online
       THEN Records(sending) /\ Shows(sending.turn) /\ stale' = FALSE
       ELSE /\ stale' = TRUE
            /\ UNCHANGED <<memory, attached, shown>>
    /\ UNCHANGED <<posted, online, wire, streams, queuevars, turnvars, readervars, publish, outbox, histories>>

\* handleAgentEventClose
Close ==
    /\ online /\ online' = FALSE
    /\ memory' = None /\ attached' = 0 /\ wire' = <<>>
    /\ UNCHANGED <<posted, shown, streams, queuevars, turnvars, readervars, pubvars, histories>>

\* handleAgentEventConnection, also as a replacement of an open socket; the
\* runtime then publishes what it runs.
Connect ==
    /\ streams < MaxStreams /\ publish["reader"] = NoPublication /\ yield = 0 /\ grip = 0
    /\ streams' = streams + 1 /\ online' = TRUE
    /\ memory' = None /\ attached' = 0
    /\ wire' = [i \in 1..(posted - received) |-> Event(received + i)]
    /\ Due("reader")
    /\ UNCHANGED <<posted, shown, queuevars, turnvars, readervars, outbox, sending, stale, histories>>

\* The instance is evicted: the socket and its attachment stay.
Hibernate ==
    /\ memory' = None
    /\ UNCHANGED <<posted, online, attached, shown, wire, streams, queuevars, turnvars, readervars, pubvars, histories>>

-----------------------------------------------------------------------------
(* The reader of the runtime *)

ReaderFree == publish["reader"] = NoPublication /\ yield = 0 /\ grip = 0

\* Mutant: an instruction for a queue that is full replaces the oldest.
AcceptedByEviction(s) ==
    /\ pending' = Append(IF Len(pending) < MaxPending THEN pending ELSE Tail(pending), s)
    /\ delivered' = delivered \cap ToSet(pending') /\ steered' = steered \cap ToSet(pending')
    /\ UNCHANGED dropped

\* Mutant: the queue has no bound.
AcceptedBeyondBound(s) ==
    /\ pending' = Append(pending, s)
    /\ UNCHANGED <<dropped, delivered, steered>>

\* acceptEvent, for an instruction that is neither pending nor delivered
Accepted(s) ==
    /\ IF Len(pending) < MaxPending
       THEN pending' = Append(pending, s) /\ UNCHANGED dropped
       ELSE dropped' = dropped \cup {s} /\ UNCHANGED pending
    /\ UNCHANGED <<delivered, steered>>

\* acceptEvent; an instruction also clears the blocker of its Task.
Receive ==
    /\ wire # <<>> /\ Head(wire).kind = "event" /\ ReaderFree
    /\ LET s == Head(wire).seq
       IN  /\ received' = IF s > received THEN s ELSE received
           /\ IF s > received /\ s > cursor /\ s \notin ToSet(pending)
              THEN /\ Accepted(s)
                   /\ blocked' = (blocked /\ Len(pending) >= MaxPending)
                   /\ IF Len(pending) < MaxPending THEN Due("reader") ELSE UNCHANGED publish
              ELSE UNCHANGED <<pending, delivered, steered, blocked, publish, dropped>>
    /\ wire' = Tail(wire)
    /\ UNCHANGED <<roomvars, streams, cursor, tries, turnvars, readervars, outbox, sending, stale,
                   settled>>

\* applyResidentTaskInterrupt, and applyResidentTaskSteer with
\* markSteerPriorityLocked up to the request to yield
Control ==
    /\ wire # <<>> /\ Head(wire).kind \in {"interrupt", "steer"} /\ ReaderFree
    /\ LET c == Head(wire)
           waits == c.seq \in ToSet(pending) \ delivered
       IN  IF c.kind = "interrupt"
           THEN yield' = c.turn /\ UNCHANGED steered
           ELSE IF lane = c.turn /\ c.seq \in ToSet(pending) \ steered
           THEN /\ steered' = steered \cup {c.seq}
                /\ yield' = c.turn
           ELSE UNCHANGED <<yield, steered>>
    /\ wire' = Tail(wire)
    /\ UNCHANGED <<roomvars, streams, received, pending, delivered, cursor, tries, blocked,
                   turnvars, grip, pubvars, histories>>

-----------------------------------------------------------------------------
(* turnControlMu *)

\* Mutant: the lock is given up between the check and the dispatch.
ControlAlwaysFree == TRUE

\* The lock under which a turn becomes active, is marked and ends.
ControlFree == grip = 0

\* cancelActiveTaskTurn: the turn of the control is compared with the active one.
Check ==
    /\ yield # 0 /\ yield' = 0
    /\ grip' = IF turn = yield THEN yield ELSE 0
    /\ UNCHANGED <<roomvars, wire, streams, queuevars, turnvars, pubvars, histories>>

\* cancelHarnessTurnFor: a cancel names no turn, the Harness stops what it works on, if
\* anything.  When it cannot be written, the turn is not marked.
Dispatch ==
    /\ grip # 0 /\ grip' = 0
    /\ \/ marker' = grip /\ Due("reader")
       \/ UNCHANGED <<marker, publish>>
    /\ UNCHANGED <<roomvars, wire, streams, queuevars, lane, step, result, turn, working, yield,
                   outbox, sending, stale, histories>>

Republish ==
    /\ wire # <<>> /\ Head(wire).kind = "resync" /\ ReaderFree
    /\ wire' = Tail(wire) /\ Due("reader")
    /\ UNCHANGED <<roomvars, streams, queuevars, turnvars, readervars, outbox, sending, stale, histories>>

-----------------------------------------------------------------------------
(* The goroutine of a turn *)

TurnFree == publish["turn"] = NoPublication

\* Mutant: a delivered instruction is offered again until it is collapsed.
WaitingAll == ToSet(pending)

Waiting == ToSet(pending) \ delivered

\* nextPendingTargetLocked: the oldest that was put first, else the oldest.
NextTarget ==
    LET first == Waiting \cap steered
        targets == IF first # {} THEN first ELSE Waiting
    IN  pending[CHOOSE i \in 1..Len(pending) :
                   /\ pending[i] \in targets
                   /\ \A j \in 1..(i - 1) : pending[j] \notin targets]

\* launchTurns, beginTurnLane
Launch ==
    /\ lane = 0 /\ TurnFree /\ ~blocked /\ Waiting # {}
    /\ lane' = NextTarget /\ step' = "admit"
    /\ UNCHANGED <<roomvars, wire, streams, queuevars, result, turn, working, marker, readervars, pubvars, histories>>

\* runTurn ends before the turn is active: without a session or its context, which
\* counts as an attempt ("fatal" if no other can help), or without events to tell or the
\* acceptance of the Task, which does not.
NotBegun ==
    /\ step = "admit" /\ step' = "consumed"
    /\ result' \in {"error", "fatal", "deferred"}
    /\ UNCHANGED <<roomvars, wire, streams, queuevars, lane, turn, working, marker, readervars,
                   pubvars, histories>>

\* beginActivity and beginTaskTurn
Begin ==
    /\ step = "admit" /\ ControlFree
    /\ turn' = lane /\ step' = "begun" /\ Due("turn")
    /\ UNCHANGED <<roomvars, wire, streams, queuevars, lane, result, working, marker, readervars,
                   outbox, sending, stale, histories>>

\* RunTurnFor: the prompt is written, or it is refused: another scope may be using the
\* session, and then the turn is deferred.
Prompt ==
    /\ step = "begun" /\ TurnFree
    /\ \/ working' = lane /\ step' = "prompt" /\ UNCHANGED result
       \/ step' = "returned" /\ result' \in {"error", "deferred"} /\ UNCHANGED working
    /\ UNCHANGED <<roomvars, wire, streams, queuevars, lane, turn, marker, readervars, pubvars, histories>>

\* runHarnessTurn returns: an interrupted Harness answers as it likes.
Return ==
    /\ step = "prompt" /\ step' = "returned"
    /\ working' = 0 /\ result' \in {"ok", "error"}
    /\ UNCHANGED <<roomvars, wire, streams, queuevars, lane, turn, marker, readervars, pubvars, histories>>

\* consumeTurnInterrupted; a deferred turn stays deferred.
Consume ==
    /\ step = "returned" /\ ControlFree /\ step' = "consumed"
    /\ result' = IF marker = lane /\ result # "deferred" THEN "interrupted" ELSE result
    /\ marker' = IF marker = lane THEN 0 ELSE marker
    /\ UNCHANGED <<roomvars, wire, streams, queuevars, lane, turn, working, readervars, pubvars, histories>>

\* acknowledgeHarnessDeliveryFor, collapseDeliveredPrefixLocked
Acknowledged(t) ==
    LET done == delivered \cup {t}
        waits == {i \in 1..Len(pending) : pending[i] \notin done}
        kept == IF waits = {} THEN <<>>
                ELSE SubSeq(pending, CHOOSE i \in waits : \A j \in waits : i <= j, Len(pending))
        gone == SubSeq(pending, 1, Len(pending) - Len(kept))
    IN  /\ pending' = kept
        /\ delivered' = done \cap ToSet(kept) /\ steered' = steered \cap ToSet(kept)
        /\ cursor' = IF gone = <<>> THEN cursor ELSE Last(gone)

\* discardUndeliveredTaskWorkLocked, of markTaskAttentionAndQuarantine
Quarantine ==
    /\ pending' = <<>> /\ delivered' = {} /\ steered' = {}
    /\ cursor' = Last(pending)
    /\ dropped' = dropped \cup (ToSet(pending) \ delivered)
    /\ tries' = [i \in Instructions |-> 0]
    /\ blocked' = TRUE

\* scheduleTurnRetry: the work waits for another attempt, which counts.
Retry(t) ==
    /\ tries' = [tries EXCEPT ![t] = @ + 1]
    /\ UNCHANGED <<pending, delivered, steered, cursor, blocked, settled, dropped>>

\* finishActivity, and what the result means: settleInterruptedTurn, the
\* acknowledgement, nothing for a deferred turn, or failTurn
Settle ==
    /\ step = "consumed" /\ ControlFree /\ step' = "settled"
    /\ turn' = 0
    /\ marker' = IF marker = turn THEN 0 ELSE marker
    /\ \/ /\ result \in {"ok", "interrupted"}
          /\ Acknowledged(lane)
          /\ settled' = settled \cup {lane}
          /\ tries' = [tries EXCEPT ![lane] = 0]
          /\ UNCHANGED <<blocked, dropped>>
       \/ /\ result = "deferred"
          /\ UNCHANGED <<pending, delivered, steered, cursor, tries, blocked, settled, dropped>>
       \/ result = "error" /\ tries[lane] < MaxRetries /\ Retry(lane)
       \/ /\ result = "fatal" \/ (result = "error" /\ tries[lane] >= MaxRetries)
          /\ Quarantine /\ UNCHANGED settled
    /\ Due("turn")
    /\ UNCHANGED <<roomvars, wire, streams, received, lane, result, working, readervars, outbox, sending, stale>>

\* finishTurnLane: the lane is released, then the execution is published again.
Release ==
    /\ step = "settled" /\ TurnFree
    /\ lane' = 0 /\ step' = "idle" /\ result' = "none"
    /\ UNCHANGED <<roomvars, wire, streams, queuevars, turn, working, marker, readervars, pubvars, histories>>

-----------------------------------------------------------------------------
(* publishTaskExecution *)

\* snapshotTaskExecution
Snapshot(g) ==
    /\ publish[g].at = "due" /\ ControlFree
    /\ publish' = [publish EXCEPT ![g] =
         [at |-> "held", turn |-> turn, stopping |-> turn # 0 /\ marker = turn]]
    /\ UNCHANGED <<roomvars, wire, streams, queuevars, turnvars, readervars, outbox, sending, stale, histories>>

\* The newest projection replaces what is queued.
Enqueue(g) ==
    /\ publish[g].at = "held"
    /\ outbox' = [turn |-> publish[g].turn, stopping |-> publish[g].stopping]
    /\ publish' = [publish EXCEPT ![g] = NoPublication]
    /\ UNCHANGED <<roomvars, wire, streams, queuevars, turnvars, readervars, sending, stale, histories>>

\* drainTaskExecutionPublications: one update at a time
Send ==
    /\ outbox # None /\ sending = None
    /\ sending' = outbox /\ outbox' = None
    /\ UNCHANGED <<roomvars, wire, streams, queuevars, turnvars, readervars, publish, stale, histories>>

\* The update fails: it is not repeated.
LoseUpdate ==
    /\ sending # None
    /\ sending' = None /\ stale' = TRUE
    /\ UNCHANGED <<roomvars, wire, streams, queuevars, turnvars, readervars, publish, outbox, histories>>

-----------------------------------------------------------------------------

RoomNext ==
    \/ Say \/ Resync \/ Ingest \/ Close \/ Connect \/ Hibernate
    \/ \E n \in shown : InterruptAndSend(n) \/ Interrupt(n)

RuntimeNext ==
    \/ Receive \/ Control \/ Check \/ Dispatch \/ Republish
    \/ Launch \/ NotBegun \/ Begin \/ Prompt \/ Return \/ Consume \/ Settle \/ Release
    \/ \E g \in Goroutines : Snapshot(g) \/ Enqueue(g)
    \/ Send \/ LoseUpdate

Next == RoomNext \/ RuntimeNext

Spec == Init /\ [][Next]_vars

-----------------------------------------------------------------------------
(* Properties *)

\* "a stale button click must never be able to stop or redirect a future turn": while a
\* cancel is about to be written, the Harness works on no prompt but that of the turn
\* which the Human's page showed, though the cancel itself names none; and the mark it
\* leaves ends with that turn, so that no later one is taken for interrupted.
OnlyThatTurnIsCancelled ==
    /\ grip # 0 => working \in {0, grip}
    /\ marker \in {0, turn}

\* An instruction that the runtime has received waits, has had its turn, or was given
\* up: quarantined, which the Human is told, or refused by a full queue, which nobody
\* is; in particular the cursor never passes one that waits behind an instruction
\* which was put before it.
NothingIsSkipped ==
    \A s \in 1..received :
        \/ s \in ToSet(pending) /\ s > cursor
        \/ s \in settled \cup dropped

\* No instruction that had its turn gets another one: neither by a replay on a
\* new stream, nor by an earlier instruction that still waits.
SettledOnce == lane \in settled => step = "settled"

\* Each instruction is handled, and once.
HandledOnce == NothingIsSkipped /\ SettledOnce
=============================================================================
