-------------------------- MODULE TaskTurnsProofs --------------------------
(***************************************************************************)
(* For any number of instructions, controls and streams, queues of any     *)
(* length and any number of retries: the runtime skips no instruction of a *)
(* Task and gives none a second turn, and a cancel reaches no turn but the *)
(* one it was meant for, nor does its mark outlast that turn.              *)
(*                                                                         *)
(* The frames of the socket tell every instruction behind receivedThrough  *)
(* in order, so that it never jumps; the queue is in that order too, so    *)
(* that deliveredThrough, which is moved to the last of a delivered        *)
(* prefix, passes nothing that waits.  Between the check of a control and  *)
(* its cancel the turn it found active stays the active one, as turns      *)
(* become active and end under the lock that the control holds.            *)
(***************************************************************************)
EXTENDS TaskTurns, NumberLemmas

-----------------------------------------------------------------------------
(* What the invariant says *)

\* Pending instructions are in order and behind the cursor; what was received waits, has
\* had its turn, or was given up; what had its turn and still waits is delivered.
QueueOk ==
    /\ cursor <= received
    /\ \A i \in 1..Len(pending) : cursor < pending[i] /\ pending[i] <= received
    /\ \A i, j \in 1..Len(pending) : i < j => pending[i] < pending[j]
    /\ \A s \in 1..received : s \in ToSet(pending) \/ s \in settled \cup dropped
    /\ \A s \in settled \cup dropped : s <= received
    /\ delivered \subseteq settled
    /\ settled \cap ToSet(pending) \subseteq delivered

\* The turn in the lane waits for its end.  It is the active one from before its prompt
\* until after the answer, and a control that holds the lock has found the active one.
TurnOk ==
    /\ lane = 0 <=> step = "idle"
    /\ step \in {"admit", "begun", "prompt", "returned", "consumed"} =>
          lane \in ToSet(pending) \ delivered
    /\ step \in {"idle", "admit", "settled"} => turn = 0
    /\ step \in {"begun", "prompt", "returned"} => turn = lane
    /\ working # 0 => step = "prompt" /\ working = turn
    /\ grip # 0 => turn = grip
    /\ marker \in {0, turn}

Tells(f, s) == f.kind = "event" /\ f.seq = s

\* In front of each instruction on the wire are those that the runtime lacks, and an
\* open socket has them all.
WireOk ==
    /\ received <= posted
    /\ ~online => wire = <<>>
    /\ \A k \in 1..Len(wire) : wire[k].kind = "event" =>
          /\ wire[k].seq <= posted
          /\ \A s \in 1..(wire[k].seq - 1) :
                received < s => \E j \in 1..(k - 1) : Tells(wire[j], s)
    /\ online => \A s \in 1..posted : received < s => \E j \in 1..Len(wire) : Tells(wire[j], s)

IInv == TypeOK /\ QueueOk /\ TurnOk /\ WireOk

\* The Harness works on the active turn, and that is the one the control has found.
LEMMA InvariantMeans == IInv => OnlyThatTurnIsCancelled
  BY DEF IInv, TurnOk, OnlyThatTurnIsCancelled

LEMMA InvariantHandles == ConstantsFit /\ IInv => HandledOnce
<1> SUFFICES ASSUME ConstantsFit, IInv PROVE HandledOnce
  OBVIOUS
<1>1. NothingIsSkipped
  <2> SUFFICES ASSUME NEW s \in 1..received
               PROVE  (s \in ToSet(pending) /\ s > cursor) \/ s \in settled \cup dropped
    BY DEF NothingIsSkipped
  <2>1. s \in ToSet(pending) \/ s \in settled \cup dropped
    BY DEF IInv, QueueOk
  <2>2. ASSUME s \in ToSet(pending) PROVE s > cursor
    <3>1. PICK i \in 1..Len(pending) : s = pending[i]
      BY <2>2 DEF IInv, TypeOK, ToSet
    <3>2. cursor \in Nat /\ s \in Nat
      BY DEF IInv, TypeOK, Turns, ConstantsFit
    <3>3. QED
      BY <3>1, <3>2 DEF IInv, QueueOk
  <2>3. QED
    BY <2>1, <2>2
<1>2. SettledOnce
  <2> SUFFICES ASSUME lane \in settled, step # "settled" PROVE FALSE
    BY DEF SettledOnce
  <2>1. lane # 0
    BY DEF IInv, TypeOK, Instructions, ConstantsFit
  <2>2. step \in {"admit", "begun", "prompt", "returned", "consumed"}
    BY <2>1 DEF IInv, TypeOK, TurnOk
  <2>3. QED
    BY <2>2 DEF IInv, TurnOk, QueueOk
<1>3. QED
  BY <1>1, <1>2 DEF HandledOnce

-----------------------------------------------------------------------------
(* Part 1: the wire *)

\* Where the invariant looks at no more than what stays
LEMMA WireStays ==
    ASSUME WireOk, UNCHANGED <<received, posted, online, wire>>
    PROVE  WireOk'
  BY DEF WireOk

LEMMA QueueStays ==
    ASSUME QueueOk, UNCHANGED <<received, pending, delivered, cursor, settled, dropped>>
    PROVE  QueueOk'
  BY DEF QueueOk

LEMMA TurnStays ==
    ASSUME TurnOk, UNCHANGED <<lane, step, pending, delivered, turn, working, marker, grip>>
    PROVE  TurnOk'
  BY DEF TurnOk

LEMMA Numbers ==
    ASSUME ConstantsFit, TypeOK
    PROVE  /\ posted \in Nat /\ received \in Nat /\ cursor \in Nat /\ lane \in Nat
           /\ Len(wire) \in Nat /\ Len(pending) \in Nat
           /\ Instructions \subseteq Nat \ {0}
           /\ \A i \in 1..Len(pending) : pending[i] \in Instructions
           /\ \A k \in 1..Len(wire) : wire[k] \in Frames
           /\ \A k \in 1..Len(wire) : wire[k].kind = "event" => wire[k].seq \in Nat
<1>1. \A k \in 1..Len(wire) : wire[k] \in Frames
  BY DEF TypeOK
<1>2. \A f \in Frames : f.kind = "event" => f.seq \in Nat
  BY DEF Frames, Turns, ConstantsFit
<1>3. Len(wire) \in Nat /\ Len(pending) \in Nat /\ (\A i \in 1..Len(pending) : pending[i] \in Instructions)
  BY DEF TypeOK
<1>4. QED
  BY <1>1, <1>2, <1>3 DEF TypeOK, Turns, Instructions, ConstantsFit

\* The frame in front is taken off; an instruction in it is received.
LEMMA FrontTaken ==
    ASSUME ConstantsFit, TypeOK, WireOk, wire # <<>>, wire' = Tail(wire), UNCHANGED <<posted, online>>,
           received' \in Nat, received <= received', received' <= posted,
           Head(wire).kind = "event" => Head(wire).seq <= received'
    PROVE  WireOk'
<1>1. /\ 1 \in 1..Len(wire) /\ Head(wire) = wire[1] /\ Len(wire') = Len(wire) - 1
      /\ \A k \in 1..Len(wire') : k + 1 \in 1..Len(wire) /\ wire'[k] = wire[k + 1]
  BY DEF TypeOK
<1>2. \A s \in Nat : received' < s => ~Tells(wire[1], s)
  BY <1>1, Numbers DEF Tells
<1>3. ASSUME NEW k \in 1..Len(wire'), wire'[k].kind = "event"
      PROVE  /\ wire'[k].seq <= posted
             /\ \A s \in 1..(wire'[k].seq - 1) :
                   received' < s => \E j \in 1..(k - 1) : Tells(wire'[j], s)
  <2>1. k + 1 \in 1..Len(wire) /\ wire'[k] = wire[k + 1]
    BY <1>1
  <2>2. /\ wire[k + 1].seq <= posted
        /\ \A s \in 1..(wire[k + 1].seq - 1) :
              received < s => \E j \in 1..k : Tells(wire[j], s)
    <3>1. (k + 1) - 1 = k
      OBVIOUS
    <3>2. QED
      BY <1>3, <2>1, <3>1 DEF WireOk
  <2>3. ASSUME NEW s \in 1..(wire'[k].seq - 1), received' < s
        PROVE  \E j \in 1..(k - 1) : Tells(wire'[j], s)
    <3>1. received < s /\ s \in Nat
      BY <2>3, Numbers
    <3>2. PICK j \in 1..k : Tells(wire[j], s)
      BY <2>1, <2>2, <3>1
    <3>3. j # 1
      BY <1>2, <2>3, <3>1, <3>2
    <3>4. j - 1 \in 1..(k - 1) /\ j - 1 \in 1..Len(wire') /\ (j - 1) + 1 = j
      BY <3>3
    <3>5. wire'[j - 1] = wire[j]
      BY <1>1, <3>4
    <3>6. QED
      BY <3>2, <3>4, <3>5
  <2>4. QED
    BY <2>1, <2>2, <2>3
<1>4. ASSUME online, NEW s \in 1..posted, received' < s
      PROVE  \E j \in 1..Len(wire') : Tells(wire'[j], s)
  <2>1. received < s
    BY <1>4, Numbers
  <2>2. PICK j \in 1..Len(wire) : Tells(wire[j], s)
    BY <1>4, <2>1 DEF WireOk
  <2>3. j # 1
    BY <1>2, <1>4, <2>2
  <2>4. j - 1 \in 1..Len(wire') /\ (j - 1) + 1 = j
    BY <1>1, <2>3, Numbers
  <2>5. wire'[j - 1] = wire[j]
    BY <1>1, <2>4
  <2>6. QED
    BY <2>2, <2>4, <2>5
<1>5. online
  BY DEF WireOk
<1>6. QED
  BY <1>3, <1>4, <1>5 DEF WireOk

\* Frames join the wire: an instruction only as the first, and it is the next of the room.
LEMMA FramesPushed ==
    ASSUME ConstantsFit, TypeOK, WireOk, NEW frames \in Seq(Frames), Push(frames),
           UNCHANGED <<received, online>>, posted' \in {posted, posted + 1},
           posted' = posted + 1 => frames # <<>> /\ Tells(frames[1], posted + 1),
           \A k \in 1..Len(frames) : frames[k].kind = "event" =>
                k = 1 /\ posted' = posted + 1 /\ frames[k].seq = posted + 1
    PROVE  WireOk' /\ wire' \in Seq(Frames)
<1>1. posted \in Nat /\ received \in Nat /\ posted <= posted' /\ posted' \in Nat
  BY Numbers
<1>2. CASE ~online
  BY <1>1, <1>2 DEF Push, WireOk, TypeOK
<1>3. CASE online
  <2> DEFINE n == Len(wire)
             m == Len(frames)
  <2>1. /\ wire' \in Seq(Frames) /\ Len(wire') = n + m /\ n \in Nat /\ m \in Nat
        /\ \A k \in 1..n : wire'[k] = wire[k]
        /\ \A k \in 1..m : wire'[n + k] = frames[k]
    BY <1>3, JoinedSequences DEF Push, TypeOK
  <2> HIDE DEF n, m
  <2>2. \A k \in 1..Len(wire') : k \in 1..n \/ (k - n \in 1..m /\ n + (k - n) = k)
    BY <2>1
  <2>3. \A s \in 1..posted : received < s => \E j \in 1..n : Tells(wire'[j], s)
    BY <1>3, <2>1 DEF WireOk, n
  <2>4. ASSUME NEW k \in 1..Len(wire'), wire'[k].kind = "event"
        PROVE  /\ wire'[k].seq <= posted'
               /\ \A s \in 1..(wire'[k].seq - 1) :
                     received < s => \E j \in 1..(k - 1) : Tells(wire'[j], s)
    <3>1. CASE k \in 1..n
      <4>1. wire'[k] = wire[k] /\ wire[k].kind = "event" /\ k \in 1..Len(wire)
        BY <2>1, <2>4, <3>1 DEF n
      <4>2. /\ wire[k].seq <= posted
            /\ \A s \in 1..(wire[k].seq - 1) :
                  received < s => \E j \in 1..(k - 1) : Tells(wire[j], s)
        BY <4>1 DEF WireOk
      <4>3. \A j \in 1..(k - 1) : j \in 1..n
        BY <2>1, <3>1
      <4>4. wire[k].seq \in Nat
        BY <4>1, Numbers
      <4>5. \A j \in 1..(k - 1) : wire'[j] = wire[j]
        BY <2>1, <4>3
      <4>6. QED
        BY <1>1, <4>1, <4>2, <4>4, <4>5
    <3>2. CASE k - n \in 1..m /\ n + (k - n) = k
      <4>1. wire'[k] = frames[k - n]
        BY <2>1, <3>2
      <4>2. k - n = 1 /\ posted' = posted + 1 /\ frames[k - n].seq = posted + 1
        BY <2>4, <3>2, <4>1 DEF m
      <4>3. wire'[k].seq = posted + 1 /\ k - 1 = n
        BY <2>1, <4>1, <4>2
      <4>4. (posted + 1) - 1 = posted
        BY <1>1
      <4>5. QED
        BY <1>1, <2>3, <4>2, <4>3, <4>4
    <3>3. QED
      BY <2>2, <3>1, <3>2
  <2>5. ASSUME NEW s \in 1..posted', received < s
        PROVE  \E j \in 1..Len(wire') : Tells(wire'[j], s)
    <3>1. CASE s \in 1..posted
      <4>1. \A j \in 1..n : j \in 1..Len(wire')
        BY <2>1
      <4>2. QED
        BY <2>3, <2>5, <3>1, <4>1
    <3>2. CASE s = posted + 1 /\ posted' = posted + 1
      <4>1. 1 \in 1..m
        BY <2>1, <3>2 DEF m
      <4>2. n + 1 \in 1..Len(wire') /\ wire'[n + 1] = frames[1]
        BY <2>1, <4>1
      <4>3. Tells(wire'[n + 1], s)
        BY <3>2, <4>2
      <4>4. QED
        BY <4>2, <4>3
    <3>3. QED
      BY <1>1, <3>1, <3>2
  <2>6. received <= posted'
    BY <1>1 DEF WireOk
  <2>7. QED
    BY <1>3, <2>1, <2>4, <2>5, <2>6 DEF WireOk
<1>4. QED
  BY <1>2, <1>3 DEF TypeOK

\* A new stream begins with what the runtime lacks.
LEMMA StreamBegins ==
    ASSUME ConstantsFit, TypeOK, WireOk, Connect
    PROVE  WireOk' /\ wire' \in Seq(Frames)
<1>1. posted \in Nat /\ received \in Nat /\ posted <= MaxInstructions /\ MaxInstructions \in Nat
  BY Numbers DEF TypeOK, Turns, ConstantsFit
<1>2. posted - received \in Nat
  BY <1>1 DEF WireOk
<1>3. /\ wire' = [i \in 1..(posted - received) |-> Event(received + i)]
      /\ UNCHANGED <<posted, received>> /\ online'
  BY DEF Connect, queuevars
<1>4. \A i \in 1..(posted - received) : Event(received + i) \in Frames
  <2> SUFFICES ASSUME NEW i \in 1..(posted - received) PROVE Event(received + i) \in Frames
    OBVIOUS
  <2>1. received + i \in 0..MaxInstructions /\ 0 \in 0..MaxInstructions
    BY <1>1, <1>2
  <2>2. received + i \in Turns /\ 0 \in Turns
    BY <2>1 DEF Turns
  <2>3. QED
    BY <2>2 DEF Event, Frames
<1>5. Len(wire') = posted - received /\ wire' \in Seq(Frames)
  BY <1>2, <1>3, <1>4
<1>6. \A k \in 1..Len(wire') : wire'[k] = Event(received + k)
  BY <1>3, <1>5
<1>7. \A k \in 1..Len(wire') : wire'[k].kind = "event" /\ wire'[k].seq = received + k
  <2> SUFFICES ASSUME NEW k \in 1..Len(wire')
               PROVE  wire'[k].kind = "event" /\ wire'[k].seq = received + k
    OBVIOUS
  <2>1. wire'[k] = [kind |-> "event", turn |-> 0, seq |-> received + k]
    BY <1>6 DEF Event
  <2>2. QED
    BY <2>1
<1>8. ASSUME NEW s \in Nat, received < s, s <= posted
      PROVE  s - received \in 1..Len(wire') /\ Tells(wire'[s - received], s)
  <2>1. s - received \in 1..Len(wire') /\ received + (s - received) = s
    BY <1>1, <1>5, <1>8
  <2>2. QED
    BY <1>7, <2>1 DEF Tells
<1>9. ASSUME NEW k \in 1..Len(wire')
      PROVE  /\ wire'[k].seq <= posted
             /\ \A s \in 1..(wire'[k].seq - 1) :
                   received < s => \E j \in 1..(k - 1) : Tells(wire'[j], s)
  <2>1. wire'[k].seq = received + k
    BY <1>7
  <2>4. k \in Nat /\ 1 <= k /\ k <= posted - received
    BY <1>2, <1>5
  <2>2. ASSUME NEW s \in 1..((received + k) - 1), received < s
        PROVE  \E j \in 1..(k - 1) : Tells(wire'[j], s)
    <3>1. s \in Nat /\ s <= posted /\ s - received \in 1..(k - 1)
      BY <1>1, <2>4, <2>2
    <3>2. s - received \in 1..Len(wire') /\ Tells(wire'[s - received], s)
      BY <1>8, <2>2, <3>1
    <3>3. QED
      BY <3>1, <3>2
  <2>5. wire'[k].seq <= posted
    BY <1>1, <2>1, <2>4
  <2>3. QED
    BY <2>1, <2>2, <2>5
<1>10. \A s \in 1..posted : received < s => \E j \in 1..Len(wire') : Tells(wire'[j], s)
  BY <1>1, <1>8
<1>11. WireOk'
  <2>1. received' <= posted'
    BY <1>3 DEF WireOk
  <2>2. online' /\ posted' = posted /\ received' = received
    BY <1>3
  <2>3. QED
    BY <1>9, <1>10, <2>1, <2>2 DEF WireOk
<1>12. QED
  BY <1>5, <1>11

LEMMA EventIsFrame ==
    ASSUME ConstantsFit, NEW s \in Turns
    PROVE  Event(s) \in Frames /\ Tells(Event(s), s)
<1>1. 0 \in Turns
  BY DEF ConstantsFit, Turns
<1>2. QED
  BY <1>1 DEF Event, Frames, Tells

\* What each frame sender and each receiver does to the wire
LEMMA SayOnWire ==
    ASSUME ConstantsFit, TypeOK, WireOk, Say
    PROVE  WireOk' /\ wire' \in Seq(Frames)
<1>1. posted \in Nat /\ posted + 1 \in Turns /\ posted' = posted + 1
  BY DEF TypeOK, Turns, ConstantsFit, Say
<1>2. Event(posted + 1) \in Frames /\ Tells(Event(posted + 1), posted + 1)
  BY <1>1, EventIsFrame
<1> DEFINE frames == <<Event(posted + 1)>>
<1>3. frames \in Seq(Frames) /\ Len(frames) = 1 /\ frames[1] = Event(posted + 1) /\ frames # <<>>
  BY <1>2
<1>4. Push(frames) /\ UNCHANGED <<received, online>>
  BY <1>1 DEF Say, queuevars
<1> HIDE DEF frames
<1>5. \A k \in 1..Len(frames) : k = 1
  BY <1>3
<1>6. QED
  BY <1>1, <1>2, <1>3, <1>4, <1>5, FramesPushed DEF Tells

LEMMA InterruptAndSendOnWire ==
    ASSUME ConstantsFit, TypeOK, WireOk, NEW n \in Turns, InterruptAndSend(n)
    PROVE  WireOk' /\ wire' \in Seq(Frames)
<1>1. posted \in Nat /\ posted + 1 \in Turns /\ posted' = posted + 1
  BY DEF TypeOK, Turns, ConstantsFit, InterruptAndSend
<1>2. Event(posted + 1) \in Frames /\ Tells(Event(posted + 1), posted + 1)
  BY <1>1, EventIsFrame
<1> DEFINE steer == [kind |-> "steer", turn |-> n, seq |-> posted + 1]
           frames == <<Event(posted + 1)>> \o IF CurrentTurn = n THEN <<steer>> ELSE <<>>
<1>3. steer \in Frames /\ steer.kind # "event"
  BY <1>1 DEF Frames
<1>4. Push(frames) /\ UNCHANGED <<received, online>>
  BY <1>1 DEF InterruptAndSend, queuevars
<1> HIDE DEF steer
<1>5. /\ frames \in Seq(Frames) /\ frames # <<>> /\ frames[1] = Event(posted + 1)
      /\ \A k \in 1..Len(frames) : k = 1 \/ frames[k] = steer
  <2>1. CASE CurrentTurn = n
    BY <1>2, <1>3, <2>1
  <2>2. CASE CurrentTurn # n
    BY <1>2, <2>2
  <2>3. QED
    BY <2>1, <2>2
<1> HIDE DEF frames
<1>6. QED
  BY <1>1, <1>2, <1>3, <1>4, <1>5, FramesPushed DEF Tells

LEMMA ControlsOnWire ==
    ASSUME ConstantsFit, TypeOK, WireOk, Resync \/ (\E n \in Turns : Interrupt(n))
    PROVE  WireOk' /\ wire' \in Seq(Frames)
<1>1. 0 \in Turns /\ posted \in Nat
  BY DEF TypeOK, Turns, ConstantsFit
<1>2. PICK f \in Frames : /\ f.kind # "event"
                          /\ Push(<<f>>) /\ UNCHANGED <<received, online, posted>>
  <2>1. CASE Resync
    <3>1. [kind |-> "resync"] \in Frames
      BY DEF Frames
    <3>2. QED
      BY <2>1, <3>1 DEF Resync, queuevars
  <2>2. ASSUME NEW n \in Turns, Interrupt(n)
        PROVE  \E f \in Frames : /\ f.kind # "event"
                                 /\ Push(<<f>>) /\ UNCHANGED <<received, online, posted>>
    <3>1. [kind |-> "interrupt", turn |-> n, seq |-> 0] \in Frames
      BY <1>1 DEF Frames
    <3>2. QED
      BY <2>2, <3>1 DEF Interrupt, queuevars, roomvars
  <2>3. QED
    BY <2>1, <2>2
<1> DEFINE frames == <<f>>
<1>3. frames \in Seq(Frames) /\ \A k \in 1..Len(frames) : frames[k] = f
  OBVIOUS
<1>4. Push(frames)
  BY <1>2
<1> HIDE DEF frames
<1>5. QED
  BY <1>1, <1>2, <1>3, <1>4, FramesPushed

LEMMA FrontFrame ==
    ASSUME ConstantsFit, TypeOK, WireOk, wire # <<>>
    PROVE  /\ Head(wire) \in Frames /\ Tail(wire) \in Seq(Frames)
           /\ Head(wire).kind = "event" =>
                 /\ Head(wire).seq \in Turns
                 /\ Head(wire).seq <= posted /\ Head(wire).seq <= received + 1
<1>1. 1 \in 1..Len(wire) /\ Head(wire) = wire[1] /\ Tail(wire) \in Seq(Frames) /\ wire[1] \in Frames
  BY DEF TypeOK
<1>2. ASSUME wire[1].kind = "event"
      PROVE  wire[1].seq \in Turns /\ wire[1].seq <= posted /\ wire[1].seq <= received + 1
  <2>1. wire[1].seq \in Turns
    BY <1>1, <1>2 DEF Frames
  <2>2. wire[1].seq <= posted
    BY <1>1, <1>2 DEF WireOk
  <2>3. \A s \in 1..(wire[1].seq - 1) : ~(received < s)
    BY <1>1, <1>2 DEF WireOk
  <2>4. wire[1].seq \in Nat /\ received \in Nat
    BY <2>1, Numbers DEF Turns, ConstantsFit
  <2>5. QED
    BY <2>1, <2>2, <2>3, <2>4
<1>3. QED
  BY <1>1, <1>2

LEMMA TakenOnWire ==
    ASSUME ConstantsFit, TypeOK, WireOk, Control \/ Republish \/ Receive
    PROVE  WireOk' /\ wire' \in Seq(Frames)
<1>1. posted \in Nat /\ received \in Nat /\ received <= posted
  BY Numbers DEF WireOk
<1>2. wire # <<>> /\ wire' = Tail(wire) /\ UNCHANGED <<posted, online>>
  BY DEF Control, Republish, Receive, roomvars
<1>3. /\ received' \in Nat /\ received <= received' /\ received' <= posted
      /\ Head(wire).kind = "event" => Head(wire).seq <= received'
  <2>1. CASE Control \/ Republish
    <3>1. received' = received /\ Head(wire).kind # "event"
      BY <2>1 DEF Control, Republish, queuevars
    <3>2. QED
      BY <1>1, <3>1
  <2>2. CASE Receive
    <3>1. Head(wire).kind = "event"
          /\ received' = IF Head(wire).seq > received THEN Head(wire).seq ELSE received
      BY <2>2 DEF Receive
    <3>2. Head(wire).seq \in Nat /\ Head(wire).seq <= posted
      BY <1>2, <3>1, FrontFrame DEF Turns, ConstantsFit
    <3>3. QED
      BY <1>1, <3>1, <3>2
  <2>3. QED
    BY <2>1, <2>2
<1>4. QED
  BY <1>2, <1>3, FrontTaken, FrontFrame

-----------------------------------------------------------------------------
(* Part 2: what each action does to the types *)

LEMMA DueType ==
    ASSUME ConstantsFit, TypeOK, NEW g \in Goroutines, Due(g)
    PROVE  publish' \in [Goroutines -> Publications]
<1>1. publish[g] \in Publications
  BY DEF TypeOK
<1>2. [publish[g] EXCEPT !.at = "due"] \in Publications
  BY <1>1 DEF Publications
<1>3. QED
  BY <1>2 DEF TypeOK, Due

LEMMA RoomTypes ==
    ASSUME ConstantsFit, IInv, RoomNext, wire' \in Seq(Frames)
    PROVE  TypeOK'
<1> USE DEF IInv
<1>1. MaxInstructions \in Nat /\ MaxStreams \in Nat /\ 0 \in Turns /\ CurrentTurn \in Turns
  <2>1. memory # None => memory.turn \in Turns
    BY DEF TypeOK, Projections
  <2>2. MaxInstructions \in Nat /\ MaxStreams \in Nat
    BY DEF ConstantsFit
  <2>3. 0 \in Turns /\ attached \in Turns
    BY <2>2 DEF TypeOK, Turns
  <2>4. QED
    BY <2>1, <2>2, <2>3 DEF CurrentTurn
<1>2. CASE Say
  BY <1>1, <1>2 DEF TypeOK, Turns, Say, queuevars, turnvars, readervars, pubvars, histories
<1>3. CASE Resync
  <2>1. shown' \subseteq Instructions
    BY <1>1, <1>3 DEF TypeOK, Resync, Shows, Turns, Instructions
  <2>2. QED
    BY <1>3, <2>1 DEF TypeOK, Resync, queuevars, turnvars, readervars, pubvars, histories
<1>4. CASE Ingest
  <2>1. sending \in Projections /\ sending.turn \in Turns
    BY <1>4 DEF TypeOK, Ingest, Projections
  <2>2. shown' \subseteq Instructions
    <3>1. shown' \subseteq shown \cup ({sending.turn} \ {0})
      BY <1>4 DEF Ingest, Shows
    <3>2. {sending.turn} \ {0} \subseteq Instructions
      BY <1>1, <2>1 DEF Turns, Instructions
    <3>3. QED
      BY <3>1, <3>2 DEF TypeOK
  <2>3. memory' \in Projections \cup {None} /\ attached' \in Turns
    BY <1>4, <2>1 DEF TypeOK, Ingest, Records
  <2>4. QED
    BY <1>4, <2>2, <2>3 DEF TypeOK, Ingest, queuevars, turnvars, readervars, histories
<1>5. CASE Close
  BY <1>1, <1>5 DEF TypeOK, Close, queuevars, turnvars, readervars, pubvars, histories
<1>6. CASE Connect
  <2>1. publish' \in [Goroutines -> Publications]
    BY <1>6, DueType DEF Connect, Goroutines
  <2>2. streams' \in 1..MaxStreams
    BY <1>1, <1>6 DEF TypeOK, Connect
  <2>3. QED
    BY <1>1, <1>6, <2>1, <2>2 DEF TypeOK, Connect, queuevars, turnvars, readervars, histories
<1>7. CASE Hibernate
  BY <1>7 DEF TypeOK, Hibernate, queuevars, turnvars, readervars, pubvars, histories
<1>8. ASSUME NEW n \in shown, InterruptAndSend(n) \/ Interrupt(n)
      PROVE  TypeOK'
  <2>1. posted' \in Turns
    BY <1>1, <1>8 DEF TypeOK, Turns, InterruptAndSend, Interrupt, roomvars
  <2>2. QED
    BY <1>8, <2>1 DEF TypeOK, InterruptAndSend, Interrupt, roomvars, queuevars, turnvars, readervars, pubvars, histories
<1>9. QED
  BY <1>2, <1>3, <1>4, <1>5, <1>6, <1>7, <1>8 DEF RoomNext

\* The lane, the queue and what is settled keep their types; the other variables do so
\* in each action of the runtime.
LEMMA PublicationTypes ==
    ASSUME ConstantsFit, IInv,
           Send \/ LoseUpdate \/ \E g \in Goroutines : Snapshot(g) \/ Enqueue(g)
    PROVE  TypeOK'
<1> USE DEF IInv
<1>1. 0 \in Turns /\ turn \in Turns /\ NoPublication \in Publications
  BY DEF TypeOK, ConstantsFit, Turns, NoPublication, Publications
<1>2. CASE Send
  BY <1>2 DEF TypeOK, Send, roomvars, queuevars, turnvars, readervars, histories
<1>3. CASE LoseUpdate
  BY <1>3 DEF TypeOK, LoseUpdate, roomvars, queuevars, turnvars, readervars, histories
<1>4. ASSUME NEW g \in Goroutines, Snapshot(g)
      PROVE  TypeOK'
  <2>1. [at |-> "held", turn |-> turn, stopping |-> turn # 0 /\ marker = turn] \in Publications
    BY <1>1 DEF Publications
  <2>2. publish' \in [Goroutines -> Publications]
    BY <1>4, <2>1 DEF TypeOK, Snapshot
  <2>3. QED
    BY <1>4, <2>2 DEF TypeOK, Snapshot, roomvars, queuevars, turnvars, readervars, histories
<1>5. ASSUME NEW g \in Goroutines, Enqueue(g)
      PROVE  TypeOK'
  <2>1. publish' \in [Goroutines -> Publications]
    BY <1>1, <1>5 DEF TypeOK, Enqueue
  <2>2. publish[g].turn \in Turns /\ publish[g].stopping \in BOOLEAN
    BY DEF TypeOK, Publications
  <2>3. outbox' \in Projections
    BY <1>5, <2>2 DEF Enqueue, Projections
  <2>4. QED
    BY <1>5, <2>1, <2>3 DEF TypeOK, Enqueue, roomvars, queuevars, turnvars, readervars, histories
<1>6. QED
  BY <1>2, <1>3, <1>4, <1>5

\* The oldest of what waits, or of what was put first
LEMMA TargetWaits ==
    ASSUME ConstantsFit, TypeOK, Waiting # {}
    PROVE  NextTarget \in Waiting
<1> DEFINE targets == IF Waiting \cap steered # {} THEN Waiting \cap steered ELSE Waiting
           at == {i \in 1..Len(pending) : pending[i] \in targets}
<1>1. targets # {} /\ targets \subseteq Waiting /\ Waiting \subseteq ToSet(pending)
  BY DEF Waiting
<1>2. at \in SUBSET Nat /\ at # {}
  <2>1. PICK x \in targets : x \in ToSet(pending)
    BY <1>1
  <2>2. PICK i \in 1..Len(pending) : pending[i] = x
    BY <2>1 DEF ToSet
  <2>3. QED
    BY <2>1, <2>2, Numbers
<1>3. PICK i \in at : \A j \in at : i <= j
  BY <1>2, Smallest
<1>4. /\ i \in 1..Len(pending) /\ pending[i] \in targets
      /\ \A j \in 1..(i - 1) : pending[j] \notin targets
  <2>1. ASSUME NEW j \in 1..(i - 1), pending[j] \in targets
        PROVE  FALSE
    <3>1. j \in 1..Len(pending) /\ j < i
      BY Numbers
    <3>2. j \in at
      BY <2>1, <3>1
    <3>3. QED
      BY <1>3, <3>1, <3>2
  <2>2. QED
    BY <2>1
<1> HIDE DEF targets, at
<1> DEFINE c == CHOOSE k \in 1..Len(pending) :
                  /\ pending[k] \in targets
                  /\ \A j \in 1..(k - 1) : pending[j] \notin targets
<1>5. pending[c] \in targets
  BY <1>4
<1>6. NextTarget = pending[c]
  BY DEF NextTarget, targets
<1>7. QED
  BY <1>1, <1>5, <1>6

-----------------------------------------------------------------------------
(* Part 3: one lemma for each action of the runtime that moves the queue *)

LEMMA ReceiveKeeps ==
    ASSUME ConstantsFit, IInv, Receive, wire' \in Seq(Frames)
    PROVE  TypeOK' /\ QueueOk' /\ TurnOk'
<1> DEFINE s == Head(wire).seq
<1> USE DEF IInv
<1>1. /\ wire # <<>> /\ s \in Turns /\ s <= received + 1
      /\ received' = IF s > received THEN s ELSE received
      /\ UNCHANGED <<lane, step, turn, working, marker, grip, settled, cursor, steered, delivered>>
  BY FrontFrame DEF Receive, turnvars, readervars, Accepted
<1>2. /\ received \in Nat /\ s \in Nat /\ cursor \in Nat /\ cursor <= received /\ Len(pending) \in Nat
      /\ \A x \in ToSet(pending) : x \in Nat /\ x <= received
      /\ \A x \in settled \cup dropped : x <= received /\ x \in Nat
  <2>1. \A x \in ToSet(pending) : x \in Nat /\ x <= received
    BY Numbers DEF QueueOk, ToSet
  <2>2. \A x \in settled \cup dropped : x <= received /\ x \in Nat
    BY Numbers DEF QueueOk, TypeOK
  <2>3. s \in Nat
    BY <1>1 DEF Turns, ConstantsFit
  <2>4. QED
    BY <2>1, <2>2, <2>3, Numbers DEF QueueOk
<1>3. CASE s <= received
  <2>1. UNCHANGED <<received, pending, blocked, publish, dropped>>
    BY <1>1, <1>2, <1>3 DEF Receive
  <2>2. QueueOk' /\ TurnOk'
    BY <1>1, <2>1, QueueStays, TurnStays
  <2>3. TypeOK'
    BY <1>1, <1>3, <2>1 DEF TypeOK, Receive, roomvars, turnvars, readervars
  <2>4. QED
    BY <2>2, <2>3
<1>4. CASE s = received + 1
  <2>1. /\ received' = s /\ s \in Instructions /\ s \notin ToSet(pending) /\ s > cursor
        /\ s \notin settled \cup dropped
    BY <1>1, <1>2, <1>4 DEF Instructions, Turns
  <2>2. Accepted(s) /\ blocked' \in BOOLEAN /\ (Due("reader") \/ UNCHANGED publish)
    <3>1. s > received /\ s > cursor /\ s \notin ToSet(pending)
      BY <1>2, <1>4, <2>1
    <3>2. Accepted(s) /\ blocked' = (blocked /\ Len(pending) >= MaxPending)
      BY <3>1 DEF Receive
    <3>3. Due("reader") \/ UNCHANGED publish
      BY <3>1 DEF Receive
    <3>4. QED
      BY <3>2, <3>3
  <2>3. publish' \in [Goroutines -> Publications]
    BY <2>2, DueType DEF Goroutines, TypeOK
  <2>4. /\ pending' \in Seq(Instructions) /\ Len(pending') <= MaxPending
        /\ ToSet(pending) \subseteq ToSet(pending') /\ ToSet(pending') \subseteq ToSet(pending) \cup {s}
        /\ s \in ToSet(pending') \cup dropped'
        /\ dropped \subseteq dropped' /\ dropped' \subseteq dropped \cup {s}
        /\ \A i \in 1..Len(pending') : \/ i \in 1..Len(pending) /\ pending'[i] = pending[i]
                                       \/ i = Len(pending) + 1 /\ pending'[i] = s
    <3>1. CASE Len(pending) < MaxPending
      <4>1. pending' = Append(pending, s) /\ dropped' = dropped
        BY <2>2, <3>1 DEF Accepted
      <4>2. /\ Len(pending') = Len(pending) + 1 /\ pending' \in Seq(Instructions)
            /\ \A i \in 1..Len(pending) : pending'[i] = pending[i]
            /\ pending'[Len(pending) + 1] = s
        BY <2>1, <4>1 DEF TypeOK
      <4>3. \A i \in 1..Len(pending') : i \in 1..Len(pending) \/ i = Len(pending) + 1
        BY <1>2, <4>2
      <4>4. \A i \in 1..Len(pending) : i \in 1..Len(pending')
        BY <1>2, <4>2
      <4>5. Len(pending) + 1 \in 1..Len(pending')
        BY <1>2, <4>2
      <4>6. ToSet(pending) \subseteq ToSet(pending') /\ s \in ToSet(pending')
        BY <4>2, <4>4, <4>5 DEF ToSet
      <4>7. ToSet(pending') \subseteq ToSet(pending) \cup {s}
        BY <4>2, <4>3 DEF ToSet
      <4>8. Len(pending') <= MaxPending
        BY <1>2, <3>1, <4>2 DEF ConstantsFit
      <4>9. QED
        BY <4>1, <4>2, <4>3, <4>6, <4>7, <4>8
    <3>2. CASE ~(Len(pending) < MaxPending)
      <4>1. pending' = pending /\ dropped' = dropped \cup {s}
        BY <2>2, <3>2 DEF Accepted
      <4>2. QED
        BY <4>1 DEF TypeOK
    <3>3. QED
      BY <3>1, <3>2
  <2>5. QueueOk'
    <3>1. cursor' <= received'
      BY <1>1, <1>2, <1>4
    <3>2. \A i \in 1..Len(pending') : cursor' < pending'[i] /\ pending'[i] <= received'
      <4> SUFFICES ASSUME NEW i \in 1..Len(pending')
                   PROVE  cursor' < pending'[i] /\ pending'[i] <= received'
        OBVIOUS
      <4>1. CASE i \in 1..Len(pending) /\ pending'[i] = pending[i]
        <5>1. cursor < pending[i] /\ pending[i] <= received /\ pending[i] \in Nat
          BY <4>1, Numbers DEF QueueOk
        <5>2. QED
          BY <1>1, <1>2, <1>4, <4>1, <5>1
      <4>2. CASE pending'[i] = s
        BY <1>1, <1>2, <1>4, <2>1, <4>2
      <4>3. QED
        BY <2>4, <4>1, <4>2
    <3>3. \A i, j \in 1..Len(pending') : i < j => pending'[i] < pending'[j]
      <4> SUFFICES ASSUME NEW i \in 1..Len(pending'), NEW j \in 1..Len(pending'), i < j
                   PROVE  pending'[i] < pending'[j]
        OBVIOUS
      <4>1. i \in 1..Len(pending) /\ pending'[i] = pending[i]
        <5>1. i # Len(pending) + 1
          <6>1. \A k \in 1..Len(pending') : k <= Len(pending) + 1
            BY <1>2, <2>4
          <6>2. j <= Len(pending) + 1
            BY <6>1
          <6>3. i \in Nat /\ j \in Nat
            OBVIOUS
          <6>4. QED
            BY <1>2, <6>2, <6>3
        <5>2. QED
          BY <2>4, <5>1
      <4>2. CASE j \in 1..Len(pending) /\ pending'[j] = pending[j]
        BY <4>1, <4>2 DEF QueueOk
      <4>3. CASE pending'[j] = s
        <5>1. pending[i] <= received /\ pending[i] \in Nat
          BY <4>1, Numbers DEF QueueOk
        <5>2. QED
          BY <1>2, <1>4, <4>1, <4>3, <5>1
      <4>4. QED
        BY <2>4, <4>2, <4>3
    <3>4. \A x \in 1..received' : x \in ToSet(pending') \/ x \in settled' \cup dropped'
      <4> SUFFICES ASSUME NEW x \in 1..received'
                   PROVE  x \in ToSet(pending') \/ x \in settled' \cup dropped'
        OBVIOUS
      <4>1. x \in 1..received \/ x = s
        BY <1>2, <1>4, <2>1
      <4>2. QED
        BY <1>1, <2>4, <4>1 DEF QueueOk
    <3>5. \A x \in settled' \cup dropped' : x <= received'
      <4> SUFFICES ASSUME NEW x \in settled' \cup dropped' PROVE x <= received'
        OBVIOUS
      <4>1. x \in settled \cup dropped \/ x = s
        BY <1>1, <2>4
      <4>2. QED
        BY <1>2, <1>4, <2>1, <4>1
    <3>6. delivered' \subseteq settled' /\ settled' \cap ToSet(pending') \subseteq delivered'
      BY <1>1, <2>1, <2>4 DEF QueueOk
    <3>7. QED
      BY <3>1, <3>2, <3>3, <3>4, <3>5, <3>6 DEF QueueOk
  <2>6. TurnOk'
    BY <1>1, <2>4 DEF TurnOk
  <2>7. TypeOK'
    <3>1. /\ UNCHANGED <<posted, online, memory, attached, shown, streams, cursor, lane, turn,
                         working, marker, yield, grip, step, result, tries, outbox, sending, stale,
                         settled>>
          /\ received' \in Turns
      BY <1>1, <2>1 DEF Receive, roomvars, turnvars, readervars
    <3>2. delivered' \cup steered' \subseteq ToSet(pending')
      BY <1>1, <2>4 DEF TypeOK
    <3>3. settled' \cup dropped' \subseteq Instructions
      BY <2>1, <2>4, <3>1 DEF TypeOK
    <3>4. QED
      BY <2>2, <2>3, <2>4, <3>1, <3>2, <3>3 DEF TypeOK
  <2>8. QED
    BY <2>5, <2>6, <2>7
<1>5. QED
  BY <1>1, <1>2, <1>3, <1>4

\* Where a prefix of the queue that is done ends
Collapsed(n, done) ==
    /\ n \in 0..Len(pending)
    /\ pending' = SubSeq(pending, n + 1, Len(pending))
    /\ \A i \in 1..n : pending[i] \in done
    /\ cursor' = IF n = 0 THEN cursor ELSE pending[n]

LEMMA PrefixCollapses ==
    ASSUME ConstantsFit, TypeOK, NEW t \in Instructions, Acknowledged(t)
    PROVE  \E n \in Nat : Collapsed(n, delivered \cup {t})
<1> DEFINE done == delivered \cup {t}
           waits == {i \in 1..Len(pending) : pending[i] \notin done}
           first == CHOOSE i \in waits : \A j \in waits : i <= j
           kept == IF waits = {} THEN <<>> ELSE SubSeq(pending, first, Len(pending))
           gone == SubSeq(pending, 1, Len(pending) - Len(kept))
<1>1. Len(pending) \in Nat /\ pending \in Seq(Instructions)
  BY DEF TypeOK
<1>2. pending' = kept /\ cursor' = IF gone = <<>> THEN cursor ELSE Last(gone)
  BY DEF Acknowledged
<1>3. waits \in SUBSET Nat /\ waits \subseteq 1..Len(pending)
  BY <1>1
<1>4. \A i \in 1..Len(pending) : i \notin waits => pending[i] \in done
  OBVIOUS
<1> DEFINE n == Len(pending) - Len(kept)
<1>5. /\ n \in 0..Len(pending) /\ kept = SubSeq(pending, n + 1, Len(pending))
      /\ \A i \in 1..n : i \notin waits
  <2>1. CASE waits = {}
    <3>1. kept = <<>> /\ n = Len(pending)
      BY <1>1, <2>1
    <3>2. SubSeq(pending, Len(pending) + 1, Len(pending)) = <<>>
      BY <1>1
    <3>3. QED
      BY <1>1, <2>1, <3>1, <3>2
  <2>2. CASE waits # {}
    <3>1. first \in waits /\ \A j \in waits : first <= j
      BY <1>3, <2>2, Smallest
    <3> HIDE DEF first, waits
    <3>2. first \in Nat /\ 1 <= first /\ first <= Len(pending)
      BY <1>1, <1>3, <3>1
    <3>3. kept = SubSeq(pending, first, Len(pending)) /\ Len(kept) = Len(pending) - first + 1
      BY <1>1, <2>2, <3>2
    <3> HIDE DEF kept
    <3>4. n = first - 1 /\ n + 1 = first
      BY <1>1, <3>2, <3>3
    <3> HIDE DEF n
    <3>5. n \in 0..Len(pending) /\ \A i \in 1..n : i < first
      BY <1>1, <3>2, <3>4
    <3>6. \A i \in 1..n : i \notin waits
      BY <1>3, <3>1, <3>2, <3>5
    <3>7. QED
      BY <3>3, <3>4, <3>5, <3>6
  <2>3. QED
    BY <2>1, <2>2
<1>6. gone = SubSeq(pending, 1, n)
  OBVIOUS
<1> HIDE DEF n, kept, gone, waits, done, first
<1>7. (IF gone = <<>> THEN cursor ELSE Last(gone)) = IF n = 0 THEN cursor ELSE pending[n]
  <2>1. CASE n = 0
    <3>1. gone = <<>>
      BY <1>1, <1>6, <2>1
    <3>2. QED
      BY <2>1, <3>1
  <2>2. CASE n # 0
    <3>1. n \in 1..Len(pending)
      BY <1>1, <1>5, <2>2
    <3>2. Len(gone) = n /\ gone[n] = pending[n]
      BY <1>1, <1>6, <3>1
    <3>3. gone # <<>>
      BY <2>2, <3>2
    <3>4. QED
      BY <2>2, <3>2, <3>3 DEF Last
  <2>3. QED
    BY <2>1, <2>2
<1>8. n \in Nat /\ \A i \in 1..n : pending[i] \in done
  <2>1. n \in Nat /\ n <= Len(pending)
    BY <1>1, <1>5
  <2>2. \A i \in 1..n : i \in 1..Len(pending)
    BY <1>1, <2>1
  <2>3. QED
    BY <1>4, <1>5, <2>1, <2>2
<1>9. Collapsed(n, done)
  BY <1>2, <1>5, <1>7, <1>8 DEF Collapsed
<1>10. QED
  BY <1>8, <1>9 DEF done

\* What a collapse leaves of the queue
LEMMA CollapsedQueue ==
    ASSUME ConstantsFit, TypeOK, QueueOk, NEW n \in Nat, NEW done, Collapsed(n, done)
    PROVE  /\ pending' \in Seq(Instructions) /\ Len(pending') <= MaxPending
           /\ Len(pending') = Len(pending) - n
           /\ \A i \in 1..Len(pending') : n + i \in 1..Len(pending) /\ pending'[i] = pending[n + i]
           /\ ToSet(pending') \subseteq ToSet(pending)
           /\ \A x \in ToSet(pending) : x \in ToSet(pending') \/ x \in done
           /\ cursor' \in Turns /\ cursor' <= received
           /\ \A i \in 1..Len(pending') : cursor' < pending'[i]
<1>1. /\ Len(pending) \in Nat /\ pending \in Seq(Instructions) /\ n <= Len(pending)
      /\ pending' = SubSeq(pending, n + 1, Len(pending))
      /\ Len(pending) <= MaxPending /\ MaxPending \in Nat
  BY DEF TypeOK, Collapsed, ConstantsFit
<1>2. /\ Len(pending') = Len(pending) - n /\ pending' \in Seq(Instructions)
      /\ \A i \in 1..Len(pending') : n + i \in 1..Len(pending) /\ pending'[i] = pending[n + i]
  <2>1. Len(pending') = Len(pending) - n /\ pending' \in Seq(Instructions)
    BY <1>1
  <2>2. \A i \in 1..(Len(pending) - n) : n + i \in 1..Len(pending) /\ pending'[i] = pending[(n + 1) + i - 1]
    BY <1>1
  <2>3. \A i \in 1..(Len(pending) - n) : (n + 1) + i - 1 = n + i
    BY <1>1
  <2>4. QED
    BY <2>1, <2>2, <2>3
<1>3. Len(pending') <= MaxPending
  BY <1>1, <1>2
<1>4. ToSet(pending') \subseteq ToSet(pending)
  BY <1>2 DEF ToSet
<1>5. ASSUME NEW x \in ToSet(pending) PROVE x \in ToSet(pending') \/ x \in done
  <2>1. PICK k \in 1..Len(pending) : pending[k] = x
    BY DEF ToSet
  <2>2. CASE k <= n
    BY <1>1, <2>1, <2>2 DEF Collapsed
  <2>3. CASE ~(k <= n)
    <3>1. k - n \in 1..Len(pending') /\ n + (k - n) = k
      BY <1>1, <1>2, <2>3
    <3>2. pending'[k - n] = x
      BY <1>2, <2>1, <3>1
    <3>3. QED
      BY <3>1, <3>2 DEF ToSet
  <2>4. QED
    BY <2>2, <2>3
<1>6. CASE n = 0
  <2>1. cursor' = cursor /\ \A i \in 1..Len(pending) : n + i = i
    BY <1>6 DEF Collapsed
  <2>2. cursor' \in Turns /\ cursor' <= received
    BY <2>1 DEF TypeOK, QueueOk
  <2>3. \A i \in 1..Len(pending') : i \in 1..Len(pending) /\ pending'[i] = pending[i]
    BY <1>1, <1>2, <1>6
  <2>4. \A i \in 1..Len(pending') : cursor' < pending'[i]
    BY <2>1, <2>3 DEF QueueOk
  <2>5. QED
    BY <1>2, <1>3, <1>4, <1>5, <2>2, <2>4
<1>7. CASE n # 0
  <2>1. n \in 1..Len(pending) /\ cursor' = pending[n]
    BY <1>1, <1>7 DEF Collapsed
  <2>2. cursor' \in Instructions /\ Instructions \subseteq Turns
    BY <1>1, <2>1 DEF Instructions, Turns, ConstantsFit
  <2>3. cursor' <= received
    BY <2>1 DEF QueueOk
  <2>4. \A i \in 1..Len(pending') : n < n + i
    BY <1>1
  <2>5. \A i \in 1..Len(pending') : cursor' < pending'[i]
    BY <1>2, <2>1, <2>4 DEF QueueOk
  <2>6. QED
    BY <1>2, <1>3, <1>4, <1>5, <2>2, <2>3, <2>5
<1>8. QED
  BY <1>6, <1>7

LEMMA SettleKeeps ==
    ASSUME ConstantsFit, IInv, Settle
    PROVE  TypeOK' /\ QueueOk' /\ TurnOk'
<1> USE DEF IInv
<1>1. /\ lane \in ToSet(pending) \ delivered /\ lane \in Instructions /\ lane # 0
      /\ step' = "settled" /\ turn' = 0 /\ marker' = 0 /\ lane' = lane
      /\ grip = 0 /\ working = 0
      /\ UNCHANGED <<posted, online, memory, attached, shown, wire, streams, received, result, working,
                     yield, grip, outbox, sending, stale>>
      /\ publish' \in [Goroutines -> Publications]
  <2>1. lane \in ToSet(pending) \ delivered
    BY DEF Settle, TurnOk
  <2>2. lane \in Instructions
    BY <2>1, Numbers DEF ToSet
  <2>5. lane # 0
    BY <2>2 DEF Instructions, ConstantsFit
  <2>3. publish' \in [Goroutines -> Publications]
    BY DueType DEF Settle, Goroutines
  <2>4. marker' = 0 /\ grip = 0 /\ working = 0
    BY DEF Settle, ControlFree, TurnOk
  <2>6. QED
    BY <2>1, <2>2, <2>3, <2>4, <2>5 DEF Settle, roomvars, readervars
<1>2. TurnOk'
  BY <1>1 DEF TurnOk
<1>3. 0 \in 0..MaxRetries /\ MaxRetries \in Nat /\ [i \in Instructions |-> 0] \in [Instructions -> 0..MaxRetries]
  BY DEF ConstantsFit
<1>4. SUFFICES /\ cursor' \in Turns
               /\ pending' \in Seq(Instructions) /\ Len(pending') <= MaxPending
               /\ delivered' \cup steered' \subseteq ToSet(pending')
               /\ tries' \in [Instructions -> 0..MaxRetries] /\ blocked' \in BOOLEAN
               /\ settled' \cup dropped' \subseteq Instructions
               /\ QueueOk'
  BY <1>1, <1>2 DEF TypeOK
<1>5. CASE result \in {"ok", "interrupted"}
  <2>1. /\ Acknowledged(lane) /\ settled' = settled \cup {lane}
        /\ tries' = [tries EXCEPT ![lane] = 0] /\ UNCHANGED <<blocked, dropped>>
    BY <1>5 DEF Settle
  <2>2. PICK n \in Nat : Collapsed(n, delivered \cup {lane})
    BY <1>1, <2>1, PrefixCollapses
  <2>3. /\ pending' \in Seq(Instructions) /\ Len(pending') <= MaxPending
        /\ Len(pending') = Len(pending) - n
        /\ \A i \in 1..Len(pending') : n + i \in 1..Len(pending) /\ pending'[i] = pending[n + i]
        /\ ToSet(pending') \subseteq ToSet(pending)
        /\ \A x \in ToSet(pending) : x \in ToSet(pending') \/ x \in delivered \cup {lane}
        /\ cursor' \in Turns /\ cursor' <= received
        /\ \A i \in 1..Len(pending') : cursor' < pending'[i]
    BY <2>2, CollapsedQueue
  <2>4. /\ delivered' = (delivered \cup {lane}) \cap ToSet(pending')
        /\ steered' = steered \cap ToSet(pending')
    BY <2>1 DEF Acknowledged
  <2>5. tries' \in [Instructions -> 0..MaxRetries]
    BY <1>1, <1>3, <2>1 DEF TypeOK
  <2>6. settled' \cup dropped' \subseteq Instructions
    BY <1>1, <2>1 DEF TypeOK
  <2>7. QueueOk'
    <3>1. \A i \in 1..Len(pending') : cursor' < pending'[i] /\ pending'[i] <= received'
      BY <1>1, <2>3 DEF QueueOk
    <3>2. \A i, j \in 1..Len(pending') : i < j => pending'[i] < pending'[j]
      <4> SUFFICES ASSUME NEW i \in 1..Len(pending'), NEW j \in 1..Len(pending'), i < j
                   PROVE  pending'[i] < pending'[j]
        OBVIOUS
      <4>1. n + i < n + j
        OBVIOUS
      <4>2. QED
        BY <2>3, <4>1 DEF QueueOk
    <3>3. \A s \in 1..received' : s \in ToSet(pending') \/ s \in settled' \cup dropped'
      <4> SUFFICES ASSUME NEW s \in 1..received
                   PROVE  s \in ToSet(pending') \/ s \in settled' \cup dropped'
        BY <1>1
      <4>1. s \in ToSet(pending) \/ s \in settled \cup dropped
        BY DEF QueueOk
      <4>2. delivered \cup {lane} \subseteq settled'
        BY <2>1 DEF QueueOk
      <4>3. QED
        BY <2>1, <2>3, <4>1, <4>2
    <3>4. \A s \in settled' \cup dropped' : s <= received'
      <4>1. lane <= received
        BY <1>1 DEF ToSet, QueueOk
      <4>2. QED
        BY <1>1, <2>1, <4>1 DEF QueueOk
    <3>5. delivered' \subseteq settled' /\ settled' \cap ToSet(pending') \subseteq delivered'
      BY <2>1, <2>3, <2>4 DEF QueueOk
    <3>6. QED
      BY <1>1, <2>3, <3>1, <3>2, <3>3, <3>4, <3>5 DEF QueueOk
  <2>8. QED
    BY <2>1, <2>3, <2>4, <2>5, <2>6, <2>7 DEF TypeOK
<1>6. CASE result = "deferred"
  <2>1. UNCHANGED <<pending, delivered, steered, cursor, tries, blocked, settled, dropped>>
    BY <1>6 DEF Settle
  <2>2. QueueOk'
    BY <1>1, <2>1, QueueStays
  <2>3. QED
    BY <2>1, <2>2 DEF TypeOK
<1>7. CASE result = "error" /\ tries[lane] < MaxRetries
  <2>1. tries' = [tries EXCEPT ![lane] = @ + 1]
        /\ UNCHANGED <<pending, delivered, steered, cursor, blocked, settled, dropped>>
    <3>1. ~(tries[lane] >= MaxRetries)
      BY <1>1, <1>3, <1>7 DEF TypeOK
    <3>2. QED
      BY <1>7, <3>1 DEF Settle, Retry
  <2>2. tries[lane] + 1 \in 0..MaxRetries
    BY <1>1, <1>3, <1>7 DEF TypeOK
  <2>3. tries' \in [Instructions -> 0..MaxRetries]
    BY <1>1, <2>1, <2>2 DEF TypeOK
  <2>4. QueueOk'
    BY <1>1, <2>1, QueueStays
  <2>5. QED
    BY <2>1, <2>3, <2>4 DEF TypeOK
<1>8. CASE result = "fatal" \/ (result = "error" /\ tries[lane] >= MaxRetries)
  <2>1. /\ pending' = <<>> /\ delivered' = {} /\ steered' = {} /\ cursor' = Last(pending)
        /\ dropped' = dropped \cup (ToSet(pending) \ delivered)
        /\ tries' = [i \in Instructions |-> 0] /\ blocked' = TRUE /\ settled' = settled
    <3>1. ~(result = "error" /\ tries[lane] < MaxRetries)
      BY <1>1, <1>3, <1>8 DEF TypeOK
    <3>2. QED
      BY <1>8, <3>1 DEF Settle, Quarantine
  <2>2. Len(pending) \in 1..Len(pending) /\ Last(pending) = pending[Len(pending)]
    <3>1. PICK i \in 1..Len(pending) : pending[i] = lane
      BY <1>1 DEF ToSet
    <3>2. QED
      BY <3>1, Numbers DEF Last
  <2>3. cursor' \in Instructions /\ cursor' <= received /\ Instructions \subseteq Turns
    BY <2>1, <2>2, Numbers DEF QueueOk, Instructions, Turns, ConstantsFit
  <2>4. ToSet(pending) \subseteq Instructions /\ \A s \in ToSet(pending) : s <= received
    <3> SUFFICES ASSUME NEW s \in ToSet(pending) PROVE s \in Instructions /\ s <= received
      OBVIOUS
    <3>1. PICK i \in 1..Len(pending) : pending[i] = s
      BY DEF ToSet
    <3>2. QED
      BY <3>1, Numbers DEF QueueOk
  <2>5. ToSet(pending') = {} /\ Len(pending') = 0 /\ pending' \in Seq(Instructions)
    <3>1. Len(pending') = 0 /\ pending' \in Seq(Instructions)
      BY <2>1
    <3>2. 1..Len(pending') = {}
      BY <3>1
    <3>3. QED
      BY <3>1, <3>2 DEF ToSet
  <2>6. QueueOk'
    <3>1. \A i \in 1..Len(pending') : FALSE
      BY <2>5
    <3>2. \A s \in 1..received' : s \in settled' \cup dropped'
      BY <1>1, <2>1 DEF QueueOk
    <3>3. \A s \in settled' \cup dropped' : s <= received'
      BY <1>1, <2>1, <2>4 DEF QueueOk
    <3>4. QED
      BY <1>1, <2>1, <2>3, <2>5, <3>1, <3>2, <3>3 DEF QueueOk
  <2>7. Len(pending') <= MaxPending
    BY <2>5 DEF ConstantsFit
  <2>8. QED
    BY <1>3, <2>1, <2>3, <2>4, <2>5, <2>6, <2>7 DEF TypeOK
<1>9. QED
  BY <1>5, <1>6, <1>7, <1>8 DEF Settle

\* The steps of a turn before it settles, and its release: the queue stays.
LEMMA TurnKeeps ==
    ASSUME ConstantsFit, IInv, Launch \/ NotBegun \/ Begin \/ Prompt \/ Return \/ Consume \/ Release
    PROVE  TypeOK' /\ QueueOk' /\ TurnOk'
<1> USE DEF IInv
<1>1. UNCHANGED <<roomvars, wire, streams, queuevars, readervars, outbox, sending, stale, histories>>
  BY DEF Launch, NotBegun, Begin, Prompt, Return, Consume, Release, pubvars
<1>2. QueueOk'
  BY <1>1, QueueStays DEF queuevars, histories
<1>3. /\ UNCHANGED <<posted, online, memory, attached, shown, wire, streams, received, cursor, pending,
                     delivered, steered, yield, grip, tries, blocked, outbox, sending, stale,
                     settled, dropped>>
  BY <1>1 DEF roomvars, queuevars, readervars, histories
<1>4. 0 \in Turns /\ 0 \notin Instructions /\ Instructions \subseteq Turns
  BY DEF Turns, Instructions, ConstantsFit
<1>5. ASSUME lane' \in Turns, turn' \in {0, lane'}, working' \in Turns, marker' \in Turns,
             step' \in {"idle", "admit", "begun", "prompt", "returned", "consumed", "settled"},
             result' \in {"none", "ok", "error", "fatal", "deferred", "interrupted"},
             publish' \in [Goroutines -> Publications]
      PROVE  TypeOK'
  BY <1>3, <1>5 DEF TypeOK
<1>6. CASE Launch
  <2>1. lane = 0 /\ step = "idle" /\ turn = 0 /\ working = 0 /\ marker = 0 /\ Waiting # {}
    BY <1>6 DEF Launch, TurnOk
  <2>2. lane' \in Waiting
    BY <1>6, <2>1, TargetWaits DEF Launch
  <2>3. lane' \in ToSet(pending) \ delivered /\ lane' \in Instructions
    BY <2>2, Numbers DEF Waiting, ToSet
  <2>4. step' = "admit" /\ UNCHANGED <<result, turn, working, marker, publish>>
    BY <1>6 DEF Launch, pubvars
  <2>5. TurnOk'
    BY <1>3, <1>4, <2>1, <2>3, <2>4 DEF TurnOk
  <2>6. TypeOK'
    BY <1>4, <1>5, <2>1, <2>3, <2>4 DEF TypeOK
  <2>7. QED
    BY <1>2, <2>5, <2>6
<1>7. CASE NotBegun
  <2>1. /\ step = "admit" /\ step' = "consumed" /\ turn = 0
        /\ result' \in {"error", "fatal", "deferred"}
        /\ UNCHANGED <<lane, turn, working, marker, publish>>
    BY <1>7 DEF NotBegun, TurnOk, pubvars
  <2>2. TurnOk'
    BY <1>3, <2>1 DEF TurnOk
  <2>3. TypeOK'
    BY <1>5, <2>1 DEF TypeOK
  <2>4. QED
    BY <1>2, <2>2, <2>3
<1>8. CASE Begin
  <2>1. /\ step = "admit" /\ grip = 0 /\ marker = 0 /\ working = 0
        /\ lane # 0 /\ lane \in ToSet(pending) \ delivered
        /\ turn' = lane /\ step' = "begun" /\ Due("turn")
        /\ UNCHANGED <<lane, result, working, marker>>
    BY <1>8 DEF Begin, TurnOk, ControlFree
  <2>2. TurnOk'
    BY <1>3, <2>1 DEF TurnOk
  <2>3. publish' \in [Goroutines -> Publications]
    BY <2>1, DueType DEF Goroutines
  <2>4. TypeOK'
    BY <1>5, <2>1, <2>3 DEF TypeOK
  <2>5. QED
    BY <1>2, <2>2, <2>4
<1>9. CASE Prompt
  <2>1. /\ step = "begun" /\ turn = lane /\ lane # 0 /\ working = 0 /\ lane \in ToSet(pending) \ delivered
        /\ \/ working' = lane /\ step' = "prompt" /\ UNCHANGED result
           \/ step' = "returned" /\ result' \in {"error", "deferred"} /\ UNCHANGED working
        /\ UNCHANGED <<lane, turn, marker, publish>>
    BY <1>9 DEF Prompt, TurnOk, pubvars
  <2>2. TurnOk'
    BY <1>3, <2>1 DEF TurnOk
  <2>3. TypeOK'
    BY <1>5, <2>1 DEF TypeOK
  <2>4. QED
    BY <1>2, <2>2, <2>3
<1>10. CASE Return
  <2>1. /\ step = "prompt" /\ step' = "returned" /\ working' = 0 /\ result' \in {"ok", "error"}
        /\ UNCHANGED <<lane, turn, marker, publish>>
    BY <1>10 DEF Return, pubvars
  <2>2. TurnOk'
    BY <1>3, <2>1 DEF TurnOk
  <2>3. TypeOK'
    BY <1>4, <1>5, <2>1 DEF TypeOK
  <2>4. QED
    BY <1>2, <2>2, <2>3
<1>11. CASE Consume
  <2>1. /\ step = "returned" /\ step' = "consumed" /\ marker' \in {0, marker}
        /\ result' \in {"interrupted", result}
        /\ UNCHANGED <<lane, turn, working, publish>>
    BY <1>11 DEF Consume, pubvars
  <2>2. TurnOk'
    BY <1>3, <2>1 DEF TurnOk
  <2>3. TypeOK'
    BY <1>4, <1>5, <2>1 DEF TypeOK
  <2>4. QED
    BY <1>2, <2>2, <2>3
<1>12. CASE Release
  <2>1. /\ step = "settled" /\ turn = 0 /\ working = 0 /\ marker = 0
        /\ lane' = 0 /\ step' = "idle" /\ result' = "none"
        /\ UNCHANGED <<turn, working, marker, publish>>
    BY <1>12 DEF Release, TurnOk, pubvars
  <2>2. TurnOk'
    BY <1>3, <2>1 DEF TurnOk
  <2>3. TypeOK'
    BY <1>4, <1>5, <2>1 DEF TypeOK
  <2>4. QED
    BY <1>2, <2>2, <2>3
<1>13. QED
  BY <1>6, <1>7, <1>8, <1>9, <1>10, <1>11, <1>12

\* The reader: a control that finds its turn active keeps the lock until its cancel is
\* written; only then is the turn marked.
LEMMA ControlKeeps ==
    ASSUME ConstantsFit, IInv, Control \/ Check \/ Dispatch \/ Republish, wire' \in Seq(Frames)
    PROVE  TypeOK' /\ QueueOk' /\ TurnOk'
<1> USE DEF IInv
<1>1. UNCHANGED <<posted, online, memory, attached, shown, streams, received, pending, delivered, cursor,
                  tries, blocked, lane, step, result, turn, working, outbox, sending, stale,
                  settled, dropped>>
  BY DEF Control, Check, Dispatch, Republish, roomvars, queuevars, turnvars, pubvars, histories
<1>2. QueueOk'
  BY <1>1, QueueStays
<1>3. ASSUME steered' \subseteq ToSet(pending), marker' \in Turns, yield' \in Turns, grip' \in Turns,
             publish' \in [Goroutines -> Publications]
      PROVE  TypeOK'
  BY <1>1, <1>3 DEF TypeOK
<1>4. CASE Control
  <2>1. UNCHANGED <<marker, grip, publish>>
    BY <1>4 DEF Control, turnvars, pubvars
  <2>2. wire # <<>> /\ Head(wire).kind \in {"interrupt", "steer"}
    BY <1>4 DEF Control
  <2>3. Head(wire).turn \in Turns
    BY <2>2, FrontFrame DEF Frames
  <2>4. yield' \in Turns /\ steered' \subseteq ToSet(pending)
    <3>1. yield' \in {yield, Head(wire).turn}
      BY <1>4 DEF Control
    <3>2. \/ steered' = steered
          \/ steered' = steered \cup {Head(wire).seq} /\ Head(wire).seq \in ToSet(pending)
      BY <1>4 DEF Control
    <3>3. QED
      BY <2>3, <3>1, <3>2 DEF TypeOK
  <2>5. TurnOk'
    BY <1>1, <2>1, TurnStays
  <2>6. TypeOK'
    BY <1>3, <2>1, <2>4 DEF TypeOK
  <2>7. QED
    BY <1>2, <2>5, <2>6
<1>5. CASE Check
  <2>1. /\ yield' = 0 /\ grip' = IF turn = yield THEN yield ELSE 0
        /\ UNCHANGED <<steered, marker, publish>>
    BY <1>5 DEF Check, queuevars, turnvars, pubvars
  <2>2. 0 \in Turns
    BY DEF Turns, ConstantsFit
  <2>3. TurnOk'
    BY <1>1, <2>1 DEF TurnOk
  <2>4. TypeOK'
    BY <1>3, <2>1, <2>2 DEF TypeOK
  <2>5. QED
    BY <1>2, <2>3, <2>4
<1>6. CASE Dispatch
  <2>1. /\ grip # 0 /\ grip' = 0 /\ UNCHANGED <<steered, yield>>
        /\ (marker' = grip /\ Due("reader")) \/ UNCHANGED <<marker, publish>>
    BY <1>6 DEF Dispatch, queuevars
  <2>2. publish' \in [Goroutines -> Publications]
    BY <2>1, DueType DEF Goroutines, TypeOK
  <2>3. 0 \in Turns
    BY DEF Turns, ConstantsFit
  <2>4. turn = grip
    BY <2>1 DEF TurnOk
  <2>5. TurnOk'
    BY <1>1, <2>1, <2>4 DEF TurnOk
  <2>6. TypeOK'
    BY <1>3, <2>1, <2>2, <2>3 DEF TypeOK
  <2>7. QED
    BY <1>2, <2>5, <2>6
<1>7. CASE Republish
  <2>1. UNCHANGED <<marker, yield, grip, steered>> /\ Due("reader")
    BY <1>7 DEF Republish, queuevars, turnvars, readervars
  <2>2. publish' \in [Goroutines -> Publications]
    BY <2>1, DueType DEF Goroutines
  <2>3. TurnOk'
    BY <1>1, <2>1, TurnStays
  <2>4. TypeOK'
    BY <1>3, <2>1, <2>2 DEF TypeOK
  <2>5. QED
    BY <1>2, <2>3, <2>4
<1>8. QED
  BY <1>4, <1>5, <1>6, <1>7

-----------------------------------------------------------------------------
(* The invariant, and the theorems *)

LEMMA InitialState == ConstantsFit /\ Init => IInv
<1> SUFFICES ASSUME ConstantsFit, Init PROVE IInv
  OBVIOUS
<1>1. 0 \in Turns /\ 1 \in 1..MaxStreams /\ 0 \in 0..MaxRetries /\ MaxPending \in Nat
  BY DEF ConstantsFit, Turns
<1>2. pending = <<>> /\ wire = <<>> /\ ToSet(pending) = {} /\ Len(pending) = 0 /\ Len(wire) = 0
  BY DEF Init, ToSet
<1>3. NoPublication \in Publications
  BY <1>1 DEF NoPublication, Publications
<1>4. TypeOK
  <2>1. pending \in Seq(Instructions) /\ wire \in Seq(Frames) /\ Len(pending) <= MaxPending
    BY <1>1, <1>2
  <2>2. tries \in [Instructions -> 0..MaxRetries] /\ publish \in [Goroutines -> Publications]
    BY <1>1, <1>3 DEF Init
  <2>3. QED
    BY <1>1, <2>1, <2>2 DEF Init, TypeOK
<1>5. QueueOk /\ TurnOk /\ WireOk
  <2>1. \A i \in 1..0 : FALSE
    OBVIOUS
  <2>2. QED
    BY <1>2, <2>1 DEF Init, QueueOk, TurnOk, WireOk
<1>6. QED
  BY <1>4, <1>5 DEF IInv

LEMMA RoomStep == ConstantsFit /\ IInv /\ RoomNext => IInv'
<1> SUFFICES ASSUME ConstantsFit, IInv, RoomNext PROVE IInv'
  OBVIOUS
<1> USE DEF IInv
<1>1. UNCHANGED <<received, pending, delivered, cursor, settled, dropped, lane, step, turn, working,
                  marker, grip>>
  BY DEF RoomNext, Say, InterruptAndSend, Interrupt, Resync, Ingest, Close, Connect, Hibernate,
         queuevars, turnvars, readervars, histories
<1>2. QueueOk' /\ TurnOk'
  BY <1>1, QueueStays, TurnStays
<1>3. WireOk' /\ wire' \in Seq(Frames)
  <2>1. shown \subseteq Turns /\ wire \in Seq(Frames)
    BY DEF TypeOK, Instructions, Turns
  <2>2. CASE Say
    BY <2>2, SayOnWire
  <2>3. CASE Resync
    BY <2>3, ControlsOnWire
  <2>4. ASSUME NEW n \in shown, InterruptAndSend(n) \/ Interrupt(n)
        PROVE  WireOk' /\ wire' \in Seq(Frames)
    <3>1. n \in Turns
      BY <2>1
    <3>2. QED
      BY <2>4, <3>1, InterruptAndSendOnWire, ControlsOnWire
  <2>5. CASE Ingest \/ Hibernate
    BY <2>1, <2>5, WireStays DEF Ingest, Hibernate, queuevars
  <2>6. CASE Close
    <3>1. wire' = <<>> /\ Len(wire') = 0 /\ ~online' /\ received' = received /\ posted' = posted
      BY <2>6 DEF Close, queuevars
    <3>2. \A k \in 1..Len(wire') : FALSE
      BY <3>1
    <3>3. QED
      BY <3>1, <3>2 DEF WireOk
  <2>7. CASE Connect
    BY <2>7, StreamBegins
  <2>8. QED
    BY <2>2, <2>3, <2>4, <2>5, <2>6, <2>7 DEF RoomNext
<1>4. TypeOK'
  BY <1>3, RoomTypes
<1>5. QED
  BY <1>2, <1>3, <1>4

LEMMA RuntimeStep == ConstantsFit /\ IInv /\ RuntimeNext => IInv'
<1> SUFFICES ASSUME ConstantsFit, IInv, RuntimeNext PROVE IInv'
  OBVIOUS
<1> USE DEF IInv
<1>1. CASE Receive \/ Control \/ Republish
  <2>1. WireOk' /\ wire' \in Seq(Frames)
    BY <1>1, TakenOnWire
  <2>2. CASE Receive
    BY <2>1, <2>2, ReceiveKeeps
  <2>3. CASE Control \/ Republish
    BY <2>1, <2>3, ControlKeeps
  <2>4. QED
    BY <1>1, <2>2, <2>3
<1>2. CASE Check \/ Dispatch
  <2>1. UNCHANGED <<received, posted, online, wire>>
    BY <1>2 DEF Check, Dispatch, roomvars, queuevars
  <2>2. wire' \in Seq(Frames)
    BY <2>1 DEF TypeOK
  <2>3. QED
    BY <1>2, <2>1, <2>2, ControlKeeps, WireStays
<1>3. CASE Launch \/ NotBegun \/ Begin \/ Prompt \/ Return \/ Consume \/ Release
  <2>1. UNCHANGED <<received, posted, online, wire>>
    BY <1>3 DEF Launch, NotBegun, Begin, Prompt, Return, Consume, Release, roomvars, queuevars
  <2>2. QED
    BY <1>3, <2>1, TurnKeeps, WireStays
<1>4. CASE Settle
  <2>1. UNCHANGED <<received, posted, online, wire>>
    BY <1>4 DEF Settle, roomvars
  <2>2. QED
    BY <1>4, <2>1, SettleKeeps, WireStays
<1>5. CASE Send \/ LoseUpdate \/ \E g \in Goroutines : Snapshot(g) \/ Enqueue(g)
  <2>1. UNCHANGED <<received, posted, online, wire, pending, delivered, cursor, settled, dropped,
                    lane, step, turn, working, marker, grip>>
    BY <1>5 DEF Send, LoseUpdate, Snapshot, Enqueue, roomvars, queuevars, turnvars, readervars, histories
  <2>2. QED
    BY <1>5, <2>1, PublicationTypes, QueueStays, TurnStays, WireStays
<1>6. QED
  BY <1>1, <1>2, <1>3, <1>4, <1>5 DEF RuntimeNext

\* All of it is as the constants say, and it stays so.
LEMMA Inductive == ConstantsFit /\ IInv /\ [Next]_vars => IInv'
<1> SUFFICES ASSUME ConstantsFit, IInv, [Next]_vars PROVE IInv'
  OBVIOUS
<1>1. CASE UNCHANGED vars
  <2>1. UNCHANGED <<posted, online, memory, attached, shown, wire, streams, received, pending,
                    delivered, steered, cursor, tries, blocked>>
    BY <1>1 DEF vars, roomvars, queuevars
  <2>2. UNCHANGED <<lane, step, result, turn, working, marker, yield, grip, publish, outbox,
                    sending, stale, settled, dropped>>
    BY <1>1 DEF vars, turnvars, readervars, pubvars, histories
  <2>3. TypeOK'
    BY <2>1, <2>2 DEF TypeOK, IInv
  <2>4. QED
    BY <2>1, <2>2, <2>3, QueueStays, TurnStays, WireStays DEF IInv
<1>2. CASE Next
  BY <1>2, RoomStep, RuntimeStep DEF Next
<1>3. QED
  BY <1>1, <1>2

\* The strengthening of the three properties below holds in every behaviour.
THEOREM InvariantHolds == Spec => []IInv
<1>1. Init => IInv
  BY InitialState, ConstantsAreFit
<1>2. IInv /\ [Next]_vars => IInv'
  BY Inductive, ConstantsAreFit
<1>3. QED
  BY <1>1, <1>2, PTL DEF Spec

\* The variables of the room and of the runtime keep their types: no turn is active but
\* the one of the lane, the queue stays within its bound, and
\* no turn is retried more often than maxTurnRetryAttempts.
THEOREM TypeCorrect == Spec => []TypeOK
<1>1. IInv => TypeOK
  BY DEF IInv
<1>2. QED
  BY <1>1, InvariantHolds, PTL

\* acceptEvent, collapseDeliveredPrefixLocked and discardUndeliveredTaskWorkLocked: each
\* instruction that the runtime has received waits behind deliveredThrough, had its turn
\* or was given up, and none that had its turn is run again, over any number of event
\* streams, replays, retries and steered instructions.
THEOREM InstructionsHandledOnce == Spec => []HandledOnce
<1>1. IInv => HandledOnce
  BY InvariantHandles, ConstantsAreFit
<1>2. QED
  BY <1>1, InvariantHolds, PTL

\* cancelActiveTaskTurn against beginActivity, consumeTurnInterrupted and finishActivity:
\* however late a Human's click comes, and whatever the turn does between the check of
\* its number and the cancel, the Harness then works on that turn's prompt or on none,
\* and the mark the cancel leaves is gone with the turn.
THEOREM CancelsAreMeant == Spec => []OnlyThatTurnIsCancelled
<1>1. QED
  BY InvariantMeans, InvariantHolds, PTL

=============================================================================
