---------------------------- MODULE FileMessages ----------------------------
(***************************************************************************)
(* Texts and files from one Human's composer to another Human's timeline   *)
(* (components/TextChatCard.tsx, RoomContent.tsx, hooks/useSfuChatRoom.ts, *)
(* common/messageReconciliation.ts).                                       *)
(*                                                                         *)
(* Texts, and copies of files that Agents can read, go through the room,   *)
(* whose log numbers them.  Files go over a data channel from browser to   *)
(* browser, and say after which number of the log they belong.  In a Task  *)
(* there is only the copy.  A page has a prefix of the log, since the      *)
(* WebSocket keeps the order and a state is the whole log.                 *)
(*                                                                         *)
(* Not here: an upload whose body arrives in parts (AgentEventStream), and *)
(* that the room forgets its oldest messages.                              *)
(***************************************************************************)
EXTENDS Integers, FiniteSets, Sequences

CONSTANTS
    None,
    MaxSends,    \* bound: submissions of the composer, numbered
    Parts,       \* bound: chunks of a file
    MaxLog,      \* bound: entries of the log
    MaxFaults    \* bound: channels closed, sends given up, uploads without success,
                 \* texts that find the WebSocket closed

VARIABLES
    inTask,      \* the composer is that of a Task
    agent,       \* an Agent is in the room (agentReadableCopyApplies)
    draft,       \* message, draftAttachment and sendingDraft of the composer
    send,        \* the submissions so far
    queue,       \* fileSendQueueRef: files to send; the first is being sent
    channel,     \* the number of the sender's file channel, and whether it is open
    wire,        \* frames on the channel
    incoming,    \* incomingFilesRef of the receiver
    mine, theirs, \* files in the timelines of the sender and the receiver, in order
    log,         \* what the room has numbered
    saw,         \* how much of the log the sender has
    faults,
    lost         \* history: submissions of which the composer dropped the text

vars == <<inTask, agent, draft, send, queue, channel, wire, incoming, mine, theirs, log,
          saw, faults, lost>>

Sends == 1..MaxSends
Numbers == 0..MaxLog
Files == [of : Sends, after : Numbers]
Transfers == {"none", "queued", "sending", "sent", "failed"}
Copies == {"none", "posted", "stored", "refused", "done"}
Submissions == [text : BOOLEAN, file : BOOLEAN, state : {"waiting", "kept", "sent"},
                transfer : Transfers, parts : 0..Parts, began : Numbers, after : Numbers,
                over : Int, copy : Copies, needs : BOOLEAN]
Entries == [kind : {"text", "copy", "other"}, of : Sends \cup {None}, wakes : BOOLEAN]

TypeOK ==
    /\ inTask \in BOOLEAN /\ agent \in BOOLEAN
    /\ draft \in [text : BOOLEAN, file : BOOLEAN, sending : Sends \cup {None}]
    /\ send \in Seq(Submissions) /\ Len(send) <= MaxSends
    /\ queue \in Seq(Sends)
    /\ channel \in [n : 1..(MaxFaults + 1), open : BOOLEAN]
    /\ wire \in Seq([kind : {"start", "chunk", "end"}, of : Sends, after : Numbers])
    /\ incoming \in [of : Sends, after : Numbers, parts : Seq(Sends)] \cup {None}
    /\ mine \in Seq(Files) /\ theirs \in Seq(Files)
    /\ log \in Seq(Entries) /\ Len(log) <= MaxLog
    /\ saw \in 0..Len(log)
    /\ faults \in 0..MaxFaults /\ lost \subseteq Sends

Init ==
    /\ inTask \in BOOLEAN /\ agent \in BOOLEAN
    /\ draft = [text |-> FALSE, file |-> FALSE, sending |-> None]
    /\ send = <<>> /\ queue = <<>>
    /\ channel = [n |-> 1, open |-> TRUE] /\ wire = <<>> /\ incoming = None
    /\ mine = <<>> /\ theirs = <<>>
    /\ log = <<>> /\ saw = 0
    /\ faults = 0 /\ lost = {}

Fault == faults < MaxFaults /\ faults' = faults + 1

-----------------------------------------------------------------------------
(* The room *)

Entry(kind, i, wakes) == [kind |-> kind, of |-> i, wakes |-> wakes]

Number(e) == Len(log) < MaxLog /\ log' = Append(log, e)

\* A message of somebody else
Other ==
    /\ Number(Entry("other", None, FALSE))
    /\ UNCHANGED <<inTask, agent, draft, send, queue, channel, wire, incoming, mine, theirs,
                   saw, faults, lost>>

\* socket.onmessage of the sender: message, attachment and state
Sees ==
    /\ saw < Len(log) /\ saw' \in (saw + 1)..Len(log)
    /\ UNCHANGED <<inTask, agent, draft, send, queue, channel, wire, incoming, mine, theirs,
                   log, faults, lost>>

AgentComesOrGoes ==
    /\ agent' = ~agent
    /\ Fault
    /\ UNCHANGED <<inTask, draft, send, queue, channel, wire, incoming, mine, theirs, log,
                   saw, lost>>

\* handleAttachmentUpload.  Of a Task's file it keeps whether it wakes the Agent.
Stores(i) ==
    /\ send[i].copy = "posted"
    /\ \/ /\ Number(Entry("copy", i, inTask /\ ~send[i].text))
          /\ send' = [send EXCEPT ![i].copy = "stored"] /\ UNCHANGED faults
       \/ /\ Fault /\ send' = [send EXCEPT ![i].copy = "refused"] /\ UNCHANGED log
    /\ UNCHANGED <<inTask, agent, draft, queue, channel, wire, incoming, mine, theirs, saw, lost>>

-----------------------------------------------------------------------------
(* The composer *)

Compose ==
    /\ \/ ~draft.text /\ draft' = [draft EXCEPT !.text = TRUE]
       \/ ~draft.file /\ draft.sending = None /\ draft' = [draft EXCEPT !.file = TRUE]
    /\ UNCHANGED <<inTask, agent, send, queue, channel, wire, incoming, mine, theirs, log,
                   saw, faults, lost>>

\* wrappedSendText, sendTextMessage: appendHumanText numbers the text, which wakes the
\* Agent of a Task; nothing tells the composer that the WebSocket is closed.
Say(i) ==
    \/ Number(Entry("text", i, inTask)) /\ UNCHANGED <<faults, lost>>
    \/ Fault /\ lost' = lost \cup {i} /\ UNCHANGED log

TextOnly ==
    [text |-> TRUE, file |-> FALSE, state |-> "sent", transfer |-> "none", parts |-> 0,
     began |-> 0, after |-> 0, over |-> 0, needs |-> FALSE, copy |-> "none"]

\* wrappedSendFile: sendFileMessage up to the queue
RoomFile(text) ==
    [TextOnly EXCEPT !.text = text, !.file = TRUE, !.state = "waiting", !.transfer = "queued"]

\* wrappedSendTaskFile: sendTaskAttachment up to the answer of the upload, which the
\* composer waits for
TaskFile(text) ==
    [TextOnly EXCEPT !.text = text, !.file = TRUE, !.state = "waiting",
       !.needs = TRUE, !.copy = "posted"]

Fresh(text, file) ==
    IF ~file THEN TextOnly ELSE IF inTask THEN TaskFile(text) ELSE RoomFile(text)

\* sendCurrentMessage up to its await
Submit ==
    LET i == Len(send) + 1
    IN  /\ i <= MaxSends /\ draft.sending = None /\ (draft.text \/ draft.file)
        /\ send' = Append(send, Fresh(draft.text, draft.file))
        /\ IF draft.file
           THEN /\ draft' = [draft EXCEPT !.sending = i]
                /\ queue' = IF inTask THEN queue ELSE Append(queue, i)
                /\ UNCHANGED <<log, faults, lost>>
           ELSE /\ draft' = [draft EXCEPT !.text = FALSE]
                /\ Say(i) /\ UNCHANGED queue
        /\ UNCHANGED <<inTask, agent, channel, wire, incoming, mine, theirs, saw>>

\* The rest of sendCurrentMessage, when the file is ready: what the Human typed since
\* goes with the text.
Ready(i) ==
    /\ draft' = [draft EXCEPT !.file = FALSE, !.sending = None,
                   !.text = IF send[i].text THEN FALSE ELSE @]
    /\ IF send[i].text THEN Say(i) ELSE UNCHANGED <<log, faults, lost>>

\* It is not: the draft stays, to be sent again.
NotReady == draft' = [draft EXCEPT !.sending = None] /\ UNCHANGED <<log, lost>>

\* Mutant: the file is ready when its transfer begins.
NeedsNoCopy == FALSE

\* sendFileMessage, agentReadableCopyApplies
NeedsCopy == agent

\* The answer of an upload: publishAgentReadableCopy with onReadiness, or sendTaskAttachment.
CopyAnswered(i, ok) ==
    /\ send[i].copy \in {"stored", "refused"} /\ (ok => send[i].copy = "stored")
    /\ LET s == [send[i] EXCEPT !.copy = "done",
                   !.state = IF @ # "waiting" THEN @ ELSE IF ok THEN "sent" ELSE "kept"]
       IN  send' = [send EXCEPT ![i] = s]
    /\ IF send[i].state # "waiting"
       THEN UNCHANGED <<draft, log, faults, lost>>
       ELSE IF ok THEN Ready(i)
       ELSE /\ NotReady
            /\ IF send[i].copy = "stored" THEN Fault ELSE UNCHANGED faults
    /\ UNCHANGED <<inTask, agent, queue, channel, wire, incoming, mine, theirs, saw>>

-----------------------------------------------------------------------------
(* The sender's file channel *)

\* latestObservedRoomSequence
LatestObserved == saw

Frame(kind, i) == [kind |-> kind, of |-> i, after |-> send[i].after]

\* sendFileMessage: file-start, the copy, and what is ready without one
Begins ==
    /\ queue # <<>> /\ send[Head(queue)].transfer = "queued" /\ channel.open
    /\ LET i == Head(queue)
           s == [send[i] EXCEPT !.transfer = "sending", !.began = saw,
                   !.after = LatestObserved, !.over = channel.n,
                   !.needs = agent, !.copy = IF agent THEN "posted" ELSE "none",
                   !.state = IF NeedsCopy THEN @ ELSE "sent"]
       IN  /\ send' = [send EXCEPT ![i] = s]
           /\ wire' = Append(wire, [kind |-> "start", of |-> i, after |-> s.after])
           /\ IF NeedsCopy THEN UNCHANGED <<draft, log, faults, lost>> ELSE Ready(i)
    /\ UNCHANGED <<inTask, agent, queue, channel, incoming, mine, theirs, saw>>

\* sendFileMessage: the next chunk
Chunk ==
    /\ queue # <<>> /\ channel.open
    /\ LET i == Head(queue)
       IN  /\ send[i].transfer = "sending" /\ send[i].over = channel.n /\ send[i].parts < Parts
           /\ send' = [send EXCEPT ![i].parts = @ + 1]
           /\ wire' = Append(wire, Frame("chunk", i))
    /\ UNCHANGED <<inTask, agent, draft, queue, channel, incoming, mine, theirs, log, saw, faults, lost>>

\* sendFileMessage: file-end, the sender's own message, and the copy for an Agent that
\* came meanwhile, whose answer nobody waits for
Ends ==
    /\ queue # <<>> /\ channel.open
    /\ LET i == Head(queue)
       IN  /\ send[i].transfer = "sending" /\ send[i].over = channel.n /\ send[i].parts = Parts
           /\ send' = [send EXCEPT ![i].transfer = "sent",
                         ![i].copy = IF ~send[i].needs /\ agent THEN "posted" ELSE @]
           /\ wire' = Append(wire, Frame("end", i))
           /\ mine' = Append(mine, [of |-> i, after |-> send[i].after])
           /\ queue' = Tail(queue)
    /\ UNCHANGED <<inTask, agent, draft, channel, incoming, theirs, log, saw, faults, lost>>

\* waitForSendCapacity times out, the channel the file began on is gone, or there is no
\* channel to begin on.
GivesUp ==
    /\ queue # <<>>
    /\ LET i == Head(queue)
       IN  /\ IF send[i].transfer = "queued" THEN ~channel.open /\ UNCHANGED faults
              ELSE IF channel.open /\ send[i].over = channel.n THEN Fault
              ELSE UNCHANGED faults
           /\ send' = [send EXCEPT ![i].transfer = "failed",
                         ![i].state = IF @ = "waiting" THEN "kept" ELSE @]
           /\ IF send[i].state = "waiting" THEN NotReady ELSE UNCHANGED <<draft, log, lost>>
    /\ queue' = Tail(queue)
    /\ UNCHANGED <<inTask, agent, channel, wire, incoming, mine, theirs, saw>>

\* The media session fails: what is on its way is lost, and the receiver drops what it has
\* of a file (cleanupRemoteFileChannel).
ChannelCloses ==
    /\ channel.open /\ Fault
    /\ channel' = [channel EXCEPT !.open = FALSE] /\ wire' = <<>> /\ incoming' = None
    /\ UNCHANGED <<inTask, agent, draft, send, queue, mine, theirs, log, saw, lost>>

ChannelOpens ==
    /\ ~channel.open
    /\ channel' = [n |-> channel.n + 1, open |-> TRUE]
    /\ UNCHANGED <<inTask, agent, draft, send, queue, wire, incoming, mine, theirs, log, saw, faults, lost>>

-----------------------------------------------------------------------------
(* The receiver: handleFileChannelMessage *)

\* Mutant: what was received of a file that was given up stays.
KeepsOld(f) == [of |-> f.of, after |-> f.after,
                parts |-> IF incoming = None THEN <<>> ELSE incoming.parts]

Anew(f) == [of |-> f.of, after |-> f.after, parts |-> <<>>]

\* addReceivedFileMessage, appendEphemeralMessage
Shows(f) ==
    theirs' = IF \E n \in DOMAIN theirs : theirs[n].of = f.of THEN theirs
              ELSE Append(theirs, [of |-> f.of, after |-> f.after])

Receives ==
    /\ wire # <<>> /\ wire' = Tail(wire)
    /\ LET f == Head(wire)
       IN  \/ f.kind = "start" /\ incoming' = Anew(f) /\ UNCHANGED theirs
           \/ /\ f.kind = "chunk" /\ UNCHANGED theirs
              /\ incoming' = IF incoming = None \/ Len(incoming.parts) = Parts THEN None
                             ELSE [incoming EXCEPT !.parts = Append(@, f.of)]
           \/ /\ f.kind = "end"
              /\ IF incoming = None \/ incoming.of # f.of THEN UNCHANGED <<incoming, theirs>>
                 ELSE /\ incoming' = None
                      /\ IF Len(incoming.parts) = Parts THEN Shows(incoming) ELSE UNCHANGED theirs
    /\ UNCHANGED <<inTask, agent, draft, send, queue, channel, mine, log, saw, faults, lost>>

-----------------------------------------------------------------------------

Next ==
    \/ Other \/ Sees \/ AgentComesOrGoes
    \/ Compose \/ Submit
    \/ \E i \in DOMAIN send : Stores(i) \/ \E ok \in BOOLEAN : CopyAnswered(i, ok)
    \/ Begins \/ Chunk \/ Ends \/ GivesUp \/ ChannelCloses \/ ChannelOpens
    \/ Receives

Spec == Init /\ [][Next]_vars

-----------------------------------------------------------------------------
(* Properties *)

\* The position of an entry of the log, and of a file, in a timeline
\* (mergeRoomAndEphemeralMessages); files with one number are in the order of arrival.
EntryBefore(n, file) == n <= file.after

\* A text that was sent together with a file is in the room only after what the Agents
\* can read of the file, if they need it, and after the file began to go to the Humans.
TextFollowsItsFile ==
    \A n \in DOMAIN log : log[n].kind = "text" /\ send[log[n].of].file =>
        LET i == log[n].of
        IN  /\ send[i].needs => \E k \in 1..(n - 1) : log[k] = Entry("copy", i, FALSE)
            /\ inTask \/ send[i].transfer \in {"sending", "sent", "failed"}

\* What was sent in a Task wakes its Agent once: the text, or the file when it is alone.
WakesOnce ==
    inTask => \A i \in DOMAIN send : send[i].state = "sent" /\ i \notin lost =>
        Cardinality({n \in DOMAIN log : log[n].of = i /\ log[n].wakes}) = 1

SubmissionIsWhole == TextFollowsItsFile /\ WakesOnce

\* A file that was sent on a channel that stays open is in the other timeline too, once the
\* channel is empty; whatever was given up on that channel before it.
FilesArrive ==
    \A i \in DOMAIN send :
        send[i].transfer = "sent" /\ send[i].over = channel.n /\ channel.open
        /\ (\A k \in 1..Len(wire) : wire[k].of # i) => \E n \in DOMAIN theirs : theirs[n].of = i

\* Both timelines have a file after everything its sender had seen when it began, and
\* files in the order in which they began.
FilesAreInPlace ==
    /\ \A s \in {mine, theirs} : \A n \in DOMAIN s :
         /\ \A k \in 1..send[s[n].of].began : EntryBefore(k, s[n])
         /\ \A k \in 1..(n - 1) : s[k].of < s[n].of /\ s[k].after <= s[n].after

FilesAreShown == FilesArrive /\ FilesAreInPlace
=============================================================================
