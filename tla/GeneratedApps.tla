--------------------------- MODULE GeneratedApps ---------------------------
(***************************************************************************)
(* The generated App of one Task: its Agent publishes revisions of a       *)
(* bundle, the room keeps the bundle in chunks beside its record, and the  *)
(* pages of the Humans share one revisioned state through the room         *)
(* (do/RoomSession.ts, components/RoomContent.tsx, RoomAppHost.tsx and     *)
(* common/generatedRoomApp.ts).                                            *)
(*                                                                         *)
(* A state is the set of the updates it was built from: an update is made  *)
(* from what its page shows.                                               *)
(***************************************************************************)
EXTENDS Integers, Sequences

CONSTANTS
    Nothing,
    Humans,
    Bundles,         \* records with a name and a size, the number of chunks
    MaxChunks,       \* MAX_GENERATED_APP_BUNDLE_BYTES, in chunks
    MaxRevision,     \* bound: bundle revisions
    MaxUpdates       \* bound: updates of the shared state

VARIABLES
    store,      \* the storage of the room: the keys below
    page,       \* page[h]: what the page of h holds
    up,         \* up[h]: updates on their way to the room
    down,       \* down[h]: frames on their way to the page
    updates,    \* the updates made so far
    upload,     \* the publication in the record that an upload under way has loaded
    accepted,   \* history: the updates in the states that the room accepted
    putBack     \* history: an upload has put an older publication back

appvars == <<store, page, up, down, updates, upload, accepted, putBack>>

Revisions == 1..MaxRevision
Chunks == 1..MaxChunks

Room == <<"room", 0, 0>>              \* the publication in the record of the room
State == <<"state", 0, 0>>            \* generatedAppStateKey
Chunk(r, i) == <<"bundle", r, i>>     \* generatedAppBundleKey
Piece(b, i) == <<b, i>>               \* chunk i of an encoded bundle
Keys == {Room, State} \cup {Chunk(r, i) : r \in Revisions, i \in Chunks}

States == SUBSET (1..MaxUpdates)
AppPublications == [revision : Revisions, size : Chunks, state : Nat]
Shared == [state : Nat, value : States]
Documents == [revision : Revisions, state : Nat, value : States]
Loads == [at : {"none", "asked"}]
         \cup [at : {"here"}, revision : Revisions, state : Nat, value : States]
Hosts == [at : {"none", "loading"}] \cup [at : {"boot", "ready"}, state : Nat, value : States]
AppFrames == [kind : {"room"}, apps : AppPublications \cup {Nothing}]
          \cup [kind : {"shared"}, state : Nat, value : States]
Pages == [open : BOOLEAN, apps : AppPublications \cup {Nothing}, doc : Documents \cup {Nothing},
          pending : Shared \cup {Nothing}, host : Hosts, load : Loads]

ASSUME AppConstantsFit ==
    /\ MaxChunks \in Nat \ {0} /\ MaxRevision \in Nat \ {0} /\ MaxUpdates \in Nat
    /\ \A b \in Bundles : b.size \in Chunks
    /\ Nothing \notin Bundles \cup AppPublications \cup Documents \cup Shared
    /\ Nothing \notin Bundles \X Chunks /\ Nothing \notin {state : state \in States}

AppTypeOK ==
    /\ DOMAIN store = Keys
    /\ store[Room] \in AppPublications \cup {Nothing} /\ store[State] \in States \cup {Nothing}
    /\ \A r \in Revisions, i \in Chunks : store[Chunk(r, i)] \in (Bundles \X Chunks) \cup {Nothing}
    /\ page \in [Humans -> Pages]
    /\ up \in [Humans -> Seq(Shared)] /\ down \in [Humans -> Seq(AppFrames)]
    /\ updates \in 0..MaxUpdates /\ upload \in AppPublications \cup {Nothing}
    /\ accepted \in States /\ putBack \in BOOLEAN

NoLoad == [at |-> "none"]
NewPage == [open |-> TRUE, apps |-> Nothing, doc |-> Nothing, pending |-> Nothing,
            host |-> [at |-> "none"], load |-> NoLoad]

AppInit ==
    /\ store = [k \in Keys |-> Nothing]
    /\ page = [h \in Humans |-> NewPage]
    /\ up = [h \in Humans |-> <<>>] /\ down = [h \in Humans |-> <<>>]
    /\ updates = 0 /\ upload = Nothing /\ accepted = {} /\ putBack = FALSE

-----------------------------------------------------------------------------
(* The room.  A handler awaits nothing but the storage, so that no other event comes
   between its writes; the instance may end between two of them. *)

Publication == store[Room]

\* The storage after the first n of the writes ws, of which no two are to one key
Written(ws, n) ==
    [k \in Keys |-> IF \E i \in 1..n : ws[i].key = k
                    THEN ws[CHOOSE i \in 1..n : ws[i].key = k].value
                    ELSE store[k]]

Put(k, v) == [key |-> k, value |-> v]
Delete(k) == Put(k, Nothing)

PutBundle(r, b) == [i \in 1..b.size |-> Put(Chunk(r, i), Piece(b, i))]
DropBundle(r, size) == [i \in 1..size |-> Delete(Chunk(r, i))]

\* readGeneratedAppBundleBytes; Nothing when a chunk is missing or of another bundle
BundleOf(p) ==
    IF \E b \in Bundles : b.size = p.size /\ \A i \in 1..p.size : store[Chunk(p.revision, i)] = Piece(b, i)
    THEN store[Chunk(p.revision, 1)][1]
    ELSE Nothing

First(b) == [revision |-> 1, size |-> b.size, state |-> 0]
Later(b) == [Publication EXCEPT !.revision = @ + 1, !.size = b.size]

\* Mutant: the chunks of the bundle before are deleted before the room is saved.
PublishWritesDropFirst(b) ==
    IF Publication = Nothing
    THEN PutBundle(1, b) \o <<Put(State, {}), Put(Room, First(b))>>
    ELSE PutBundle(Publication.revision + 1, b)
         \o DropBundle(Publication.revision, Publication.size)
         \o <<Put(Room, Later(b))>>

\* What "agent-publish-generated-app" writes, up to the save of the room and after it.
PublishWrites(b) ==
    IF Publication = Nothing
    THEN PutBundle(1, b) \o <<Put(State, {}), Put(Room, First(b))>>
    ELSE PutBundle(Publication.revision + 1, b)
         \o <<Put(Room, Later(b))>>
         \o DropBundle(Publication.revision, Publication.size)

\* What is left when the room refuses the save: the keys it wrote are deleted again.
RefusedWrites(b) ==
    IF Publication = Nothing
    THEN DropBundle(1, b.size) \o <<Delete(State)>>
    ELSE DropBundle(Publication.revision + 1, b.size)

\* An identical bundle is answered with the publication there is, an unreadable one
\* with an error.
MayPublish(b) ==
    IF Publication = Nothing THEN TRUE
    ELSE BundleOf(Publication) \notin {Nothing, b} /\ Publication.revision < MaxRevision

\* broadcast and broadcastState
ToAll(frame) ==
    down' = [h \in Humans |-> IF page[h].open THEN Append(down[h], frame) ELSE down[h]]

RoomFrame(s) == [kind |-> "room", apps |-> s[Room]]
SharedFrame(n, value) == [kind |-> "shared", state |-> n, value |-> value]

Publish(b) ==
    /\ MayPublish(b)
    /\ store' = Written(PublishWrites(b), Len(PublishWrites(b)))
    /\ ToAll(RoomFrame(store'))
    /\ UNCHANGED <<page, up, updates, upload, accepted, putBack>>

PublishRefused(b) ==
    /\ MayPublish(b)
    /\ store' = Written(RefusedWrites(b), Len(RefusedWrites(b)))
    /\ UNCHANGED <<page, up, down, updates, upload, accepted, putBack>>

\* The sockets of an instance that ends are closed, and its uploads fail.
InstanceEnds ==
    /\ upload' = Nothing
    /\ page' = [h \in Humans |-> [page[h] EXCEPT !.open = FALSE]]
    /\ up' = [h \in Humans |-> <<>>] /\ down' = [h \in Humans |-> <<>>]

PublishDies(b) ==
    /\ MayPublish(b)
    /\ \E n \in 1..Len(PublishWrites(b)) : store' = Written(PublishWrites(b), n)
    /\ InstanceEnds
    /\ UNCHANGED <<updates, accepted, putBack>>

\* Mutant: any update that arrives is taken.
CurrentOrNot(h) == store[State] # Nothing /\ Head(up[h]).state <= Publication.state

\* The next update of h is made from the state that the room has.
Current(h) == store[State] # Nothing /\ Head(up[h]).state = Publication.state

\* The update of the record and of the state: the state goes first.
UpdateWrites(h) ==
    <<Put(State, Head(up[h]).value), Put(Room, [Publication EXCEPT !.state = @ + 1])>>

Update(h) ==
    /\ up[h] # <<>> /\ Publication # Nothing /\ Current(h)
    /\ store' = Written(UpdateWrites(h), 2)
    /\ accepted' = accepted \cup Head(up[h]).value
    /\ ToAll(SharedFrame(Publication.state + 1, Head(up[h]).value))
    /\ up' = [up EXCEPT ![h] = Tail(@)]
    /\ UNCHANGED <<page, updates, upload, putBack>>

\* generated-app-state-conflict, to the page alone
Conflict(h) ==
    /\ up[h] # <<>> /\ Publication # Nothing /\ ~Current(h)
    /\ LET now == IF store[State] = Nothing THEN {} ELSE store[State]
       IN  down' = [down EXCEPT ![h] = Append(@, SharedFrame(Publication.state, now))]
    /\ up' = [up EXCEPT ![h] = Tail(@)]
    /\ UNCHANGED <<store, page, updates, upload, accepted, putBack>>

\* The window of updates is full, or the save is refused and the state put back.
UpdateRefused(h) ==
    /\ up[h] # <<>> /\ Publication # Nothing /\ Current(h)
    /\ up' = [up EXCEPT ![h] = Tail(@)]
    /\ UNCHANGED <<store, page, down, updates, upload, accepted, putBack>>

UpdateDies(h) ==
    /\ up[h] # <<>> /\ Publication # Nothing /\ Current(h)
    /\ \E n \in 1..2 :
        /\ store' = Written(UpdateWrites(h), n)
        /\ accepted' = IF n = 2 THEN accepted \cup Head(up[h]).value ELSE accepted
    /\ InstanceEnds
    /\ UNCHANGED <<updates, putBack>>

\* handleSurfaceUpload and handleAttachmentUpload load the record and then await the
\* body, which is no storage: other events run until it is there.  One upload at a
\* time; one that began before the first publication would take the App out of the
\* room, and is left out.
UploadBegins ==
    /\ upload = Nothing /\ Publication # Nothing
    /\ upload' = Publication
    /\ UNCHANGED <<store, page, up, down, updates, accepted, putBack>>

\* They save the record they loaded; only a surface broadcasts it.
UploadSaves ==
    /\ upload # Nothing
    /\ store' = Written(<<Put(Room, upload)>>, 1)
    /\ putBack' = (putBack \/ upload # Publication)
    /\ upload' = Nothing
    /\ ToAll(RoomFrame(store')) \/ UNCHANGED down
    /\ UNCHANGED <<page, up, updates, accepted>>

\* handleGeneratedAppRead
Serve(h) ==
    /\ page[h].load.at = "asked"
    /\ page' = [page EXCEPT ![h].load =
        IF Publication = Nothing \/ BundleOf(Publication) = Nothing \/ store[State] = Nothing THEN NoLoad
        ELSE [at |-> "here", revision |-> Publication.revision, state |-> Publication.state, value |-> store[State]]]
    /\ UNCHANGED <<store, up, down, updates, upload, accepted, putBack>>

-----------------------------------------------------------------------------
(* The page *)

LoseSocket(h) ==
    /\ page[h].open
    /\ page' = [page EXCEPT ![h].open = FALSE]
    /\ up' = [up EXCEPT ![h] = <<>>] /\ down' = [down EXCEPT ![h] = <<>>]
    /\ UNCHANGED <<store, updates, upload, accepted, putBack>>

\* The room sends its state on a new socket.
Reconnect(h) ==
    /\ ~page[h].open
    /\ page' = [page EXCEPT ![h].open = TRUE]
    /\ down' = [down EXCEPT ![h] = <<RoomFrame(store)>>]
    /\ UNCHANGED <<store, up, updates, upload, accepted, putBack>>

\* The App of h is shown a state only if it is a later one.
ShowsState(host, n, value) ==
    IF host.at = "ready" THEN (IF n > host.state THEN [host EXCEPT !.state = n, !.value = value] ELSE host)
    ELSE host

\* The host is of one bundle revision, and a new one is mounted with another.
Mounted(p, doc) ==
    IF doc = Nothing THEN p.host
    ELSE IF p.doc = Nothing THEN [at |-> "loading"]
    ELSE IF p.doc.revision # doc.revision THEN [at |-> "loading"]
    ELSE ShowsState(p.host, doc.state, doc.value)

With(p, doc) == [p EXCEPT !.doc = doc, !.host = Mounted(p, doc)]

\* A shared state reaches the document of the page, or waits for it, and the host.
TakeShared(p, f) ==
    LET news == [state |-> f.state, value |-> f.value]
    IN  IF p.doc = Nothing
        THEN (IF p.pending = Nothing THEN [p EXCEPT !.pending = news]
              ELSE IF f.state > p.pending.state THEN [p EXCEPT !.pending = news] ELSE p)
        ELSE LET shown == [p EXCEPT !.host = ShowsState(@, f.state, f.value)]
             IN  IF f.state <= p.doc.state THEN shown
                 ELSE With(shown, [p.doc EXCEPT !.state = f.state, !.value = f.value])

TakeFrame(h) ==
    /\ down[h] # <<>>
    /\ LET f == Head(down[h])
       IN  page' = [page EXCEPT ![h] =
               IF f.kind = "room" THEN [@ EXCEPT !.apps = f.apps] ELSE TakeShared(@, f)]
    /\ down' = [down EXCEPT ![h] = Tail(@)]
    /\ UNCHANGED <<store, up, updates, upload, accepted, putBack>>

\* The document is not the publication that the page knows of.
Behind(p) ==
    /\ p.apps # Nothing
    /\ p.doc # Nothing => p.doc.revision # p.apps.revision \/ p.doc.state < p.apps.state

\* loadGeneratedAppDocument, for the Human who opens the App or in the background
Load(h) ==
    /\ page[h].load = NoLoad /\ Behind(page[h])
    /\ page' = [page EXCEPT ![h].load.at = "asked"]
    /\ UNCHANGED <<store, up, down, updates, upload, accepted, putBack>>

\* A state that came before the document and is not older replaces the document's.
Reconciled(p) ==
    LET news == IF p.pending = Nothing THEN p.load
                ELSE IF p.pending.state >= p.load.state THEN p.pending ELSE p.load
    IN  [revision |-> p.load.revision, state |-> news.state, value |-> news.value]

\* The answer is older than the publication that the page knows of.
Outdated(p) ==
    /\ p.apps # Nothing
    /\ \/ p.load.revision < p.apps.revision
       \/ p.load.revision = p.apps.revision /\ p.load.state < p.apps.state

Loaded(h) ==
    /\ page[h].load.at = "here"
    /\ page' = [page EXCEPT ![h] =
        IF Outdated(@) THEN [@ EXCEPT !.load = NoLoad]
        ELSE [With(@, Reconciled(@)) EXCEPT !.load = NoLoad, !.pending = Nothing]]
    /\ UNCHANGED <<store, up, down, updates, upload, accepted, putBack>>

LoadFails(h) ==
    /\ page[h].load # NoLoad
    /\ page' = [page EXCEPT ![h].load = NoLoad]
    /\ UNCHANGED <<store, up, down, updates, upload, accepted, putBack>>

\* sendBootstrap: the iframe has loaded; what "ready" will answer is fixed here.
Bootstrap(h) ==
    /\ page[h].host.at = "loading"
    /\ page' = [page EXCEPT ![h].host =
        [at |-> "boot", state |-> page[h].doc.state, value |-> page[h].doc.value]]
    /\ UNCHANGED <<store, up, down, updates, upload, accepted, putBack>>

\* The App answers with the token of the handshake.
Ready(h) ==
    /\ page[h].host.at = "boot"
    /\ page' = [page EXCEPT ![h].host.at = "ready"]
    /\ UNCHANGED <<store, up, down, updates, upload, accepted, putBack>>

\* The page renders again: a host that missed a state is shown the document's.
Missed(p) == IF p.host.at = "ready" THEN p.host.state < p.doc.state ELSE FALSE

Render(h) ==
    /\ Missed(page[h])
    /\ page' = [page EXCEPT ![h].host = ShowsState(@, page[h].doc.state, page[h].doc.value)]
    /\ UNCHANGED <<store, up, down, updates, upload, accepted, putBack>>

\* shared.set of the App: an update of what it shows, for the revision it shows
Set(h) ==
    /\ page[h].host.at = "ready" /\ page[h].open /\ updates < MaxUpdates
    /\ updates' = updates + 1
    /\ up' = [up EXCEPT ![h] = Append(@, [state |-> page[h].host.state,
                                          value |-> page[h].host.value \cup {updates'}])]
    /\ UNCHANGED <<store, page, down, upload, accepted, putBack>>

\* What goes wrong: a refused save, an instance that ends, a lost connection or answer,
\* an upload under way.
AppFaults ==
    \/ \E b \in Bundles : PublishRefused(b) \/ PublishDies(b)
    \/ \E h \in Humans : UpdateRefused(h) \/ UpdateDies(h) \/ LoseSocket(h) \/ LoadFails(h)
    \/ UploadBegins

AppSteps ==
    \/ \E b \in Bundles : Publish(b)
    \/ UploadSaves
    \/ \E h \in Humans :
        \/ Update(h) \/ Conflict(h) \/ Serve(h) \/ Reconnect(h) \/ TakeFrame(h)
        \/ Load(h) \/ Loaded(h) \/ Bootstrap(h) \/ Ready(h) \/ Render(h) \/ Set(h)

AppNext == AppSteps \/ AppFaults

AppSpec == AppInit /\ [][AppNext]_appvars

-----------------------------------------------------------------------------
(* Properties *)

\* A publication in the record of the room has all the chunks of one bundle and a
\* state: whatever save was refused, and wherever the instance ended between the
\* writes of "agent-publish-generated-app", a page that opens the App gets it.  An
\* upload that puts an older publication back is the exception: the chunks of that
\* one are gone, and every later revision is refused (generated_app_unavailable).
BundleReadable ==
    Publication # Nothing /\ ~putBack => BundleOf(Publication) # Nothing /\ store[State] # Nothing

\* An update that the room accepted is part of the state from then on: no page that
\* has not seen it, be it behind, reloaded or reconciled from an older document,
\* overwrites it, because the room compares the revision the page was shown, as long
\* as no upload puts an older revision back.
AcceptedStays == Publication # Nothing /\ ~putBack => accepted \subseteq store[State]
=============================================================================
