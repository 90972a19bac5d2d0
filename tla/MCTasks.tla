------------------------------ MODULE MCTasks ------------------------------
(***************************************************************************)
(* What goes on about Tasks that run, for TLC: the turns of one Task, the  *)
(* requests of the room, and the generated App that a Task publishes.  A   *)
(* behaviour is one of the module that `part` names, and the state space   *)
(* is the sum of the three.                                                *)
(***************************************************************************)
EXTENDS TaskTurns, GeneratedApps, TLC

CONSTANTS alice, bot, g1, g2, b1, b2

VARIABLES
    part,
    faults,     \* bound: what went wrong so far with the App; deferred turns
    \* TaskRegistry
    ring, next, registry, warm, journal

rvars == <<ring, next, registry, warm, journal>>
allvars == <<part, faults, rvars, appvars, vars>>

\* Each page stands for the other.
Symmetry == Permutations({g1, g2})

\* One request of a Human, and one that is answered the other way round.
Registry == INSTANCE TaskRegistry WITH
    People <- {alice, bot},
    Ids <- {[from |-> alice, target |-> bot, n |-> 1], [from |-> bot, target |-> alice, n |-> 2]},
    MaxMessages <- 2, MaxRequests <- 3, Answers <- {"accepted", "completed"}, MaxSequence <- 4

\* A bundle of two chunks, and one of one chunk.
TwoBundles == {[name |-> b1, size |-> 2], [name |-> b2, size |-> 1]}

TasksInit ==
    /\ part \in {"registry", "turns", "generated"} /\ faults = 0
    /\ Init /\ Registry!Init /\ AppInit

-----------------------------------------------------------------------------
(* Bounds *)

Flag(b) == IF b THEN 1 ELSE 0

Asleep == memory = None /\ attached # 0

\* At most one of: a second stream, a lost one, a lost update, a failed turn, a deferred
\* one, an eviction.  A publication is under way at once when the one before it has
\* arrived; meanwhile no frame is sent or handled.
TurnBound ==
    /\ faults' = faults + Flag(result' = "deferred" /\ result # result')
    /\ (\E g \in Goroutines : publish[g] # NoPublication) => publish' # publish \/ grip' # grip
    /\ outbox # None /\ sending = None => sending' # None
    /\ sending # None => sending' = None \/ wire' = wire \/ ~online'
    /\ (Len(wire) + Flag(outbox # None) + Flag(sending # None))' <= 2
    /\ (faults + streams - 1 + Flag(~online) + Flag(stale) + Flag(blocked) + Flag(Asleep)
        + Flag(\E i \in DOMAIN tries : tries[i] > 0))' <= 1
    /\ (\A i \in 1..Len(wire) : wire[i].kind = "resync" => Asleep)'

\* At most one thing goes wrong with the App.
Failing == faults < 1 /\ faults' = faults + 1

\* No more than two frames are on their way, to the pages and from them, and one page
\* loads at a time.
GeneratedBound ==
    /\ (Len(down[g1]) + Len(down[g2]) + Len(up[g1]) + Len(up[g2]))' <= 2
    /\ \E g \in {g1, g2} : page'[g].load.at = "none"

TasksNext ==
    /\ UNCHANGED part
    /\ \/ part = "registry" /\ Registry!Next /\ UNCHANGED <<faults, appvars, vars>>
       \/ part = "turns" /\ Next /\ TurnBound /\ UNCHANGED <<rvars, appvars>>
       \/ /\ part = "generated" /\ UNCHANGED <<rvars, vars>>
          /\ (AppSteps /\ UNCHANGED faults) \/ (AppFaults /\ Failing)
          /\ GeneratedBound

TasksSpec == TasksInit /\ [][TasksNext]_allvars

-----------------------------------------------------------------------------
(* Properties, which the modules explain; OnlyThatTurnIsCancelled and      *)
(* HandledOnce are those of TaskTurns, BundleReadable and AcceptedStays    *)
(* those of GeneratedApps.                                                 *)

\* The types of the three modules
TypesOK == TypeOK /\ Registry!TypeOK /\ AppTypeOK

\* TaskRegistry: answers come from whom was asked and go to whom asked, and a retry
\* finds the first request, or the first answer.
ExchangesStay == Registry!ExchangesStay
=============================================================================
