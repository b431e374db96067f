------------------------------ MODULE TravelAim ------------------------------
(***************************************************************************)
(* One character's errand column, `overseer_roster.travel_npc`, and the    *)
(* book the module keeps about it (MovementOwnership,                      *)
(* overseer_movement_ownership.h; TravelAimBook and DriveTravel,           *)
(* mod_overseer.cpp).                                                      *)
(*                                                                         *)
(* The bridge and an operator write the column from outside.  The module   *)
(* reads it synchronously, but writes it through the database's            *)
(* asynchronous worker, so a handler may see a column its own earlier      *)
(* statement has not reached yet.  Handlers run in the one world thread:   *)
(* each is one step.                                                       *)
(***************************************************************************)
EXTENDS Naturals, Sequences

CONSTANTS
    Counters,    \* counter errands: repair, banker, ...
    Points,      \* `at:` aims
    Guards,      \* an operator's `guard:` aims
    Named,       \* any other aim: trainer, respec, a creature entry, ...
    Empty,       \* the empty column
    NoOwner,     \* the owner of no claim
    PlaceOf,     \* the point each guard names
    Unreachable, \* aims the travel drive cannot resolve on this map
    Wants,       \* the aims each owner claims
    Leads,       \* this character leads its family
    Ceiling,     \* TRAVEL_LANDED_CEILING_SECONDS
    Grace,       \* TRAVEL_HANDBACK_SECONDS
    Refusals,    \* POISON_AIM_LIMITS.refusals
    MinAge,      \* POISON_AIM_LIMITS.minSeconds
    Gap,         \* POISON_AIM_LIMITS.gapSeconds
    MaxQueued,   \* statements the asynchronous worker may lag behind (a bound)
    MaxOrders,   \* claims, releases and writes from outside (a bound)
    MaxRestarts  \* restarts of the worldserver (a bound)

Aims == Counters \cup Points \cup Guards \cup Named
Owners == {"HomeErrand", "CatchUp", "Run", "WalkBackIn", "Respec", "TrainingStop",
           "TownTrip", "Exit"}
LiveRun == {"Run", "WalkBackIn", "Exit"}              \* TravelOwnerIsALiveRun
PassesLearn == Owners \ {"TownTrip", "HomeErrand"}    \* TravelOwnerPassesAnEmptyLearnColumn

ASSUME TravelAssumption ==
    /\ Empty \notin Aims /\ NoOwner \notin Owners
    /\ Counters \cap Points = {} /\ Guards \cap Named = {}
    /\ (Counters \cup Points) \cap (Guards \cup Named) = {}
    /\ PlaceOf \in [Guards -> Points]
    /\ Unreachable \subseteq Aims \ Guards
    /\ Wants \in [Owners -> SUBSET (Aims \ Guards)]
    /\ Leads \in BOOLEAN
    /\ Ceiling \in Nat \ {0} /\ Grace \in Nat \ {0}
    /\ Refusals \in Nat \ {0} /\ MinAge \in Nat /\ Gap \in Nat
    /\ MaxQueued \in Nat \ {0} /\ MaxOrders \in Nat /\ MaxRestarts \in Nat

VARIABLES
    column,   \* travel_npc
    learn,    \* learn_skill names a profession errand
    writes,   \* the module's statements the worker has not run yet
    claim,    \* _claims: what this book wrote, and for whom
    leg,      \* coord.legAim: the run's record of its last point
    driving,  \* _state: the aim the travel drive walks
    landed,   \* _landed: an aim let go of that stays in the column
    held,     \* he is held at a counter
    grace,    \* time since _handback was stamped
    poison,   \* _poisonAims
    swept,    \* _leftoverAimsSwept
    polled,   \* the travel poll has run in this unit of time
    calm,     \* nobody but the travel drive acts any more
    orders, restarts  \* bounds

book == <<claim, leg, driving, landed, held, grace, poison>>
timing == <<swept, polled>>
rest == <<calm, orders, restarts>>
vars == <<column, learn, writes, book, timing, rest>>

NoClaim == [aim |-> Empty, owner |-> NoOwner]
NoLanding == [aim |-> Empty, counter |-> FALSE, age |-> 0]
NoPoison == [aim |-> Empty, refusals |-> 0, first |-> 0, last |-> 0]

\* A statement: set the column to `aim`, or, if `from` is not Empty, blank it
\* if it is still `from`.  `own` and `stale` are history: the book held the
\* column's aim when the statement was made; it was made while an earlier one
\* was on its way, or the column or the learn errand was written from outside
\* since.
Statements == [aim : Aims \cup {Empty}, from : Aims \cup {Empty},
               owner : Owners \cup {NoOwner}, own : BOOLEAN, stale : BOOLEAN]

TypeOK ==
    /\ column \in Aims \cup {Empty} /\ learn \in BOOLEAN
    /\ writes \in Seq(Statements) /\ Len(writes) <= MaxQueued
    /\ claim \in {NoClaim} \cup [aim : Aims \ Guards, owner : Owners]
    /\ leg \in Points \cup {Empty}
    /\ driving \in (Aims \ Guards) \cup {Empty}
    /\ landed \in [aim : Aims \cup {Empty}, counter : BOOLEAN, age : 0 .. Ceiling]
    /\ held \in BOOLEAN
    /\ grace \in 0 .. Grace
    /\ poison \in [aim : Points \cup {Empty}, refusals : 0 .. Refusals,
                   first : 0 .. MinAge, last : 0 .. Gap + 1]
    /\ swept \in BOOLEAN /\ polled \in BOOLEAN /\ calm \in BOOLEAN
    /\ orders \in 0 .. MaxOrders /\ restarts \in 0 .. MaxRestarts

Init ==
    /\ column \in {Empty} \cup Points     \* a point may be left from an earlier run
    /\ learn \in BOOLEAN
    /\ writes = <<>>
    /\ claim = NoClaim /\ leg = Empty
    /\ driving = Empty /\ landed = NoLanding /\ held = FALSE
    /\ grace = Grace
    /\ poison = NoPoison
    /\ swept = FALSE /\ polled = FALSE /\ calm = FALSE
    /\ orders = 0 /\ restarts = 0

LesserOf(m, n) == IF m < n THEN m ELSE n
RoomToWrite == Len(writes) < MaxQueued                 \* bound
Order == ~ calm /\ orders < MaxOrders /\ orders' = orders + 1    \* bound

-----------------------------------------------------------------------------
(* What the book may write, and what it may blank.                          *)

Foreign(a) == a \in Counters \cup Guards \cup Points   \* IsForeignTravelAim

\* The aim in the column is the one this book wrote last.
Ours == claim.aim = column /\ column # Empty

\* Faulty: a live run outranks the bridge's counter errands too.
OutranksCountersToo(o) == o \in LiveRun /\ column # Empty

\* A live run takes the column from anything but a counter errand; an exit
\* takes it from that as well.
Outranks(o) ==
    /\ o \in LiveRun /\ column # Empty
    /\ column \notin Counters \/ o = "Exit"

\* ReadTravelClaim: whether `o` may write `a` over what stands in the column.
MayWrite(o, a) ==
    /\ column \notin Guards
    /\ \/ Ours
       \/ column = a
       \/ Outranks(o)
       \/ /\ learn => o \in PassesLearn /\ column = Empty
          /\ o = "TrainingStop" \/ ~ Foreign(column)

\* Faulty: an aim the book claimed is fenced like anybody else's.
FencedThoughClaimed == learn \/ Foreign(column)

\* TravelReleaseGate: why a release must leave the column as it is.
Fenced ==
    IF claim # NoClaim THEN ~ Ours ELSE learn \/ Foreign(column)

Statement(a, from, o) ==
    [aim |-> a, from |-> from, owner |-> o, own |-> Ours, stale |-> writes # <<>>]

\* Faulty: an unresolved point stands down like a keyword.
EveryAimStandsDown(a) == a # Empty

UnresolvedStandsDown(a) == a # Empty /\ a \notin Points

\* ReleaseImpl of the wheel and of the book, for a character walking `walked`:
\* the column is blanked if it is this book's to blank; what it leaves
\* standing has landed, if it was walked and nobody claims it; the book
\* forgets the errand and stamps the hand-back clock.
Landing(walked) ==
    IF Fenced /\ claim = NoClaim /\ column # Empty /\ walked = column
    THEN [NoLanding EXCEPT !.aim = column] ELSE NoLanding

LetGo ==
    /\ writes' = IF Fenced \/ column = Empty THEN writes
                 ELSE Append(writes, Statement(Empty, column, NoOwner))
    /\ claim' = NoClaim
    /\ driving' = Empty
    /\ grace' = 0

-----------------------------------------------------------------------------
(* The owners.                                                              *)

\* TravelAimBook::Claim.  A walk that is already this aim is left alone; a
\* dungeon run records the point whether or not it was written.
Claim ==
    /\ RoomToWrite
    /\ Order
    /\ \E o \in Owners : \E a \in Wants[o] :
         /\ leg' = IF o = "Run" /\ a \in Points THEN a ELSE leg
         /\ IF (driving = a /\ column = a) \/ ~ MayWrite(o, a)
            THEN UNCHANGED <<writes, claim, driving, landed>>
            ELSE /\ writes' = Append(writes, Statement(a, Empty, o))
                 /\ claim' = [aim |-> a, owner |-> o]
                 /\ driving' = Empty
                 /\ landed' = NoLanding
    /\ UNCHANGED <<column, learn, held, grace, poison, timing, calm, restarts>>

\* TravelAimBook::Release by an owner: an escort, a trip, a run's step ends.
Release ==
    /\ RoomToWrite
    /\ Order
    /\ LetGo
    /\ landed' = Landing(driving)
    /\ UNCHANGED <<column, learn, leg, held, poison, timing, calm, restarts>>

\* The run's claim on its own last leg, or no claim at all (a restart lost it).
LegStands == column = leg /\ (claim = NoClaim \/ (Ours /\ claim.owner \in LiveRun))

\* EndRunAndDecide: ReleaseRunAim leaves a newer aim to its owner, and
\* RetireRunAim blanks the recorded point at once.
EndRun ==
    /\ RoomToWrite
    /\ Order
    /\ leg' = Empty
    /\ IF LegStands
       THEN /\ LetGo
            /\ landed' = Landing(driving)
            /\ column' = Empty
       ELSE UNCHANGED <<column, writes, claim, driving, landed, grace>>
    /\ UNCHANGED <<learn, held, poison, timing, calm, restarts>>

-----------------------------------------------------------------------------
(* The travel poll (DriveTravel).                                           *)

\* Faulty: the drive takes the guard itself for its target.
GuardAsItStands == column

\* GuardTarget: a guard is walked as the point it names.
Target == IF column \in Guards THEN PlaceOf[column] ELSE column

\* LandedErrandStep: an aim let go of is not walked again while its counter
\* hold stands, or for the ceiling.
StandsDown ==
    /\ landed.aim = Target
    /\ IF landed.counter THEN held ELSE landed.age < Ceiling

\* SweepLeftoverAims: a follower's point that this process did not write.
Leftover == ~ swept /\ column \in Points /\ ~ Ours /\ ~ Leads

\* The sweep is done with the first poll that finds a point aim on anybody, or
\* after a few that found none.
SweepGoesOn ==
    /\ ~ Leftover
    /\ swept' \in BOOLEAN
    /\ swept \/ column \in Points => swept'

\* ForgetLeftover.
PollForgetsLeftover ==
    /\ Leftover
    /\ column' = Empty
    /\ claim' = NoClaim /\ driving' = Empty /\ landed' = NoLanding
    /\ swept' = TRUE /\ polled' = TRUE
    /\ UNCHANGED <<learn, writes, leg, held, grace, poison, rest>>

\* PruneVanished: the column was emptied, perhaps from outside.
PollFindsNothing ==
    /\ column = Empty
    /\ SweepGoesOn
    /\ claim' = IF driving # Empty THEN NoClaim ELSE claim
    /\ grace' = IF driving # Empty THEN 0 ELSE grace
    /\ driving' = Empty
    /\ landed' = NoLanding
    /\ polled' = TRUE
    /\ UNCHANGED <<column, learn, writes, leg, held, poison, rest>>

\* He is not in the world, or a guard names no place on his map.
PollSkips ==
    /\ column # Empty
    /\ ~ calm
    /\ SweepGoesOn
    /\ polled' = TRUE
    /\ UNCHANGED <<column, learn, writes, book, rest>>

PollStandsDown ==
    /\ column # Empty /\ StandsDown
    /\ SweepGoesOn
    /\ polled' = TRUE
    /\ UNCHANGED <<column, learn, writes, book, rest>>

\* A new errand ends the hold at the last counter.
HeldOnTheWay == held /\ driving = Target

Walks ==
    /\ column # Empty /\ ~ StandsDown
    /\ SweepGoesOn
    /\ polled' = TRUE
    /\ UNCHANGED <<column, learn, leg, rest>>

\* He is on his way, or waits for the leader's book to let him walk.
PollWalks ==
    /\ Walks
    /\ Target \notin Unreachable
    /\ driving' = Target
    /\ landed' = NoLanding
    /\ held' = HeldOnTheWay
    /\ UNCHANGED <<writes, claim, grace, poison>>

\* He arrives, at a counter to stand and trade, or the drive gives him up:
\* deaths, bad ground, no progress, the backstop.
PollEnds ==
    /\ Walks
    /\ RoomToWrite
    /\ Target \notin Unreachable
    /\ LetGo
    /\ \/ /\ landed' = Landing(Target)
          /\ held' = HeldOnTheWay
       \/ /\ Target \in Counters
          /\ landed' = [Landing(Target) EXCEPT !.counter = Landing(Target).aim = Target]
          /\ held' = TRUE
    /\ UNCHANGED poison

\* PoisonAimStep: one more refusal of an unclaimed point.
Noted ==
    IF Ours \/ Target \notin Points THEN NoPoison
    ELSE IF poison.refusals > 0 /\ poison.aim = Target /\ poison.last <= Gap
         THEN [poison EXCEPT !.refusals = LesserOf(@ + 1, Refusals), !.last = 0]
         ELSE [aim |-> Target, refusals |-> 1, first |-> 0, last |-> 0]

Poisoned == Noted.refusals = Refusals /\ Noted.first = MinAge

\* No such spawn, or a point on another map: the errand is released; a
\* keyword stands down, a point is counted and in the end blanked.
PollRefuses ==
    /\ column # Empty /\ ~ StandsDown
    /\ Target \in Unreachable
    /\ RoomToWrite
    /\ SweepGoesOn
    /\ LetGo
    /\ landed' = IF UnresolvedStandsDown(Target) THEN Landing(Target) ELSE NoLanding
    /\ held' = HeldOnTheWay
    /\ IF column \in Guards THEN UNCHANGED <<column, poison>>
       ELSE /\ poison' = IF Poisoned THEN NoPoison ELSE Noted
            /\ column' = IF Poisoned THEN Empty ELSE column
    /\ polled' = TRUE
    /\ UNCHANGED <<learn, leg, rest>>

TravelPoll ==
    \/ PollForgetsLeftover \/ PollFindsNothing \/ PollSkips
    \/ PollStandsDown \/ PollWalks \/ PollEnds \/ PollRefuses

-----------------------------------------------------------------------------
(* Everybody else.                                                          *)

Overtaken == [i \in DOMAIN writes |-> [writes[i] EXCEPT !.stale = TRUE]]

\* The bridge re-aims or blanks the column, and an operator guards it or lifts
\* a guard.  The bridge leaves a guard alone.
WriteFromOutside ==
    /\ Order
    /\ \/ column \notin Guards /\ column' \in (Aims \cup {Empty}) \ {column}
       \/ column \in Guards /\ column' = Empty
    /\ writes' = Overtaken
    /\ UNCHANGED <<learn, book, timing, calm, restarts>>

\* The bridge asks for a profession, or it has been learned.
LearnChanges ==
    /\ Order
    /\ learn' = ~ learn
    /\ writes' = Overtaken
    /\ UNCHANGED <<column, book, timing, calm, restarts>>

\* The asynchronous worker runs the next statement.
ApplyWrite ==
    /\ writes # <<>>
    /\ writes' = Tail(writes)
    /\ LET s == Head(writes)
       IN  column' = IF s.from \in {Empty, column} THEN s.aim ELSE column
    /\ UNCHANGED <<learn, book, timing, rest>>

\* The worldserver stops, its statements written, and starts again.
Restart ==
    /\ ~ calm
    /\ writes = <<>>
    /\ restarts < MaxRestarts /\ restarts' = restarts + 1        \* bound
    /\ claim' = NoClaim /\ leg' = Empty
    /\ driving' = Empty /\ landed' = NoLanding /\ held' = FALSE
    /\ grace' = Grace
    /\ poison' = NoPoison
    /\ swept' = FALSE
    /\ UNCHANGED <<column, learn, writes, polled, calm, orders>>

\* The hold at a counter is over.
CounterHoldEnds ==
    /\ held
    /\ held' = FALSE
    /\ UNCHANGED <<column, learn, writes, claim, leg, driving, landed, grace, poison,
                   timing, rest>>

\* From here on only the travel drive acts.
Calm ==
    /\ ~ calm
    /\ calm' = TRUE
    /\ UNCHANGED <<column, learn, writes, book, timing, orders, restarts>>

Tick ==
    /\ polled
    /\ polled' = FALSE
    /\ landed' = [landed EXCEPT !.age = IF landed = NoLanding THEN 0
                                        ELSE LesserOf(@ + 1, Ceiling)]
    /\ grace' = LesserOf(grace + 1, Grace)
    /\ poison' = IF poison = NoPoison THEN NoPoison
                 ELSE [poison EXCEPT !.first = LesserOf(@ + 1, MinAge),
                                     !.last = LesserOf(@ + 1, Gap + 1)]
    /\ UNCHANGED <<column, learn, writes, claim, leg, driving, held, swept, rest>>

Next ==
    \/ Claim \/ Release \/ EndRun
    \/ TravelPoll
    \/ WriteFromOutside \/ LearnChanges \/ ApplyWrite
    \/ Restart \/ CounterHoldEnds \/ Calm \/ Tick

Spec == Init /\ [][Next]_vars

\* The poll's timer and the clock go on, the worker runs what it is given, a
\* hold has its ceiling, and no walk lasts for ever: it arrives or the
\* backstop ends it.
FairSpec ==
    /\ Spec
    /\ WF_vars(TravelPoll) /\ WF_vars(ApplyWrite) /\ WF_vars(Tick)
    /\ WF_vars(CounterHoldEnds) /\ SF_vars(PollEnds)

-----------------------------------------------------------------------------
(* Properties.                                                              *)

\* What somebody else put in the column stays there, through every claim,
\* release, run end, sweep and breaker: a guard ends only by a person; a
\* counter errand yields only to an exit or a training stop; a trainer walk
\* with the profession pending only to a live run; a point only to those, or
\* to the sweep, the breaker or the run's record of it.  Not asked of a
\* statement that was overtaken in the worker's queue.
ForeignErrandStands ==
    [][LET s == Head(writes)
           byStatement == writes # <<>> /\ writes' = Tail(writes)
           takers == CASE column \in Guards -> {}
                       [] column \in Counters -> {"Exit", "TrainingStop"}
                       [] column \in Points -> LiveRun \cup {"TrainingStop"}
                       [] column \in Named -> IF learn THEN LiveRun
                                              ELSE Owners \cup {NoOwner}
       IN  (column # Empty /\ column' # column /\ ~ Ours /\ orders' = orders) =>
             \/ byStatement /\ (s.stale \/ s.own \/ s.owner \in takers)
             \/ ~ byStatement /\ column \in Points]_vars

\* A walk the book claimed ends for good when nobody interferes and no
\* statement is on its way: the aim leaves the column and does not come back
\* as a new errand (#822).
ClaimedWalkEnds == (calm /\ writes = <<>> /\ Ours) ~> [](column = Empty)

\* Nothing blocks the column.  A point nobody can walk to leaves it (#824): the
\* breaker counts every refusal, because a refused point does not stand down.
\* And an errand the bridge leaves in it is walked again and again: a landing
\* keeps him off it for a while, not for ever (#558).
ColumnIsNotBlocked ==
    /\ \A a \in Points \cap Unreachable : (calm /\ column = a) ~> [](column # a)
    /\ <>[](calm /\ column \in (Counters \cup Points) \ Unreachable)
         => []<><<PollWalks \/ PollEnds>>_vars

=============================================================================
