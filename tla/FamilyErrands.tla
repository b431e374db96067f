---------------------------- MODULE FamilyErrands ----------------------------
(***************************************************************************)
(* The errands one family runs between and before its dungeon runs         *)
(* (mod_overseer.cpp): the training stop (59769-60168, 60278-60389), the   *)
(* repair leg of the run's coordinator (50936-51459) and the town trip     *)
(* (51555-52430).  They share the members' travel columns, and the         *)
(* coordinator waits for some of them: a repair leg and a run's start hold *)
(* for an open training stop, and a run holds out while bags are full.     *)
(*                                                                         *)
(* Polls run in one thread, each to its end.  The dungeon poll drives the  *)
(* coordinator and then the town trip; the training stop has a poll of its *)
(* own and is driven by the coordinator too.  A column is read as it       *)
(* stands, and written by the database's worker some time after the poll.  *)
(*                                                                         *)
(* The limits in seconds are not counted: a poll may find one passed, and  *)
(* if it goes on being asked it will.                                      *)
(*                                                                         *)
(* Its names carry the word errands where the book of intents, kept for    *)
(* the same leader, has one of its own: a module may read both.            *)
(***************************************************************************)
EXTENDS Naturals, FiniteSets

CONSTANTS
    Members,      \* the family
    Skilled,      \* those who learn by a profession errand, learn_skill
    First0,       \* the lead at the start
    Wishes,       \* those with something to learn, at first and after a run
    Loads,        \* whose bags, and whose gear, a run may fill or damage (a bound)
    LearnTries,   \* TRAINING_STOP_LEARN_TRIES
    MaxRuns,      \* runs, each with new damage, loot and learns (a bound)
    MaxMishaps    \* what operator and bridge do (a bound)

ASSUME ErrandsAssumption ==
    /\ First0 \in Members /\ Skilled \subseteq Members /\ Wishes \subseteq Members
    /\ Loads \subseteq SUBSET Members
    /\ LearnTries \in Nat \ {0} /\ MaxRuns \in Nat /\ MaxMishaps \in Nat

VARIABLES
    lead,       \* the roster's lead
    job,        \* his job: a campaign, quests or neither
    phase,      \* the coordinator's: idle, repairing, or under way
    turn,       \* what of the polls comes next
    column,     \* each member's travel column and claim
    wants,      \* members with something to learn they can pay for
    damaged,    \* members with damaged gear
    full,       \* members whose bags are full
    stop,       \* _trainingStops, by head
    leg,        \* _trainingStopLegs, by head
    settled,    \* coord.repairSettled
    heldSince,  \* coord.trainingHoldSince is set
    runHeld,    \* coord.trainingRunHoldSince is set
    trip,       \* _townTrips
    runs, mishaps   \* bounds

campaign == <<lead, job, phase, turn>>
needs == <<wants, damaged, full>>
training == <<stop, leg>>
holds == <<settled, heldSince, runHeld>>
bounds == <<runs, mishaps>>
errandsVars == <<campaign, column, needs, training, holds, trip, bounds>>

\* The town trip's turn; "late": the coordinator found a limit passed.
Trip == {"trip", "late"}

-----------------------------------------------------------------------------
(* The column.  `aim` is what the row says, `next` what the worker will    *)
(* write, `claim` the aim this book holds.  A repair aim is the run's or a *)
(* town trip's; "auction" is an errand the bridge wrote.                   *)

Aims == {"none", "trainer", "repair", "vendor", "auction"}
Counters == {"repair", "vendor", "auction"}         \* IsForeignTravelAim
Owners == {"TrainingStop", "Run", "TownTrip"}
FreeColumn == [aim |-> "none", next |-> "same", claim |-> "none"]

\* The fences of a claim: what this book wrote is its own; a run outranks all
\* but a counter errand; a learn errand stands against a town trip, and against
\* a training stop that would replace an aim; a counter errand against all but
\* the training stop.
MayClaim(c, a, o, learns) ==
    \/ c.aim \in {c.claim, a} \ {"none"}
    \/ o = "Run" /\ c.aim \notin Counters
    \/ o = "TownTrip" /\ c.aim \notin Counters /\ ~ learns
    \/ o = "TrainingStop" /\ (learns => c.aim = "none")

Claimed(c, a) == [c EXCEPT !.claim = a, !.next = IF c.aim = a THEN "same" ELSE a]

Learns(m) == m \in Skilled \cap wants

\* A claim on another aim than the one that stands is forgotten, and an aim
\* nobody claimed is left if it is a counter errand or the member has to learn.
Released(m, c) ==
    LET left == IF c.claim = "none" THEN c.aim \in Counters \/ Learns(m)
                ELSE c.claim # c.aim
    IN [c EXCEPT !.claim = "none",
                 !.next = IF c.aim = "none" \/ left THEN @ ELSE "none"]

\* The worker has written before the next update of the world.
Landed(c) == [c EXCEPT !.next = "same", !.aim = IF c.next = "same" THEN @ ELSE c.next]
AllLanded(cs) == [m \in Members |-> Landed(cs[m])]

-----------------------------------------------------------------------------
(* The training stop.                                                       *)

NoLeg == [for |-> {}, with |-> {}]
Closed(rests) ==
    [open |-> FALSE, rests |-> rests, walked |-> {}, retried |-> {},
     tries |-> [m \in Members |-> 0], owed |-> {}]

Armed == job \in {"campaign", "quest"}

\* The members PickTrainingStopLeg is told of: a profession's learner always,
\* a class's only if a stop is or may be open and he is with the head.
Wanting(s, here) ==
    {m \in wants : m \in Skilled \/ (Armed /\ (s.open \/ ~ s.rests)
                                     /\ m \in here \ s.walked)}

\* The column is free, or holds a counter errand that this book did not write.
MayPreempt(c) ==
    \/ c.aim = "none"
    \/ c.aim \in Counters /\ c.claim # c.aim /\ ~ Learns(lead)

\* PickTrainingStopLeg.  `here` is who stands on the head's map, `near` whose
\* trainer is in reach, `over` that the stop's time is spent, `busy` that the
\* head is in the middle of a quest's objective.
Pick(s, c, here, near, over, busy) ==
    LET ask == Wanting(s, here) \ s.walked IN
    IF ~ Armed THEN "NotACampaign"
    ELSE IF ask = {} THEN IF s.owed # {} THEN "LearnsOwed" ELSE "NothingToLearn"
    ELSE IF phase = "run" THEN "RunOwnsTravel"
    ELSE IF ~ s.open /\ s.rests THEN "Resting"
    ELSE IF s.open /\ over THEN "SpentItsTime"
    ELSE IF ask \cap here = {} THEN "NobodyOnHeadMap"
    ELSE IF ask \cap here \cap near = {} THEN "NoTrainerInTown"
    ELSE IF job = "quest" /\ ~ s.open /\ busy THEN "QuestObjectiveOpen"
    ELSE IF MayPreempt(c) THEN "Walk" ELSE "ColumnTaken"

First(S) == IF lead \in S THEN lead ELSE CHOOSE m \in S : TRUE

\* Faulty: a leg cut short is walked again, every time.
CutForgiven(s, m) == [s EXCEPT !.walked = @ \ {m}]

\* A leg whose aim has left the column unanswered: its member has one more.
CutShort(s, m) ==
    IF m \in s.retried THEN s
    ELSE [s EXCEPT !.retried = @ \cup {m}, !.walked = @ \ {m}]

StillWalking(l, c) == l # NoLeg /\ c.aim = "trainer"

\* DriveTrainingStop for the family of a head in the world: what it makes of
\* his stop s, leg l and column c.  `granted` is the leader's turn.
Driven(s, l, c, here, near, over, busy, granted) ==
    LET s1 == IF l = NoLeg THEN s ELSE CutShort(s, CHOOSE m \in l.for : TRUE)
        step == Pick(s1, c, here, near, over, busy)
        ask == Wanting(s1, here)
        m == First((ask \ s1.walked) \cap here \cap near)
    IN
    IF StillWalking(l, c) THEN [stop |-> s, leg |-> l, column |-> c, step |-> "Walking"]
    ELSE IF s1.open /\ step \notin {"Walk", "ColumnTaken"}
    THEN [stop |-> Closed(TRUE), leg |-> NoLeg, column |-> c, step |-> step]
    ELSE IF step = "Walk" /\ granted /\ MayClaim(c, "trainer", "TrainingStop", Learns(lead))
    THEN [stop |-> [s1 EXCEPT !.open = TRUE, !.walked = @ \cup {m}],
          leg |-> [for |-> {m}, with |-> ask \cap here],
          column |-> Claimed(c, "trainer"), step |-> step]
    ELSE [stop |-> s1, leg |-> NoLeg, column |-> c, step |-> step]

\* What the drive may make of it, by where the members and the trainers are,
\* and nothing if the head is not in the world.
Drives(s, l, c, overs) ==
    {Driven(s, l, c, here, near, over, busy, granted) :
        here \in SUBSET wants, near \in SUBSET wants, over \in overs,
        busy \in BOOLEAN, granted \in BOOLEAN}
    \cup {[stop |-> s, leg |-> l, column |-> c, step |-> "Away"]}

\* DriveTrainingStop on its own poll; the dungeon poll may follow in the same
\* update of the world, before anything is written.
TrainPoll(over) ==
    /\ turn = "polls"
    /\ over => stop[lead].open
    /\ turn' \in {"polls", "run"}
    /\ UNCHANGED <<lead, job, phase, needs, holds, trip, bounds>>
    /\ \E d \in Drives(stop[lead], leg[lead], column[lead], {over}) :
         /\ over => d.step # "Away"      \* a limit is noticed with the head here
         /\ stop' = [stop EXCEPT ![lead] = d.stop]
         /\ leg' = [leg EXCEPT ![lead] = d.leg]
         /\ column' = [column EXCEPT ![lead] = IF turn' = "polls" THEN Landed(d.column)
                                               ELSE d.column]

\* Faulty: what a leg did not teach is tried again and again.
NotedWithoutLimit(s, l, failed) ==
    [s EXCEPT !.tries = [m \in Members |-> IF m \in failed /\ @[m] < LearnTries
                                           THEN @[m] + 1 ELSE @[m]],
              !.walked = @ \ failed,
              !.owed = @ \ l.with]

\* NoteTrainingStopLeg: who was with the head and did not learn is walked for
\* again until his tries are spent.
Noted(s, l, failed) ==
    LET tries == [m \in Members |-> IF m \in failed /\ s.tries[m] < LearnTries
                                    THEN s.tries[m] + 1 ELSE s.tries[m]]
        again == {m \in failed : tries[m] < LearnTries}
    IN [s EXCEPT !.tries = tries,
                 !.walked = @ \ again,
                 !.owed = (@ \ (l.with \ failed)) \cup (failed \ again)]

\* The head reaches the trainer (TeachAtTrainingStop): of those who set out
\* with him some learn, some fail or have not come in time, and some are dead
\* or gone and not asked.
TrainerReached(h) ==
    /\ turn = "polls"
    /\ StillWalking(leg[h], column[h])
    /\ \E failed, learned \in SUBSET leg[h].with :
         /\ failed \cap learned = {}
         /\ stop' = [stop EXCEPT ![h] = Noted(@, leg[h], failed)]
         /\ wants' = wants \ learned
    /\ leg' = [leg EXCEPT ![h] = NoLeg]
    /\ column' = [column EXCEPT ![h] = Landed(Released(h, @))]
    /\ UNCHANGED <<campaign, damaged, full, holds, trip, bounds>>

\* TrainingStopRestStillApplies, or the seconds are up.
RestIsOver(h) ==
    /\ stop[h].rests
    /\ ~ stop[h].open
    /\ stop' = [stop EXCEPT ![h].rests = FALSE]
    /\ UNCHANGED <<campaign, column, needs, leg, holds, trip, bounds>>

\* The travel drive is done with an aim without an answer: refused, spent, died
\* on the way, or a counter reached.
AimEnds(m) ==
    /\ turn = "polls"
    /\ column[m].aim # "none"
    /\ column' = [column EXCEPT ![m] = IF @.aim = "auction"
                                       THEN FreeColumn      \* the bridge blanks its own
                                       ELSE Landed(Released(m, @))]
    /\ column' # column
    /\ UNCHANGED <<campaign, needs, training, holds, trip, bounds>>

-----------------------------------------------------------------------------
(* The coordinator, and what it waits for.                                  *)

\* A stop of anybody in the family, the head's or a former head's, is open.
AnyOpen(st) == \E m \in Members : st[m].open

\* Faulty: the hold is counted from the last poll that held.
HoldFromNow(open, since, over) == open

\* TrainingStopHoldsRepairLeg, TrainingStopHoldsRunStart.
Holds(open, since, over) == open /\ ~ (since /\ over)

\* A member's part in a poll of the leg, or of a trip: he stays as he is (not
\* in the world, walking behind, or served again the next time), sets out or
\* goes on, is served at the counter, or settles: without a need any more, or
\* with one that this counter cannot end.
Parts == {"stays", "walks", "served", "settles"}
Settling == {"served", "settles"}

\* The columns after a poll: settled members' are released, walkers' claimed.
AfterPoll(parts, a, o, granted) ==
    [m \in Members |->
        CASE m \in DOMAIN parts /\ parts[m] \in Settling -> Released(m, column[m])
          [] m \in DOMAIN parts /\ parts[m] = "walks"
                /\ MayClaim(column[m], a, o, Learns(m)) /\ (m = lead => granted)
               -> Claimed(column[m], a)
          [] OTHER -> column[m]]

\* Faulty: the hold's clock is left running.
LegOverStillHeld(c) ==
    /\ column' = [m \in Members |-> Released(m, c[m])]
    /\ settled' = {}
    /\ phase' = "run"
    /\ UNCHANGED <<heldSince, runHeld>>

\* EndRepairLeg, in the poll that left the columns c.
LegOver(c) ==
    /\ column' = [m \in Members |-> Released(m, c[m])]
    /\ settled' = {}
    /\ heldSince' = FALSE
    /\ phase' = "run"
    /\ UNCHANGED runHeld

\* The leg has nobody outstanding: the training stop is driven, and holds it.
LegFinishes(c, over) ==
    \E d \in Drives(stop[lead], leg[lead], c[lead], BOOLEAN) :
      LET st == [stop EXCEPT ![lead] = d.stop]
          col == [c EXCEPT ![lead] = d.column]
      IN /\ stop' = st
         /\ leg' = [leg EXCEPT ![lead] = d.leg]
         /\ IF Holds(AnyOpen(st), heldSince, over)
            THEN /\ column' = col
                 /\ settled' = Members
                 /\ heldSince' = TRUE
                 /\ UNCHANGED <<phase, runHeld>>
            ELSE LegOver(col)

\* DriveRepairLeg.
RepairPoll(over) ==
    \E parts \in [Members \ settled -> Parts], granted \in BOOLEAN :
      LET c == AfterPoll(parts, "repair", "Run", granted)
          done == {m \in DOMAIN parts : parts[m] \in Settling}
          served == {m \in DOMAIN parts : parts[m] = "served"}
          out == {m \in DOMAIN parts : parts[m] = "walks"}
      IN /\ served \cup out \subseteq damaged
         /\ damaged' = damaged \ served
         /\ IF done = DOMAIN parts
            THEN LegFinishes(c, over)
            ELSE IF over
            THEN LegOver(c) /\ UNCHANGED training
            ELSE /\ column' = c
                 /\ settled' = settled \cup done
                 /\ UNCHANGED <<phase, heldSince, runHeld, training>>

\* Idle, with a campaign: the training stop is driven, and holds the start.  It
\* does so too while a leg could be walked and the column is taken.
RunStartPoll(over) ==
    \E d \in Drives(stop[lead], leg[lead], column[lead], BOOLEAN) :
      LET st == [stop EXCEPT ![lead] = d.stop] IN
      /\ stop' = st
      /\ leg' = [leg EXCEPT ![lead] = d.leg]
      /\ column' = [column EXCEPT ![lead] = d.column]
      /\ IF Holds(AnyOpen(st) \/ d.step \in {"Walk", "ColumnTaken"}, runHeld, over)
         THEN runHeld' = TRUE /\ UNCHANGED phase
         ELSE runHeld' = FALSE /\ phase' = "run"
      /\ UNCHANGED <<settled, heldSince, damaged>>

\* Full bags hold the family out, whatever it was waiting for.
HoldOut ==
    /\ IF phase = "idle" THEN UNCHANGED <<phase, column, holds>>
       ELSE /\ phase' = "idle"
            /\ column' = [column EXCEPT ![lead] = Released(lead, @)]
            /\ settled' = {} /\ heldSince' = FALSE /\ runHeld' = FALSE
    /\ UNCHANGED <<damaged, training>>

CoordinatorPoll(over) ==
    /\ turn \in {"polls", "run"}
    /\ turn' = IF over THEN "late" ELSE "trip"
    /\ UNCHANGED <<lead, job, wants, full, trip, bounds>>
    /\ CASE phase # "run" /\ full # {} -> HoldOut /\ ~ over
         [] phase = "repairing" /\ full = {} -> RepairPoll(over)
         [] phase = "idle" /\ job = "campaign" /\ full = {} -> RunStartPoll(over)
         [] OTHER -> UNCHANGED <<phase, column, damaged, training, holds>> /\ ~ over

\* A run ends, and the campaign goes on or is over.
RunEnds ==
    /\ phase = "run"
    /\ turn = "polls"
    /\ ~ stop[lead].open          \* a run outlasts a training poll
    /\ runs < MaxRuns
    /\ runs' = runs + 1
    /\ phase' \in {"repairing", "idle"}
    /\ damaged' \in Loads /\ full' \in Loads /\ wants' \in {wants, Wishes}
    /\ damaged' = {} \/ full' = {}          \* a bound
    /\ UNCHANGED <<lead, job, turn, column, training, holds, trip, mishaps>>

-----------------------------------------------------------------------------
(* The town trip, in the dungeon poll after the coordinator.                *)

NoTrip == [role |-> "none", leader |-> "none", settled |-> {}]

\* EndTownTrip, in the poll that left the columns c.
TripOver(c) ==
    /\ column' = AllLanded([m \in Members |-> Released(m, c[m])])
    /\ trip' = NoTrip

\* PlanTownTrip and the target of its walk; a broken piece comes first.
MayGoFor(role) == (role = "repair" /\ damaged # {}) \/ (role = "vendor" /\ full # {})

\* Does the counter of this trip still owe the member something?
Owes(t, m) == IF t.role = "repair" THEN m \in damaged ELSE TRUE

\* The members of a trip in force, with the limit of its time passed or not.
TripGoesOn(t, over) ==
    \E parts \in [Members \ t.settled -> Parts], granted, sold \in BOOLEAN :
      LET c == AfterPoll(parts, t.role, "TownTrip", granted)
          done == {m \in DOMAIN parts : parts[m] \in Settling}
          asked == {m \in DOMAIN parts : parts[m] \in {"served", "walks"}}
          served == {m \in DOMAIN parts : parts[m] = "served" /\ sold}
      IN /\ \A m \in asked : Owes(t, m)
         /\ damaged' = IF t.role = "repair" THEN damaged \ served ELSE damaged
         /\ full' = IF t.role = "vendor" THEN full \ served ELSE full
         /\ IF done = DOMAIN parts \/ over
            THEN TripOver(c)
            ELSE column' = AllLanded(c) /\ trip' = [t EXCEPT !.settled = @ \cup done]

DriveTownTrip(over) ==
    /\ turn \in Trip
    /\ turn' = "polls"
    /\ UNCHANGED <<lead, job, phase, training, holds, bounds>>
    /\ over => trip.role # "none"
    /\ \/ /\ trip.role # "none"
          /\ phase # "idle" \/ trip.leader # lead      \* a run, or a new leader
          /\ TripOver(column)
          /\ UNCHANGED needs
       \/ /\ trip.role # "none"
          /\ phase = "idle" /\ trip.leader = lead
          /\ TripGoesOn(trip, over)
          /\ UNCHANGED wants
       \/ /\ trip.role = "none" /\ phase = "idle"
          /\ \E role \in {"repair", "vendor"} :
               /\ MayGoFor(role)
               /\ TripGoesOn([role |-> role, leader |-> lead, settled |-> {}],
                             FALSE)
          /\ UNCHANGED wants
       \/ /\ trip.role = "none"      \* busy, too soon, no need or no way there
          /\ column' = AllLanded(column)
          /\ UNCHANGED <<needs, trip>>

-----------------------------------------------------------------------------
(* The operator and the bridge.                                             *)

\* While the family is between runs, which is also a bound.
Mishap ==
    turn = "polls" /\ phase # "run" /\ mishaps < MaxMishaps /\ mishaps' = mishaps + 1

HeadChanges ==
    /\ Mishap
    /\ \A m \in Members : stop[lead].tries[m] = 0      \* a bound: early in his stop
    /\ lead' \in Members \ {lead}
    /\ UNCHANGED <<job, phase, turn, column, needs, training, holds, trip, runs>>

JobChanges ==
    /\ Mishap
    /\ job' \in {"campaign", "quest", "other"} \ {job}
    /\ UNCHANGED <<lead, phase, turn, column, needs, training, holds, trip, runs>>

BridgeWrites(m) ==
    /\ Mishap
    /\ column' = [column EXCEPT ![m].aim = "auction"]
    /\ column' # column
    /\ UNCHANGED <<campaign, needs, training, holds, trip, runs>>

-----------------------------------------------------------------------------
ErrandsInit ==
    /\ lead = First0 /\ job = "campaign"
    /\ phase = "run" /\ turn = "polls"
    /\ column = [m \in Members |-> FreeColumn]
    /\ wants = Wishes /\ damaged = {} /\ full = {}
    /\ stop = [m \in Members |-> Closed(FALSE)]
    /\ leg = [m \in Members |-> NoLeg]
    /\ settled = {} /\ heldSince = FALSE /\ runHeld = FALSE
    /\ trip = NoTrip
    /\ runs = 0 /\ mishaps = 0

ErrandsNext ==
    \/ \E over \in BOOLEAN : TrainPoll(over) \/ CoordinatorPoll(over) \/ DriveTownTrip(over)
    \/ \E m \in Members : TrainerReached(m) \/ RestIsOver(m) \/ AimEnds(m) \/ BridgeWrites(m)
    \/ RunEnds \/ HeadChanges \/ JobChanges

\* The dungeon poll, which alone moves the turn so, and one of it that finds a
\* limit passed while the coordinator waits.
PollsGoOn == turn' \in IF turn \in Trip THEN {"polls"} ELSE Trip
LimitPasses ==
    /\ turn \notin Trip /\ full = {}
    /\ phase = "repairing" \/ (phase = "idle" /\ job = "campaign")
    /\ turn' = "late"

\* The polls come again and again, and a hold of the campaign meets its limit.
\* No aim is sure to end, no trainer to be reached and no stop to be closed.
Fairness == WF_turn(PollsGoOn) /\ SF_turn(LimitPasses)

ErrandsSpec == ErrandsInit /\ [][ErrandsNext]_errandsVars
FairErrands == ErrandsSpec /\ Fairness

-----------------------------------------------------------------------------
(* Properties.                                                              *)

Stops == [open : BOOLEAN, rests : BOOLEAN, walked : SUBSET Members,
          retried : SUBSET Members, tries : [Members -> 0 .. LearnTries],
          owed : SUBSET Members]
Legs == [for : SUBSET Members, with : SUBSET Members]

\* The types; a leg is walked only in an open stop, for one member, and the
\* repair leg keeps nothing when it is over.
ErrandsTypeOK ==
    /\ lead \in Members /\ job \in {"campaign", "quest", "other"}
    /\ phase \in {"idle", "repairing", "run"} /\ turn \in {"polls", "run"} \cup Trip
    /\ column \in [Members -> [aim : Aims, next : Aims \cup {"same"}, claim : Aims]]
    /\ wants \subseteq Members /\ damaged \subseteq Members /\ full \subseteq Members
    /\ stop \in [Members -> Stops] /\ leg \in [Members -> Legs]
    /\ settled \subseteq Members /\ heldSince \in BOOLEAN /\ runHeld \in BOOLEAN
    /\ trip \in [role : {"none", "repair", "vendor"}, leader : Members \cup {"none"},
                 settled : SUBSET Members]
    /\ runs \in 0 .. MaxRuns /\ mishaps \in 0 .. MaxMishaps
    /\ \A h \in Members :
         leg[h] # NoLeg => stop[h].open /\ Cardinality(leg[h].for) = 1
    /\ phase # "repairing" => settled = {} /\ ~ heldSince

\* What an open stop may still walk for a member: the leg he has not had, the
\* one more for a cut, and one for each try he has left.
Left(s, m) ==
    (IF m \in s.walked THEN 0 ELSE 1) + (IF m \in s.retried THEN 0 ELSE 1)
        + (LearnTries - s.tries[m])

\* An open stop runs down: however often walks are cut short, trainers do not
\* teach and legs are walked for others, nothing gives a member back a leg,
\* and each leg uses one up ("one trainer the world keeps refusing cannot hold
\* the stop", DriveTrainingStop).
StopRunsDown ==
    [][\A h, m \in Members :
         (stop[h].open /\ stop'[h].open) =>
             /\ Left(stop'[h], m) <= Left(stop[h], m)
             /\ (leg'[h] # leg[h] /\ leg'[h].for = {m}
                 /\ stop'[h].retried = stop[h].retried)
                  => Left(stop'[h], m) < Left(stop[h], m)]_errandsVars

\* No errand keeps the campaign: neither a repair leg nor the wait of a run's
\* start goes on for ever, though a former head's stop stays open with nobody to
\* drive it, or a head who cannot reach his trainer holds his own open (51094).
CampaignGoesOn ==
    (phase # "run" /\ job = "campaign" /\ full = {})
        ~> (phase = "run" \/ job # "campaign" \/ full # {})

=============================================================================
