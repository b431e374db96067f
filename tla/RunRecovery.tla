---------------------------- MODULE RunRecovery -----------------------------
(***************************************************************************)
(* What a dungeon run does after an attempt that never got inside: it asks *)
(* the bridge, waits out its backoff, chooses a rung (the bridge's answer, *)
(* or its own heuristic) and drives it until the next attempt is armed     *)
(* (mod_overseer.cpp 42096-44198).  DungeonRun has all this as two polls;  *)
(* here are the rungs: the walk, the regroup at the inn, the summons at    *)
(* the door's meeting stone, with the guild's warlock swapped into the     *)
(* family's party, and the dungeon finder's queue.                         *)
(*                                                                         *)
(* The summon order the rung writes is followed through the verb that      *)
(* carries it out (kind='summon', 77104-78549), and the party through the  *)
(* roster poll that keeps families grouped (9706-9949).                    *)
(*                                                                         *)
(* Places, distances and clocks are abstracted: a character is at the      *)
(* stone, at the inn, inside or elsewhere, and a backoff or a ceiling may  *)
(* pass before any poll.  A poll works on what it holds in its hand, h, a  *)
(* record of the parts of the state a rung may change.  Whose word the     *)
(* choice of a rung follows, the bridge's or the heuristic's, is left open: *)
(* any rung that is open may be chosen.  The travel column the walks claim *)
(* is TravelAim's subject.                                                 *)
(***************************************************************************)
EXTENDS Naturals, Sequences, FiniteSets

CONSTANTS
    Family,        \* the family's run party; it fills the group
    Leader,        \* its leader
    Guest,         \* a warlock of the guild, not of the family
    Warlocks,      \* the family's own warlocks
    Tries,         \* SUMMON_RUNG_TRIES_PER_MEMBER
    Nobody,        \* no name
    MaxFailures,   \* attempts that fail (a bound)
    MaxQueue,      \* statements waiting for the worker (a bound)
    MaxMishaps     \* log-outs, fights, changed jobs, restarts (a bound)

ASSUME RecoveryAssumption ==
    /\ IsFiniteSet(Family) /\ Leader \in Family /\ Guest \notin Family
    /\ Warlocks \subseteq Family
    /\ Nobody \notin Family \cup {Guest}
    /\ Tries \in Nat \ {0} /\ MaxFailures \in Nat /\ MaxQueue \in Nat
    /\ MaxMishaps \in Nat

VARIABLES
    online,    \* characters in the world
    fighting,  \* characters in combat, dead or otherwise not at hand
    place,     \* where each of them is
    party,     \* the group the leader is in
    lfg,       \* the dungeon finder's state of that group
    run,       \* DungeonRunCoordinatorState: phase, attempt, rung, finder
    ritual,    \* its summon rung
    asks,      \* overseer_run_recovery, oldest first
    orders,    \* the summon rows of overseer_command, oldest first
    queue,     \* statements the database's worker has not run
    streak,    \* the campaign's trailing attempts that never got inside
    failures, mishaps,  \* spent so far
    slip       \* history: why a guest may have stayed

world == <<online, fighting, place>>
hands == <<place, party, lfg, ritual, queue, slip>>
spent == <<failures, mishaps>>
vars == <<online, fighting, hands, run, asks, orders, streak, spent>>

Chars == Family \cup {Guest}
Places == {"away", "stone", "inn", "inside"}

\* RunRecovery: one_copy, reset_instance and replan re-arm at once, and
\* wait_for_client and regroup both wait for members.
Rungs == {"rearm", "town", "wait", "walk", "hearth", "summon", "finder"}

Off == [phase |-> "off", attempt |-> 0, rung |-> "none",
        joined |-> FALSE, tried |-> FALSE]
NoSource == <<0, Nobody, 0>>
NoRitual == [row |-> NoSource, tries |-> [c \in Family |-> 0],
             summoner |-> Nobody, out |-> Nobody, added |-> FALSE]

Sources == (1..MaxFailures) \X Family \X (1..Tries)
Stages == {"pending", "walking", "clicking", "settling", "done"}

Statements ==
    [is : {"ask", "applied"}, attempt : 1..MaxFailures]
    \cup [is : {"order"}, source : Sources, who : Chars, helper : Chars]

\* Every variable keeps its type; the leader is in his party, which is never
\* larger than the family, and he is never the one who makes room in it.
TypeOK ==
    /\ online \subseteq Chars /\ fighting \subseteq Chars
    /\ place \in [Chars -> Places]
    /\ party \subseteq Chars /\ Leader \in party
    /\ Cardinality(party) <= Cardinality(Family)
    /\ lfg \in {"none", "queued", "proposal", "dungeon"}
    /\ run \in [phase : {"off", "run", "waiting", "acting"},
                attempt : 0..MaxFailures, rung : Rungs \cup {"none"},
                joined : BOOLEAN, tried : BOOLEAN]
    /\ ritual \in [row : Sources \cup {NoSource}, tries : [Family -> 0..Tries],
                   summoner : Warlocks \cup {Guest, Nobody},
                   out : (Family \ {Leader}) \cup {Nobody}, added : BOOLEAN]
    /\ \A i \in DOMAIN asks :
           asks[i] \in [attempt : 1..MaxFailures, applied : BOOLEAN]
    /\ \A i \in DOMAIN orders :
           orders[i] \in [source : Sources, who : Chars, helper : Chars,
                          stage : Stages]
    /\ \A i \in DOMAIN queue : queue[i] \in Statements
    /\ streak \in 0..MaxFailures /\ failures \in 0..MaxFailures
    /\ mishaps \in 0..MaxMishaps
    /\ slip \in {"none", "twice", "away"}

Init ==
    /\ online = Chars /\ fighting = {}
    /\ place \in {p \in [Chars -> {"away", "stone"}] : p[Leader] = "away"}
    /\ party = Family /\ lfg = "none"
    /\ run = [Off EXCEPT !.phase = "run"] /\ ritual = NoRitual
    /\ asks = <<>> /\ orders = <<>> /\ queue = <<>>
    /\ streak = 0 /\ failures = 0 /\ mishaps = 0 /\ slip = "none"

Hand == [place |-> place, party |-> party, lfg |-> lfg,
         ritual |-> ritual, queue |-> queue, slip |-> slip]

\* The state a poll leaves behind.
PutDown(h) ==
    /\ place' = h.place /\ party' = h.party /\ lfg' = h.lfg
    /\ ritual' = h.ritual /\ queue' = h.queue /\ slip' = h.slip

AtHand(c) == c \in online /\ c \notin fighting

Full(p) == Cardinality(p) >= Cardinality(Family)

LastOf(S) == CHOOSE i \in S : \A j \in S : j <= i

-----------------------------------------------------------------------------
(* The guild's warlock in the family's party.                               *)

\* ChooseRitualSummoner: the nearest eligible warlock of the guild, to which
\* the family belongs; nobody while the leader is away.
Summoners ==
    LET able == {c \in Warlocks \cup {Guest} : AtHand(c)}
        near == {c \in able : place[c] = "stone"}
    IN  IF Leader \notin online THEN {}
        ELSE IF near # {} THEN near ELSE able

\* Members who may make room: at the stone, and not the leader.
MayStepOut(h) ==
    {c \in h.party \ {Leader, Guest} : c \in online /\ h.place[c] = "stone"}

\* Faulty: the group is taken to have room.
SeatedAnyway(h, c) ==
    {[h EXCEPT !.party = @ \cup {c}, !.ritual.summoner = c,
               !.ritual.added = c \notin h.party]}

\* PrepareRitualSummoner: what it may leave behind when it seats c; nothing
\* when c finds no room.  A summoner found in the party counts as one who was
\* there before, though an earlier poll may have brought him.
Seated(h, c) ==
    LET again == IF h.ritual.summoner # Nobody /\ h.slip = "none"
                 THEN "twice" ELSE h.slip
    IN  IF c \in h.party
        THEN {[h EXCEPT !.ritual.summoner = c, !.ritual.added = FALSE,
                        !.slip = again]}
        ELSE IF ~Full(h.party)
        THEN {[h EXCEPT !.party = @ \cup {c}, !.ritual.summoner = c,
                        !.ritual.added = TRUE, !.slip = again]}
        ELSE {[h EXCEPT !.party = (@ \ {m}) \cup {c}, !.ritual.summoner = c,
                        !.ritual.out = m, !.ritual.added = TRUE,
                        !.slip = again] : m \in MayStepOut(h)}

\* RestoreRitualSummoner: the guest leaves, the member he replaced returns,
\* and the record is dropped whatever came of it.
Restored(h) ==
    LET r == h.ritual
        left == IF r.added /\ r.summoner \in online
                THEN h.party \ {r.summoner} ELSE h.party
        back == IF r.out \in online /\ ~Full(left) THEN left \cup {r.out} ELSE left
        away == ~({r.summoner, r.out} \ {Nobody} \subseteq online)
    IN  IF Leader \notin online \/ r.summoner = Nobody THEN h
        ELSE [h EXCEPT !.party = back,
                       !.ritual.summoner = Nobody, !.ritual.out = Nobody,
                       !.ritual.added = FALSE,
                       !.slip = IF away THEN "away" ELSE @]

\* What a new DungeonRunCoordinatorState forgets; with the leader away nobody
\* was put back before.
Forgotten(h) ==
    [h EXCEPT !.ritual = NoRitual,
              !.slip = IF h.ritual.summoner # Nobody /\ Leader \notin online
                       THEN "away" ELSE @]

-----------------------------------------------------------------------------
(* One poll of a rung: what it may leave in the hand, and whether the rung   *)
(* is over.                                                                  *)

Result(h, end) == [h |-> h, end |-> end, joined |-> FALSE]
Goes(h) == Result(h, "no")
Over(h) == Result(h, "over")

\* RestageWalkPoll: the leader is walked to the door until he is near it, or
\* the walk stalls, or there is nothing to aim at.
WalkPoll(h) ==
    IF Leader \notin online THEN {Goes(h)}
    ELSE {Goes(h), Over(h)}
         \cup (IF h.place[Leader] \in {"away", "inn"}
               THEN {Goes([h EXCEPT !.place[Leader] = "stone"])} ELSE {})

\* WaitForClient, Regroup: until every member is there.
WaitPoll(h) == {IF Family \subseteq online THEN Over(h) ELSE Goes(h)}

\* DriveHearthRegroup: those bound at the inn hearth once the leader is there
\* or coming, the others are escorted; in one poll some of them arrive.
HearthPoll(h) ==
    LET at == {c \in Family : h.place[c] = "inn"}
        reach == {c \in Family \ at : AtHand(c)}
    IN  IF at = Family THEN {Over(h)}
        ELSE {Goes([h EXCEPT !.place = [c \in Chars |->
                        IF c \in S THEN "inn" ELSE h.place[c]]]) :
                 S \in SUBSET reach}

Clickers(h) ==
    {c \in Family : /\ h.place[c] = "stone" /\ AtHand(c)
                    /\ c # h.ritual.out}

\* PlanSummonRung: who is away from the stone, who of them may be summoned.
AwayFromStone(h) ==
    {c \in Family \cup ({h.ritual.summoner} \ {Nobody}) :
        c \notin online \/ h.place[c] # "stone" \/ c = h.ritual.out}
MaySummon(h) ==
    {c \in AwayFromStone(h) \ {Guest, h.ritual.out, h.ritual.summoner} :
        AtHand(c) /\ h.ritual.tries[c] < Tries}

\* The row of one summon, named by its SummonRungRowSource.
Ordered(h, target, helper) ==
    LET source == <<run.attempt, target, h.ritual.tries[target] + 1>>
    IN  Goes([h EXCEPT
            !.ritual.row = source,
            !.queue = Append(@, [is |-> "order", source |-> source,
                                 who |-> h.ritual.summoner, helper |-> helper])])

\* Who may click beside the summoner: the leader if he can.  A summoner of the
\* family is listed twice, so he may be named as his own helper.
Helpers(h) ==
    IF h.ritual.summoner = Leader THEN Clickers(h) \ {Leader}
    ELSE IF Leader \in Clickers(h) THEN {Leader} ELSE Clickers(h)

\* DriveSummonRung with nothing in flight.
SummonStep(h) ==
    IF AwayFromStone(h) = {} THEN {Over(Restored(h))}
    ELSE IF h.place[Leader] # "stone" \/ Leader \notin online
    THEN WalkPoll(h)
    ELSE IF MaySummon(h) = {} THEN {Over(Restored(h))}
    ELSE IF Helpers(h) = {} THEN {Goes(h)}
    ELSE {Ordered(h, target, helper) :
             target \in MaySummon(h), helper \in Helpers(h)}

\* The leader at the stone first finds the summoner a seat; without one the
\* poll is over.
SummonPlan(h) ==
    IF Leader \in online /\ h.place[Leader] = "stone"
    THEN LET seated == UNION {Seated(h, c) : c \in Summoners}
         IN  IF seated = {} THEN {Goes(h)}
             ELSE UNION {SummonStep(g) : g \in seated}
    ELSE SummonStep(h)

\* ReadSummonRow: the newest order of that source.
OrdersOf(source) == {i \in DOMAIN orders : orders[i].source = source}
Finished(source) ==
    /\ OrdersOf(source) # {}
    /\ orders[LastOf(OrdersOf(source))].stage = "done"

\* A verdict, or the ceiling of a row that has none: the try counts and the
\* party is put back.
Heard(h) ==
    LET target == h.ritual.row[2]
    IN  [Restored([h EXCEPT !.ritual.tries[target] = @ + 1])
            EXCEPT !.ritual.row = NoSource]

\* DriveSummonRung
SummonPoll(h) ==
    IF Leader \in online /\ Summoners = {} THEN {Over(h)}
    ELSE IF h.ritual.row = NoSource THEN SummonPlan(h)
    ELSE SummonPlan(Heard(h))
         \cup (IF Finished(h.ritual.row) THEN {} ELSE {Goes(h)})

\* ReadFinderReadiness: the family is the group, everybody in the world and,
\* when it is to be queued now, fit.
FinderReady(h, now) ==
    /\ h.party = Family /\ Family \subseteq online
    /\ now => Family \cap fighting = {}
    /\ h.lfg # "dungeon"

\* LeaveTheFinderQueue
OutOfTheQueue(h) ==
    [h EXCEPT !.lfg = IF Leader \in online /\ @ \in {"queued", "proposal"}
                      THEN "none" ELSE @]

\* Some of the members the core moves in land inside.
MovedIn(h) ==
    {[h EXCEPT !.place = [c \in Chars |-> IF c \in S THEN "inside" ELSE h.place[c]]] :
        S \in SUBSET {c \in Family : AtHand(c)}}

\* StageInsideAfterFinder
StagedInside(h) == Result(h, "inside")

Joined(r) == [r EXCEPT !.joined = TRUE]

\* DriveFinderRung before its ceiling (FinderNext).
FinderPoll(h) ==
    IF \A c \in Family : c \in online /\ h.place[c] = "inside"
    THEN {StagedInside(h)}
    ELSE IF run.joined /\ h.lfg = "dungeon"
    THEN {Joined(Goes(g)) :
             g \in IF \A c \in Family : AtHand(c) THEN MovedIn(h) ELSE {h}}
    ELSE IF \E c \in Family : ~AtHand(c)
    THEN {[Goes(h) EXCEPT !.joined = run.joined]}
    ELSE IF ~run.joined
    THEN {IF FinderReady(h, TRUE)
          THEN Joined(Goes([h EXCEPT !.lfg = "queued"])) ELSE Over(h)}
    ELSE IF h.lfg = "none" THEN {Over(OutOfTheQueue(h))}
    ELSE IF h.lfg = "proposal"
    THEN {Joined(Goes(g)) : g \in MovedIn([h EXCEPT !.lfg = "dungeon"])}
    ELSE {Joined(Goes(h))}

\* Its ceiling: those who are inside are the run.
FinderLate(h) ==
    IF h.lfg = "dungeon" /\ \E c \in Family : h.place[c] = "inside"
    THEN {StagedInside(h)} ELSE {Over(OutOfTheQueue(h))}

Polled(h) ==
    CASE run.rung = "walk" -> WalkPoll(h)
      [] run.rung = "wait" -> WaitPoll(h)
      [] run.rung = "hearth" -> HearthPoll(h)
      [] run.rung = "summon" -> SummonPoll(h)
      [] run.rung = "finder" -> FinderPoll(h)

-----------------------------------------------------------------------------
(* DriveRecovering.                                                         *)

Asked(n) == [is |-> "ask", attempt |-> n]
Applied(n) == [is |-> "applied", attempt |-> n]

\* RearmAfterRecovery: the next attempt of the same run.
Rearmed == [Off EXCEPT !.phase = "run", !.attempt = run.attempt, !.tried = run.tried]

\* What is asked again before it is chosen.
Open(w) ==
    /\ w = "finder" => FinderReady(Hand, FALSE)
    /\ w = "summon" => Summoners # {}

\* The backoff is over and a rung is chosen and starts; some are over as they
\* start.
Choose ==
    /\ run.phase = "waiting" /\ Len(queue) < MaxQueue
    /\ \E r \in {w \in Rungs : Open(w)} :
          /\ PutDown([Forgotten(Hand) EXCEPT
                         !.queue = Append(@, Applied(run.attempt))])
          /\ run' = CASE r = "town" -> Off
                      [] r = "rearm" -> Rearmed
                      [] OTHER -> [run EXCEPT !.phase = "acting", !.rung = r,
                                              !.joined = FALSE]
    /\ UNCHANGED <<online, fighting, asks, orders, streak, spent>>

\* Faulty: the regroup at the inn goes on for ever.
RungEndsAtTheInn(h) ==
    /\ PutDown(Forgotten(h))
    /\ run' = IF run.rung = "hearth" THEN run ELSE Rearmed

\* The end of a rung: a regroup at the inn goes on as the walk, the others
\* put back what they took and arm the next attempt.
RungEnds(h) ==
    IF run.rung = "hearth"
    THEN PutDown(h) /\ run' = [run EXCEPT !.rung = "walk"]
    ELSE LET g == IF run.rung = "summon" THEN Restored(h)
                  ELSE IF run.rung = "finder" THEN OutOfTheQueue(h) ELSE h
         IN  PutDown(Forgotten(g)) /\ run' = Rearmed

RunInside(h) ==
    /\ PutDown(Forgotten(h))
    /\ run' = [Off EXCEPT !.phase = "run", !.attempt = run.attempt]

\* A poll of the chosen rung before its ceiling.
Poll ==
    /\ run.phase = "acting"
    /\ \E o \in Polled(Hand) :
          CASE o.end = "no" -> /\ PutDown(o.h)
                               /\ run' = [run EXCEPT !.joined = o.joined]
            [] o.end = "over" -> RungEnds(o.h)
            [] o.end = "inside" -> RunInside(o.h)
    /\ UNCHANGED <<online, fighting, asks, orders, streak, spent>>

\* The poll that finds the rung's ceiling passed.
PollLate ==
    /\ run.phase = "acting"
    /\ \E o \in IF run.rung = "finder" THEN FinderLate(Hand) ELSE Polled(Hand) :
          IF o.end = "inside" THEN RunInside(o.h) ELSE RungEnds(o.h)
    /\ UNCHANGED <<online, fighting, asks, orders, streak, spent>>

\* Faulty: a run given up leaves the party as it is.
GivenUpAsItIs(next) ==
    /\ mishaps < MaxMishaps /\ mishaps' = mishaps + 1
    /\ PutDown(Forgotten(Hand)) /\ run' = next
    /\ UNCHANGED <<online, fighting, asks, orders, streak, failures>>

\* The job is another, or the backstop is past: what a summon took is put back;
\* the finder's queue is not left.
GivenUp(next) ==
    LET h == IF run.rung = "summon" THEN Restored(Hand) ELSE Hand
    IN  /\ mishaps < MaxMishaps /\ mishaps' = mishaps + 1
        /\ PutDown(Forgotten(h))
        /\ run' = next
        /\ UNCHANGED <<online, fighting, asks, orders, streak, failures>>

JobChanged == run.phase \in {"waiting", "acting"} /\ GivenUp(Off)
Backstop == run.phase = "acting" /\ GivenUp(Rearmed)

-----------------------------------------------------------------------------
(* The attempts around it.                                                  *)

\* An attempt ends without getting in; "entered": a run got inside since the
\* last one.  EnterRecovering starts the backoff and asks the bridge.
Fail(entered) ==
    LET n == IF entered THEN 1 ELSE streak + 1
    IN  /\ run.phase = "run" /\ failures < MaxFailures
        /\ failures' = failures + 1 /\ streak' = n
        /\ run' = [Off EXCEPT !.phase = "waiting", !.attempt = n]
        /\ queue' = Append(queue, Asked(n))
        /\ place' = [c \in Chars |->
                        IF place[c] = "inside" THEN "away" ELSE place[c]]
        /\ lfg' = IF lfg = "dungeon" THEN "none" ELSE lfg
        /\ UNCHANGED <<online, fighting, party, ritual, asks, orders, mishaps,
                       slip>>

\* EnterFinderAsTheWayIn: once per run, nothing having failed.
FinderFirst ==
    /\ run.phase = "run" /\ ~run.tried /\ FinderReady(Hand, FALSE)
    /\ run' = [run EXCEPT !.phase = "acting", !.rung = "finder",
                          !.joined = FALSE, !.tried = TRUE]
    /\ UNCHANGED <<world, party, lfg, ritual, queue, asks, orders, streak,
                   spent, slip>>

\* The Idle poll (IdleCampaignRecovery): a request never applied is resumed,
\* a failed attempt that was not recovered from is asked about, and otherwise
\* the next attempt opens.
Idle ==
    /\ run.phase = "off" /\ Len(queue) < MaxQueue
    /\ LET unapplied == asks # <<>> /\ ~asks[Len(asks)].applied
            n == IF unapplied THEN asks[Len(asks)].attempt ELSE streak
            recovered == \E i \in DOMAIN asks :
                             asks[i].attempt = streak /\ asks[i].applied
            recovers == unapplied \/ (streak > 0 /\ ~recovered)
        IN  /\ run' = IF recovers
                      THEN [Off EXCEPT !.phase = "waiting", !.attempt = n]
                      ELSE [Off EXCEPT !.phase = "run"]
            /\ queue' = IF recovers /\ ~unapplied THEN Append(queue, Asked(n))
                        ELSE queue
    /\ UNCHANGED <<world, party, lfg, ritual, asks, orders, streak,
                   spent, slip>>

\* WriteRecoveryRequest, MarkRecoveryApplied and the summon row's INSERT, run
\* by the worker.
Statement ==
    /\ queue # <<>> /\ queue' = Tail(queue)
    /\ LET q == Head(queue)
       IN  \/ /\ q.is = "ask"
              /\ asks' = Append(asks, [attempt |-> q.attempt, applied |-> FALSE])
              /\ UNCHANGED orders
           \/ /\ q.is = "applied"
              /\ asks' = [i \in DOMAIN asks |->
                            IF asks[i].attempt = q.attempt
                            THEN [asks[i] EXCEPT !.applied = TRUE] ELSE asks[i]]
              /\ UNCHANGED orders
           \/ /\ q.is = "order"
              /\ orders' = Append(orders, [source |-> q.source, who |-> q.who,
                                           helper |-> q.helper, stage |-> "pending"])
              /\ UNCHANGED asks
    /\ UNCHANGED <<world, party, lfg, ritual, run, streak, spent, slip>>

-----------------------------------------------------------------------------
(* The summon order: kind='summon'.                                         *)

Target(o) == o.source[2]

ToStage(i, s) ==
    /\ orders' = [orders EXCEPT ![i].stage = s]
    /\ UNCHANGED <<online, fighting, party, lfg, ritual, queue, slip,
                   run, asks, streak, spent>>

\* Whom the ritual would move, still away from the summoner.
MayBeMoved(o) == AtHand(Target(o)) /\ place[Target(o)] # place[o.who]

BothAtStone(o) ==
    \A c \in {o.who, o.helper} : c \in online /\ place[c] = "stone"

\* The gates of DoSummon, and of HoldAndWalkTheClickers after them.
MayBegin(o) ==
    /\ BothAtStone(o) /\ AtHand(o.who) /\ AtHand(o.helper)
    /\ o.helper # o.who /\ Target(o) # o.who
    /\ {o.who, o.helper, Target(o)} \subseteq party
    /\ MayBeMoved(o)

\* DoSummon: refused, or the clickers walk the last yards, or they click.
Begin(i) ==
    /\ orders[i].stage = "pending"
    /\ \E s \in {"done"} \cup (IF MayBegin(orders[i])
                               THEN {"walking", "clicking"} ELSE {}) : ToStage(i, s)
    /\ UNCHANGED place

\* ResolveSummonApproach: nobody asks again whether they share a party.
Walk(i) ==
    /\ orders[i].stage = "walking"
    /\ \E s \in {"done"} \cup (IF BothAtStone(orders[i]) /\ MayBeMoved(orders[i])
                               THEN {"clicking"} ELSE {}) : ToStage(i, s)
    /\ UNCHANGED place

\* ResolveSummonPortal, DriveThePortalClick
Click(i) ==
    /\ orders[i].stage = "clicking"
    /\ \E s \in {"done"} \cup (IF BothAtStone(orders[i])
                               THEN {"settling"} ELSE {}) : ToStage(i, s)
    /\ UNCHANGED place

\* ResolveSummonChecks: the core asks the target, who accepts and is moved, or
\* does not move; it moves nobody out of another's party.
Settle(i) ==
    LET o == orders[i]
    IN  /\ o.stage = "settling"
        /\ \/ /\ MayBeMoved(o) /\ {o.who, Target(o)} \subseteq party
              /\ place' = [place EXCEPT ![Target(o)] = place[o.who]]
              /\ ToStage(i, "done")
           \/ ToStage(i, "done") /\ UNCHANGED place

Verb == \E i \in DOMAIN orders : Begin(i) \/ Walk(i) \/ Click(i) \/ Settle(i)

-----------------------------------------------------------------------------
(* The world, the party's roster poll, restarts.                            *)

\* KeepFamilyGrouped: members in no group join the leader's while it has room.
KeepFamilyGrouped ==
    /\ \E c \in (Family \cap online) \ party :
          Leader \in online /\ ~Full(party) /\ party' = party \cup {c}
    /\ UNCHANGED <<world, lfg, ritual, queue, slip, run, asks, orders,
                   streak, spent>>

\* The family follows its leader to the stone.
Follow(c) ==
    /\ AtHand(c) /\ place[c] \in {"away", "inn"} /\ place[Leader] = "stone"
    /\ place' = [place EXCEPT ![c] = "stone"]
    /\ UNCHANGED <<online, fighting, party, lfg, ritual, queue, slip,
                   run, asks, orders, streak, spent>>

\* The core's queue: a proposal, or the group is let go.
FinderMoves ==
    /\ lfg' \in {[queued |-> "proposal", proposal |-> "none"][s] :
                    s \in {lfg} \cap {"queued", "proposal"}}
                \cup (IF lfg = "queued" THEN {"none"} ELSE {})
    /\ UNCHANGED <<world, party, ritual, queue, slip, run, asks, orders,
                   streak, spent>>

LogOff(c) ==
    /\ c \in online /\ mishaps < MaxMishaps
    /\ online' = online \ {c} /\ mishaps' = mishaps + 1 /\ UNCHANGED fighting
LogOn(c) ==
    /\ c \notin online
    /\ online' = online \cup {c} /\ UNCHANGED <<fighting, mishaps>>
Fight(c) ==
    /\ AtHand(c) /\ mishaps < MaxMishaps
    /\ fighting' = fighting \cup {c} /\ mishaps' = mishaps + 1 /\ UNCHANGED online
Calm(c) ==
    /\ c \in fighting
    /\ fighting' = fighting \ {c} /\ UNCHANGED <<online, mishaps>>

Environment ==
    \/ /\ \E c \in Chars : LogOff(c) \/ LogOn(c) \/ Fight(c) \/ Calm(c)
       /\ UNCHANGED <<hands, run, asks, orders, streak, failures>>
    \/ \E c \in Family \ {Leader} : Follow(c)
    \/ FinderMoves

\* The process ends: the coordinators, the queued statements and the rows in
\* progress are lost; groups are kept in the database.
Restart ==
    /\ mishaps < MaxMishaps /\ mishaps' = mishaps + 1
    /\ run' = Off /\ lfg' = "none" /\ queue' = <<>>
    /\ ritual' = NoRitual
    /\ slip' = IF ritual.summoner # Nobody THEN "away" ELSE slip
    /\ orders' = [i \in DOMAIN orders |->
                    IF orders[i].stage \in {"walking", "clicking", "settling"}
                    THEN [orders[i] EXCEPT !.stage = "done"] ELSE orders[i]]
    /\ UNCHANGED <<world, party, asks, streak, failures>>

-----------------------------------------------------------------------------

Coordinator == Idle \/ Fail(TRUE) \/ Fail(FALSE) \/ FinderFirst \/ Choose
               \/ Poll \/ PollLate \/ JobChanged \/ Backstop

Next == \/ Coordinator \/ Verb \/ KeepFamilyGrouped \/ Environment
        \/ Statement \/ Restart

Spec == Init /\ [][Next]_vars

\* The coordinator is polled for ever and its clock goes on.
FairSpec == Spec /\ WF_vars(PollLate)

-----------------------------------------------------------------------------

\* The guest leaves: once the coordinator has no guest on record, the party is
\* the family again, whether the summon reached a verdict, ran out of time or
\* was given up for another job; unless somebody of the three was out of the
\* world then, the server was restarted meanwhile, or a poll before had already
\* seated a summoner, which drops the note that the guest was added.
PartyIsTheFamily ==
    ritual.summoner = Nobody /\ slip = "none" => party = Family

\* The comment on PrepareRitualSummoner (43468) promises it of every summon
\* that reaches a verdict with everybody in the world.
GuestLeaves ==
    ritual.summoner = Nobody /\ slip # "away" => Guest \notin party

\* Every recovery ends: no rung, with members who never come, a party that
\* cannot be made or a finder that never answers, holds the run for ever.
RecoveryEnds == run.phase = "acting" ~> run.phase # "acting"

=============================================================================
