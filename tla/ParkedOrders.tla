---------------------------- MODULE ParkedOrders ----------------------------
(***************************************************************************)
(* The orders of the command queue that cannot be answered at once         *)
(* (mod_overseer.cpp 72566-74811, 76072-76432, 80156-82988): each stops    *)
(* the bot, starts a spell or a walk, parks a row in memory with a window  *)
(* and is answered by a later poll, which lets the bot go.  The hold       *)
(* register is shared by all of them and nothing serialises the rows of    *)
(* one bot.                                                                *)
(*                                                                         *)
(* One bot.  A poll is the sequence StartPoll, Resolve... for every parked *)
(* row, CastOwedHearths, ReleaseExpiredHolds, the orders of this poll,     *)
(* EndPoll; between two polls the world and the other drives act and time  *)
(* passes.                                                                 *)
(***************************************************************************)
EXTENDS HoldRegister, FiniteSets, FiniteSetsExt

CONSTANTS
    Slots,          \* parked rows of the bot at a time (a bound)
    Verbs,          \* the orders the bridge sends
    Drives,         \* other holders: "stage", "sick", "settle"
    Ceiling,        \* CAST_HOLD_CEILING_SECONDS, in units of time
    CastTime,       \* the window of a row that casts
    SettleTime,     \* HEARTH_SETTLE_CEILING_MS: longest teleport waited for
    WalkTime,       \* the window of a walk
    RouteTime,      \* the window of a far walk once its route is known
    FightTime,      \* combat allowance of a walk
    MaxOrders,      \* orders sent (a bound)
    MaxHolds        \* holds placed by other drives (a bound)

Rows == {"hearth", "conjure", "cast", "learn", "quest", "walk"}

ASSUME ConstantsAssumption ==
    /\ Verbs \subseteq Rows
    /\ Drives \subseteq {"stage", "sick", "settle"}
    /\ Slots \in SUBSET Nat /\ Slots # {} /\ IsFiniteSet(Slots)
    /\ {Ceiling, CastTime, WalkTime, RouteTime, FightTime} \subseteq Nat \ {0}
    /\ {SettleTime, MaxOrders, MaxHolds} \subseteq Nat
    /\ CastTime <= Ceiling /\ WalkTime <= RouteTime

VARIABLES
    bot,    \* the bot: strategies, hold, body, spell
    rows,   \* _pendingHearths ... _pendingMailWalks
    phase,  \* where the poll stands; "world" between two polls
    todo,   \* parked rows the poll has still to resolve
    late,   \* a unit of time has passed since the last poll
    sent,   \* orders sent
    held    \* holds placed by other drives

vars == <<bot, rows, phase, todo, late, sent, held>>

Stages == {"casting", "walking", "paused", "flying"}

Idle == [verb |-> "none", left |-> 0, stage |-> "casting", fight |-> 0,
         clock |-> FALSE]

LongestWindow == Max({CastTime + SettleTime, RouteTime})
LongestHold == Max({Ceiling, RouteTime + 1})

Row == [verb : Rows, left : 0..LongestWindow, stage : Stages,
        fight : 0..FightTime, clock : BOOLEAN]

LoggedIn == [strat |-> Own, hold |-> NoHold, body |-> "still", spell |-> "none"]

TypeOK ==
    /\ bot \in [strat : SUBSET Strategies,
                hold : Holds(Rows \cup Drives \cup {"settle"}, LongestHold),
                body : Bodies,
                spell : Rows \cup {"none"}]
    /\ rows \in [Slots -> Row \cup {Idle}]
    /\ phase \in {"world", "rows", "expire", "orders"}
    /\ todo \in SUBSET Slots
    /\ late \in BOOLEAN
    /\ sent \in 0..MaxOrders
    /\ held \in 0..MaxHolds

Init ==
    /\ bot = LoggedIn
    /\ rows = [s \in Slots |-> Idle]
    /\ phase = "world"
    /\ todo = {}
    /\ late = FALSE
    /\ sent = 0
    /\ held = 0

-----------------------------------------------------------------------------
(* Rows *)

Parked(verb) == {s \in Slots : rows[s].verb = verb}

Alive == bot.body \notin {"dead", "gone", "teleported"}
InWorld == bot.body \notin {"gone", "teleported"}

(* Faulty: nobody is asked. *)
NoRowOwnsTheHold == FALSE

(* ARowStillOwnsTheHold: learn and quest use rows are not asked. *)
ARowStillOwnsTheHold ==
    \E s \in Slots : rows[s].verb \in {"hearth", "conjure", "cast", "walk"}

(* Poll order of the Resolve functions. *)
Rank(verb) ==
    CASE verb = "hearth" -> 1 [] verb = "conjure" -> 2 [] verb = "cast" -> 3
      [] verb = "learn" -> 4 [] verb = "quest" -> 5 [] verb = "walk" -> 6

NextToResolve(s) ==
    /\ phase = "rows"
    /\ s \in todo
    /\ \A t \in todo : Rank(rows[s].verb) <= Rank(rows[t].verb)

(* The row is answered and forgotten. *)
Answered(s) == rows' = [rows EXCEPT ![s] = Idle]

Resolved(s) ==
    /\ todo' = todo \ {s}
    /\ UNCHANGED <<phase, late, sent, held>>

Waits(s) == UNCHANGED <<bot, rows>>

(* The cast went out, or a wall kept it from starting. *)
MayCast(b, verb) ==
    {[b EXCEPT !.spell = v] :
        v \in {"none"} \cup IF b.body = "still" THEN {verb} ELSE {}}

(* SettleOnTheDeck: a death knight on a padded deck is held where it landed,
   if nothing holds it. *)
SettleOnTheDeck(b) ==
    {b} \cup
    IF "settle" \in Drives /\ ~HeldStill(b) /\ b.body \in {"still", "moving"}
    THEN {HoldStill(b, "settle", Ceiling)} ELSE {}

-----------------------------------------------------------------------------
(* Conjure *)

(* The mage is not in the world: it logged out, or is between two maps.  The
   lookup finds nobody, so the record goes and nothing is given back; the other
   rows look among the characters out of the world too. *)
ConjurerGone(s) ==
    /\ rows[s].verb = "conjure"
    /\ ~InWorld
    /\ bot' = Forget(bot, "conjure")
    /\ Answered(s)

(* ConjureNextStep: done, or every reason to give up; the window is asked
   before a cast in flight, the rest after it. *)
ConjureEnds(s) ==
    /\ rows[s].verb = "conjure"
    /\ InWorld
    /\ bot' = LetGo(bot, "conjure")
    /\ Answered(s)

ConjureWaits(s) ==
    /\ rows[s].verb = "conjure"
    /\ rows[s].left > 0
    /\ InWorld
    /\ bot.spell # "none" \/ bot.body \in {"dead", "fighting", "flying"}
    /\ Waits(s)

(* A mage that still moves is stopped again. *)
ConjureSettles(s) ==
    /\ rows[s].verb = "conjure"
    /\ rows[s].left > 0
    /\ bot.body = "moving"
    /\ bot' = HoldStill(bot, "conjure", Ceiling)
    /\ UNCHANGED rows

ConjureCasts(s) ==
    /\ rows[s].verb = "conjure"
    /\ rows[s].left > 0
    /\ bot.body = "still" /\ bot.spell = "none"
    /\ bot' \in MayCast(bot, "conjure")
    /\ UNCHANGED rows

ResolveConjure(s) ==
    /\ NextToResolve(s)
    /\ \/ ConjurerGone(s)
       \/ ConjureEnds(s)
       \/ ConjureWaits(s)
       \/ ConjureSettles(s)
       \/ ConjureCasts(s)
    /\ Resolved(s)

-----------------------------------------------------------------------------
(* Hearth, cast: a window for the spell, then a ceiling for the teleport. *)

InTheWindow(s) == rows[s].left > SettleTime

(* Faulty: a teleport has no ceiling. *)
TeleportFlightForEver(s) ==
    IF bot.body = "gone" THEN "gone"
    ELSE IF bot.body # "teleported" THEN "landed" ELSE "inFlight"

(* ReadTeleportFlight *)
TeleportFlight(s) ==
    IF bot.body = "gone" THEN "gone"
    ELSE IF bot.body # "teleported" THEN "landed"
    ELSE IF rows[s].left > 0 THEN "inFlight" ELSE "stranded"

ResolveHearth(s) ==
    /\ NextToResolve(s)
    /\ rows[s].verb = "hearth"
    /\ \/ /\ TeleportFlight(s) = "gone"
          /\ bot' = LetGo(bot, "hearth")
          /\ Answered(s)
       \/ /\ TeleportFlight(s) # "gone"
          /\ InTheWindow(s) \/ TeleportFlight(s) = "inFlight"
          /\ Waits(s)
       \/ /\ TeleportFlight(s) # "gone"
          /\ ~InTheWindow(s) /\ TeleportFlight(s) # "inFlight"
          /\ bot' \in SettleOnTheDeck(LetGo(bot, "hearth"))
          /\ Answered(s)
    /\ Resolved(s)

ResolveCast(s) ==
    /\ NextToResolve(s)
    /\ rows[s].verb = "cast"
    /\ \/ /\ TeleportFlight(s) = "gone"
          /\ bot' = LetGo(bot, "cast")
          /\ Answered(s)
       \/ /\ TeleportFlight(s) # "gone"
          /\ InTheWindow(s) \/ TeleportFlight(s) = "inFlight"
          /\ Waits(s)
       \/ /\ TeleportFlight(s) # "gone"
          /\ ~InTheWindow(s) /\ TeleportFlight(s) # "inFlight"
          /\ bot' = LetGo(bot, "cast")
          /\ Answered(s)
    /\ Resolved(s)

(* Learn and quest use: a window only. *)
ResolveLearn(s) ==
    /\ NextToResolve(s)
    /\ rows[s].verb = "learn"
    /\ \/ /\ bot.body # "gone" /\ rows[s].left > 0
          /\ Waits(s)
       \/ /\ bot.body = "gone" \/ rows[s].left = 0
          /\ bot' = LetGo(bot, "learn")
          /\ Answered(s)
    /\ Resolved(s)

ResolveQuestUse(s) ==
    /\ NextToResolve(s)
    /\ rows[s].verb = "quest"
    /\ \/ /\ bot.body # "gone" /\ rows[s].left > 0
          /\ Waits(s)
       \/ /\ bot.body = "gone"
          /\ bot' = LetGo(bot, "quest")
          /\ Answered(s)
       \/ /\ bot.body # "gone" /\ rows[s].left = 0
          /\ bot' \in SettleOnTheDeck(LetGo(bot, "quest"))
          /\ Answered(s)
    /\ Resolved(s)

-----------------------------------------------------------------------------
(* Walks *)

(* RetakeWalkHold: empty when another hold stands in the way. *)
Retakes(s, b) ==
    LET free == LetGo(b, "settle")
        kept == HoldStill(free, "walk", rows[s].left + 1)
    IN  IF HeldByAnother(free, "walk") \/ kept.hold.verb = "none"
        THEN {} ELSE {kept}

(* A walk whose hold another one has taken is given up; that hold stands. *)
AbandonedFrom(s, b) ==
    /\ Retakes(s, b) = {}
    /\ bot' = LetGo(b, "settle")
    /\ Answered(s)

(* JudgeMailWalk: the ends that need no hold: the bot left, died, flew off,
   changed map or met a lethal road, ran out of time, of ground or of
   patience. *)
WalkFails(s) ==
    /\ \/ bot.body \in {"gone", "teleported", "dead"}
       \/ bot.body = "flying" /\ rows[s].stage # "flying"
       \/ bot.body = "fighting" /\ rows[s].fight = 0
       \/ bot.body \notin {"fighting", "flying"}
    /\ bot' = LetGo(bot, "walk")
    /\ Answered(s)

WalkPauses(s) ==
    /\ bot.body = "fighting" /\ rows[s].fight > 0
    /\ bot' = IF rows[s].stage = "paused" THEN bot ELSE LetGo(bot, "walk")
    /\ rows' = [rows EXCEPT ![s].stage = "paused"]

(* After the fight the walk takes its hold again, or is abandoned. *)
WalkResumes(s) ==
    /\ rows[s].stage = "paused" /\ rows[s].left > 0
    /\ bot.body \in {"still", "moving"}
    /\ \/ /\ bot' \in {WalkOn(b) : b \in Retakes(s, bot)}
          /\ rows' = [rows EXCEPT ![s].stage = "walking"]
       \/ AbandonedFrom(s, bot)

(* The flight leg of a far walk: offered with the hold let go, flown, and the
   hold taken again on landing; a leg cannot outlast the walk. *)
WalkFlies(s) ==
    \/ /\ rows[s].stage = "walking" /\ rows[s].left > 0
       /\ bot.body \in {"still", "moving"} /\ bot.hold.verb = "walk"
       /\ bot' = LetGo(bot, "walk")
       /\ rows' = [rows EXCEPT ![s].stage = "flying"]
    \/ /\ rows[s].stage = "flying" /\ rows[s].left > 0
       /\ bot.body \in {"still", "moving", "flying"}
       /\ UNCHANGED <<bot, rows>>
    \/ /\ rows[s].stage = "flying" /\ rows[s].left > 0
       /\ bot.body \in {"still", "moving"}
       /\ \/ /\ bot' \in Retakes(s, bot)
             /\ rows' = [rows EXCEPT ![s].stage = "walking"]
          \/ AbandonedFrom(s, bot)
    \/ /\ rows[s].stage = "flying" /\ rows[s].left = 0
       /\ bot.body \notin {"gone", "dead", "teleported", "fighting"}
       /\ bot' = LetGo(bot, "walk")
       /\ Answered(s)

(* A far walk learns its route after its hold was placed: the window grows,
   the deadline of the hold does not. *)
RouteKnown(s) ==
    [rows EXCEPT ![s].left = @ + RouteTime - WalkTime, ![s].clock = TRUE]

(* The next leg, under the hold of the walk; without it the walk is over.  A
   bot that casts is not moved on a far walk; a near walk does not ask. *)
WalkGoesOn(s) ==
    /\ rows[s].stage = "walking" /\ rows[s].left > 0
    /\ bot.body \in {"still", "moving"}
    /\ IF bot.hold.verb = "walk"
       THEN /\ bot' \in {bot, WalkOn(bot)}
            /\ rows' \in {rows} \cup IF rows[s].clock THEN {} ELSE {RouteKnown(s)}
       ELSE /\ bot' = bot
            /\ Answered(s)

(* Arrived: a mailbox keeps the hold for a while, a trainer or a spawn lets
   go, and a deck settles. *)
WalkArrives(s) ==
    /\ rows[s].stage = "walking"
    /\ bot.body \in {"still", "moving"}
    /\ \/ bot' = Linger(bot, 1)
       \/ bot' \in SettleOnTheDeck(LetGo(bot, "walk"))
    /\ Answered(s)

ResolveWalk(s) ==
    /\ NextToResolve(s)
    /\ rows[s].verb = "walk"
    /\ \/ WalkFails(s)
       \/ WalkPauses(s)
       \/ WalkResumes(s)
       \/ WalkFlies(s)
       \/ WalkGoesOn(s)
       \/ WalkArrives(s)
    /\ Resolved(s)

-----------------------------------------------------------------------------
(* The poll around the rows *)

(* Every Resolve function charges the time since the last poll; a walk does
   not age while it fights, its allowance does. *)
Charged(r) ==
    LET fights == r.verb = "walk" /\ bot.body = "fighting"
    IN  [r EXCEPT !.left = IF fights \/ @ = 0 THEN @ ELSE @ - 1,
                  !.fight = IF fights /\ @ > 0 THEN @ - 1 ELSE @]

StartPoll ==
    /\ phase = "world"
    /\ phase' = "rows"
    /\ todo' = {s \in Slots : rows[s] # Idle}
    /\ rows' = [s \in Slots |-> IF late THEN Charged(rows[s]) ELSE rows[s]]
    /\ late' = FALSE
    /\ UNCHANGED <<bot, sent, held>>

Park(s, verb, window) ==
    rows' = [rows EXCEPT ![s] =
                [verb  |-> verb,
                 left  |-> window,
                 stage |-> IF verb = "walk" THEN "walking" ELSE "casting",
                 fight |-> IF verb = "walk" THEN FightTime ELSE 0,
                 clock |-> FALSE]]

(* DoHearth after its gates: the hold, the cast, the parked row. *)
HearthGoes(s, b) ==
    /\ s \in Parked("none")
    /\ bot' \in MayCast(NoteHearth(HoldStill(b, "hearth", Ceiling), FALSE), "hearth")
    /\ Park(s, "hearth", CastTime + SettleTime)

HearthRefused(b, moving) ==
    /\ bot' = IF moving THEN NoteHearth(HoldStill(b, "hearth", Ceiling), TRUE)
              ELSE NoteHearth(b, FALSE)
    /\ UNCHANGED rows

(* CastOwedHearths: a hearth refused because the bot moved is cast once it
   stands, unless another row drives the bot. *)
OwesAHearth ==
    /\ bot.hold.verb = "hearth" /\ bot.hold.owed # "no" /\ HeldStill(bot)
    /\ ~ARowStillOwnsTheHold
    /\ InWorld

CastOwedHearths ==
    /\ phase = "rows" /\ todo = {}
    /\ phase' = "expire"
    /\ \/ /\ \/ ~OwesAHearth
             \/ bot.hold.owed = "asked"
             \/ bot.body = "moving"
          /\ UNCHANGED <<bot, rows>>
       \/ /\ OwesAHearth
          /\ bot' = LetGo(bot, "hearth")
          /\ UNCHANGED rows
       \/ /\ OwesAHearth
          /\ bot.hold.owed = "due" /\ bot.body = "still" /\ bot.spell = "none"
          /\ \E s \in Slots : HearthGoes(s, bot)
    /\ UNCHANGED <<todo, late, sent, held>>

ReleaseExpiredHolds ==
    /\ phase = "expire"
    /\ phase' = "orders"
    /\ bot' = LetGoOfExpired(bot, ARowStillOwnsTheHold)
    /\ UNCHANGED <<rows, todo, late, sent, held>>

EndPoll ==
    /\ phase = "orders"
    /\ phase' = "world"
    /\ UNCHANGED <<bot, rows, todo, late, sent, held>>

-----------------------------------------------------------------------------
(* The orders of a poll.  The next order lifts a deck settle first. *)

Lifted == LetGo(bot, "settle")

Order(verb) ==
    /\ phase = "orders"
    /\ verb \in Verbs
    /\ sent < MaxOrders
    /\ sent' = sent + 1
    /\ UNCHANGED <<phase, todo, late, held>>

Refused == bot' = Lifted /\ UNCHANGED rows

Casts(verb, s) ==
    /\ bot' \in MayCast(HoldStill(Lifted, verb, Ceiling), verb)
    /\ Park(s, verb, CastTime + IF verb = "cast" THEN SettleTime ELSE 0)

(* A conjure is refused while one runs; a mage that walks is stopped. *)
DoConjure(s) ==
    /\ Order("conjure")
    /\ \/ Refused
       \/ /\ Parked("conjure") = {} /\ s \in Parked("none")
          /\ bot.body \in {"still", "moving"} /\ bot.spell = "none"
          /\ bot' = HoldStill(Lifted, "conjure", Ceiling)
          /\ Park(s, "conjure", CastTime)

(* A hearth asks for no other hearth; a walking bot is stopped, refused and
   owed the cast. *)
DoHearth(s) ==
    /\ Order("hearth")
    /\ \/ HearthRefused(Lifted, FALSE)
       \/ bot.body = "moving" /\ HearthRefused(Lifted, TRUE)
       \/ bot.body = "still" /\ bot.spell = "none" /\ HearthGoes(s, Lifted)

(* A cast is refused while one runs; a walking bot is stopped and refused. *)
DoCast(s) ==
    /\ Order("cast")
    /\ \/ Refused
       \/ /\ Parked("cast") = {} /\ bot.body = "moving"
          /\ bot' = HoldStill(Lifted, "cast", Ceiling)
          /\ UNCHANGED rows
       \/ /\ Parked("cast") = {} /\ s \in Parked("none")
          /\ bot.body = "still" /\ bot.spell = "none"
          /\ Casts("cast", s)

DoLearnRecipe(s) ==
    /\ Order("learn")
    /\ \/ Refused
       \/ /\ Parked("learn") = {} /\ bot.body = "moving"
          /\ bot' = HoldStill(Lifted, "learn", Ceiling)
          /\ UNCHANGED rows
       \/ /\ Parked("learn") = {} /\ s \in Parked("none")
          /\ bot.body = "still" /\ bot.spell = "none"
          /\ Casts("learn", s)

(* A quest use asks whether another hold stands; a bot that moves is stopped
   and refused, and one that finds no target is let go. *)
DoQuestUse(s) ==
    /\ Order("quest")
    /\ \/ Refused
       \/ /\ bot.body = "moving"
          /\ Parked("quest") = {} /\ ~HeldByAnother(Lifted, "quest")
          /\ bot' = HoldStill(Lifted, "quest", Ceiling)
          /\ UNCHANGED rows
       \/ /\ bot.body = "still" /\ bot.spell = "none"
          /\ Parked("quest") = {} /\ ~HeldByAnother(Lifted, "quest")
          /\ \/ /\ bot' = LetGo(HoldStill(Lifted, "quest", Ceiling), "quest")
                /\ UNCHANGED rows
             \/ s \in Parked("none") /\ Casts("quest", s)

(* DoWalk: a supply walk frees a sick bot; a walk replaces its own hold and
   a settle, and no other. *)
WalkGate(b) ==
    /\ bot.body \in {"still", "moving"}
    /\ Parked("walk") = {}
    /\ ~HeldByAnother(b, "walk")

(* No destination, no budget, hostile ground: its own hold is gone by then. *)
WalkRefused(b) ==
    /\ bot' = LetGo(b, "walk")
    /\ UNCHANGED rows

(* At the mailbox already: held there for a while, and answered. *)
WalkIsThere(b) ==
    /\ bot' = HoldStill(LetGo(b, "walk"), "walk", 1)
    /\ UNCHANGED rows

(* The hold, the first leg and the parked row; without ground for a leg the
   bot is let go again. *)
WalkStarts(s, b) ==
    LET kept == HoldStill(LetGo(b, "walk"), "walk", WalkTime + 1)
    IN  \/ /\ bot' = LetGo(kept, "walk")
           /\ UNCHANGED rows
        \/ /\ s \in Parked("none")
           /\ bot' = WalkOn(kept)
           /\ Park(s, "walk", WalkTime)

DoWalk(s) ==
    /\ Order("walk")
    /\ \/ Refused
       \/ \E b \in {Lifted, LetGo(Lifted, "sick")} :
             /\ WalkGate(b)
             /\ WalkRefused(b) \/ WalkIsThere(b) \/ WalkStarts(s, b)

-----------------------------------------------------------------------------
(* The rest of the server, between two polls *)

World == phase = "world" /\ UNCHANGED <<rows, phase, todo, late, sent>>

(* The bot moves if it has a mover or walks a leg; a spell breaks when the
   body changes. *)
BodyChanges ==
    /\ World
    /\ \E body \in Bodies \ {bot.body} :
         /\ bot.body # "gone" /\ body # "teleported"
         /\ body \in {"moving", "flying"} => "mover" \in bot.strat \/ bot.hold.walking
         /\ bot' = [bot EXCEPT !.body = body, !.spell = "none"]
    /\ UNCHANGED held

(* A cast ends; a hearth or a port ends in a teleport. *)
SpellEnds ==
    /\ World
    /\ bot.spell # "none"
    /\ bot' \in {[bot EXCEPT !.spell = "none", !.body = body] :
                   body \in {"still"} \cup IF bot.spell \in {"hearth", "cast"}
                                           THEN {"teleported"} ELSE {}}
    /\ UNCHANGED held

(* A bot that logs in again has the strategies playerbots builds. *)
LogsIn ==
    /\ World
    /\ bot.body = "gone"
    /\ bot' = [bot EXCEPT !.body = "still", !.strat = Own]
    /\ UNCHANGED held

KeepHeldCharactersStill ==
    /\ World
    /\ bot' = Retaken(bot)
    /\ UNCHANGED held

(* KeepRosterFollowing gives a bot that nothing holds its movers back. *)
RosterGivesMoverBack ==
    /\ World
    /\ ~HeldStill(bot) /\ bot.body # "gone"
    /\ bot' = [bot EXCEPT !.strat = @ \cup {"mover"}]
    /\ UNCHANGED held

(* The stage of a dungeon run, the sickness after a revival. *)
OtherDriveHolds ==
    /\ World
    /\ held < MaxHolds
    /\ held' = held + 1
    /\ \E verb \in Drives \ {"settle"} : bot' = HoldStill(bot, verb, Ceiling)

OtherDriveLetsGo ==
    /\ World
    /\ \E verb \in Drives \ {"settle"} : bot' = LetGo(bot, verb)
    /\ UNCHANGED held

(* Time; the server polls at least once a unit. *)
Tick ==
    /\ phase = "world" /\ ~late
    /\ late' = TRUE
    /\ bot' = [bot EXCEPT !.hold = Older(@)]
    /\ UNCHANGED <<rows, phase, todo, sent, held>>

(* The process restarts: records and rows are gone, the bot logs in again. *)
Restart ==
    /\ phase = "world"
    /\ bot' = LoggedIn
    /\ rows' = [s \in Slots |-> Idle]
    /\ UNCHANGED <<phase, todo, late, sent, held>>

Resolve(s) ==
    \/ ResolveConjure(s) \/ ResolveHearth(s) \/ ResolveCast(s)
    \/ ResolveLearn(s) \/ ResolveQuestUse(s) \/ ResolveWalk(s)

Orders(s) ==
    \/ DoConjure(s) \/ DoHearth(s) \/ DoCast(s)
    \/ DoLearnRecipe(s) \/ DoQuestUse(s) \/ DoWalk(s)

Next ==
    \/ StartPoll
    \/ \E s \in Slots : Resolve(s)
    \/ CastOwedHearths
    \/ ReleaseExpiredHolds
    \/ \E s \in Slots : Orders(s)
    \/ EndPoll
    \/ BodyChanges
    \/ SpellEnds
    \/ LogsIn
    \/ KeepHeldCharactersStill
    \/ RosterGivesMoverBack
    \/ OtherDriveHolds
    \/ OtherDriveLetsGo
    \/ Tick
    \/ Restart

(* The server polls, time passes. *)
Fairness ==
    /\ WF_vars(StartPoll)
    /\ \A s \in Slots : WF_vars(Resolve(s))
    /\ WF_vars(CastOwedHearths)
    /\ WF_vars(ReleaseExpiredHolds)
    /\ WF_vars(EndPoll)
    /\ SF_vars(Tick)

Spec == Init /\ [][Next]_vars /\ Fairness

-----------------------------------------------------------------------------
(* Whatever holds took from a bot stands in the record of the hold it is
   under, for its release to give back: what a first hold takes, and what an
   expired one had taken when another takes it over ("an expired hold's undo is
   carried, not overwritten", 10601-10619), through fights, teleports, log-outs
   and other rows.  It speaks of a record that stands, not of one that is
   dropped. *)
DebtsStayRecorded ==
    [][Accounted(bot) /\ bot'.hold # NoHold => Accounted(bot')]_vars

(* The row whose verb placed the hold, the only one of that verb. *)
Owns(s) ==
    /\ rows[s].verb = bot.hold.verb
    /\ rows[s].verb \in {"hearth", "conjure", "cast", "walk"}
    /\ Cardinality(Parked(rows[s].verb)) = 1

(* A new hold stands, or a walk or a quest use held the bot and let it go. *)
TakenOver == HeldStill(bot') \/ \E s \in Slots : DoQuestUse(s) \/ DoWalk(s)

(* A row whose verb placed the hold keeps it until the row ends, a fight pauses
   it or a flight leg is offered: no other row's end, no release of another
   drive and no sweep lifts it, before its deadline or after (10754-10761,
   10876-10890).  A hold that is past its deadline any newcomer may take over
   (10601-10619); from then on the record is the newcomer's, and what its end
   takes from the row is not spoken of here.  Learn and quest rows are left
   out, the sweep does not ask about them. *)
OwnersKeepTheirHold ==
    [][\A s \in Slots :
         /\ Owns(s)
         /\ rows'[s].verb = rows[s].verb
         /\ rows'[s].stage = rows[s].stage
         => bot'.hold.verb = bot.hold.verb \/ (~HeldStill(bot) /\ TakenOver)]_vars

(* Every parked row is answered, whatever happens to its bot, and the bot is
   let go of every hold in the end: of a hold placed on the way out of a
   refusal, of one whose owner was abandoned or answered under another verb
   (10860-10871, 10917-11046). *)
EveryOrderEnds ==
    /\ \A s \in Slots : rows[s] # Idle ~> rows[s] = Idle
    /\ bot.hold # NoHold ~> bot.hold = NoHold

=============================================================================
