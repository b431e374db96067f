---------------------------- MODULE HoldRegister ----------------------------
(***************************************************************************)
(* The hold register of mod_overseer.cpp (10005-10966): a row that must    *)
(* cast, a walk and several drives stop a bot by taking strategies from    *)
(* its AI, remember in one record per bot what they took, and give it back *)
(* when the hold ends.  The operators map one bot to the bot a call leaves *)
(* behind; ParkedOrders is built from them.                                *)
(*                                                                         *)
(* A bot is a record:                                                      *)
(*   strat  what its AI carries of "stay" and "mover" ("mover" stands for  *)
(*          follow and new rpg, which are taken and given back alike)      *)
(*   hold   its HoldRecord, NoHold when the map has none                   *)
(*   body   what it is doing                                               *)
(*   spell  the verb whose spell it is casting                             *)
(* Times are countdowns: hold.left is until - now, never below 0.          *)
(***************************************************************************)
EXTENDS Naturals

Strategies == {"stay", "mover"}

(* What playerbots gives a bot when it logs in. *)
Own == {"mover"}

Bodies == {"still", "moving", "fighting", "flying", "teleported", "dead", "gone"}

NoHold == [verb |-> "none", left |-> 0, stay |-> FALSE, mover |-> FALSE,
           walking |-> FALSE, owed |-> "no"]

Holds(verbs, ceiling) ==
    [verb : verbs \cup {"none"}, left : 0..ceiling, stay : BOOLEAN,
     mover : BOOLEAN, walking : BOOLEAN, owed : {"no", "asked", "due"}]

(* HeldStill: a record past its deadline does not hold, though it is kept
   until somebody releases it. *)
HeldStill(b) == b.hold.left > 0

HeldByAnother(b, verb) == HeldStill(b) /\ b.hold.verb # verb

(* PlanCastHold and the part of HoldCharacterStill that acts on the bot:
   stay goes on, the movers go off, the bot stops where it stands. *)
Stopped(b) ==
    [b EXCEPT !.strat = {"stay"},
              !.body  = IF @ = "moving" THEN "still" ELSE @]

(* Faulty: the debts of the expired record are forgotten. *)
FreshHoldForgets(b, verb, ceiling) ==
    [NoHold EXCEPT !.verb  = verb,
                   !.left  = ceiling,
                   !.stay  = "stay" \notin b.strat,
                   !.mover = "mover" \in b.strat]

(* A fresh hold (none, or one past its deadline) takes the record over, with
   what the expired one still owed the bot. *)
FreshHold(b, verb, ceiling) ==
    [NoHold EXCEPT !.verb  = verb,
                   !.left  = ceiling,
                   !.stay  = "stay" \notin b.strat \/ b.hold.stay,
                   !.mover = "mover" \in b.strat \/ b.hold.mover]

(* A hold in force is only asserted again: its verb, deadline and debts stand,
   and the leg it was let walk is over. *)
HoldStill(b, verb, ceiling) ==
    IF b.body \in {"flying", "gone"}
    THEN b
    ELSE [Stopped(b) EXCEPT
            !.hold = IF HeldStill(b) THEN [b.hold EXCEPT !.walking = FALSE]
                                     ELSE FreshHold(b, verb, ceiling)]

(* Faulty: whoever ends releases the hold, whose ever it is. *)
LetGoOfAny(b, verb) ==
    [b EXCEPT !.hold = NoHold,
              !.strat = IF b.body = "gone" THEN @
                        ELSE (@ \ IF b.hold.stay THEN {"stay"} ELSE {})
                             \cup IF b.hold.mover THEN {"mover"} ELSE {}]

(* Faulty: only the stay is undone. *)
LetGoKeepsMover(b, verb) ==
    IF b.hold.verb # verb \/ verb = "none"
    THEN b
    ELSE [b EXCEPT !.hold = NoHold,
                   !.strat = IF b.hold.stay THEN @ \ {"stay"} ELSE @]

(* Letting go: only of a hold of that verb; what was taken is given back, to a
   bot that is there. *)
LetGo(b, verb) ==
    IF b.hold.verb # verb \/ verb = "none"
    THEN b
    ELSE [b EXCEPT !.hold = NoHold,
                   !.strat = IF b.body = "gone" THEN @
                             ELSE (@ \ IF b.hold.stay THEN {"stay"} ELSE {})
                                  \cup IF b.hold.mover THEN {"mover"} ELSE {}]

(* Letting go of a bot nobody can be found for: the record goes and nothing is
   given back. *)
Forget(b, verb) ==
    IF b.hold.verb # verb THEN b ELSE [b EXCEPT !.hold = NoHold]

(* The expiry sweep names no verb. *)
LetGoOfExpired(b, owned) ==
    IF b.hold.verb # "none" /\ ~HeldStill(b) /\ ~owned
    THEN LetGo(b, b.hold.verb) ELSE b

(* LetHeldCharacterWalk and MovePoint: a leg of a walk, under the hold. *)
WalkOn(b) ==
    [b EXCEPT !.hold.walking = (b.hold.verb # "none"), !.body = "moving",
              !.spell = "none"]

(* HoldAtTheMailbox: the hold of a walk lingers where the walk ended. *)
Linger(b, seconds) ==
    IF b.hold.verb = "none" THEN b
    ELSE [b EXCEPT !.hold.walking = FALSE, !.hold.left = seconds,
                   !.body = IF @ = "moving" THEN "still" ELSE @]

(* NoteHearthHold: a hearth refused because the bot moved is owed a cast. *)
NoteHearth(b, owes) ==
    IF b.hold.verb # "hearth" THEN b
    ELSE [b EXCEPT !.hold.owed = IF owes THEN "asked" ELSE "no"]

(* KeepHeldCharactersStill: a held bot that drifted, not walking on purpose,
   is stopped again. *)
Retaken(b) ==
    IF HeldStill(b) /\ ~b.hold.walking /\ b.body = "moving"
    THEN [b EXCEPT !.body = "still"] ELSE b

(* Faulty: the countdown runs through the deadline. *)
OlderPastDeadline(h) ==
    [h EXCEPT !.left = @ - 1, !.owed = IF @ = "asked" THEN "due" ELSE @]

(* One unit of time for a hold. *)
Older(h) ==
    [h EXCEPT !.left = IF @ > 0 THEN @ - 1 ELSE 0,
              !.owed = IF @ = "asked" THEN "due" ELSE @]

(* What the bot was deprived of is in the record of its hold. *)
DebtsRecorded(b) ==
    b.body # "gone" =>
        /\ "mover" \notin b.strat => b.hold.mover
        /\ "stay" \in b.strat => b.hold.stay

(* And the record owes all that a hold takes, whatever the bot carries now. *)
Accounted(b) ==
    /\ DebtsRecorded(b)
    /\ b.hold.verb # "none" => b.hold.stay /\ b.hold.mover
=============================================================================
