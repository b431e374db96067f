---------------------------- MODULE LeaderIntent ----------------------------
(***************************************************************************)
(* Who may move a family's leader: the book of leader intents              *)
(* (AskLeaderIntent, EndLeaderIntent, overseer_decisions.cpp) for one      *)
(* leader, with the rules that ask it (mod_overseer.cpp).                  *)
(*                                                                         *)
(* Every rule runs in the one world thread, so a handler is one step.  The *)
(* family poll is a few of them in a fixed order, StartPoll, WaiveInAFight, *)
(* QuestDriveAsks, DriveFetch, KeepTheFamilyTogether;                       *)
(* the travel drive, claims of the travel column, its releases and the     *)
(* operator's orders come between polls.  Clocks are kept as ages and      *)
(* countdowns; one Tick is one unit of time.                               *)
(***************************************************************************)
EXTENDS Naturals, FiniteSets

CONSTANTS
    Callers,       \* the rules of this instance: a subset of Rules
    Targets,       \* family members or places a request can name
    NoTarget,      \* a request that names none
    Nobody,        \* the holder of a free leader
    Dwell,         \* limits.dwellSeconds; flapCooldownSeconds is the same
    Stale,         \* limits.staleSeconds
    OperatorStale, \* limits.operatorSeconds
    MarkGrace,     \* FETCH_MARK_GRACE_SECONDS
    PickTime,      \* the longest a pick of Jev's lasts
    PickKinds,     \* the kinds Jev picks in this instance (a bound)
    MaxChanges,    \* changes of the roster or of `enabled` (a bound)
    Forgetful      \* the rules that may stop asking for good

Kinds == {"QuestDrive", "EconomyErrand", "TownErrand", "Respec", "TrainingStop",
          "Regroup", "FetchMember", "Hearth", "DungeonRun", "OperatorOrder"}

\* The rules that ask, by kind and owner word (LeaderIntentForTravelOwner and
\* the calls of AskForLeader).
QuestDriver == [kind |-> "QuestDrive", owner |-> "quest drive"]
Regrouper   == [kind |-> "Regroup", owner |-> "regroup"]
Fetcher     == [kind |-> "FetchMember", owner |-> "fetch"]
Runner      == [kind |-> "DungeonRun", owner |-> "dungeon run"]
Operator    == [kind |-> "OperatorOrder", owner |-> "operator"]
Column(k)   == [kind |-> k, owner |-> "travel column"]
Claimants   == {Runner,
                [kind |-> "Hearth", owner |-> "home errand"],
                [kind |-> "Respec", owner |-> "respec"],
                [kind |-> "TrainingStop", owner |-> "training stop"],
                [kind |-> "TownErrand", owner |-> "town trip"]}
ColumnErrands == {Column("EconomyErrand"), Column("TownErrand")}
Rules == {QuestDriver, Regrouper, Fetcher, Operator} \cup Claimants \cup ColumnErrands

Holders == Rules \cup {Nobody}
Quiet == IF Stale < OperatorStale THEN OperatorStale ELSE Stale

ASSUME IntentAssumption ==
    /\ Callers \subseteq Rules /\ Forgetful \subseteq Callers
    /\ Nobody \notin Rules
    /\ NoTarget \notin Targets
    /\ Dwell \in Nat \ {0} /\ Stale \in Nat /\ OperatorStale \in Nat
    /\ MarkGrace \in Nat /\ PickTime \in Nat /\ MaxChanges \in Nat
    /\ PickKinds \subseteq Kinds

VARIABLES
    book,     \* the LeaderIntentState of this leader
    leads,    \* he is in book.leaders
    enabled,  \* book.enabled
    pick,     \* Jev's preference, and how long it still holds
    stage,    \* where the family poll is
    waiting,  \* _regroupWaiting: he is held still for a member
    wanted,   \* _regroupWanted
    fetch,    \* _fetches: the member he walks back for, or NoTarget
    unmarked, \* time since the fetch was last marked
    forgot,   \* rules that have stopped asking for good
    changes,  \* history: roster and config changes so far
    fought    \* history: a fight or death was seen in the holder's tenure

regroup == <<waiting, wanted>>
fetching == <<fetch, unmarked>>
roster == <<leads, enabled, pick>>
vars == <<book, roster, stage, regroup, fetching, forgot, changes, fought>>

Books == [holder : Holders, target : Targets \cup {NoTarget},
          ran : 0 .. Dwell, quiet : 0 .. Quiet + 1, waived : BOOLEAN,
          cooling : [Kinds -> 0 .. Dwell],
          asked : [Rules -> 0 .. Stale + 1]]

TypeOK ==
    /\ book \in Books
    /\ leads \in BOOLEAN /\ enabled \in BOOLEAN
    /\ pick \in [kind : Kinds, target : Targets \cup {NoTarget}, left : 0 .. PickTime]
    /\ stage \in {"idle", "waive", "quest", "fetch", "regroup"}
    /\ waiting \in BOOLEAN /\ wanted \in BOOLEAN
    /\ fetch \in Targets \cup {NoTarget} /\ unmarked \in 0 .. MarkGrace
    /\ forgot \in SUBSET Forgetful
    /\ changes \in 0 .. MaxChanges
    /\ fought \in BOOLEAN

EmptyBook ==
    [holder |-> Nobody, target |-> NoTarget, ran |-> 0, quiet |-> 0, waived |-> FALSE,
     cooling |-> [k \in Kinds |-> 0], asked |-> [r \in Rules |-> Stale + 1]]

NoPick == [kind |-> "QuestDrive", target |-> NoTarget, left |-> 0]

Init ==
    /\ book = EmptyBook
    /\ leads = TRUE /\ enabled = TRUE
    /\ pick = NoPick
    /\ stage = "idle"
    /\ waiting = FALSE /\ wanted = FALSE
    /\ fetch = NoTarget /\ unmarked = 0
    /\ forgot = {} /\ changes = 0 /\ fought = FALSE

-----------------------------------------------------------------------------
(* The book itself: pure functions of its state.                            *)

LeastOf(m, n) == IF m < n THEN m ELSE n

\* Faulty: an intent never goes stale.
LiveForEver(b) == b.holder # Nobody

\* LeaderIntentLive: an owner that stops asking is gone.
Live(b) ==
    /\ b.holder # Nobody
    /\ b.quiet <= IF b.holder.kind = "OperatorOrder" THEN OperatorStale ELSE Stale

NeverWaits(k) == k \in {"OperatorOrder", "DungeonRun"}

Order == [QuestDrive |-> 10, EconomyErrand |-> 20, TownErrand |-> 30, Respec |-> 40,
          TrainingStop |-> 50, Regroup |-> 60, FetchMember |-> 70, Hearth |-> 80,
          DungeonRun |-> 90, OperatorOrder |-> 100]

\* Faulty: a pick ranks beside the run.
RankOfPickTooHigh(k, t) ==
    IF pick.left > 0 /\ pick.kind = k /\ pick.target \in {NoTarget, t}
       /\ Order[k] < Order["DungeonRun"]
    THEN Order["DungeonRun"] ELSE Order[k]

\* LeaderIntentRank: Jev's pick ranks just below the campaign's run.
Rank(k, t) ==
    IF pick.left > 0 /\ pick.kind = k /\ pick.target \in {NoTarget, t}
       /\ Order[k] < Order["DungeonRun"] - 5
    THEN Order["DungeonRun"] - 5 ELSE Order[k]

Cleared(b) == [b EXCEPT !.holder = Nobody, !.target = NoTarget, !.ran = 0, !.quiet = 0,
                        !.waived = FALSE]

\* Faulty: the new holder inherits the waived dwell of the last.
GrantKeepsWaiver(b, r, t) == [b EXCEPT !.holder = r, !.target = t, !.ran = 0, !.quiet = 0]

Grant(b, r, t) == [b EXCEPT !.holder = r, !.target = t, !.ran = 0, !.quiet = 0,
                            !.waived = FALSE]

\* Why a request of another owner has to wait.
MustWait(b, r, t) ==
    \/ r.kind # "OperatorOrder" /\ b.cooling[r.kind] > 0
    \/ /\ Live(b)
       /\ \/ Rank(r.kind, t) <= Rank(b.holder.kind, b.target)
          \/ ~ NeverWaits(r.kind) /\ ~ b.waived /\ b.ran < Dwell

SameOwner(b, r) == Live(b) /\ b.holder.owner = r.owner

\* AskLeaderIntent: the book after the request, and the answer.  The owner
\* that holds the leader renews or retargets, and keeps the time it has had.
AskLeaderIntent(b, r, t) ==
    LET told == [b EXCEPT !.asked[r] = 0]
        free == IF Live(told) THEN told ELSE Cleared(told)
    IN  IF SameOwner(b, r)
        THEN [book |-> [free EXCEPT !.holder = r, !.target = t, !.quiet = 0],
              answer |-> "Kept"]
        ELSE IF MustWait(b, r, t)
        THEN [book |-> free, answer |-> "Deferred"]
        ELSE [book |-> Grant(free, r, t), answer |-> "Granted"]

\* Faulty: every early end but a completion starts the cooldown.
FlapsOnAnyFailure(k, how) == how # "Completed"

\* The ends that start the flap cooldown when they come inside the dwell.
Flaps(k, how) == IF k = "DungeonRun" THEN how = "Failed" ELSE how = "Abandoned"

\* Faulty: the cooldown starts when the dwell would have ended.
EndCoolsFromDwellEnd(b, r, how) ==
    IF b.holder # r THEN b
    ELSE Cleared([b EXCEPT !.cooling[r.kind] =
                     IF Flaps(r.kind, how) /\ b.ran < Dwell THEN (Dwell - b.ran) + Dwell ELSE @])

\* EndLeaderIntent: ignored unless r holds the leader.
EndLeaderIntent(b, r, how) ==
    IF b.holder # r THEN b
    ELSE Cleared([b EXCEPT !.cooling[r.kind] =
                     IF Flaps(r.kind, how) /\ b.ran < Dwell THEN Dwell ELSE @])

\* WaiveLeaderIntentDwell: he died or is in combat.
Waive(b) == IF b.holder = Nobody THEN b ELSE [b EXCEPT !.waived = TRUE]

\* A unit of time passes.
Older(b) ==
    [b EXCEPT !.ran = IF b.holder = Nobody THEN 0 ELSE LeastOf(@ + 1, Dwell),
              !.quiet = IF b.holder = Nobody THEN 0 ELSE LeastOf(@ + 1, Quiet + 1),
              !.cooling = [k \in Kinds |-> IF @[k] > 0 THEN @[k] - 1 ELSE 0],
              !.asked = [r \in Rules |-> LeastOf(@[r] + 1, Stale + 1)]]

-----------------------------------------------------------------------------
(* The book as the rules see it (AskForLeader, EndForLeader, ...).          *)

Applies == leads /\ enabled

\* The answer of AskForLeader: a leader the book does not govern may be moved.
MayMove(r, t) == ~ Applies \/ AskLeaderIntent(book, r, t).answer # "Deferred"

\* AskForLeader.
AskForLeader(r, t) ==
    /\ book' = IF Applies THEN AskLeaderIntent(book, r, t).book ELSE book
    /\ fought' = (fought /\ ~ (Applies /\ AskLeaderIntent(book, r, t).answer = "Granted"))

\* EndForLeader.
EndForLeader(r, how) ==
    /\ book' = IF Applies THEN EndLeaderIntent(book, r, how) ELSE book
    /\ UNCHANGED fought

Asking(r) == r \in Callers \ forgot

-----------------------------------------------------------------------------
(* The family poll (KeepRosterGrouped).                                     *)

\* Nothing marked the wait since the last sweep: its party is gone.
WaitLapsed == waiting /\ ~ wanted

\* SweepRegroupWait, SweepFetches, then RefreshLeaderIntentBook: whatever the
\* last poll did not mark is ended; the leaders, the switch and Jev's pick are
\* read again; a character that leads no more loses its state.
StartPoll ==
    LET lapsed == WaitLapsed
        unseen == fetch # NoTarget /\ unmarked >= MarkGrace
        b1 == IF lapsed /\ Applies THEN EndLeaderIntent(book, Regrouper, "Abandoned") ELSE book
        b2 == IF unseen /\ Applies THEN EndLeaderIntent(b1, Fetcher, "Abandoned") ELSE b1
    IN
    /\ stage = "idle"
    /\ \E l, e \in BOOLEAN :
         /\ leads' = l /\ enabled' = e
         /\ <<l, e>> # <<leads, enabled>> => changes < MaxChanges   \* bound
         /\ changes' = IF <<l, e>> # <<leads, enabled>> THEN changes + 1 ELSE changes
         /\ book' = IF l THEN b2 ELSE EmptyBook
    /\ \/ pick' = NoPick
       \/ \E k \in PickKinds, n \in 1 .. PickTime, g \in Targets \cup {NoTarget} :
            pick' = [kind |-> k, target |-> g, left |-> n]
    /\ waiting' = (waiting /\ ~ lapsed)
    /\ wanted' = FALSE
    /\ fetch' = IF unseen THEN NoTarget ELSE fetch
    /\ unmarked' = IF unseen THEN 0 ELSE unmarked
    /\ stage' = "waive"
    /\ UNCHANGED <<forgot, fought>>

\* The party is not together this poll, or its leader is not in it.
PollSkipsParty ==
    /\ stage = "waive"
    /\ stage' = "idle"
    /\ UNCHANGED <<book, roster, regroup, fetching, forgot, changes, fought>>

\* Dead or in combat, he may be taken by whatever ranks above his intent.
WaiveInAFight ==
    /\ stage = "waive"
    /\ stage' = "quest"
    /\ \/ /\ Applies
          /\ book' = Waive(book)
          /\ fought' = TRUE
       \/ UNCHANGED <<book, fought>>
    /\ UNCHANGED <<roster, regroup, fetching, forgot, changes>>

\* The quest drive asks.
QuestDriveAsks ==
    /\ stage = "quest"
    /\ Asking(QuestDriver)
    /\ stage' = "fetch"
    /\ AskForLeader(QuestDriver, NoTarget)
    /\ UNCHANGED <<roster, regroup, fetching, forgot, changes>>

\* A campaign or a crossing is under way, so the quest drive stays out of it.
QuestDriveRests ==
    /\ stage = "quest"
    /\ stage' = "fetch"
    /\ UNCHANGED <<book, roster, regroup, fetching, forgot, changes, fought>>

\* A fetch goes on only while the book keeps the leader for it.
FetchMayGoOn(t) == MayMove(Fetcher, t)

\* DriveFetch of a fetch under way: it ends by itself, or asks again.
ContinueFetch ==
    /\ fetch # NoTarget
    /\ \/ /\ \E how \in {"Completed", "Failed"} : EndForLeader(Fetcher, how)
          /\ fetch' = NoTarget /\ unmarked' = 0
       \/ /\ Asking(Fetcher)
          /\ AskForLeader(Fetcher, fetch)
          /\ fetch' = IF FetchMayGoOn(fetch) THEN fetch ELSE NoTarget
          /\ unmarked' = 0

\* DriveFetch with none under way: perhaps there is somebody to go back for.
StartFetch ==
    /\ fetch = NoTarget
    /\ \/ UNCHANGED <<book, fought, fetching>>
       \/ /\ Asking(Fetcher)
          /\ \E t \in Targets :
               /\ AskForLeader(Fetcher, t)
               /\ fetch' = IF MayMove(Fetcher, t) THEN t ELSE NoTarget
               /\ unmarked' = 0

DriveFetch ==
    /\ stage = "fetch"
    /\ stage' = "regroup"
    /\ ContinueFetch \/ StartFetch
    /\ UNCHANGED <<roster, regroup, forgot, changes>>

\* EndTheRegroupWait: does nothing unless he is held waiting.
EndTheRegroupWait(how) ==
    /\ IF waiting THEN EndForLeader(Regrouper, how) ELSE UNCHANGED <<book, fought>>
    /\ waiting' = FALSE
    /\ wanted' = FALSE

\* Faulty: the wait goes on when the book refuses it.
HoldAnyway(t) == TRUE

\* The hold is placed or kept only while the book grants it.
MayHold(t) == MayMove(Regrouper, t)

\* KeepTheFamilyTogether: the wait ends for a reason of its own, or the book
\* is asked for the member who is behind; a leader who cannot be held is let
\* go at once.
KeepTheFamilyTogether ==
    /\ stage = "regroup"
    /\ stage' = "idle"
    /\ \/ \E how \in {"Completed", "Failed", "Abandoned"} : EndTheRegroupWait(how)
       \/ /\ Asking(Regrouper)
          /\ \E t \in Targets :
               \/ /\ MayHold(t)
                  /\ AskForLeader(Regrouper, t)
                  /\ waiting' = TRUE /\ wanted' = TRUE
               \/ /\ ~ MayHold(t)
                  /\ AskForLeader(Regrouper, t)
                  /\ waiting' = FALSE /\ wanted' = FALSE
               \/ /\ MayHold(t)            \* HoldForTheFamily fails
                  /\ book' = IF Applies
                             THEN EndLeaderIntent(AskLeaderIntent(book, Regrouper, t).book,
                                                  Regrouper, "Abandoned")
                             ELSE book
                  /\ fought' = fought
                  /\ waiting' = FALSE /\ wanted' = FALSE
    /\ UNCHANGED <<roster, fetching, forgot, changes>>

-----------------------------------------------------------------------------
(* Between family polls.                                                    *)

\* DriveTravel asks for the errand in the column, under the errand's own rule
\* or, for a walk back, the fetch; a fight waives the dwell of a granted one.
TravelDrive ==
    /\ stage = "idle"
    /\ \E r \in ColumnErrands \cup Claimants \cup {Fetcher}, t \in Targets :
         /\ Asking(r)
         /\ r = Fetcher => fetch = t
         /\ Applies
         /\ \/ AskForLeader(r, t)
            \/ /\ AskLeaderIntent(book, r, t).answer # "Deferred"
               /\ book' = Waive(AskLeaderIntent(book, r, t).book)
               /\ fought' = TRUE
    /\ UNCHANGED <<roster, stage, regroup, fetching, forgot, changes>>

\* TravelAimBook::Claim asks before it writes the column.
ClaimColumn ==
    /\ stage = "idle"
    /\ \E r \in Claimants, t \in Targets : Asking(r) /\ AskForLeader(r, t)
    /\ UNCHANGED <<roster, stage, regroup, fetching, forgot, changes>>

\* EndLeaderColumnIntent: the travel column let go, and the column intent that
\* holds him ends with it, completed or failed by what the release says.
ColumnReleased ==
    /\ stage = "idle"
    /\ Applies /\ Live(book)
    /\ book.holder.kind \in {"EconomyErrand", "TownErrand", "Respec", "TrainingStop",
                             "Hearth", "DungeonRun"}
    /\ \E how \in {"Completed", "Failed"} : EndForLeader(book.holder, how)
    /\ UNCHANGED <<roster, stage, regroup, fetching, forgot, changes>>

\* An operator's order pins him, or releases him.
OperatorOrders ==
    /\ stage = "idle"
    /\ Applies
    /\ Asking(Operator)
    /\ AskForLeader(Operator, NoTarget) \/ EndForLeader(Operator, "Completed")
    /\ UNCHANGED <<roster, stage, regroup, fetching, forgot, changes>>

\* The drive of a walk back finds the road impassable (EndFetch).
FetchRoadClosed ==
    /\ stage = "idle"
    /\ fetch # NoTarget
    /\ EndForLeader(Fetcher, "Abandoned")
    /\ fetch' = NoTarget /\ unmarked' = 0
    /\ UNCHANGED <<roster, stage, regroup, forgot, changes>>

\* A rule stops asking, and does not say so.
Forget ==
    /\ stage = "idle"
    /\ \E r \in Forgetful \ forgot : forgot' = forgot \cup {r}
    /\ UNCHANGED <<book, roster, stage, regroup, fetching, changes, fought>>

Tick ==
    /\ stage = "idle"
    /\ book' = Older(book)
    /\ pick' = IF pick.left <= 1 THEN NoPick ELSE [pick EXCEPT !.left = @ - 1]
    /\ unmarked' = IF fetch = NoTarget THEN 0 ELSE LeastOf(unmarked + 1, MarkGrace)
    /\ UNCHANGED <<leads, enabled, stage, regroup, fetch, forgot, changes, fought>>

FamilyPoll ==
    \/ StartPoll \/ PollSkipsParty \/ WaiveInAFight
    \/ QuestDriveAsks \/ QuestDriveRests \/ DriveFetch \/ KeepTheFamilyTogether

Next ==
    \/ FamilyPoll
    \/ TravelDrive \/ ClaimColumn \/ ColumnReleased \/ OperatorOrders \/ FetchRoadClosed
    \/ Forget \/ Tick

Spec == Init /\ [][Next]_vars

\* The family is polled again and again, and seconds pass between polls.
FairSpec == Spec /\ WF_vars(FamilyPoll) /\ SF_vars(Tick)

-----------------------------------------------------------------------------
(* Properties.                                                              *)

HeldBy(b, r) == Live(b) /\ b.holder = r
KindOf(b) == IF b.holder = Nobody THEN "None" ELSE b.holder.kind

\* No rule takes the leader from another that is alive unless it outranks it,
\* and then only if it never waits, the holder has had its dwell, or a fight
\* or a death was seen since the holder got him: what waived one holder's
\* dwell shortens no other's (AskLeaderIntent, WaiveLeaderIntentDwell).
DwellKept ==
    [][(/\ Live(book)
        /\ book'.holder \notin {book.holder, Nobody}
        /\ book'.holder.owner # book.holder.owner)
         => /\ Rank(book'.holder.kind, book'.target) > Rank(book.holder.kind, book.target)
            /\ NeverWaits(book'.holder.kind) \/ fought \/ book.ran = Dwell]_vars

\* A kind that was given up early does not come back inside its cooldown, not
\* even by an owner that changes the kind of what it already holds.
CooldownHolds ==
    [][\A k \in Kinds \ {"OperatorOrder"} :
         (KindOf(book') = k /\ KindOf(book) # k) => book.cooling[k] = 0]_vars

\* The campaign's run waits for nobody but an operator and its own cooldown:
\* no pick of Jev's, no dwell and no other rule keeps the leader from it.
RunWaitsForNobody ==
    \A t \in Targets :
      AskLeaderIntent(book, Runner, t).answer = "Deferred"
        => HeldBy(book, Operator) \/ book.cooling["DungeonRun"] > 0

\* What the poll does to him agrees with the book: after the fetch's turn he
\* walks back only if the fetch holds him, after the regroup's turn he is held
\* still only if the regroup does (DriveFetch, KeepTheFamilyTogether).
ExecutorsFollowTheBook ==
    [][Applies =>
        /\ (stage = "fetch" /\ fetch' # NoTarget) => HeldBy(book', Fetcher)
        /\ (stage = "regroup" /\ waiting') => HeldBy(book', Regrouper)]_vars

\* A rule that forgets to say it is done cannot hold a leader for ever: once
\* every other rule has stopped asking, the quest drive gets him back, if it
\* goes on asking ("an owner that stops asking is gone"); and a leader held
\* still for a member walks again when the rule that held him never marks the
\* wait again, though his party may never be polled again (SweepRegroupWait).
LeaderComesBack ==
    /\ []<><<QuestDriveAsks>>_vars =>
         ((Forgetful \subseteq forgot) ~> (HeldBy(book, QuestDriver) \/ ~ Applies))
    /\ (Regrouper \in forgot) ~> ~ waiting

=============================================================================
