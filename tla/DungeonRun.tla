----------------------------- MODULE DungeonRun -----------------------------
(***************************************************************************)
(* One family's dungeon campaign: the coordinator DriveDungeonRunFor and   *)
(* what it keeps in the database (overseer_dungeon_run,                    *)
(* overseer_run_recovery, the roster's count of runs done), from the first *)
(* run to the last wanted one, through failed attempts, evacuations, exits *)
(* that do not work, cancelled jobs and restarts of the server.            *)
(*                                                                         *)
(* A poll of the coordinator is one step, and its statements are queued    *)
(* for the database's worker, which runs them one by one before the next   *)
(* poll; a restart loses the rest of them and everything in memory.  The   *)
(* clocks of the phases are left out: a backstop may fire at any poll, as  *)
(* one of at most MaxMishaps mishaps.                                      *)
(***************************************************************************)
EXTENDS Naturals, Sequences, FiniteSets

CONSTANTS
    Members,      \* the family's party
    Leader,       \* its leader
    Wanted,       \* dungeon_runs_wanted
    MaxMishaps,   \* failed steps, deaths, full bags, cancelled jobs, restarts
                  \* of the server (a bound)
    MaxReturns    \* ghosts that run back in to their corpses (a bound)

ASSUME RunAssumption ==
    /\ IsFiniteSet(Members) /\ Leader \in Members
    /\ Wanted \in Nat \ {0}
    /\ MaxMishaps \in Nat /\ MaxReturns \in Nat

VARIABLES
    inside,    \* members on the dungeon's map
    ghosts,    \* members who died inside and have not risen
    cleared,   \* every encounter of the family's copy is credited
    full,      \* somebody has no room in his bags
    job,       \* the leader's job is this dungeon
    run,       \* _dungeonRunCoordinators: the coordinator's state
    over,      \* _runOver: the run is over while somebody stands in it
    hearth,    \* _exitHearths: the run whose exit failed
    rows,      \* overseer_dungeon_run, oldest first
    asks,      \* overseer_run_recovery, oldest first
    done,      \* dungeon_runs_done
    queue,     \* statements the database's worker has not run
    mishaps,   \* spent so far
    clears,    \* history: how often the dungeon was cleared
    returns,   \* history: how often a ghost ran back in
    owed       \* history: the campaigns whose last attempt failed, until a
               \* recovery is chosen, the family is found inside again or a
               \* restart loses the request for it unwritten

party == <<inside, ghosts>>
world == <<party, cleared, full, clears>>
coordinator == <<run, over, hearth>>
database == <<rows, asks, done>>
spent == <<mishaps, returns>>
vars == <<world, job, coordinator, database, queue, spent, owed>>

Unentered == {"reset_failed", "staging_failed", "split_failed", "evacuated"}
Entered == {"complete", "stalled", "left", "wipe", "emptied", "client_lost"}
Verdicts == {"none", "complete", "stalled", "evacuated", "client_lost"}
Fresh == {"Resetting", "Gathering", "Barrier", "Enter", "StagedInside", "Clearing"}
Phases == Fresh \cup {"Idle", "Exiting", "Repairing", "Recovering"}

IdleRun == [phase |-> "Idle", row |-> 0, campaign |-> 0, number |-> 0,
            verdict |-> "none", streak |-> 0, chosen |-> FALSE]
NoEpisode == [IdleRun EXCEPT !.phase = "Exiting"]

\* No more than the wanted runs are done, or than ghosts that run back in can
\* make of a copy counted already.  A row is a run's that is done, or a mishap
\* or a ghost's way back has cost it, which cost two at most (the attempt that
\* fails and the one that is opened behind it); or it is the one under way.
MaxDone == Wanted + MaxReturns
MaxRows == MaxDone + 2 * (MaxMishaps + MaxReturns) + 1
\* Campaigns are named in the order of their rows; an attempt that fails and
\* writes no row is a mishap, or a ghost's way back.
MaxCampaign == MaxRows + 1
MaxStreak == MaxRows + MaxMishaps + MaxReturns

\* Every variable keeps its type; nobody is both inside and a ghost outside,
\* and what a finite number of mishaps can open is bounded.
TypeOK ==
    /\ inside \in SUBSET Members /\ ghosts \in SUBSET (Members \ inside)
    /\ cleared \in BOOLEAN /\ full \in BOOLEAN /\ job \in BOOLEAN
    /\ {run, hearth} \subseteq
           [phase : Phases, row : 0 .. MaxRows, campaign : 0 .. MaxCampaign,
            number : 0 .. MaxDone + 1, verdict : Verdicts, streak : 0 .. MaxStreak,
            chosen : BOOLEAN]
    /\ over \in {"no", "given up", "complete"}
    /\ \A i \in DOMAIN rows :
           rows[i] \in [campaign : 0 .. MaxRows, number : 0 .. MaxDone + 1,
                        outcome : Unentered \cup Entered \cup {"active"}]
    /\ \A i \in DOMAIN asks :
           asks[i] \in [campaign : 0 .. MaxCampaign, attempt : 1 .. MaxStreak,
                        applied : BOOLEAN, after : 0 .. MaxRows]
    /\ Len(rows) <= MaxRows /\ done \in 0 .. MaxDone /\ clears \in 0 .. MaxRows
    /\ mishaps \in 0 .. MaxMishaps /\ returns \in 0 .. MaxReturns
    /\ owed \subseteq 1 .. MaxCampaign

Init ==
    /\ inside = {} /\ ghosts = {} /\ cleared = FALSE /\ full = FALSE /\ job = TRUE
    /\ run = IdleRun /\ over = "no" /\ hearth = NoEpisode
    /\ rows = <<>> /\ asks = <<>> /\ done = 0 /\ queue = <<>>
    /\ mishaps = 0 /\ returns = 0
    /\ clears = 0 /\ owed = {}

-----------------------------------------------------------------------------
(* What the coordinator reads: synchronous queries.                         *)

LastOf(S) == IF S = {} THEN 0 ELSE CHOOSE i \in S : \A j \in S : j <= i

\* ActiveRunIdOnMap: at most one row is active (its key is unique).
ActiveRow == LastOf({i \in DOMAIN rows : rows[i].outcome = "active"})

\* The id a handler closes: the one it stamped, or the active one.
RowOf(r) == IF r.row # 0 THEN r.row ELSE ActiveRow

RowsOf(c) == {i \in DOMAIN rows : rows[i].campaign = c}

\* TrailingUnenteredRuns, DungeonRunTrailingFailures
Trailing(c) ==
    Cardinality({i \in RowsOf(c) :
        \A j \in RowsOf(c) : j >= i => rows[j].outcome \in Unentered})

\* CampaignInProgress: the newest row that has a campaign.
InProgress ==
    LET i == LastOf({j \in DOMAIN rows : rows[j].campaign # 0})
    IN  IF i = 0 THEN 0 ELSE rows[i].campaign

\* UnstartedCampaignOnMap: the newest row's, if it never got inside.
Unstarted ==
    IF rows # <<>> /\ rows[Len(rows)].outcome \in Unentered
    THEN rows[Len(rows)].campaign ELSE 0

\* AllocateCampaignId
NewCampaign ==
    1 + (IF rows = <<>> THEN 0
         ELSE LET n == CHOOSE i \in DOMAIN rows :
                           \A j \in DOMAIN rows : rows[j].campaign <= rows[i].campaign
              IN  rows[n].campaign)

OrElse(m, n) == IF m # 0 THEN m ELSE n

\* NewestCampaignRecovery: the newest request of the campaign, if any.
NewestAsk(c) == LastOf({i \in DOMAIN asks : asks[i].campaign = c})

\* RecoveryAppliedFor
AppliedFor(c, n) ==
    \E i \in DOMAIN asks :
        asks[i].campaign = c /\ asks[i].attempt = n /\ asks[i].applied

\* Faulty: a request is forgotten once its coordinator is.
NeverResumed(c) == FALSE

\* IdleCampaignRecovery: a request asked for and never applied is resumed.
Resumed(c) ==
    LET n == NewestAsk(c)
    IN  /\ n # 0
        /\ ~asks[n].applied
        /\ \A i \in RowsOf(c) : i <= asks[n].after

-----------------------------------------------------------------------------
(* Statements, run by the worker in the order they were queued.             *)

Statement(w, r) == [do |-> w, row |-> r.row, campaign |-> r.campaign,
                    number |-> r.number, attempt |-> r.streak, outcome |-> ""]
Stamp(r) == Statement("stamp", r)
Close(r, o) == [Statement("close", r) EXCEPT !.outcome = o]
Record(r, o) == [Statement("record", r) EXCEPT !.outcome = o]
Count(r) == Statement("count", r)
Ask(r) == Statement("ask", r)
Apply(r) == Statement("apply", r)

Active(i) == i \in DOMAIN rows /\ rows[i].outcome = "active"

\* StampRunIntoCampaign, CloseRun, RecordUnenteredRun
RowsAfter(w) ==
    CASE w.do = "stamp" /\ w.row \in DOMAIN rows /\ rows[w.row].campaign = 0 ->
            [rows EXCEPT ![w.row].campaign = w.campaign, ![w.row].number = w.number]
      [] w.do = "close" /\ Active(w.row) -> [rows EXCEPT ![w.row].outcome = w.outcome]
      [] w.do = "record" ->
            Append(rows, [campaign |-> w.campaign, number |-> w.number,
                          outcome |-> w.outcome])
      [] OTHER -> rows

\* WriteRecoveryRequest, MarkRecoveryApplied
AsksAfter(w) ==
    CASE w.do = "ask" ->
            Append(asks, [campaign |-> w.campaign, attempt |-> w.attempt,
                          applied |-> FALSE, after |-> Len(rows)])
      [] w.do = "apply" ->
            [i \in DOMAIN asks |->
                IF asks[i].campaign = w.campaign /\ asks[i].attempt = w.attempt
                THEN [asks[i] EXCEPT !.applied = TRUE] ELSE asks[i]]
      [] OTHER -> asks

ApplyWrite ==
    /\ queue # <<>>
    /\ queue' = Tail(queue)
    /\ rows' = RowsAfter(Head(queue))
    /\ asks' = AsksAfter(Head(queue))
    /\ done' = IF Head(queue).do = "count" THEN done + 1 ELSE done
    /\ UNCHANGED <<world, job, coordinator, spent, owed>>

-----------------------------------------------------------------------------
(* The end of a run, and what comes next.                                   *)

\* RearmAfterRecovery, and the tail of EndRunAndDecide: the next attempt
\* starts with the repairs.
Repair(r, n) == [IdleRun EXCEPT !.phase = "Repairing", !.campaign = r.campaign,
                                !.number = n, !.streak = r.streak]

\* EnterRecovering
Recover(r, attempt) == [r EXCEPT !.phase = "Recovering", !.streak = attempt,
                                 !.chosen = FALSE]

MaxOf(m, n) == IF m < n THEN n ELSE m

\* DungeonCampaignAfterRun: runs done, by the number of the attempt.
DoneAfter(r, o) ==
    IF o = "complete" THEN r.number ELSE IF r.number = 0 THEN 0 ELSE r.number - 1

\* DungeonRunCountsAsDone
Counts(o) == o = "complete"

\* EndRunAndDecide: the row is closed, the run counted, the next one decided;
\* wiped is the wipe book's word that a second wipe ends the attempt.
EndRun(r, o, wanted, wiped, before) ==
    LET id == [r EXCEPT !.row = IF o = "reset_failed" THEN 0 ELSE RowOf(r)]
        next == Repair([r EXCEPT !.streak = 0], DoneAfter(r, o) + 1)
        again == /\ o # "evacuated" /\ wanted
                 /\ DoneAfter(r, o) < Wanted /\ ~wiped
        recovering == Recover(next, MaxOf(r.streak + 1, Trailing(r.campaign)))
        recovers == again /\ o \in Unentered
    IN  /\ run' = IF recovers THEN recovering ELSE IF again THEN next ELSE IdleRun
        /\ queue' = before \o (IF id.row # 0 THEN <<Close(id, o)>> ELSE <<>>)
                           \o (IF Counts(o) THEN <<Count(r)>> ELSE <<>>)
                           \o (IF recovers THEN <<Ask(recovering)>> ELSE <<>>)
        /\ owed' = IF o \in Unentered \ {"evacuated"} THEN owed \cup {r.campaign}
                   ELSE owed \ {r.campaign}

\* DungeonRunExitOutcome
ExitOutcome(r) == IF r.verdict = "none" THEN "left" ELSE r.verdict

Mishap == mishaps < MaxMishaps /\ mishaps' = mishaps + 1
NoMishap == UNCHANGED mishaps

-----------------------------------------------------------------------------
(* The head of the poll, before the phases.                                 *)

\* A poll starts when the worker has run the last one's statements.  The bags
\* are looked at first: they evacuate a run, or keep a family from opening one.
\* Faulty: full bags never hold a family outside.
NeverHeldOut == FALSE
HeldOut == full /\ inside = {} /\ run.phase # "Exiting"

Poll == queue = <<>> /\ UNCHANGED <<job, returns, database>>

\* The head of every poll drops the mark of a run that is over once a fresh
\* one is under way.
MarkAtHead == IF run.phase \in Fresh THEN "no" ELSE over

\* DungeonBagPressure::HoldOut
PollHoldsOut ==
    /\ Poll /\ HeldOut
    /\ run.phase # "Idle"
    /\ run' = IdleRun /\ over' = MarkAtHead
    /\ UNCHANGED <<world, hearth, queue, mishaps, owed>>

\* The run a family is found in: its row's campaign and number, or the
\* campaign in progress, or a new one.
Adopted(phase, new) ==
    LET i == ActiveRow
        c == IF i = 0 THEN 0 ELSE rows[i].campaign
        n == IF i = 0 THEN 0 ELSE rows[i].number
    IN  [IdleRun EXCEPT !.phase = phase, !.row = i, !.number = OrElse(n, done + 1),
                        !.campaign = OrElse(c, OrElse(InProgress, new))]

StampOf(r) == IF r.row # 0 /\ r.campaign # 0 THEN <<Stamp(r)>> ELSE <<>>

\* DungeonBagPressure::Evacuate, when an upgrade lies on the floor for
\* somebody with no room for it (else MakeRoom, BagsEmpty below).
PollEvacuates ==
    /\ Poll /\ full /\ inside # {}
    /\ run.phase # "Exiting"
    /\ LET r == IF run.phase = "Idle" THEN Adopted("Idle", 0) ELSE run
       IN  /\ run' = [r EXCEPT !.phase = "Exiting", !.verdict = "evacuated"]
           /\ queue' = IF run.phase = "Idle" THEN StampOf(r) ELSE <<>>
           /\ owed' = IF run.phase = "Idle" THEN owed \ {r.campaign} ELSE owed
    /\ over' = MarkAtHead
    /\ UNCHANGED <<world, hearth, mishaps>>

Phase(p) == Poll /\ ~HeldOut /\ run.phase = p

-----------------------------------------------------------------------------
(* Idle.                                                                    *)

\* The failed exit's hearths brought everybody out: its run is finalized.
PollFinalizes ==
    /\ Phase("Idle")
    /\ hearth # NoEpisode /\ inside = {}
    /\ hearth' = NoEpisode
    /\ EndRun(hearth, ExitOutcome(hearth), job, FALSE, <<>>)
    /\ UNCHANGED <<world, over, mishaps>>

\* DungeonRunAdoptAt
AdoptAt(mark) ==
    IF cleared \/ mark # "no" \/ done >= Wanted THEN "Exiting"
    ELSE IF inside = Members THEN "Clearing" ELSE "StagedInside"

\* Somebody is inside a run nobody drives: it is adopted, after the hearths of
\* a failed exit had their time; if they sent somebody home, it is over.
PollAdopts ==
    /\ Phase("Idle")
    /\ inside # {}
    /\ \E hearthed \in BOOLEAN :
         /\ hearthed => hearth # NoEpisode /\ inside # Members
         /\ LET mark == IF ~hearthed THEN over
                        ELSE IF hearth.verdict = "complete" THEN "complete" ELSE "given up"
                verdict == IF cleared \/ mark = "complete" THEN "complete"
                           ELSE IF mark = "given up" THEN "stalled" ELSE "none"
                r == Adopted(AdoptAt(mark), NewCampaign)
            IN  /\ run' = [r EXCEPT !.verdict = verdict]
                /\ queue' = StampOf(r)
                /\ over' = mark
                /\ owed' = owed \ {r.campaign}
    /\ hearth' = NoEpisode
    /\ UNCHANGED <<world, mishaps>>

\* The campaign the next run belongs to.
NextCampaign == OrElse(IF done = 0 THEN Unstarted ELSE InProgress, NewCampaign)

\* Nobody is inside: the next run of the campaign is opened, or the recovery
\* its last attempt is owed.
PollStarts ==
    /\ Phase("Idle")
    /\ hearth = NoEpisode /\ inside = {}
    /\ job /\ done < Wanted
    /\ LET c == NextCampaign
           r == [IdleRun EXCEPT !.campaign = c, !.number = done + 1]
       IN  IF Resumed(c)
           THEN run' = Recover(r, asks[NewestAsk(c)].attempt) /\ queue' = <<>>
           ELSE IF Trailing(c) > 0 /\ ~AppliedFor(c, Trailing(c))
           THEN /\ run' = Recover(r, Trailing(c))
                /\ queue' = <<Ask(run')>>
           ELSE run' = [r EXCEPT !.phase = "Resetting"] /\ queue' = <<>>
    /\ over' = "no"
    /\ UNCHANGED <<world, hearth, mishaps, owed>>

-----------------------------------------------------------------------------
(* The live phases.                                                         *)

\* The job is gone, or the campaign is over, before the run is.
PollStandsDown ==
    /\ Poll /\ ~HeldOut
    /\ run.phase \notin {"Idle", "Exiting"}
    /\ ~job \/ done >= Wanted
    /\ run' = IF run.phase \in {"StagedInside", "Clearing"}
              THEN [run EXCEPT !.phase = "Exiting"] ELSE IdleRun
    /\ over' = MarkAtHead
    /\ UNCHANGED <<world, hearth, queue, mishaps, owed>>

Live(p) ==
    /\ Phase(p)
    /\ job /\ done < Wanted
    /\ p \in {"Resetting", "Gathering", "Barrier"} => Leader \notin inside
    /\ hearth' = hearth

Goes(r) == run' = r /\ over' = MarkAtHead /\ queue' = <<>> /\ UNCHANGED owed

\* The leader got in by some other path than the barrier.
PollLeaderInside ==
    /\ \E p \in {"Resetting", "Gathering", "Barrier"} : Phase(p)
    /\ job /\ done < Wanted
    /\ Leader \in inside
    /\ Goes(IdleRun)
    /\ UNCHANGED <<world, hearth, mishaps>>

\* DriveRepairLeg: done, or given up with somebody still inside.
PollRepairs ==
    /\ Live("Repairing")
    /\ IF inside = {} THEN NoMishap ELSE Mishap
    /\ Goes([run EXCEPT !.phase = "Resetting"])
    /\ UNCHANGED world

\* Faulty: the instance is left as the last run left it.
NeverReset == cleared
\* ResetGroupInstance makes a new copy.
Reset == FALSE

PollResets ==
    /\ Live("Resetting")
    /\ inside = {}
    /\ cleared' = Reset
    /\ Goes([run EXCEPT !.phase = "Gathering"])
    /\ UNCHANGED <<party, full, clears, mishaps>>

\* FailRunAtReset
PollResetFails ==
    /\ Live("Resetting") /\ Mishap
    /\ EndRun(run, "reset_failed", TRUE, FALSE, <<Record(run, "reset_failed")>>)
    /\ over' = MarkAtHead
    /\ UNCHANGED <<world>>

PollGathers ==
    /\ Live("Gathering")
    /\ Goes([run EXCEPT !.phase = "Barrier"])
    /\ UNCHANGED <<world, mishaps>>

\* A member is fetched, and the party gathers again.
PollRegathers ==
    /\ Live("Barrier") /\ Mishap
    /\ Goes([run EXCEPT !.phase = "Gathering"])
    /\ UNCHANGED world

\* FailStaging, FailRetreat, FailStagingStall; FailApproach writes no row.
PollStagingFails ==
    /\ Live("Gathering") \/ Live("Barrier")
    /\ IF inside = {} THEN Mishap ELSE NoMishap
    /\ \E written \in BOOLEAN :
         EndRun(run, "staging_failed", TRUE, FALSE,
                IF ~written THEN <<>>
                ELSE IF RowOf(run) # 0 THEN <<Stamp([run EXCEPT !.row = RowOf(run)])>>
                ELSE <<Record(run, "staging_failed")>>)
    /\ over' = MarkAtHead
    /\ UNCHANGED <<world>>

\* Everybody stands at the door, alive.
PollOpens ==
    /\ Live("Barrier")
    /\ inside = {} /\ ghosts = {}
    /\ Goes([run EXCEPT !.phase = "Enter"])
    /\ UNCHANGED <<world, mishaps>>

PollEntersAll ==
    /\ Live("Enter")
    /\ inside = Members
    /\ Goes([run EXCEPT !.phase = "StagedInside"])
    /\ UNCHANGED <<world, mishaps>>

PollEnterGivesUp ==
    /\ Live("Enter") /\ Mishap
    /\ Goes(IdleRun)
    /\ UNCHANGED world

\* The row the arming drive opened becomes the run's, and its campaign's.
Stamped == IF run.row = 0 THEN [run EXCEPT !.row = ActiveRow] ELSE run
Stamps == IF run.row = 0 THEN StampOf(Stamped) ELSE <<>>

GoesInside(r) == run' = r /\ over' = MarkAtHead /\ queue' = Stamps /\ UNCHANGED owed

\* Nobody is left on the map.
PollFindsNobody ==
    /\ Live("StagedInside") \/ Live("Clearing")
    /\ inside = {}
    /\ \/ EndRun(Stamped, "emptied", job, FALSE, Stamps)
       \/ /\ ghosts # {}
          /\ \E second \in BOOLEAN : EndRun(Stamped, "wipe", job, second, Stamps)
    /\ over' = MarkAtHead
    /\ UNCHANGED <<world, mishaps>>

\* All through: the clearing begins.
PollClears ==
    /\ Live("StagedInside")
    /\ inside = Members
    /\ GoesInside([Stamped EXCEPT !.phase = "Clearing"])
    /\ UNCHANGED <<world, mishaps>>

\* FailSplitInside: nobody else got in for too long.
PollSplits ==
    /\ Live("StagedInside") /\ Mishap
    /\ inside \notin {{}, Members}
    /\ EndRun(Stamped, "split_failed", job, FALSE,
              Stamps \o IF RowOf(Stamped) # 0 THEN <<Stamp(Stamped)>>
                        ELSE <<Record(run, "split_failed")>>)
    /\ over' = "given up"
    /\ UNCHANGED world

\* A member is missing: the party assembles again.
PollReassembles ==
    /\ Live("Clearing")
    /\ inside \notin {{}, Members}
    /\ GoesInside([Stamped EXCEPT !.phase = "StagedInside"])
    /\ UNCHANGED <<world, mishaps>>

\* DecideClearingArmGate: the dungeon brain took its orders for the open run.
Armed == ActiveRow # 0

\* Every encounter is credited.
PollProves ==
    /\ Live("Clearing") /\ Armed
    /\ inside = Members /\ cleared
    /\ GoesInside([Stamped EXCEPT !.phase = "Exiting", !.verdict = "complete"])
    /\ UNCHANGED <<world, mishaps>>

\* RunClearingWatchdog, EndRunForAwayLeader, and a leader's client that is gone.
PollGivesUp ==
    /\ \/ Live("Clearing") /\ ~cleared
       \/ Live("StagedInside") \/ Live("Enter")
    /\ inside # {} /\ Mishap
    /\ \E v \in {"stalled", "client_lost"} :
         /\ v = "stalled" => run.phase = "Clearing"
         /\ Goes([run EXCEPT !.phase = "Exiting", !.verdict = v])
    /\ UNCHANGED world

PollExits ==
    /\ Phase("Exiting")
    /\ inside = {}
    /\ EndRun(run, ExitOutcome(run), job, FALSE, <<>>)
    /\ UNCHANGED <<world, hearth, over, mishaps>>

\* The walk out gave up: whoever can hearths home, and the run waits for it.
PollExitFails ==
    /\ Phase("Exiting") /\ Mishap
    /\ inside # {}
    /\ \E inPlay \in BOOLEAN :
         hearth' = IF inPlay THEN [run EXCEPT !.row = RowOf(run)] ELSE NoEpisode
    /\ run' = IdleRun
    /\ UNCHANGED <<world, over, queue, owed>>

\* The recovery is chosen: TownForBags stands down to Idle, some start the
\* next attempt at once, the others have a walk or a wait before it.
PollChooses ==
    /\ Live("Recovering")
    /\ ~run.chosen
    /\ run' \in {IdleRun, Repair(run, run.number), [run EXCEPT !.chosen = TRUE]}
    /\ queue' = <<Apply(run)>>
    /\ owed' = owed \ {run.campaign}
    /\ UNCHANGED <<world, over, mishaps>>

PollRecovered ==
    /\ Live("Recovering")
    /\ run.chosen
    /\ Goes(Repair(run, run.number))
    /\ UNCHANGED <<world, mishaps>>

-----------------------------------------------------------------------------
(* The world.                                                               *)

Elsewhere == UNCHANGED <<job, coordinator, queue>>

\* Reset, gathering and barrier take longer than the two minutes that make a
\* row cold: nobody walks into the open row of a run that is over.
Cold == \A i \in DOMAIN rows : rows[i].outcome = "active" => rows[i].campaign = 0

\* Faulty: ghosts are walked in like the living.
GhostsToo == Members \ inside
LivingOutside == Members \ (inside \cup ghosts)

\* The crossing drive and WalkStrandedBackIn bring the living in.
WalksIn(m) ==
    /\ run.phase \in {"Enter", "StagedInside"}
    /\ run.phase = "Enter" /\ inside = {} => Cold
    /\ m \in LivingOutside
    /\ inside' = inside \cup {m}
    /\ Elsewhere
    /\ UNCHANGED <<ghosts, cleared, full, clears, database, spent, owed>>

\* The exit's crossing, WalkStragglersOut and DriveExitHearths bring them out.
WalksOut(m) ==
    /\ \/ run.phase \in {"Exiting", "Repairing"}
       \/ run.phase = "Resetting" /\ Leader \notin inside
       \/ run.phase = "Idle" /\ hearth # NoEpisode
    /\ m \in inside
    /\ inside' = inside \ {m}
    /\ Elsewhere
    /\ UNCHANGED <<ghosts, cleared, full, clears, database, spent, owed>>

Dies(m) ==
    /\ m \in inside /\ Mishap
    /\ inside' = inside \ {m} /\ ghosts' = ghosts \cup {m}
    /\ Elsewhere
    /\ UNCHANGED <<cleared, full, clears, database, returns, owed>>

\* A ghost rises where he is, or runs back in to his corpse.
Rises(m) ==
    /\ m \in ghosts
    /\ ghosts' = ghosts \ {m}
    /\ Elsewhere
    /\ UNCHANGED <<inside, cleared, full, clears, database, spent, owed>>

RunsBackIn(m) ==
    /\ m \in ghosts /\ returns < MaxReturns
    /\ returns' = returns + 1
    /\ ghosts' = ghosts \ {m} /\ inside' = inside \cup {m}
    /\ Elsewhere
    /\ UNCHANGED <<cleared, full, clears, database, mishaps, owed>>

LastBossDies ==
    /\ inside # {} /\ ~cleared
    /\ run.phase \in {"StagedInside", "Clearing"}
    /\ cleared' = TRUE /\ clears' = clears + 1
    /\ Elsewhere
    /\ UNCHANGED <<party, full, database, spent, owed>>

BagsFill ==
    /\ inside # {} /\ ~full /\ Mishap
    /\ full' = TRUE
    /\ Elsewhere
    /\ UNCHANGED <<party, cleared, clears, database, returns, owed>>

\* MakeRoomInside, or the town trip an idle family may take.
BagsEmpty ==
    /\ full
    /\ inside # {} \/ run.phase = "Idle"
    /\ full' = FALSE
    /\ Elsewhere
    /\ UNCHANGED <<party, cleared, clears, database, spent, owed>>

\* An operator takes the job away, and gives it back.
JobGoes ==
    /\ job /\ Mishap
    /\ job' = FALSE
    /\ UNCHANGED <<world, coordinator, queue, database, returns, owed>>

JobComes ==
    /\ ~job
    /\ job' = TRUE
    /\ UNCHANGED <<world, coordinator, queue, database, spent, owed>>

\* OpenOrTouchRun: the arming drive sees somebody inside.
OpensRow ==
    /\ queue = <<>>
    /\ inside # {} /\ ActiveRow = 0
    /\ rows' = Append(rows, [campaign |-> 0, number |-> 0, outcome |-> "active"])
    /\ UNCHANGED <<world, job, coordinator, asks, done, queue, spent, owed>>

\* CloseAbandonedRuns.  A heartbeat cools for two minutes, so a run the
\* coordinator ends at its next poll is not closed here.
ClosesCold ==
    /\ queue = <<>>
    /\ inside = {} /\ ActiveRow # 0
    /\ run.phase \notin {"StagedInside", "Clearing", "Exiting"} /\ hearth = NoEpisode
    /\ rows' = [rows EXCEPT ![ActiveRow].outcome = "emptied"]
    /\ UNCHANGED <<world, job, coordinator, asks, done, queue, spent, owed>>

\* The server stops and starts.
Restart ==
    /\ Mishap
    /\ run' = IdleRun /\ over' = "no" /\ hearth' = NoEpisode /\ queue' = <<>>
    /\ owed' = {c \in owed : \A i \in DOMAIN queue :
                    ~(queue[i].do = "ask" /\ queue[i].campaign = c)}
    /\ UNCHANGED <<world, job, database, returns>>

-----------------------------------------------------------------------------
PollIdle == PollFinalizes \/ PollAdopts \/ PollStarts
PollOutside ==
    \/ PollRepairs \/ PollResets \/ PollResetFails \/ PollGathers \/ PollRegathers
    \/ PollStagingFails \/ PollOpens \/ PollLeaderInside
PollInside ==
    \/ PollEntersAll \/ PollEnterGivesUp \/ PollFindsNobody \/ PollClears
    \/ PollSplits \/ PollReassembles \/ PollProves \/ PollGivesUp
PollLeaves == PollExits \/ PollExitFails \/ PollEvacuates
PollRecovery == PollChooses \/ PollRecovered
CoordinatorPoll ==
    \/ PollHoldsOut \/ PollStandsDown
    \/ PollIdle \/ PollOutside \/ PollInside \/ PollLeaves \/ PollRecovery

Walks == \E m \in Members : WalksIn(m) \/ WalksOut(m) \/ Rises(m)

Next ==
    \/ CoordinatorPoll \/ ApplyWrite \/ Walks
    \/ \E m \in Members : Dies(m) \/ RunsBackIn(m)
    \/ LastBossDies \/ BagsFill \/ BagsEmpty \/ JobGoes \/ JobComes
    \/ OpensRow \/ ClosesCold \/ Restart

Spec == Init /\ [][Next]_vars

\* The coordinator is polled, the worker works, the drives walk the party, it
\* clears what it fights, the town trip empties the bags, cold rows are
\* closed, and an operator who wants the campaign finished gives the job back.
FairSpec ==
    /\ Spec
    /\ WF_vars(CoordinatorPoll) /\ WF_vars(ApplyWrite) /\ WF_vars(Walks)
    /\ WF_vars(LastBossDies) /\ WF_vars(BagsEmpty) /\ WF_vars(JobComes)
    /\ WF_vars(OpensRow) /\ WF_vars(ClosesCold)

-----------------------------------------------------------------------------
CountsQueued == Cardinality({i \in DOMAIN queue : queue[i].do = "count"})

\* The campaign counts what was cleared: however exits fail, hearths bring the
\* party home, bags evacuate it or the server restarts, no clear fills two of
\* the wanted runs, and nothing else fills one.
ClearCountedOnce == done + CountsQueued <= clears + returns

Attempts == run'.phase = "Resetting" /\ run.phase # "Resetting"

\* The attempt after a failed one waits for its campaign's recovery, across
\* cancelled jobs, town trips, attempts of another campaign and, once the
\* request is written, restarts too.
RecoveryComesFirst == [][Attempts => run'.campaign \notin owed]_vars

\* A campaign is never stopped by what goes wrong: in the end every wanted run
\* is done, nobody is left inside and no run's row stands open.
CampaignFinishes == <>[](done >= Wanted /\ inside = {} /\ ActiveRow = 0)

=============================================================================
