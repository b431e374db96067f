--------------------------- MODULE DisenchantQueue ---------------------------
(***************************************************************************)
(* The disenchant orders (mod_overseer.cpp 16671-17090,                    *)
(* overseer_disenchant.h, overseer_disenchant_store.h): the one kind of    *)
(* command that is claimed, read and completed through asynchronous        *)
(* prepared statements, and that destroys an item only after its reagents  *)
(* have been read back from the bags.                                      *)
(*                                                                         *)
(* One character, to whom every row is addressed.  The store has one       *)
(* worker: statements run in the order they were queued and their answers  *)
(* are handled in that order by later updates of the world.  Each callback *)
(* and each task of the drive is a step of its own; the worker runs in     *)
(* between.                                                                *)
(***************************************************************************)
EXTENDS Naturals, Sequences, FiniteSets

CONSTANTS
    Rows,        \* commands of kind 'disenchant'
    Items,       \* soulbound uncommon pieces the character cannot use
    NoRow, NoItem,
    MaxDust,     \* reagents in the bags (a bound)
    MaxFaults    \* failed statements, cancellations, restarts, ... (a bound)

ASSUME DisenchantAssumption ==
    /\ NoRow \notin Rows /\ NoItem \notin Items
    /\ IsFiniteSet(Rows) /\ IsFiniteSet(Items)
    /\ MaxDust \in Nat \ {0} /\ MaxFaults \in Nat

VARIABLES
    status,     \* status and claimed_by of the row, as the table has it
    sql,        \* statements the worker has not run yet
    answers,    \* results whose callbacks have not run yet
    ownedBusy,  \* _disenchantOwnedBusy
    pendingBusy,\* _disenchantPendingBusy
    claiming,   \* _disenchantClaiming names the character
    task,       \* _disenchantTasks: "none", "driving", "completing"
    completed,  \* _disenchantCompleted
    retired,    \* _disenchantRetired of the character
    window,     \* DisenchantWindows of the character: command and proof
    item,       \* where each piece is
    kept,       \* pieces reserved by overseer_keep
    casting,    \* the piece the spell in progress is cast on
    opened,     \* the piece whose loot window is open (GetLootGUID)
    dust,       \* reagents in the bags
    room,       \* the bags have room
    alive,      \* the character is in the world and alive
    rivals,     \* auxiliary: two rows were driven for it at the same time
    faults      \* bound

table == status
store == <<sql, answers>>
memory == <<ownedBusy, pendingBusy, claiming, task, completed, retired>>
game == <<item, kept, casting, opened, dust, room, alive>>
vars == <<table, store, memory, window, game, rivals, faults>>

Statuses == {"absent", "pending", "mine", "abandoned", "delivered", "ended"}
Pieces == {"bag", "loot", "looted", "destroyed", "away"}

NoWindow == [row |-> NoRow, source |-> NoItem, observed |-> FALSE, before |-> 0]

Statement ==
    [kind : {"pending", "owned"}] \cup [kind : {"claim", "complete", "acknowledge"}, row : Rows]

Answer ==
    [kind : {"failed"}, of : {"pending", "owned"}]
    \cup [kind : {"pending", "owned"}, rows : SUBSET Rows]
    \cup [kind : {"acknowledge"}, row : Rows, over : BOOLEAN]

TypeOK ==
    /\ status \in [Rows -> Statuses]
    /\ sql \in Seq(Statement) /\ answers \in Seq(Answer)
    /\ {ownedBusy, pendingBusy, claiming, room, alive, rivals} \subseteq BOOLEAN
    /\ task \in [Rows -> {"none", "driving", "completing"}]
    /\ completed \subseteq Rows
    /\ retired \in Rows \cup {NoRow}
    /\ window \in [row : Rows \cup {NoRow}, source : Items \cup {NoItem},
                   observed : BOOLEAN, before : 0..MaxDust]
    /\ item \in [Items -> Pieces]
    /\ kept \subseteq Items
    /\ {casting, opened} \subseteq Items \cup {NoItem}
    /\ dust \in 0..MaxDust
    /\ faults \in 0..MaxFaults

Init ==
    /\ status = [r \in Rows |-> "absent"]
    /\ sql = <<>> /\ answers = <<>>
    /\ ownedBusy = FALSE /\ pendingBusy = FALSE /\ claiming = FALSE
    /\ task = [r \in Rows |-> "none"]
    /\ completed = {} /\ retired = NoRow
    /\ window = NoWindow
    /\ item = [i \in Items |-> "bag"]
    /\ kept = {} /\ casting = NoItem /\ opened = NoItem
    /\ dust = 0 /\ room = TRUE /\ alive = TRUE
    /\ rivals = FALSE
    /\ faults = 0

Fault == faults < MaxFaults /\ faults' = faults + 1    \* bound

-----------------------------------------------------------------------------
(* The worker of the store. *)

Claimed == {r \in Rows : status[r] = "mine"}

\* What a statement does to the table.
Written(s) ==
    CASE s.kind = "claim" /\ status[s.row] = "pending" -> [status EXCEPT ![s.row] = "mine"]
      [] s.kind = "complete" /\ status[s.row] = "mine" -> [status EXCEPT ![s.row] = "delivered"]
      [] OTHER -> status

\* The answer of a query; an update has none.
Read(s) ==
    CASE s.kind = "pending" ->
            <<[kind |-> "pending", rows |-> {r \in Rows : status[r] = "pending"}]>>
      [] s.kind = "owned" -> <<[kind |-> "owned", rows |-> Claimed]>>
      [] s.kind = "acknowledge" ->
            <<[kind |-> "acknowledge", row |-> s.row, over |-> s.row \notin Claimed]>>
      [] OTHER -> <<>>

\* A query that fails gives no result; an acknowledgement without one reads
\* like a row still claimed.
Failed(s) ==
    CASE s.kind \in {"pending", "owned"} -> <<[kind |-> "failed", of |-> s.kind]>>
      [] s.kind = "acknowledge" -> <<[kind |-> "acknowledge", row |-> s.row, over |-> FALSE]>>
      [] OTHER -> <<>>

WorkerRuns ==
    /\ sql # <<>>
    /\ sql' = Tail(sql)
    /\ \/ /\ status' = Written(Head(sql))
          /\ answers' = answers \o Read(Head(sql))
          /\ UNCHANGED faults
       \/ /\ Fault
          /\ answers' = answers \o Failed(Head(sql))
          /\ UNCHANGED status
    /\ UNCHANGED <<memory, window, game, rivals>>

-----------------------------------------------------------------------------
(* ReadDisenchantCommands and its callbacks. *)

\* At most one read of each kind is outstanding.
ReadDisenchantCommands ==
    /\ sql' = sql \o (IF ownedBusy THEN <<>> ELSE <<[kind |-> "owned"]>>)
                  \o (IF pendingBusy THEN <<>> ELSE <<[kind |-> "pending"]>>)
    /\ ownedBusy' = TRUE /\ pendingBusy' = TRUE
    /\ sql' # sql
    /\ UNCHANGED <<table, answers, claiming, task, completed, retired, window, game, faults, rivals>>

\* A claim nobody has seen in a snapshot is forgotten after 30 seconds.
ClaimingExpires ==
    /\ claiming
    /\ Fault
    /\ claiming' = FALSE
    /\ UNCHANGED <<table, store, ownedBusy, pendingBusy, task, completed, retired, window, game, rivals>>

HasDisenchantWork == claiming \/ \E r \in Rows : task[r] # "none"

Answers(kind) ==
    /\ answers # <<>>
    /\ Head(answers).kind = kind
    /\ answers' = Tail(answers)

\* DisenchantForget: only a window of that command is forgotten.
Forgotten(r) == IF window.row = r THEN NoWindow ELSE window

\* Faulty: the proof of a cancelled order is left where it is.
RetireLeaves(gone) == UNCHANGED <<retired, window>>

\* RetireDisenchant: an order that opened no loot is forgotten, one that did
\* is kept until its piece is accounted for.
Retire(gone) ==
    IF window.row \in gone /\ window.source # NoItem
    THEN retired' = window.row /\ UNCHANGED window
    ELSE /\ window' = IF window.row \in gone THEN NoWindow ELSE window
         /\ UNCHANGED retired

\* The snapshot of this run's claims: rows it names are tasks, tasks it does
\* not name are retired, unless they wait for their acknowledgement.
OwnedAnswered ==
    /\ Answers("owned")
    /\ ownedBusy' = FALSE
    /\ LET owned == Head(answers).rows \ completed
           gone == {r \in Rows : task[r] = "driving" /\ r \notin owned}
       IN  /\ task' = [r \in Rows |-> IF r \in gone THEN "none"
                                      ELSE IF r \in owned /\ task[r] = "none" THEN "driving"
                                      ELSE task[r]]
           /\ claiming' = (claiming /\ owned = {})
           /\ Retire(gone)
    /\ completed' = {}
    /\ rivals' = (rivals \/ \E r, q \in Rows : r # q /\ task'[r] # "none" /\ task'[q] # "none")
    /\ UNCHANGED <<table, sql, pendingBusy, game, faults>>

\* A character with work in hand has its further rows deferred; otherwise the
\* first row is claimed.
PendingAnswered ==
    /\ Answers("pending")
    /\ pendingBusy' = FALSE
    /\ IF HasDisenchantWork \/ Head(answers).rows = {}
       THEN UNCHANGED <<sql, claiming>>
       ELSE /\ \E r \in Head(answers).rows : sql' = Append(sql, [kind |-> "claim", row |-> r])
            /\ claiming' = TRUE
    /\ UNCHANGED <<table, ownedBusy, task, completed, retired, window, game, faults, rivals>>

ReadFailed ==
    /\ Answers("failed")
    /\ IF Head(answers).of = "owned"
       THEN ownedBusy' = FALSE /\ completed' = {} /\ UNCHANGED pendingBusy
       ELSE pendingBusy' = FALSE /\ UNCHANGED <<ownedBusy, completed>>
    /\ UNCHANGED <<table, sql, claiming, task, retired, window, game, faults, rivals>>

Over(r) ==
    /\ window' = Forgotten(r)
    /\ task' = [task EXCEPT ![r] = "none"]
    /\ completed' = completed \cup {r}

\* Faulty: an order sent back to the drive forgets what it consumed.
NotOverForgets(r) ==
    /\ task' = [task EXCEPT ![r] = "driving"]
    /\ window' = Forgotten(r)
    /\ UNCHANGED completed

\* The acknowledgement of CompleteDisenchant: a row still claimed, or no
\* result, sends the order back to the drive.
NotOver(r) ==
    /\ task' = [task EXCEPT ![r] = "driving"]
    /\ UNCHANGED <<window, completed>>

Acknowledged ==
    /\ Answers("acknowledge")
    /\ LET r == Head(answers).row
       IN  IF task[r] = "none" THEN UNCHANGED <<task, window, completed>>
           ELSE IF Head(answers).over THEN Over(r) ELSE NotOver(r)
    /\ UNCHANGED <<table, sql, ownedBusy, pendingBusy, claiming, retired, game, faults, rivals>>

-----------------------------------------------------------------------------
(* The proof: Collect and Finish. *)

Owns(i) == i # NoItem /\ item[i] \in {"bag", "loot", "looted"}
Looted(i) == i # NoItem /\ item[i] = "looted"
HasLoot(i) == i # NoItem /\ item[i] \in {"loot", "looted"}

\* Collect, for the window `w` and the loot of its source: the first full
\* window is the baseline, and what fits is stored.
CollectedWindow(w, i) ==
    IF ~ w.observed /\ item[i] # "looted"
    THEN [w EXCEPT !.observed = TRUE, !.before = dust] ELSE w

\* Faulty: the bags are never full.
StoresUnchecked(w, i) == CollectedWindow(w, i).observed /\ item[i] # "looted"

Stores(w, i) == CollectedWindow(w, i).observed /\ item[i] # "looted" /\ room /\ dust < MaxDust

Collect(w, i) ==
    /\ item' = [item EXCEPT ![i] = IF Stores(w, i) THEN "looted" ELSE
                                   IF @ = "bag" THEN "loot" ELSE @]
    /\ dust' = IF Stores(w, i) THEN dust + 1 ELSE dust
    /\ window' = CollectedWindow(w, i)

\* Faulty: a window seen twice counts twice.
ReadBackTwice(w) == w.source # NoItem /\ w.observed /\ dust > w.before + 1

\* The inventory has what the loot promised on top of what it had.
ReadBack(w) == w.source # NoItem /\ w.observed /\ dust > w.before

\* DisenchantInventory::Release refuses a kept piece, and closes no loot
\* window but that of the source.
MayRelease(w) ==
    /\ item[w.source] = "looted"
    /\ w.source \notin kept
    /\ opened \in {NoItem, w.source}

\* Finish: the proof holds and the source is gone, or goes now.
Finishes(w) == ReadBack(w) /\ (Owns(w.source) => MayRelease(w))

Released(w) ==
    /\ item' = [item EXCEPT ![w.source] = IF Owns(w.source) THEN "destroyed" ELSE @]
    /\ opened' = IF Owns(w.source) THEN NoItem ELSE opened
    /\ UNCHANGED <<kept, casting, dust, room, alive>>

-----------------------------------------------------------------------------
(* DriveDisenchant *)

\* Faulty: the window of the character, whoever's it is.
WindowOfAnyone(r) == [window EXCEPT !.row = r]

\* DisenchantRead
WindowOf(r) == IF window.row = r THEN window ELSE [NoWindow EXCEPT !.row = r]

Driven(r) == task[r] = "driving" /\ retired = NoRow /\ alive

\* CompleteDisenchant
Completes(r) ==
    /\ Driven(r)
    /\ Finishes(WindowOf(r))
    /\ Released(WindowOf(r))
    /\ task' = [task EXCEPT ![r] = "completing"]
    /\ sql' = sql \o <<[kind |-> "complete", row |-> r], [kind |-> "acknowledge", row |-> r]>>
    /\ UNCHANGED <<table, answers, ownedBusy, pendingBusy, claiming, completed, retired,
                   window, faults, rivals>>

\* Loot is open or left from an earlier try: store what fits.
TakesLoot(r) ==
    /\ Driven(r) /\ ~ Finishes(WindowOf(r))
    /\ HasLoot(WindowOf(r).source)
    /\ Collect(WindowOf(r), WindowOf(r).source)
    /\ UNCHANGED <<table, store, memory, kept, casting, opened, room, alive, faults, rivals>>

\* MayDisenchantItem
MayDisenchantItem(i) == Owns(i) /\ i \notin kept

\* The source is written down before the cast; the core may refuse the cast.
Casts(r) ==
    /\ Driven(r) /\ ~ Finishes(WindowOf(r))
    /\ casting = NoItem /\ opened = NoItem
    /\ \E i \in Items :
         /\ MayDisenchantItem(i)
         /\ IF WindowOf(r).source = NoItem THEN TRUE
            ELSE i = WindowOf(r).source /\ ~ HasLoot(i)
         /\ window' = [WindowOf(r) EXCEPT !.source = i]
         /\ casting' \in {i, NoItem}
    /\ UNCHANGED <<table, store, memory, item, kept, opened, dust, room, alive, faults, rivals>>

\* DriveRetiredDisenchant: the loot a cancelled order opened is still taken
\* and released; nothing is cast and nothing acknowledged.
DriveRetiredDisenchant ==
    /\ retired # NoRow /\ alive
    /\ LET w == WindowOf(retired) IN
       \/ /\ Finishes(w)
          /\ Released(w)
          /\ window' = Forgotten(retired)
          /\ retired' = NoRow
       \/ /\ ~ Finishes(w) /\ HasLoot(w.source)
          /\ Collect(w, w.source)
          /\ UNCHANGED <<kept, casting, opened, room, alive, retired>>
       \/ /\ ~ Finishes(w) /\ ~ HasLoot(w.source) /\ casting = NoItem
          /\ window' = Forgotten(retired)
          /\ retired' = NoRow
          /\ UNCHANGED game
    /\ UNCHANGED <<table, store, ownedBusy, pendingBusy, claiming, task, completed, faults, rivals>>

-----------------------------------------------------------------------------
(* The game and the bridge. *)

\* The spell ends: interrupted, or with the loot window open, which the hook
\* before it is sent reads (TakeDisenchantLoot).
CastEnds ==
    /\ casting # NoItem
    /\ casting' = NoItem
    /\ IF Owns(casting)
       THEN \/ /\ opened' = casting
               /\ IF window.source = casting
                  THEN Collect(window, casting)
                  ELSE /\ item' = [item EXCEPT ![casting] = IF @ = "bag" THEN "loot" ELSE @]
                       /\ UNCHANGED <<dust, window>>
            \/ UNCHANGED <<opened, item, dust, window>>
       ELSE UNCHANGED <<opened, item, dust, window>>
    /\ UNCHANGED <<table, store, memory, kept, room, alive, faults, rivals>>

\* DoLootRelease of the core: a disenchanted piece does not outlive its window.
Closed == IF opened = NoItem THEN item ELSE [item EXCEPT ![opened] = "destroyed"]

\* The character closes the window itself.
WindowCloses ==
    /\ opened # NoItem
    /\ opened' = NoItem
    /\ item' = Closed
    /\ UNCHANGED <<table, store, memory, window, kept, casting, dust, room, alive, faults, rivals>>

\* Reagents come and go by other hands, and what comes while a proof is open
\* passes for its loot; a piece not being looted may leave.
BagsChange ==
    /\ Fault
    /\ \/ dust' \in {d \in 0..MaxDust : d = dust + 1 \/ d + 1 = dust}
          /\ UNCHANGED <<item, room, kept>>
       \/ room' = ~ room /\ UNCHANGED <<item, dust, kept>>
       \/ \E i \in Items : /\ kept' = IF i \in kept THEN kept \ {i} ELSE kept \cup {i}
                           /\ UNCHANGED <<item, dust, room>>
       \/ \E i \in Items : /\ item[i] = "bag" /\ i \notin kept
                           /\ item' = [item EXCEPT ![i] = "away"]
                           /\ UNCHANGED <<dust, room, kept>>
    /\ UNCHANGED <<table, store, memory, window, casting, opened, alive, rivals>>

LogsOut ==
    /\ alive /\ Fault
    /\ alive' = FALSE
    /\ casting' = NoItem /\ opened' = NoItem
    /\ item' = Closed
    /\ UNCHANGED <<table, store, memory, window, kept, dust, room, rivals>>

LogsIn ==
    /\ ~ alive
    /\ alive' = TRUE
    /\ UNCHANGED <<table, store, memory, window, item, kept, casting, opened, dust, room, faults, rivals>>

\* The bridge sends a row.
RowArrives ==
    /\ \E r \in Rows : status[r] = "absent" /\ status' = [status EXCEPT ![r] = "pending"]
    /\ UNCHANGED <<store, memory, window, game, faults, rivals>>

\* The bridge or an operator ends a row.
RowEnds ==
    /\ Fault
    /\ \E r \in Rows : /\ status[r] \in {"pending", "mine"}
                       /\ status' = [status EXCEPT ![r] = "ended"]
    /\ UNCHANGED <<store, memory, window, game, rivals>>

\* ExpireAbandonedClaims: a row claimed by a run that is gone ends in error.
AbandonedEnds ==
    /\ \E r \in Rows : /\ status[r] = "abandoned"
                       /\ status' = [status EXCEPT ![r] = "ended"]
    /\ UNCHANGED <<store, memory, window, game, faults, rivals>>

\* A restart loses the memory, the queue, the answers and the loot that was
\* rolled; the new run has a new token, and its claims are its own.
Restart ==
    /\ Fault
    /\ status' = [r \in Rows |-> IF status[r] = "mine" THEN "abandoned" ELSE status[r]]
    /\ sql' = <<>> /\ answers' = <<>>
    /\ ownedBusy' = FALSE /\ pendingBusy' = FALSE /\ claiming' = FALSE
    /\ task' = [r \in Rows |-> "none"]
    /\ completed' = {} /\ retired' = NoRow /\ window' = NoWindow
    /\ item' = [i \in Items |-> IF HasLoot(i) THEN "bag" ELSE item[i]]
    /\ casting' = NoItem /\ opened' = NoItem
    /\ UNCHANGED <<kept, dust, room, alive, rivals>>

Next ==
    \/ WorkerRuns
    \/ ReadDisenchantCommands \/ ClaimingExpires
    \/ OwnedAnswered \/ PendingAnswered \/ ReadFailed \/ Acknowledged
    \/ \E r \in Rows : Completes(r) \/ TakesLoot(r) \/ Casts(r)
    \/ DriveRetiredDisenchant
    \/ CastEnds \/ WindowCloses \/ BagsChange \/ LogsOut \/ LogsIn
    \/ RowArrives \/ RowEnds \/ AbandonedEnds \/ Restart

\* The worker runs, the world updates, a spell ends; a character that is gone
\* comes back or not.
Fairness ==
    /\ WF_vars(WorkerRuns)
    /\ WF_vars(ReadDisenchantCommands)
    /\ WF_vars(OwnedAnswered) /\ WF_vars(PendingAnswered)
    /\ WF_vars(ReadFailed) /\ WF_vars(Acknowledged)
    /\ WF_vars(DriveRetiredDisenchant)
    /\ WF_vars(CastEnds)

Spec == Init /\ [][Next]_vars /\ Fairness

-----------------------------------------------------------------------------
Destroyed == {i \in Items : item[i] = "destroyed"}

(* No order costs the character more than one piece, through refused casts,
   full bags, lost acknowledgements, cancelled rows and restarts: there are
   never more pieces destroyed than rows that left the queue (16971-16998,
   17019-17090).  Two rows driven together break it: each takes the only
   window of the character from the other (16706), and the piece it had
   picked is lost with it. *)
OnePiecePerOrder ==
    rivals \/ Cardinality(Destroyed) <= Cardinality({r \in Rows : status[r] \notin {"absent", "pending"}})

(* A row is answered as delivered only for a piece of its own that was
   consumed: two rows never answer for the same one. *)
AnswersAreEarned ==
    Cardinality({r \in Rows : status[r] = "delivered"}) <= Cardinality(Destroyed)

(* The proof of a piece that was picked always has a task or a retired order
   that will finish it: one without would keep the character from crafting
   until the next restart (17562, HasDisenchantProof). *)
NoProofIsOrphaned ==
    window.source # NoItem => task[window.row] # "none" \/ retired = window.row

\* The reagents the proof counts on were taken by another hand, or the bound
\* on reagents is met.
ReagentsTaken ==
    \/ window.observed /\ dust < window.before + (IF Looted(window.source) THEN 1 ELSE 0)
    \/ dust = MaxDust /\ ~ ReadBack(window)

(* Comment at 16922: "Cancelled rows must stop blocking later work": as long
   as the character is there, nobody takes its reagents or reserves the piece,
   and the bags have room, a cancelled order is let go. *)
CancelledStopsBlocking ==
    <>[](alive /\ room /\ kept = {} /\ ~ ReagentsTaken) => []<>(retired = NoRow)
=============================================================================
