# mod-overseer: verification project

mod-overseer is a module of AzerothCore, a World of Warcraft server. It plays
families of bots through a campaign: a bridge outside the server writes orders
into the database, and the module, polled by the server's world thread, turns
them into moves of the bots (playerbots does the walking and fighting). Almost
all of its logic is in two files: `src/src/mod_overseer.cpp` (the drives, one
per subsystem, 84 615 lines) and `src/src/overseer_decisions.{h,cpp}` (pure
decisions, 55 000 lines). Paths below are relative to `src/src/`; a bare number
is a line of `mod_overseer.cpp`, `dec` is `overseer_decisions.cpp`.

Nothing in the module runs in parallel within a server except the database's
asynchronous worker. What makes it hard is that one operation takes many polls:
between two of them bots die, operators and the bridge change the rows, other
subsystems want the same bot, statements are still on their way, and the server
is restarted. Unit tests call the pure decisions one at a time; the models here
are about what happens between the calls.

## Inventory

`OverseerWorldScript::OnUpdate` (8372-8791) runs each drive when its timer is
due. State is of three kinds: rows in the database, read synchronously and
written mostly by `CharacterDatabase.Execute` (asynchronous, first in first
out); maps in memory, lost at a restart; and the game's own state.

| Component | State | Operations and interaction | Hard part | Correct when |
|---|---|---|---|---|
| Command queue (61690-62840) | `overseer_command` rows; `_verifying` read-backs in memory | claim, execute, watch, expire; the bridge inserts, reads and gives up rows | two servers, crash between claim and answer, late or lost writes, lease against read-back | a command runs at most once, an answer is final, every row is answered |
| Leader intents (`dec` 23480-23721, 5920-6111) | a record per leader: holder, dwell, cooldowns, last asks | ask, end, waive; quest drive, regroup, fetch, travel column, operator | rules in one poll see one another's changes; owners that stop asking | one mover at a time, dwell and cooldown kept, nobody holds for ever |
| Travel column (`overseer_movement_ownership.h`, 6200-7063, 28180-29745) | `travel_npc` of the roster; claims, legs, landings, poison in memory | claim, release, walk, land, refuse, sweep; bridge and operator write it too | a read before a queued write; leftover aims after a restart | a foreign errand is not taken, a claimed walk ends, a standing errand is walked |
| Dungeon run coordinator (37069-47656, 55560-59294) | phase in memory; run rows, recovery requests, runs done in the database | reset, gather, enter, clear, exit, recover; adopts what it finds | restart in any phase, failed exits, full bags, ghosts | each clear counted once, recovery before the next try, the campaign ends |
| Run recovery (42096-44198, 77104-78549) | a rung with its ritual; recovery rows, summon rows | choose a rung, walk, inn, summon, finder | members who never come, a guest swapped into the party, a restart in a rung | the party is the family's again, every rung ends |
| Errands between runs (50936-52430, 59769-60389) | training stop and its leg, town trip, repair leg, holds of the coordinator | claim the columns, wait for one another, end at limits | three drives on one column, a head that changes, legs cut short | legs run down, no errand keeps the campaign |
| Hold register (10005-10966) | one record per bot: verb, deadline, what was taken | hold, take over, release, sweep, retake, roster's give-back | a record replaced while it owes something | what was taken is given back |
| Parked orders (72566-74811, 76072-76432, 80156-82988) | a row in memory per order | stop the bot, cast or walk, answer in a later poll | fights, teleports, log-outs, rows of one bot side by side | rows answered, holds kept and dropped |
| Disenchant queue (16671-17090) | rows claimed by prepared statements, a window with its proof | pick, cast, loot, read back, complete, acknowledge | callbacks in between, lost acknowledgements, cancelled rows | one piece per order, answers earned |
| Economy verbs and kept items (63772-67449, 70867-71176, 78761-79404) | where each piece is; reservations, loaded by the roster poll | give, trade, sell, destroy, bank, buy, auction, mail, vault | the core acts or refuses in silence, stacks merge | answers are true, reserved pieces stay |
| Ways in and out, crossings (38383-41412, 48676-51158) | episodes in memory | doors, exits, resets, ships | a walk that gives up half way | everybody ends on one side |
| Raid run, guild runs, stand-ins (`dec` 16477, 46007, 53732, 54879) | run state and holds | calendar, adoption, hire, dismiss | members leave in the middle | nobody stays pinned or hired |
| Terrain, ghost and stuck recovery (31556-34000) | ladders per bot | rungs by time and distance | two rescuers of one bot | ladder ends |
| Family grouping (9706), flights (18898-19631) | groups of the game; seats | invite, promote, raid; board, fly, land | leader offline, a member left behind | one group; all land |
| Loot council (21197-21749) | rolls | award, hand over | restart between two statements | an item is given once |
| Naturalize, rename, retire (68213-70171) | one pending check per character | log out, settle, change or delete, asked again | a character that changes while it settles | only who was asked for, once |
| Quests, gear, chat, reporting | the game's data | verbs and scoring | data, not control | tests |

`PROJECT.json` lists every component with the reason when it is not modelled,
and every hazard at its line.

## Modules

| Module | Models | Runs |
|---|---|---|
| `CommandPromise` | what a sender of a command is promised, with no tokens, polls or batches | (as a property) |
| `CommandQueue` | the queue: rows, servers, bridge, asynchronous writes | `queue_rivals`, `queue_restart` |
| `LeaderIntent` | the intent book of one leader and the rules that ask it | `intent_leader`, `intent_handback` |
| `TravelAim` | one follower's travel column and its owners | `travel_column` |
| `DungeonRun` | the campaign of one family | `dungeon_campaign` |
| `RunRecovery` | the rungs between two attempts of a run | `recovery_rungs`, `recovery_party` |
| `FamilyErrands` | training stop, repair leg and town trip of one family | `errands_trips` |
| `HoldRegister` | operators on one bot and its hold record | (used by `ParkedOrders`) |
| `ParkedOrders` | the six orders that stop a bot and answer later, on the hold register | `orders_rows` |
| `DisenchantQueue` | the disenchant orders of one character | `disenchant_orders` |
| `Belongings` | the economy verbs over pieces and reservations | `belongings_verbs` |
| `MC...` | the small instances: constants only | |
| `FamilyProofs` | the theorems about `LeaderIntent` and `FamilyErrands` | |
| other `...Proofs` | the theorems about the module they are named after (below) | |

`Next` of each module is a disjunction of named actions, one per handler or per
step of a handler that others may come between. Definitions that start with
"Faulty:" in the comment above them are plausible mistakes; nothing uses them
but the mutation runs, where one replaces the definition of that shape.

Every module's bound on mishaps is one counter (`MaxFaults`, `MaxMishaps`): any
one mishap of the module's list may come at any moment, and where it is two,
any two in any order.

### CommandQueue

A row has the status of its column, the claim token, and its age (time since
its last `UPDATE`). A server's poll is a sequence of steps, because other
servers and the bridge act between its statements: `Resolve` (read-backs of
`verifying` rows), `Expire` (abandoned claims, by token and lease),
`Select` (the batch, oldest first), then for each row `HoldRow` (a row with the
same bot and verb was spoken this poll), `Claim`, `ConfirmLost` or `Execute`.
Answers go into a FIFO of writes that `ApplyWrite` runs later, and that
`LoseWrite` or `Crash` can drop. `BridgeGivesUp` is the one writer outside the
module. It implements `CommandPromise` under `Phase` (pending = waiting, held =
taken, any terminal status = answered).

- `queue_rivals`: two servers on one database, a crash, a failed write: types,
  `AtMostOnce`, `HeldRowIsDriven` (a claimed or verifying row has a living
  driver or will expire), `EndedStaysEnded`, `PromiseKept`.
- `queue_restart`: one server, restarted once: `OneOrderPerTrigger`,
  `LeaseSparesLivingRun` and, under fairness, `EveryRowEnds`.

Bounds: rows (2 or 3), tokens (starts of a server), `MaxAge` (time stands still
until the oldest waiting row is touched), `MaxBacklog`, `MaxFaults`. Three rows
with a batch of two make a held row, a full batch and a row left over; two
tokens make a rival or a restart. Fairness: a server polls and is started
again, the worker works, time passes, bots tick. The bots are assumed to tick
between two polls of one server (`Resolve`).

Orders for one trigger may run out of the order they were written in, though
the comment at 62292 expects it: a row held back goes behind a row selected
later. The model allows it and no property asks about it.

### LeaderIntent

`book` is the `LeaderIntentState` of one leader; times are ages and countdowns
that saturate at the limits. `AskLeaderIntent` and `EndLeaderIntent` are pure
operators on it, as in the code; `AskForLeader` and `EndForLeader` add the
switch and the roster. The family poll is `StartPoll`, `WaiveInAFight`,
`QuestDriveAsks`, `DriveFetch`, `KeepTheFamilyTogether`, in that order, with
the other drives between two polls.

- `intent_leader`: `RunWaitsForNobody`, `DwellKept`, `CooldownHolds`, with the
  quest drive, the regroup, column errands, the run, Jev's picks and a change
  of the roster.
- `intent_handback`: `ExecutorsFollowTheBook`, and under fairness
  `LeaderComesBack`: an owner that stops asking loses the leader, and a wait
  nobody marks again is not kept.

Bounds: dwell 2, stale 1, operator 2, one unit for a pick and a mark: all that
matters is their order (an intent goes stale before its dwell is over, an
operator's lasts longer). One target is enough where the rank of a pick by
target is not in question. Fairness: the poll runs again and again, and time
passes between polls (`SF` on `Tick`, which waits for a poll to end).
`LeaderComesBack` assumes that the quest drive goes on asking.

### TravelAim

`column` and `learn` are the row; `writes` the statements on their way, run in
order by `ApplyWrite`; the rest is memory. Drives read the column as it stands
and queue what they write: `Claim`, `Release`, `EndRun`, and the travel poll,
which sweeps leftovers, prunes, skips, walks, ends and refuses. The bridge's
errands and the operator's guard are `WriteFromOutside`.

- `travel_column`: `ForeignErrandStands` (only those entitled to overwrite
  another's errand do), `ClaimedWalkEnds`, and `ColumnIsNotBlocked` (a point
  nobody can reach is blanked, and an errand that stands is walked again once
  its claimants are done).

Bounds: two statements queued, three orders, one restart, a landing ceiling of
two units, two refusals for a poisoned aim. `calm` is a history flag after
which only the travel drive acts: the liveness properties are about what it
does with what it was left. Fairness: the poll, the worker and time are weakly
fair; a walk's end is strongly fair, for a walk that does not arrive is ended
by its backstop. History on each statement (`own`, `stale`) records who was
entitled when it was queued: a statement overtaken by an order from outside is
a known race of the code, listed as a hazard and not counted here.

### DungeonRun

`run` is the coordinator's state, `over` and `hearth` its two marks that
outlive a run, `rows`, `asks` and `done` the tables; `inside`, `ghosts`,
`cleared` and `full` are the world. One poll is one step that reads the
database and queues its statements, which run before the next poll; a restart
loses the rest of them. Every phase and every way out of it is an action:
holding out for full bags, evacuating, finalizing and adopting what is found
inside, starting or resuming, resetting, gathering, staging failures, entering,
splitting, proving complete, giving up, exiting, failing to exit, choosing a
recovery. `EndRun` is `EndRunAndDecide`, used by all of them.

- `dungeon_campaign`: two wanted runs with two mishaps and one ghost that runs
  back in, in any order. A mishap is a failed step, a death, full bags, a job
  taken back or a restart. `ClearCountedOnce`: runs done never exceed the
  clears (a ghost that runs back into a counted copy may count it again, once
  each: a hazard). `RecoveryComesFirst`: no attempt of a campaign starts over a
  failure of that campaign (at the reset, the staging or the door) before its
  recovery is chosen, the comment at 56868. The history `owed` forgets a failure
  when the family is found inside again and its run adopted or evacuated, and
  when a restart loses the request unwritten: the tables then say nothing of
  it. `CampaignFinishes`: it always ends, all outside, no row open.

The property speaks of each campaign for itself, because before the first clear
two may alternate: with `dungeon_runs_done` at 0 and an entered, uncleared run
as the newest row, Idle opens a new campaign, and the recovery asked for under
the old one waits until the old one is taken up again.

Bounds: two members (inside together, split, one dead), two wanted runs (the
second is the first that can be disturbed by what the first left),
`MaxMishaps` 2 (a restart in the recovery of a failure, a failure after a
restart, two restarts), `MaxReturns` 1. A mishap may come at any poll: the
clocks of the phases are left out, so a model run fails in more ways than a
timer would allow. `TypeOK` bounds what a campaign writes by what it is given:
the runs wanted, the mishaps and the ghosts' ways back. Two assumptions: nobody walks into the open row of a run
that is over, because staging takes longer than `RUN_COLD_SECONDS` (`Cold`),
and abandoned rows are closed only then. Fairness: polls, worker, walks, a
living party's clearing, the town trip and the close of cold rows are weakly
fair; an operator who wants the campaign finished gives the job back
(`JobComes`).

### RunRecovery

What `DungeonRun` has as two polls. `run` is the coordinator's phase, attempt
and rung, `ritual` its summon rung (the row it watches, tries per member, the
summoner and whom he replaced), `asks` and `orders` the two tables, `party` the
group. A poll takes a record `h` of what a rung may change from hand to hand,
as the code takes its references, and stores it once. The summon order the
rung writes is carried out by the verb (`Verb`), and the roster poll invites
whoever is in no group (`KeepFamilyGrouped`).

- `recovery_rungs`: `PartyIsTheFamily` (once no guest is on record, the party
  is the family's again, unless one of the three was out of the world, the
  server restarted, or the poll of the finding came in between);
  `RecoveryEnds` under the only fairness that the coordinator is polled and
  its clock goes on (`PollLate`).
- `recovery_party` (violation, a finding): `GuestLeaves`. The comment at 43468
  says the replaced member is restored when the summon reaches its verdict. A
  second poll with no row in flight finds the guild's warlock in the group
  already, clears `ritualSummonerAdded` (43482), and he stays.

Bounds: a family of three that fills its group (leader, a member who is a
warlock, a straggler) and one guest, one failed attempt, two summons per
member, two statements on their way, one mishap (log-out, fight, other job,
restart). Places are reduced to stone, inn, inside and elsewhere; which rung is
chosen among the open ones is left open, so all rungs are covered.

### FamilyErrands

`stop` and `leg` are the training stops by head, `settled`, `heldSince`,
`runHeld` the coordinator's holds, `trip` the town trip, `column` each member's
travel column with what the worker has still to write. The polls run in the
server's order (`turn`): training stop, coordinator, town trip. The instance
starts where a run ends: one run's loot and damage, one member who learns by a
profession errand.

- `errands_trips`: `StopRunsDown` (whatever is cut short or refused, nothing
  gives a member back a leg he has used); `CampaignGoesOn` (no stop, repair leg
  or hold, that of a former head or of one who cannot reach his trainer
  included, keeps a campaign with room in its bags from its next run).

Bounds: two members are a head and a follower, and two heads; one run; one
mishap (another lead, another job, an errand of the bridge's). Fairness: the
polls go on (`WF` on `PollsGoOn`), a limit that is asked again and again is
found passed (`SF` on `LimitPasses`). No aim is sure to end, no trainer to be
reached (`TrainerReached` has no fairness) and no stop to be closed. Left out: the
counters' own holds, the walk out of an instance at the start of a repair leg,
the 30 s of `reachableAt`, worn against broken gear, what is bought, the quest
hold's clock, restarts.

### HoldRegister and ParkedOrders

`HoldRegister` maps one bot to the bot a call leaves behind: its strategies
("stay", and "mover" for follow and new rpg, which are taken and given back
alike), its hold record, its body. `ParkedOrders` has the rows of six verbs
(hearth, conjure, cast, learn, quest use, mail walk) in `rows`, and the poll in
the order of the code: `StartPoll`, `Resolve` of each parked row,
`CastOwedHearths`, `ReleaseExpiredHolds`, `Orders`, `EndPoll`; between polls
the body changes, spells end, the bot logs in and out, other drives hold it
and let it go, time passes, the server restarts.

- `orders_rows`: `DebtsStayRecorded` (what a first hold takes, and what an
  expired one had taken when another takes it over, stands in the record of the
  hold the bot is under), `OwnersKeepTheirHold` (no other row's end, no other
  drive's release and no sweep lifts the hold of a parked row, before its
  deadline or after; past the deadline a newcomer may take it over, and the
  record is then the newcomer's), `EveryOrderEnds` (each row is answered and the
  bot let go).

What the first does not say is that a release gives everything back: a conjure
row that ends over a mage between two maps does not (`ConjurerGone`, `Forget`).
What the second does not say is what becomes of a row under a newcomer's hold.
Both are below, under Where the code and its text differ.

Bounds: two slots, any two of the six verbs, one hold by another drive (stage,
sick or settle), windows of one to three units in the order the code's limits
have. A third row adds no new pair of owners. Fairness: every step of the poll
is weakly fair, time strongly (it waits for a poll to end). Hunts, quest
parties and guild finder runs are driven by the same poll and are not in it.

### DisenchantQueue

Two asynchronous reads (own rows, pending rows), the claim, completion and
acknowledgement are statements in `sql`, run by `WorkerRuns`, their results in
`answers`, handled by callbacks. `window` is the character's order and proof:
the piece it picked and the reagents it counted before. `Casts`, `CastEnds`,
`TakesLoot`, `WindowCloses` and `Completes` follow one piece to its answer; a
row cancelled on the way is `retired` and finished by itself.

- `disenchant_orders`: `OnePiecePerOrder`, `AnswersAreEarned` (no row answers
  for a piece another has answered for), `NoProofIsOrphaned`,
  `CancelledStopsBlocking`.

`OnePiecePerOrder` leaves out runs in which two rows were driven together
(`rivals`): a claim no snapshot shows for 30 s is forgotten, a second row is
claimed, and the two take the one window from each other; TLC then finds three
pieces spent on two rows. That is in the hazard list and not a finding, for no
text promises otherwise. Bounds: two rows, three pieces (one more than the
orders), reagents up to three, two faults (failed statement, expired claim,
cancelled row, log-out, restart, a reservation or a hand in the bags).
Assumptions: a piece whose window closes is destroyed by the core; the `Defer`
and `SayHeld` statements, which only move and comment rows, are left out. Reagents
that reach the bags by another hand while a proof is open pass for its loot, in
the model as in the code: the read-back counts and cannot tell.

### Belongings

`place` is where each piece is and whose; a verb's pass over its row is one
action, since it runs within one update, and what the core makes of the
request is its nondeterminism (it acts, it refuses in silence, a stack merges
and loses its guid). `Walled` is any early return before the core is asked.
`reserved` are the operator's rows, `keep` what the roster poll last loaded,
`KeepReservedItems` its moves.

- `belongings_verbs`: `AnswersAreTrue` (delivered, by any verb, means the piece
  is where the verb says; a deposit or a withdrawal that says it failed moved
  nothing, though a stack that merges loses its guid) and `KeptIsNotLost` (a
  piece whose reservation is loaded is not sold, destroyed, auctioned, mailed or
  put in a guild bank). What a refused trade, the letter a send names and the
  spare bag of a give do is in the model and not in these two: see Where the
  code and its text differ.

Bounds: two characters, one bag and one stackable piece,
two rows, two faults. Two rows make a refusal remembered and a refusal met
again; characters are interchangeable, which is sound as only safety is
checked.

## What is proved

Eight modules hold theorems, for every value of the constants that satisfies
the named assumption of the module (`QueueAssumption`, `IntentAssumption`,
`TravelAssumption`, `RunAssumption`, `RecoveryAssumption`,
`ErrandsAssumption`, `ConstantsAssumption`, `DisenchantAssumption`,
`BelongingsAssumption`; TLC evaluates each in its runs). An invariant a run checks is seldom inductive; what
each proof adds to it was checked by TLC on the run's constants first.

- **Queue.** `QueueTypes`, `CommandsRunAtMostOnce`, `AnswersAreFinal`,
  `QueueKeepsPromise` (the refinement of `CommandPromise`: `PromiseInit` and
  `PromiseStep`, through the effect of a step on one row's phase),
  `OneUnreadOrderPerTrigger`, `HeldRowsAreDriven`,
  `LeaseEndsOnlyWhatIsAbandoned`. `AtMostOnce` is not inductive: a row could be
  claimed, executed and claimed again. `QueueInv` adds that a token belongs to
  one start of one server (`TokenOfOne`), that a waiting row has not run
  (`WaitingIsFresh`), that a poll's cursor points into a batch without
  duplicates (`CursorInBatch`) and that the only row a poll has still to reach
  and holds is the one it is confirming (`UnreachedIsUnrun`). One order per
  trigger needs `OrdersAreSpoken`: whatever the bots have not read was said in
  this very poll. The driver of a held row may be a statement on its way, so
  `HeldRowsAreDriven` needs `VerifyingIsWatched`: a queued finish that makes a
  row verifying is followed by its read-back, or by a statement that ends it.
  `LeaseEndsOnlyWhatIsAbandoned` is about one worldserver (its hypothesis is
  that any two servers are the same), as the run is: with two, the lease of the one
  ends a claim of the other by the clock alone (`WritesAreOwn` says what a
  server's own statements may name).
- **Leader intents.** `IntentTypes`, `RunIsNeverMadeToWait`,
  `HoldersKeepTheirDwell`, `CooldownsHold`, `PollFollowsTheBook`. `BookMove`
  lists what any step can do to the book, and `MoveEffect` reduces it to four
  outcomes. Two facts strengthen the types: a waived dwell was earned by a
  fight in this tenure (`WaiverIsEarned`; without it a new holder could lose
  his dwell to the last one's fight), and only regroup, fetch and run ever cool
  (`OnlyTheseCool`; without it an owner of two kinds could slip into one that
  cools).
- **Travel column.** `TravelTypes`, `ForeignErrandsStand`. A statement is run
  long after the column was read for it, so the action property needs what the
  queue remembers: all but the first statement are marked as overtaken
  (`LaterAreStale`), and the first one was overtaken, or the book had the column
  when it was made, or whoever made it may still take what stands there
  (`HeadIsEntitled`). The assumption asks that guards, counters, points and
  named errands are different aims, as their spellings are in the column.
- **Dungeon run.** `ClearsFillOneRun`, `FailuresRecoverFirst`, `CampaignTypes`,
  `CampaignIsBounded`. `ClearCountedOnce` says nothing of a run that is cleared and not yet counted, so `Budget` counts it
  too: runs done, a count on its way to the worker and a clear still to be
  found (`Pending`: a verdict in the run or in the hearths it left behind, the
  mark of a completed run with somebody inside, a cleared copy with somebody
  inside) are together no more than the clears. `Pending` is one, not several,
  because the run and the hearths never both hold a verdict that will be
  counted (`HearthWaits`, `VerdictExits`), and nobody walks into an old clear
  (`FreshCopy`: from the reset to the door the copy is new; `Unmarked`: a run
  under way carries no mark). `RecoveryComesFirst` is about what Idle can read
  of a failure it has no memory of. `Kept`: a recovery owed is asked for by a
  statement on its way, or by a request in the table that `Awaits` it: the
  newest of its campaign, not applied, newer than every row of it, with no
  statement on its way that would change that; `ResumesWhatAwaits` shows that
  Idle then resumes it. It stays so because a campaign under way is owed nothing
  (`WaitsItsTurn`), a request is the last statement of its poll (`AskIsLast`:
  the rows queued with it are older), and a failed attempt is below the last
  wanted one, so that it is tried again at all (`Numbered`: no run has a number
  beyond the next). `CampaignTypes` is about every variable, the queue too, with
  numbers of any size; `CampaignIsBounded` bounds them. `Budget` says that no
  more runs are done than are wanted or made again by a ghost's way back, for
  nothing is run once all is done (`RunsWanted`). A row or a clear is written
  long after what caused it, so `AllPaid` adds what the state may still write
  with no mishap more: a record on its way (one at most, `OneRecord`), the row
  the arming drive may open for who is inside (`Vacant`), the row and the clear
  the run under way has coming (`Coming`, `ToClear`), one more while the job is
  gone or the bags are full (`Doubt`). All of it is paid for by a run done, by a
  count on its way, or by a mishap or a ghost's way back, two each: the attempt
  that fails, and what is opened for those it leaves inside. `Bounds` carries
  the names and the streaks: a campaign is named after the rows that have a name
  (`Campaigned`), and a failure has a row, a mishap or a way back of its own
  (`Tries`; a staging given up over somebody inside is nobody's mishap, and
  `Astray` says that his way back is not spent before).
- **Run recovery.** `RecoveryTypes`, `GuestGivesHisSeatBack`.
  `PartyIsTheFamily` speaks of the time when no guest is on record. While one
  is, `SeatKept` says who sits where: the guest in the seat of the one member
  that the ritual has recorded. A poll works on a record that passes from hand
  to hand, so each rung's operator is a lemma that keeps `Steady`, and
  `GuestHasAReason` says that a summoner is on record only during a summon.
- **Errands.** `ErrandsKeepTheirTypes`, `TrainingStopsRunDown`. A drive of a
  training stop is a long definition with four outcomes: it waits, closes the
  stop, sends the next leg or idles (`DrivenCases`, proved for any stop, leg and
  column, since the coordinator drives a stop it has settled a member of a
  moment before). What the type
  invariant says of a leg (`LegsFit`: it is walked in an open stop and for one
  member) carries the second half, for it is by that member that a leg is
  counted as used. Each outcome, lesson, rest and release is then shown
  to give no member a leg back (`Spends`); a leg sent is one picked for a
  member with a try left, so that it uses one up.
- **Parked orders.** `ParkedOrdersTypes`, `DebtsAreCarried`,
  `OwnersKeepHolds`. `Sound` adds to the types that a deadline belongs to a
  hold. `Accounted` says that what was taken is on record and that the record
  owes both strategies (without the second half a bot that logs in again under
  its hold would be held without a debt). Each operator of `HoldRegister` is a
  lemma that it `Keeps` a bot sound, and accounted for if it was, but for
  `Forget`, which leaves no record; the rows' steps are compositions of them. A parked row's hold `Stands` through each step or is
  `TakenOver` past its deadline; that the sweep spares it is `ExpireGood`.
- **Disenchant queue.** `DisenchantTypes`, `ProofsAreFinished`,
  `DeliveredRowsArePaid`, `OneOrderCostsOnePiece`. A count cannot be followed
  from step to step, so it is witnessed: `Earned` is an injection from the rows
  delivered, or about to be, to destroyed pieces; `Spent` is one from pieces
  gone or picked to rows the run is through with. That such a row is not taken
  up again needs `Books`: what the snapshots and acknowledgements on their way
  may still say of it. `SpendingInv` asks for `Spent` only while no two rows
  were driven together (`rivals`), as `OnePiecePerOrder` does.
- **Belongings.** `BelongingsTypes`, `KeptPiecesAreNotLost`, `VerbsAnswerTruly`.
  The invariant is the types and `Honesty`, what the answers of all verbs are
  worth, those that `AnswersAreTrue` does not speak of too; `SparesOnly` says how
  a reserved piece can leave at all. What makes them hold is a fact about each
  verb (`Row`: where its one piece may go, what it may answer, whom it leaves
  alone), proved verb by verb for all that the core may do with the request.

Only model-checked:

- liveness: `EveryRowEnds`, `LeaderComesBack`, `ClaimedWalkEnds`,
  `ColumnIsNotBlocked`, `CampaignFinishes`, `RecoveryEnds`, `CampaignGoesOn`,
  `EveryOrderEnds`, `CancelledStopsBlocking`: the prover handles neither
  fairness with ENABLED nor induction over data;
- `GuestLeaves`, the property of the finding, which does not hold.

## Where the code and its text differ

`GuestLeaves` has a run that shows it violated. The others came up while the
modules were written. Each is a behaviour of the module named, and no property
or theorem speaks of it, one way or the other.

- `ParkedOrders`, `ConjurerGone`: the conjure rows look their mage up in the
  world (72799), so one between two maps passes for logged out: his record is
  erased without giving anything back (72807, 10762-10773) and he keeps the
  stay. The comment there counts on a relog that rebuilds his strategies, and
  10723 says that every exit runs the release because a hold not released is a
  character stopped and forgotten.
- `ParkedOrders`, `HoldStill`: the release compares verbs to keep the end of a
  hearth from handing the mover back under a running conjure (10734-10741). A
  conjure may stand under a hold in the hearth's name all the same: asserted
  again while in force (10655-10721), or taken over past its deadline.
- `FamilyErrands`, `Released`: a repair leg or a trip that ends releases the head
  by name in the update in which his stop claimed an aim (51060, 51654). The
  statement already queued writes the aim, unclaimed; nobody may blank an
  unclaimed aim of a head who has `learn_skill`, and the stop asks for its limit
  only when no aim stands. With a trainer he cannot reach it outlasts the limit
  that `overseer_decisions.h:23791-23799` gives it.
- `Belongings`, `GiveMakesRoom`: the spare bag of a give (64274) is looked for
  without asking the reservations, though `2026_09_24_06_overseer_keep.sql:4-6`
  promises that nothing the module does may give a reserved item.
- `Belongings`, `TradeAnswer`: a traded stack that merged has no guid any more,
  and the row says that it did not move (64546, against 64533-64537).
- `Belongings`, `Posted`: the letter to a receiver offline is read from a table
  its transaction has not reached (79090), and an older one of that sender and
  subject is named as the proof that `2026_09_05_03_overseer_mail.sql:69-77` and
  79028-79032 promise.

## Hazards without a property

- Order of rows with one trigger (62374) and the release before its claim has
  landed (6206): the models have both and no text promises otherwise where they
  bite; see above.
- A ghost back in a counted copy (`dec` 2843): the code keeps no memory of a
  copy it has counted, so `ClearCountedOnce` allows one count per return.
- A recovery found by its attempt number over the whole campaign (42179): only
  an evacuated attempt or one whose request a restart lost reaches it, and
  `RecoveryComesFirst` leaves both out.
- The window before reservations are first loaded (8492): in the model, and no
  text bounds it.

## Not modelled

- Geometry: routes, distances, threat, line of sight. A walk arrives or gives
  up; which is the world's choice.
- The game's data and scoring (gear, quests, professions, prices).
- In `DungeonRun`: members offline or not to be steered, the finder, the
  Stratholme yard, maps whose completion nobody can know, the gates that only
  keep an idle family idle, the town-stop question, an operator's reset of the
  count.
- In `TravelAim`: the campaign's bind trip over an errand, the column's width, a
  change of map between refusals, a disabled roster row.
- In `LeaderIntent`: more than one leader (the book keeps them apart), the text
  of answers.
- In `RunRecovery`: routes, binds, the clocks' values, the watchdogs of the
  phases before it; leadership, raids and foreign groups in the grouping.
- In `Belongings`: money, repair, partial stacks, what is inside a bag that
  moves; the operator's naturalize verb, whose strip destroys issued pieces
  without asking the reservations.
- Everything PROJECT.json lists as `not_modelled`.

## Plan

In this order; each step adds a module, its small instance, properties aimed at
hazards, and proofs where a safety property carries the component.

1. `RaidRun` (`StepRaidRun`, `dec` 16477) with its drive, guild runs and
   stand-ins: nobody stays pinned or hired after the run.
2. Crossings and doors (48676, 38383): a member is on one side, and stays with
   the party; ways out and resets beside `DungeonRun`.
3. Ghost, terrain and stuck recovery (`dec` 784-1149, 20262): ladders that end,
   one rescuer at a time.
4. Naturalize, rename, retire (68213-70171): a character is changed or deleted
   only as last asked, and the ledger, written asynchronously, against a second
   row that reads it too early.
5. Loot council: an item is given once, across a restart. Flights, and the rest
   of family grouping.
6. Compositions: the book with the column (a claim asks the book, a release
   ends the intent), the errands with the book, the run with its recovery.
