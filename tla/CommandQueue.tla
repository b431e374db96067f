---------------------------- MODULE CommandQueue ----------------------------
(***************************************************************************)
(* The `overseer_command` queue: rows an outside system (the bridge)       *)
(* inserts, and the worldservers that drain them                           *)
(* (OverseerWorldScript::DeliverPendingCommands, mod_overseer.cpp).        *)
(*                                                                         *)
(* A worldserver polls in one thread, but its statements meet the other    *)
(* processes' in the database: a poll is therefore the sequence of steps   *)
(*   Resolve, Expire, Select, then for each row Hold or Claim and Confirm. *)
(* `Query` and `DirectExecute` take effect in the step that issues them;   *)
(* `Execute` is appended to `writes` and reaches the database later, in    *)
(* order (one asynchronous worker).                                        *)
(***************************************************************************)
EXTENDS Naturals, Sequences, FiniteSets

CONSTANTS
    NRows,      \* rows the bridge may ever insert; a row is its id
    Servers,    \* worldserver processes that share the characters database
    Tokens,     \* values MakeRunToken can return: one per process start
    NoToken,    \* claimed_by = ''
    PerPoll,    \* COMMANDS_PER_POLL
    MaxAge,     \* seconds a row may go untouched (a bound)
    Lease,      \* COMMAND_CLAIM_LEASE_SECONDS
    Grace,      \* VERIFY_GRACE_MS, in polls
    Ceiling,    \* the longest a read-back waits for a teleport, in polls
    KeyOf,      \* row -> "target + verb", or NoKey for a kind with a handler
    NoKey,
    Answers,    \* statuses a handler may leave a claimed row in
    ReadBacks,  \* statuses a read-back may end a row in
    MaxBacklog, \* async statements a poll may still find unsent (a bound)
    MaxFaults   \* database writes that may fail, in one behaviour

Rows == 1 .. NRows
Terminal == {"delivered", "applied", "unchanged", "error"}
Held == {"claimed", "verifying"}

ASSUME QueueAssumption ==
    /\ NRows \in Nat /\ PerPoll \in Nat \ {0} /\ MaxFaults \in Nat /\ MaxBacklog \in Nat
    /\ MaxAge \in Nat /\ Lease \in 0 .. MaxAge
    /\ Grace \in Nat \ {0} /\ Ceiling \in Nat /\ Grace <= Ceiling
    /\ NoToken \notin Tokens
    /\ Answers \subseteq Terminal \cup {"verifying"}
    /\ ReadBacks \subseteq Terminal \ {"delivered"}
    /\ DOMAIN KeyOf = Rows

VARIABLES
    status, claimedBy, age,         \* the overseer_command table
    token, pc, batch, at,           \* g_runToken, where the poll is, its cursor
    spoken, checks, waited, writes, \* sentThisPoll, read-backs, async writes
    unread,                         \* orders a bot's AI has not read yet
    runs, used, faults              \* history: executions, tokens, failed writes

table == <<status, claimedBy, age>>
poll == <<pc, batch, at, spoken>>
readBacks == <<checks, waited>>
history == <<runs, used, faults>>
vars == <<table, token, poll, readBacks, writes, unread, history>>

(***************************************************************************)
(* What the async queue carries: the finish of WriteCommandRow, the touch  *)
(* of a held row, the expiry of an abandoned claim.                        *)
(***************************************************************************)
\* Faulty: an abandoned row is handed back to the queue.
ExpiryRequeues(r, by) ==
    [op |-> "expire", row |-> r, from |-> "held", to |-> "pending", by |-> by]

Finish(r, from, to, by) ==
    [op |-> "finish", row |-> r, from |-> from, to |-> to, by |-> by]
Touch(r) ==
    [op |-> "touch", row |-> r, from |-> "pending", to |-> "pending", by |-> NoToken]
Expiry(r, by) ==
    [op |-> "expire", row |-> r, from |-> "held", to |-> "error", by |-> by]

Write == [op : {"finish"}, row : Rows, from : Held,
          to : Terminal \cup {"verifying"}, by : Tokens]
    \cup [op : {"touch"}, row : Rows, from : {"pending"}, to : {"pending"},
          by : {NoToken}]
    \cup [op : {"expire"}, row : Rows, from : {"held"}, to : {"error"},
          by : Tokens \cup {NoToken}]

TypeOK ==
    /\ status \in [Rows -> {"absent", "pending"} \cup Held \cup Terminal]
    /\ claimedBy \in [Rows -> Tokens \cup {NoToken}]
    /\ age \in [Rows -> 0 .. MaxAge]
    /\ token \in [Servers -> Tokens \cup {NoToken}]
    /\ pc \in [Servers -> {"down", "idle", "expire", "select", "row", "confirm"}]
    /\ batch \in [Servers -> Seq(Rows)]
    /\ at \in [Servers -> Nat \ {0}]
    /\ spoken \in [Servers -> SUBSET {KeyOf[r] : r \in Rows}]
    /\ checks \in [Servers -> SUBSET Rows]
    /\ waited \in [Rows -> 0 .. Ceiling]
    /\ writes \in [Servers -> Seq(Write)]
    /\ unread \in [Servers -> SUBSET Rows]
    /\ runs \in [Rows -> Nat]
    /\ used \in SUBSET Tokens
    /\ faults \in 0 .. MaxFaults

Init ==
    /\ status = [r \in Rows |-> "absent"]
    /\ claimedBy = [r \in Rows |-> NoToken]
    /\ age = [r \in Rows |-> 0]
    /\ token = [s \in Servers |-> NoToken]
    /\ pc = [s \in Servers |-> "down"]
    /\ batch = [s \in Servers |-> <<>>]
    /\ at = [s \in Servers |-> 1]
    /\ spoken = [s \in Servers |-> {}]
    /\ checks = [s \in Servers |-> {}]
    /\ waited = [r \in Rows |-> 0]
    /\ writes = [s \in Servers |-> <<>>]
    /\ unread = [s \in Servers |-> {}]
    /\ runs = [r \in Rows |-> 0]
    /\ used = {}
    /\ faults = 0

-----------------------------------------------------------------------------
(* The order the database returns rows in, and the LIMIT.                   *)

Least(m, n) == IF m < n THEN m ELSE n

Orders(S) == {f \in [1 .. Cardinality(S) -> S] :
                 \A i, j \in DOMAIN f : f[i] = f[j] => i = j}

\* ORDER BY updated_at, id.
PendingBefore(r, q) == age[r] > age[q] \/ (age[r] = age[q] /\ r < q)

\* ORDER BY updated_at alone: rows of one second come in any order.
HeldBefore(r, q) == age[r] >= age[q]

\* The results of SELECT ... FROM S ORDER BY Before LIMIT PerPoll.
Selections(S, Before(_, _)) ==
    {w \in UNION {Orders(T) : T \in SUBSET S} :
        /\ Len(w) = Least(PerPoll, Cardinality(S))
        /\ \A i, j \in DOMAIN w : i < j => Before(w[i], w[j])
        /\ \A i \in DOMAIN w : \A q \in S :
              (\A j \in DOMAIN w : w[j] # q) => Before(w[i], q)}

PendingRows == {r \in Rows : status[r] = "pending"}
\* Faulty: a row that waits for its read-back is not looked at.
ClaimedRows == {r \in Rows : status[r] = "claimed"}

HeldRows == {r \in Rows : status[r] \in Held}

-----------------------------------------------------------------------------
(* The bridge (outside this repository) and time.                           *)

Insert(r) ==
    /\ status[r] = "absent"
    /\ \A q \in Rows : q < r => status[q] # "absent"
    /\ status' = [status EXCEPT ![r] = "pending"]
    /\ UNCHANGED <<claimedBy, age, token, poll, readBacks, writes, unread, history>>

\* The bridge stops waiting for an answer and ends the row itself.
BridgeGivesUp(r) ==
    /\ status[r] \in {"pending"} \cup Held
    /\ status' = [status EXCEPT ![r] = "error"]
    /\ age' = [age EXCEPT ![r] = 0]
    /\ UNCHANGED <<claimedBy, token, poll, readBacks, writes, unread, history>>

\* A second passes for the rows somebody still waits on. MaxAge bounds how
\* long a row is left untouched: time stands still until it is touched.
Waiting == {r \in Rows : status[r] \in {"pending"} \cup Held}

Tick ==
    /\ Waiting # {}
    /\ \A r \in Waiting : age[r] < MaxAge      \* bound
    /\ age' = [r \in Rows |-> IF r \in Waiting THEN age[r] + 1 ELSE age[r]]
    /\ UNCHANGED <<status, claimedBy, token, poll, readBacks, writes, unread, history>>

\* The bots' AI ticks and reads the order in its trigger.
BotsTick(s) ==
    /\ unread[s] # {}
    /\ unread' = [unread EXCEPT ![s] = {}]
    /\ UNCHANGED <<table, token, poll, readBacks, writes, history>>

-----------------------------------------------------------------------------
(* One worldserver: start, crash, and the steps of a poll.                  *)

\* A process starts with an empty memory and a token no other start has.
Start(s, t) ==
    /\ pc[s] = "down"
    /\ t \notin used
    /\ pc' = [pc EXCEPT ![s] = "idle"]
    /\ token' = [token EXCEPT ![s] = t]
    /\ used' = used \cup {t}
    /\ UNCHANGED <<table, batch, at, spoken, readBacks, writes, unread, runs, faults>>

\* Memory and the statements not yet sent die with the process.
Crash(s) ==
    /\ pc[s] # "down"
    /\ used # Tokens \/ \E z \in Servers \ {s} : pc[z] # "down"  \* bound
    /\ pc' = [pc EXCEPT ![s] = "down"]
    /\ token' = [token EXCEPT ![s] = NoToken]
    /\ batch' = [batch EXCEPT ![s] = <<>>]
    /\ at' = [at EXCEPT ![s] = 1]
    /\ spoken' = [spoken EXCEPT ![s] = {}]
    /\ checks' = [checks EXCEPT ![s] = {}]
    /\ waited' = [r \in Rows |-> IF r \in checks[s] THEN 0 ELSE waited[r]]
    /\ writes' = [writes EXCEPT ![s] = <<>>]
    /\ unread' = [unread EXCEPT ![s] = {}]
    /\ UNCHANGED <<table, history>>

\* ResolveStrategyChecks and the checks like it: each read-back ends its row
\* or waits on. It may wait for a teleport up to Ceiling polls, may say
\* "unchanged" only after Grace of them.
Resolve(s) ==
    /\ pc[s] = "idle"
    /\ Len(writes[s]) <= MaxBacklog    \* bound
    /\ unread[s] = {}  \* the AI ticks far faster than the queue polls
    /\ \E v \in [checks[s] -> {"wait"} \cup ReadBacks] :
         /\ \A r \in checks[s] :
              /\ v[r] = "wait" => waited[r] + 1 < Ceiling
              /\ v[r] = "unchanged" => waited[r] + 1 >= Grace
         /\ LET over == {r \in checks[s] : v[r] # "wait"} IN
            /\ \E o \in Orders(over) :
                 writes' = [writes EXCEPT ![s] = @ \o
                   [i \in DOMAIN o |-> Finish(o[i], "verifying", v[o[i]], token[s])]]
            /\ checks' = [checks EXCEPT ![s] = @ \ over]
            /\ waited' = [r \in Rows |-> CASE r \in over -> 0
                                          [] r \in checks[s] \ over -> waited[r] + 1
                                          [] OTHER -> waited[r]]
    /\ pc' = [pc EXCEPT ![s] = "expire"]
    /\ UNCHANGED <<table, token, batch, at, spoken, unread, history>>

\* Faulty: the token is not compared.
ClaimIsAbandonedByAge(r, runToken) == age[r] >= Lease

\* A row this run holds is never abandoned, however long it takes.
ClaimIsAbandoned(r, runToken) == claimedBy[r] # runToken /\ age[r] >= Lease

\* ExpireAbandonedClaims: of the oldest held rows, end the abandoned ones.
Expire(s) ==
    /\ pc[s] = "expire"
    /\ \E w \in Selections(HeldRows, HeldBefore) :
         LET gone == {w[i] : i \in {j \in DOMAIN w : ClaimIsAbandoned(w[j], token[s])}} IN
         \E o \in Orders(gone) :
           writes' = [writes EXCEPT ![s] = @ \o
                        [i \in DOMAIN o |-> Expiry(o[i], claimedBy[o[i]])]]
    /\ pc' = [pc EXCEPT ![s] = "select"]
    /\ UNCHANGED <<table, token, batch, at, spoken, readBacks, unread, history>>

\* The batch of this poll, in the order it will be driven.
Select(s) ==
    /\ pc[s] = "select"
    /\ \E w \in Selections(PendingRows, PendingBefore) :
         /\ batch' = [batch EXCEPT ![s] = w]
         /\ pc' = [pc EXCEPT ![s] = IF w = <<>> THEN "idle" ELSE "row"]
    /\ UNCHANGED <<table, token, at, spoken, readBacks, writes, unread, history>>

\* result->NextRow(): the next row of the batch, or the end of the poll.
NextRow(s) ==
    IF at[s] < Len(batch[s])
    THEN /\ at' = [at EXCEPT ![s] = @ + 1]
         /\ pc' = [pc EXCEPT ![s] = "row"]
         /\ UNCHANGED batch
    ELSE /\ at' = [at EXCEPT ![s] = 1]
         /\ pc' = [pc EXCEPT ![s] = "idle"]
         /\ batch' = [batch EXCEPT ![s] = <<>>]

\* What is said this poll once row r has been looked at.
Saying(s, r) == spoken[s] \cup ({KeyOf[r]} \ {NoKey})
SpokenNext(s, heard) ==
    spoken' = [spoken EXCEPT ![s] = IF at[s] < Len(batch[s]) THEN heard ELSE {}]

\* Faulty: the hold rule is not asked.
NeverHold(s, r) == FALSE

\* HoldForSharedTrigger: this verb already went to this bot in this poll.
HoldForSharedTrigger(s, r) == KeyOf[r] # NoKey /\ KeyOf[r] \in spoken[s]

\* The row stays pending and goes to the tail.
HoldRow(s) ==
    /\ pc[s] = "row"
    /\ HoldForSharedTrigger(s, batch[s][at[s]])
    /\ writes' = [writes EXCEPT ![s] = Append(@, Touch(batch[s][at[s]]))]
    /\ NextRow(s)
    /\ SpokenNext(s, spoken[s])
    /\ UNCHANGED <<table, token, readBacks, unread, history>>

\* UPDATE ... SET status = 'claimed' WHERE status = 'pending', which may fail
\* without saying so.
Claim(s) ==
    LET r == batch[s][at[s]] IN
    /\ pc[s] = "row"
    /\ ~ HoldForSharedTrigger(s, r)
    /\ pc' = [pc EXCEPT ![s] = "confirm"]
    /\ spoken' = [spoken EXCEPT ![s] = Saying(s, r)]
    /\ \/ /\ status[r] = "pending"
          /\ status' = [status EXCEPT ![r] = "claimed"]
          /\ claimedBy' = [claimedBy EXCEPT ![r] = token[s]]
          /\ age' = [age EXCEPT ![r] = 0]
          /\ UNCHANGED faults
       \/ /\ status[r] # "pending"
          /\ UNCHANGED <<table, faults>>
       \/ /\ faults < MaxFaults
          /\ faults' = faults + 1
          /\ UNCHANGED table
    /\ UNCHANGED <<token, batch, at, readBacks, writes, unread, runs, used>>

\* Faulty: any claim reads as one's own.
WonAnyClaim(s, r) == status[r] = "claimed"

\* The read-back of the claim shows this run's token.
WonClaim(s, r) == status[r] = "claimed" /\ claimedBy[r] = token[s]

\* The claim is somebody else's, or the row was ended: do not run it.
ConfirmLost(s) ==
    /\ pc[s] = "confirm"
    /\ ~ WonClaim(s, batch[s][at[s]])
    /\ NextRow(s)
    /\ SpokenNext(s, spoken[s])
    /\ UNCHANGED <<table, token, readBacks, writes, unread, history>>

\* Faulty: the handler answers "verifying" and leaves no read-back behind.
WatchNothing(s, r, answer) == checks[s]

\* The read-backs of s once row r has been answered.
Watch(s, r, answer) == IF answer = "verifying" THEN checks[s] \cup {r} ELSE checks[s]

\* Run the command. A handler that answers "verifying" leaves a read-back.
Execute(s) ==
    LET r == batch[s][at[s]] IN
    /\ pc[s] = "confirm"
    /\ WonClaim(s, r)
    /\ runs' = [runs EXCEPT ![r] = @ + 1]
    /\ unread' = [unread EXCEPT ![s] = IF KeyOf[r] # NoKey THEN @ \cup {r} ELSE @]
    /\ \E a \in Answers :
         /\ writes' = [writes EXCEPT ![s] = Append(@, Finish(r, "claimed", a, token[s]))]
         /\ checks' = [checks EXCEPT ![s] = Watch(s, r, a)]
    /\ NextRow(s)
    /\ SpokenNext(s, spoken[s])
    /\ UNCHANGED <<table, token, waited, used, faults>>

-----------------------------------------------------------------------------
(* The database applies the oldest asynchronous statement of a server.      *)

\* Faulty: a finish is not conditional on the state the row is in.
MatchesByToken(w) ==
    CASE w.op = "finish" -> claimedBy[w.row] = w.by
      [] w.op = "touch"  -> status[w.row] = "pending"
      [] w.op = "expire" -> status[w.row] \in Held /\ claimedBy[w.row] = w.by

\* The WHERE clause of a statement.
Matches(w) ==
    CASE w.op = "finish" -> status[w.row] = w.from /\ claimedBy[w.row] = w.by
      [] w.op = "touch"  -> status[w.row] = "pending"
      [] w.op = "expire" -> status[w.row] \in Held /\ claimedBy[w.row] = w.by

\* Every UPDATE that matches moves updated_at: the touch by hand, the others
\* because the column is declared ON UPDATE CURRENT_TIMESTAMP.
ApplyWrite(s) ==
    /\ writes[s] # <<>>
    /\ LET w == Head(writes[s]) IN
       IF Matches(w)
       THEN /\ status' = [status EXCEPT ![w.row] = w.to]
            /\ claimedBy' = [claimedBy EXCEPT ![w.row] =
                               IF w.op = "expire" THEN NoToken ELSE @]
            /\ age' = [age EXCEPT ![w.row] = 0]
       ELSE UNCHANGED table
    /\ writes' = [writes EXCEPT ![s] = Tail(@)]
    /\ UNCHANGED <<token, poll, readBacks, unread, history>>

\* An asynchronous statement fails; nobody learns of it.
LoseWrite(s) ==
    /\ writes[s] # <<>>
    /\ faults < MaxFaults
    /\ faults' = faults + 1
    /\ writes' = [writes EXCEPT ![s] = Tail(@)]
    /\ UNCHANGED <<table, token, poll, readBacks, unread, runs, used>>

-----------------------------------------------------------------------------
PollStep(s) ==
    \/ Resolve(s) \/ Expire(s) \/ Select(s)
    \/ HoldRow(s) \/ Claim(s) \/ ConfirmLost(s) \/ Execute(s)

Next ==
    \/ \E r \in Rows : Insert(r) \/ BridgeGivesUp(r)
    \/ Tick
    \/ \E s \in Servers :
         \/ BotsTick(s)
         \/ \E t \in Tokens : Start(s, t)
         \/ Crash(s)
         \/ PollStep(s)
         \/ ApplyWrite(s)
         \/ LoseWrite(s)

\* The world thread keeps polling while its process lives, the bots keep
\* ticking, the async worker keeps working, seconds pass and a stopped
\* worldserver is started again.
Fairness ==
    /\ WF_vars(Tick)
    /\ \A s \in Servers :
         /\ WF_vars(BotsTick(s))
         /\ WF_vars(\E t \in Tokens : Start(s, t))
         /\ WF_vars(PollStep(s))
         /\ WF_vars(ApplyWrite(s))

Spec == Init /\ [][Next]_vars
FairSpec == Spec /\ Fairness

-----------------------------------------------------------------------------
(* Properties.                                                              *)

\* No command runs twice, whatever crashes, failed writes and rival
\* worldservers do: the claim is taken and read back before the work
\* ("Claiming first makes it at-most-once", DeliverPendingCommands).
AtMostOnce == \A r \in Rows : runs[r] <= 1

\* A row that ended keeps its answer: neither a late finish nor a late expiry
\* writes over what the sender has been told (WriteCommandRow's WHERE clause).
EndedStaysEnded ==
    [][\A r \in Rows : status[r] \in Terminal => status'[r] = status[r]]_vars

\* Nothing the living run holds is forgotten: while no write failed, a row
\* claimed under a live token is the one being run, or its finish is on its
\* way, or a read-back will end it. The lease never collects such a row, so
\* forgetting it would leave its sender waiting until the next restart.
HeldRowIsDriven ==
    faults = 0 =>
      \A r \in Rows, s \in Servers :
        (status[r] \in Held /\ pc[s] # "down" /\ claimedBy[r] = token[s]) =>
          \/ pc[s] = "confirm" /\ batch[s][at[s]] = r /\ status[r] = "claimed"
          \/ \E i \in DOMAIN writes[s] :
                writes[s][i].row = r /\ writes[s][i].from = status[r]
          \/ r \in checks[s] /\ status[r] = "verifying"

\* A bot never holds two unread orders with the same verb: the second would
\* overwrite the first in the chat trigger they share (HoldForSharedTrigger).
OneOrderPerTrigger ==
    \A s \in Servers : \A q, r \in unread[s] : KeyOf[q] = KeyOf[r] => q = r

\* With one worldserver, the lease ends only what a run that is gone left
\* behind (ExpireAbandonedClaims: "nothing here can reach a row this
\* worldserver is actively driving").
LeaseSparesLivingRun ==
    [][\A r \in Rows, s \in Servers :
         (pc[s] # "down" /\ claimedBy[r] = token[s]) => claimedBy'[r] = token[s]]_vars

\* Every command asked for is answered in the end, also across a restart.
EveryRowEnds == \A r \in Rows : status[r] = "pending" ~> status[r] \in Terminal

\* What the sender may rely on, whoever drains the queue: see CommandPromise.
Phase(r) == CASE status[r] = "absent" -> "unasked"
              [] status[r] = "pending" -> "waiting"
              [] status[r] \in Held -> "taken"
              [] status[r] \in Terminal -> "answered"
Promise == INSTANCE CommandPromise WITH
             Commands <- Rows, phase <- [r \in Rows |-> Phase(r)], runs <- runs
PromiseKept == Promise!Spec

=============================================================================
