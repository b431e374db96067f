------------------------- MODULE CommandQueueProofs -------------------------
(***************************************************************************)
(* What TLAPS proves of CommandQueue for any number of rows, worldservers, *)
(* restarts and failed writes.                                             *)
(***************************************************************************)
EXTENDS CommandQueue, FiniteSetTheorems, TLAPS

(***************************************************************************)
(* The order in which a SELECT returns rows is a sequence without repeats. *)
(***************************************************************************)
LEMMA OrdersAreSequences ==
    ASSUME NEW T \in SUBSET Rows, NEW f \in Orders(T)
    PROVE  /\ f \in Seq(T)
           /\ f \in Seq(Rows)
           /\ DOMAIN f = 1 .. Len(f)
           /\ \A i \in DOMAIN f : f[i] \in T
           /\ \A i, j \in DOMAIN f : f[i] = f[j] => i = j
  <1>1. IsFiniteSet(Rows)
    BY FS_Interval, QueueAssumption DEF Rows
  <1>2. Cardinality(T) \in Nat
    BY <1>1, FS_Subset, FS_CardinalityType
  <1> QED  BY <1>2 DEF Orders

LEMMA SelectionsAreSequences ==
    ASSUME NEW S \in SUBSET Rows, NEW w \in UNION {Orders(T) : T \in SUBSET S}
    PROVE  /\ w \in Seq(Rows)
           /\ \A i \in DOMAIN w : w[i] \in S
           /\ \A i, j \in DOMAIN w : w[i] = w[j] => i = j
  <1>1. PICK T \in SUBSET S : w \in Orders(T)
    OBVIOUS
  <1> QED  BY <1>1, OrdersAreSequences

-----------------------------------------------------------------------------
(***************************************************************************)
(* The invariant behind AtMostOnce. A row keeps the token it was claimed   *)
(* with and never becomes pending again, so a run can hold a row it has    *)
(* still to reach only between its Claim and its Confirm, and before then  *)
(* the row has not run.                                                    *)
(***************************************************************************)
TokenOfOne ==
    /\ \A s \in Servers : pc[s] = "down" <=> token[s] = NoToken
    /\ \A s \in Servers : token[s] # NoToken => token[s] \in used
    /\ \A s, z \in Servers : (token[s] = token[z] /\ token[s] # NoToken) => s = z

WaitingIsFresh ==
    \A r \in Rows : status[r] \in {"absent", "pending"} =>
                       claimedBy[r] = NoToken /\ runs[r] = 0

CursorInBatch ==
    \A s \in Servers :
      /\ pc[s] \in {"row", "confirm"} => at[s] <= Len(batch[s])
      /\ pc[s] \notin {"row", "confirm"} => batch[s] = <<>> /\ at[s] = 1
      /\ \A i, j \in DOMAIN batch[s] : batch[s][i] = batch[s][j] => i = j

UnreachedIsUnrun ==
    \A s \in Servers : \A i \in DOMAIN batch[s] :
      (i >= at[s] /\ claimedBy[batch[s][i]] = token[s]) =>
         i = at[s] /\ pc[s] = "confirm" /\ runs[batch[s][i]] = 0

\* Types, with what a step needs to stay in them.
Shape ==
    /\ TypeOK
    /\ TokenOfOne
    /\ CursorInBatch

QueueInv ==
    /\ Shape
    /\ WaitingIsFresh
    /\ UnreachedIsUnrun
    /\ AtMostOnce

LEMMA InvInit == Init => QueueInv
  <1> SUFFICES ASSUME Init PROVE QueueInv
    OBVIOUS
  <1>1. TypeOK
    <2> DEFINE none == <<>>
    <2>1. none \in Seq(Rows) /\ none \in Seq(Write)
      OBVIOUS
    <2>2. batch = [s \in Servers |-> none] /\ writes = [s \in Servers |-> none]
      BY DEF Init
    <2> HIDE DEF none
    <2> QED  BY <2>1, <2>2, QueueAssumption DEF Init, TypeOK
  <1>2. TokenOfOne /\ WaitingIsFresh /\ AtMostOnce
    BY <1>1 DEF Init, TokenOfOne, WaitingIsFresh, AtMostOnce
  <1>3. \A s \in Servers : batch[s] = <<>> /\ at[s] = 1 /\ pc[s] = "down"
    BY DEF Init
  <1>4. CursorInBatch /\ UnreachedIsUnrun
    BY <1>3 DEF CursorInBatch, UnreachedIsUnrun
  <1> QED  BY <1>1, <1>2, <1>4 DEF QueueInv, Shape

\* The row under the cursor.
LEMMA CursorRow ==
    ASSUME TypeOK, CursorInBatch, NEW s \in Servers, pc[s] \in {"row", "confirm"}
    PROVE  /\ at[s] \in DOMAIN batch[s]
           /\ batch[s][at[s]] \in Rows
  BY DEF TypeOK, CursorInBatch

LEMMA NextRowType ==
    ASSUME TypeOK, NEW s \in Servers, NextRow(s)
    PROVE  /\ pc' \in [Servers -> {"down", "idle", "expire", "select", "row", "confirm"}]
           /\ batch' \in [Servers -> Seq(Rows)]
           /\ at' \in [Servers -> Nat \ {0}]
  <1> DEFINE none == <<>>
  <1>1. none \in Seq(Rows)
    OBVIOUS
  <1>2. CASE at[s] < Len(batch[s])
    <2>1. /\ at' = [at EXCEPT ![s] = at[s] + 1]
          /\ pc' = [pc EXCEPT ![s] = "row"]
          /\ batch' = batch
      BY <1>2 DEF NextRow
    <2>2. at[s] + 1 \in Nat \ {0}
      BY DEF TypeOK
    <2> QED  BY <2>1, <2>2 DEF TypeOK
  <1>3. CASE ~ at[s] < Len(batch[s])
    <2>1. /\ at' = [at EXCEPT ![s] = 1]
          /\ pc' = [pc EXCEPT ![s] = "idle"]
          /\ batch' = [batch EXCEPT ![s] = none]
      BY <1>3 DEF NextRow
    <2> HIDE DEF none
    <2> QED  BY <1>1, <2>1 DEF TypeOK
  <1> QED  BY <1>2, <1>3

LEMMA SpokenNextType ==
    ASSUME TypeOK, NEW s \in Servers, NEW heard \in SUBSET {KeyOf[r] : r \in Rows},
           SpokenNext(s, heard)
    PROVE  spoken' \in [Servers -> SUBSET {KeyOf[r] : r \in Rows}]
  BY DEF TypeOK, SpokenNext

\* Appending one statement, or a batch of them, to what a server has to send.
LEMMA AppendType ==
    ASSUME TypeOK, NEW s \in Servers, NEW w \in Write,
           writes' = [writes EXCEPT ![s] = Append(@, w)]
    PROVE  writes' \in [Servers -> Seq(Write)]
  BY DEF TypeOK

LEMMA ConcatType ==
    ASSUME TypeOK, NEW s \in Servers, NEW ws \in Seq(Write),
           writes' = [writes EXCEPT ![s] = @ \o ws]
    PROVE  writes' \in [Servers -> Seq(Write)]
  <1>1. writes[s] \o ws \in Seq(Write)
    BY DEF TypeOK
  <1> QED  BY <1>1 DEF TypeOK

LEMMA TailType ==
    ASSUME TypeOK, NEW s \in Servers, writes[s] # <<>>
    PROVE  /\ Head(writes[s]) \in Write
           /\ Tail(writes[s]) \in Seq(Write)
  BY DEF TypeOK

LEMMA ResolveType ==
    ASSUME TypeOK, TokenOfOne, NEW s \in Servers, Resolve(s)
    PROVE  TypeOK'
  <1> USE QueueAssumption
  <1>1. PICK v \in [checks[s] -> {"wait"} \cup ReadBacks] :
          /\ \A r \in checks[s] : v[r] = "wait" => waited[r] + 1 < Ceiling
          /\ LET over == {r \in checks[s] : v[r] # "wait"} IN
             /\ \E o \in Orders(over) :
                  writes' = [writes EXCEPT ![s] = @ \o
                    [i \in DOMAIN o |-> Finish(o[i], "verifying", v[o[i]], token[s])]]
             /\ checks' = [checks EXCEPT ![s] = @ \ over]
             /\ waited' = [r \in Rows |-> CASE r \in over -> 0
                                           [] r \in checks[s] \ over -> waited[r] + 1
                                           [] OTHER -> waited[r]]
    BY DEF Resolve
  <1> DEFINE over == {r \in checks[s] : v[r] # "wait"}
  <1>2. PICK o \in Orders(over) :
          writes' = [writes EXCEPT ![s] = @ \o
            [i \in DOMAIN o |-> Finish(o[i], "verifying", v[o[i]], token[s])]]
    BY <1>1
  <1>3. over \in SUBSET Rows
    BY DEF TypeOK
  <1>4. DOMAIN o = 1 .. Len(o) /\ Len(o) \in Nat /\ \A i \in DOMAIN o : o[i] \in over
    <2> HIDE DEF over
    <2> QED  BY <1>3, OrdersAreSequences
  <1>5. writes' \in [Servers -> Seq(Write)]
    <2>1. ASSUME NEW i \in DOMAIN o
          PROVE  Finish(o[i], "verifying", v[o[i]], token[s]) \in Write
      <3>1. o[i] \in Rows /\ v[o[i]] \in Terminal
        BY <1>3, <1>4
      <3>2. token[s] \in Tokens
        BY DEF TypeOK, TokenOfOne, Resolve
      <3> QED  BY <3>1, <3>2 DEF Write, Finish, Held
    <2>2. [i \in DOMAIN o |-> Finish(o[i], "verifying", v[o[i]], token[s])] \in Seq(Write)
      BY <1>4, <2>1
    <2> QED  BY <1>2, <2>2, ConcatType
  <1>6. checks' \in [Servers -> SUBSET Rows] /\ waited' \in [Rows -> 0 .. Ceiling]
    BY <1>1 DEF TypeOK
  <1> QED  BY <1>5, <1>6 DEF Resolve, TypeOK, table, history

LEMMA ExpireType ==
    ASSUME TypeOK, NEW s \in Servers, Expire(s)
    PROVE  TypeOK'
  <1> DEFINE Gone(w) == {w[i] : i \in {j \in DOMAIN w : ClaimIsAbandoned(w[j], token[s])}}
  <1>w. PICK w \in Selections(HeldRows, HeldBefore) :
          \E o \in Orders(Gone(w)) :
            writes' = [writes EXCEPT ![s] = writes[s] \o
                         [i \in DOMAIN o |-> Expiry(o[i], claimedBy[o[i]])]]
    BY DEF Expire
  <1>1. PICK o \in Orders(Gone(w)) :
          writes' = [writes EXCEPT ![s] = writes[s] \o
                       [i \in DOMAIN o |-> Expiry(o[i], claimedBy[o[i]])]]
    BY <1>w
  <1>2. Gone(w) \in SUBSET Rows
    <2>1. HeldRows \in SUBSET Rows
      BY DEF HeldRows
    <2>2. w \in UNION {Orders(T) : T \in SUBSET HeldRows}
      BY DEF Selections
    <2> QED  BY <2>1, <2>2, SelectionsAreSequences
  <1>3. DOMAIN o = 1 .. Len(o) /\ Len(o) \in Nat /\ \A i \in DOMAIN o : o[i] \in Rows
    <2> HIDE DEF Gone
    <2> QED  BY <1>2, OrdersAreSequences
  <1>4. \A i \in DOMAIN o : Expiry(o[i], claimedBy[o[i]]) \in Write
    BY <1>3 DEF TypeOK, Expiry, Write
  <1>5. [i \in DOMAIN o |-> Expiry(o[i], claimedBy[o[i]])] \in Seq(Write)
    BY <1>3, <1>4
  <1>6. writes' \in [Servers -> Seq(Write)]
    BY <1>1, <1>5, ConcatType
  <1> QED  BY <1>6 DEF Expire, TypeOK, table, readBacks, history

LEMMA SelectType ==
    ASSUME TypeOK, NEW s \in Servers, Select(s)
    PROVE  TypeOK'
  <1>1. PICK w \in Selections(PendingRows, PendingBefore) :
          /\ batch' = [batch EXCEPT ![s] = w]
          /\ pc' = [pc EXCEPT ![s] = IF w = <<>> THEN "idle" ELSE "row"]
    BY DEF Select
  <1>2. w \in Seq(Rows)
    <2>1. PendingRows \in SUBSET Rows
      BY DEF PendingRows
    <2>2. w \in UNION {Orders(T) : T \in SUBSET PendingRows}
      BY DEF Selections
    <2> QED  BY <2>1, <2>2, SelectionsAreSequences
  <1>3. batch' \in [Servers -> Seq(Rows)]
    BY <1>1, <1>2 DEF TypeOK
  <1>4. pc' \in [Servers -> {"down", "idle", "expire", "select", "row", "confirm"}]
    BY <1>1 DEF TypeOK
  <1> QED  BY <1>3, <1>4 DEF Select, TypeOK, table, readBacks, history

LEMMA CrashType ==
    ASSUME TypeOK, NEW s \in Servers, Crash(s)
    PROVE  TypeOK'
  <1> DEFINE none == <<>>
  <1>1. none \in Seq(Rows) /\ none \in Seq(Write)
    OBVIOUS
  <1>2. batch' = [batch EXCEPT ![s] = none] /\ writes' = [writes EXCEPT ![s] = none]
    BY DEF Crash
  <1> HIDE DEF none
  <1>3. batch' \in [Servers -> Seq(Rows)] /\ writes' \in [Servers -> Seq(Write)]
    BY <1>1, <1>2 DEF TypeOK
  <1> QED  BY <1>3, QueueAssumption DEF Crash, TypeOK, table, history

LEMMA HoldRowType ==
    ASSUME TypeOK, CursorInBatch, NEW s \in Servers, HoldRow(s)
    PROVE  TypeOK'
  <1>1. batch[s][at[s]] \in Rows
    BY CursorRow DEF HoldRow
  <1>2. Touch(batch[s][at[s]]) \in Write
    BY <1>1 DEF Touch, Write
  <1>3. writes' \in [Servers -> Seq(Write)]
    BY <1>2, AppendType DEF HoldRow
  <1>4. spoken' \in [Servers -> SUBSET {KeyOf[r] : r \in Rows}]
    <2>1. spoken[s] \in SUBSET {KeyOf[r] : r \in Rows}
      BY DEF TypeOK
    <2> QED  BY <2>1, SpokenNextType DEF HoldRow
  <1> QED  BY <1>3, <1>4, NextRowType DEF HoldRow, TypeOK, table, readBacks, history

LEMMA ClaimType ==
    ASSUME TypeOK, CursorInBatch, NEW s \in Servers, Claim(s)
    PROVE  TypeOK'
  <1> DEFINE r == batch[s][at[s]]
  <1>1. r \in Rows
    BY CursorRow DEF Claim
  <1> HIDE DEF r
  <1>2. /\ pc' = [pc EXCEPT ![s] = "confirm"]
        /\ spoken' = [spoken EXCEPT ![s] = Saying(s, r)]
        /\ \/ /\ status' = [status EXCEPT ![r] = "claimed"]
              /\ claimedBy' = [claimedBy EXCEPT ![r] = token[s]]
              /\ age' = [age EXCEPT ![r] = 0]
           \/ UNCHANGED table
        /\ faults' \in 0 .. MaxFaults
    BY QueueAssumption DEF Claim, r, TypeOK
  <1>3. spoken' \in [Servers -> SUBSET {KeyOf[q] : q \in Rows}]
    BY <1>1, <1>2 DEF Saying, TypeOK
  <1>4. /\ status' \in [Rows -> {"absent", "pending"} \cup Held \cup Terminal]
        /\ claimedBy' \in [Rows -> Tokens \cup {NoToken}]
        /\ age' \in [Rows -> 0 .. MaxAge]
    <2>1. CASE UNCHANGED table
      BY <2>1 DEF TypeOK, table
    <2>2. CASE /\ status' = [status EXCEPT ![r] = "claimed"]
               /\ claimedBy' = [claimedBy EXCEPT ![r] = token[s]]
               /\ age' = [age EXCEPT ![r] = 0]
      <3>1. 0 \in 0 .. MaxAge
        BY QueueAssumption
      <3> QED  BY <1>1, <2>2, <3>1 DEF TypeOK, Held
    <2> QED  BY <1>2, <2>1, <2>2
  <1>5. pc' \in [Servers -> {"down", "idle", "expire", "select", "row", "confirm"}]
    BY <1>2 DEF TypeOK
  <1> QED  BY <1>2, <1>3, <1>4, <1>5 DEF Claim, TypeOK, readBacks

LEMMA ConfirmLostType ==
    ASSUME TypeOK, NEW s \in Servers, ConfirmLost(s)
    PROVE  TypeOK'
  <1>1. spoken' \in [Servers -> SUBSET {KeyOf[r] : r \in Rows}]
    <2>1. spoken[s] \in SUBSET {KeyOf[r] : r \in Rows}
      BY DEF TypeOK
    <2> QED  BY <2>1, SpokenNextType DEF ConfirmLost
  <1> QED  BY <1>1, NextRowType DEF ConfirmLost, TypeOK, table, readBacks, history

LEMMA ExecuteType ==
    ASSUME TypeOK, TokenOfOne, CursorInBatch, NEW s \in Servers, Execute(s)
    PROVE  TypeOK'
  <1> DEFINE r == batch[s][at[s]]
  <1>1. r \in Rows /\ token[s] \in Tokens
    BY CursorRow DEF Execute, TypeOK, TokenOfOne
  <1> HIDE DEF r
  <1>2. PICK a \in Answers :
          /\ writes' = [writes EXCEPT ![s] = Append(@, Finish(r, "claimed", a, token[s]))]
          /\ checks' = [checks EXCEPT ![s] = Watch(s, r, a)]
    BY DEF Execute, r
  <1>3. Finish(r, "claimed", a, token[s]) \in Write
    BY <1>1, QueueAssumption DEF Finish, Write, Held
  <1>4. writes' \in [Servers -> Seq(Write)]
    BY <1>2, <1>3, AppendType
  <1>5. checks' \in [Servers -> SUBSET Rows]
    BY <1>1, <1>2 DEF Watch, TypeOK
  <1>6. spoken' \in [Servers -> SUBSET {KeyOf[q] : q \in Rows}]
    <2>1. spoken[s] \in SUBSET {KeyOf[q] : q \in Rows}
      BY DEF TypeOK
    <2> QED  BY <2>1, SpokenNextType DEF Execute
  <1>7. runs' \in [Rows -> Nat] /\ unread' \in [Servers -> SUBSET Rows]
    <2>1. /\ runs' = [runs EXCEPT ![r] = @ + 1]
          /\ unread' = [unread EXCEPT ![s] = IF KeyOf[r] # NoKey THEN @ \cup {r} ELSE @]
      BY DEF Execute, r
    <2> QED  BY <1>1, <2>1 DEF TypeOK
  <1> QED  BY <1>4, <1>5, <1>6, <1>7, NextRowType DEF Execute, TypeOK, table

LEMMA ApplyWriteType ==
    ASSUME TypeOK, NEW s \in Servers, ApplyWrite(s)
    PROVE  TypeOK'
  <1> DEFINE w == Head(writes[s])
  <1>1. w \in Write /\ Tail(writes[s]) \in Seq(Write)
    BY TailType DEF ApplyWrite
  <1> HIDE DEF w
  <1>2. /\ writes' = [writes EXCEPT ![s] = Tail(@)]
        /\ \/ /\ Matches(w)
              /\ status' = [status EXCEPT ![w.row] = w.to]
              /\ claimedBy' = [claimedBy EXCEPT ![w.row] =
                                 IF w.op = "expire" THEN NoToken ELSE @]
              /\ age' = [age EXCEPT ![w.row] = 0]
           \/ UNCHANGED table
    BY DEF ApplyWrite, w
  <1>3. w.row \in Rows /\ w.to \in {"absent", "pending"} \cup Held \cup Terminal
    <2>1. CASE w \in [op : {"finish"}, row : Rows, from : Held,
                      to : Terminal \cup {"verifying"}, by : Tokens]
      BY <2>1 DEF Held
    <2>2. CASE w \in [op : {"touch"}, row : Rows, from : {"pending"}, to : {"pending"},
                      by : {NoToken}]
      BY <2>2
    <2>3. CASE w \in [op : {"expire"}, row : Rows, from : {"held"}, to : {"error"},
                      by : Tokens \cup {NoToken}]
      BY <2>3 DEF Terminal
    <2> QED  BY <1>1, <2>1, <2>2, <2>3 DEF Write
  <1>4. writes' \in [Servers -> Seq(Write)]
    BY <1>1, <1>2 DEF TypeOK
  <1>5. /\ status' \in [Rows -> {"absent", "pending"} \cup Held \cup Terminal]
        /\ claimedBy' \in [Rows -> Tokens \cup {NoToken}]
        /\ age' \in [Rows -> 0 .. MaxAge]
    <2>1. CASE UNCHANGED table
      BY <2>1 DEF TypeOK, table
    <2>2. CASE /\ status' = [status EXCEPT ![w.row] = w.to]
               /\ claimedBy' = [claimedBy EXCEPT ![w.row] =
                                  IF w.op = "expire" THEN NoToken ELSE claimedBy[w.row]]
               /\ age' = [age EXCEPT ![w.row] = 0]
      <3>1. 0 \in 0 .. MaxAge
        BY QueueAssumption
      <3> QED  BY <1>3, <2>2, <3>1 DEF TypeOK
    <2> QED  BY <1>2, <2>1, <2>2
  <1> QED  BY <1>4, <1>5 DEF ApplyWrite, TypeOK, poll, readBacks, history

LEMMA LoseWriteType ==
    ASSUME TypeOK, NEW s \in Servers, LoseWrite(s)
    PROVE  TypeOK'
  <1>1. writes' \in [Servers -> Seq(Write)]
    BY TailType DEF LoseWrite, TypeOK
  <1> QED  BY <1>1, QueueAssumption DEF LoseWrite, TypeOK, table, poll, readBacks

LEMMA TypeNext ==
    ASSUME TypeOK, TokenOfOne, CursorInBatch, [Next]_vars
    PROVE  TypeOK'
  <1> USE QueueAssumption
  <1>1. ASSUME NEW r \in Rows, Insert(r) PROVE TypeOK'
    BY <1>1 DEF TypeOK, Insert, poll, readBacks, history
  <1>2. ASSUME NEW r \in Rows, BridgeGivesUp(r) PROVE TypeOK'
    BY <1>2 DEF TypeOK, BridgeGivesUp, Terminal, poll, readBacks, history
  <1>3. CASE Tick
    BY <1>3 DEF TypeOK, Tick, Waiting, poll, readBacks, history
  <1>4. ASSUME NEW s \in Servers, BotsTick(s) PROVE TypeOK'
    BY <1>4 DEF TypeOK, BotsTick, table, poll, readBacks, history
  <1>5. ASSUME NEW s \in Servers, NEW t \in Tokens, Start(s, t) PROVE TypeOK'
    BY <1>5 DEF TypeOK, Start, table, readBacks
  <1>6. CASE UNCHANGED vars
    BY <1>6 DEF TypeOK, vars, table, poll, readBacks, history
  <1> QED
    BY <1>1, <1>2, <1>3, <1>4, <1>5, <1>6, CrashType, ResolveType, ExpireType,
       SelectType, HoldRowType, ClaimType, ConfirmLostType, ExecuteType,
       ApplyWriteType, LoseWriteType DEF Next, PollStep

LEMMA TokenNext ==
    ASSUME TypeOK, TokenOfOne, [Next]_vars
    PROVE  TokenOfOne'
  <1> USE QueueAssumption
  <1>1. ASSUME NEW s \in Servers, NEW t \in Tokens, Start(s, t) PROVE TokenOfOne'
    BY <1>1 DEF TokenOfOne, Start, TypeOK
  <1>2. ASSUME NEW s \in Servers, Crash(s) PROVE TokenOfOne'
    BY <1>2 DEF TokenOfOne, Crash, TypeOK, history
  <1>3. ASSUME NEW s \in Servers, PollStep(s) PROVE TokenOfOne'
    <2>1. pc[s] # "down" /\ token' = token /\ used' = used
      BY <1>3 DEF PollStep, Resolve, Expire, Select, HoldRow, Claim, ConfirmLost, Execute,
                  history
    <2>2. \E p \in {"idle", "expire", "select", "row", "confirm"} :
             pc' = [pc EXCEPT ![s] = p]
      BY <1>3 DEF PollStep, Resolve, Expire, Select, HoldRow, Claim, ConfirmLost, Execute,
                  NextRow
    <2> QED  BY <2>1, <2>2 DEF TokenOfOne, TypeOK
  <1>4. CASE UNCHANGED <<token, pc, used>>
    BY <1>4 DEF TokenOfOne
  <1> QED
    BY <1>1, <1>2, <1>3, <1>4 DEF Next, Insert, BridgeGivesUp, Tick, BotsTick,
       ApplyWrite, LoseWrite, vars, poll, history

\* The cursor after NextRow: one further in the same batch, or at no batch.
LEMMA CursorAdvances ==
    ASSUME TypeOK, CursorInBatch, NEW s \in Servers, NextRow(s), pc[s] \in {"row", "confirm"}
    PROVE  /\ CursorInBatch'
           /\ \A z \in Servers \ {s} : at'[z] = at[z] /\ batch'[z] = batch[z] /\ pc'[z] = pc[z]
           /\ \A i \in DOMAIN batch'[s] :
                i >= at'[s] => i \in DOMAIN batch[s] /\ i > at[s] /\ batch'[s][i] = batch[s][i]
  <1>1. CASE at[s] < Len(batch[s])
    <2>1. /\ at' = [at EXCEPT ![s] = at[s] + 1]
          /\ pc' = [pc EXCEPT ![s] = "row"]
          /\ batch' = batch
      BY <1>1 DEF NextRow
    <2>2. at'[s] = at[s] + 1 /\ pc'[s] = "row" /\ batch'[s] = batch[s]
      BY <2>1 DEF TypeOK
    <2>3. \A z \in Servers \ {s} : at'[z] = at[z] /\ batch'[z] = batch[z] /\ pc'[z] = pc[z]
      BY <2>1 DEF TypeOK
    <2>4. at[s] \in Nat /\ Len(batch[s]) \in Nat /\ at'[s] <= Len(batch[s])
      BY <1>1, <2>2 DEF TypeOK
    <2>5. CursorInBatch'
      BY <2>2, <2>3, <2>4 DEF CursorInBatch
    <2>6. \A i \in DOMAIN batch'[s] :
             i >= at'[s] => i \in DOMAIN batch[s] /\ i > at[s] /\ batch'[s][i] = batch[s][i]
      BY <2>2, <2>4 DEF TypeOK
    <2> QED  BY <2>3, <2>5, <2>6
  <1>2. CASE ~ at[s] < Len(batch[s])
    <2>1. /\ at' = [at EXCEPT ![s] = 1]
          /\ pc' = [pc EXCEPT ![s] = "idle"]
          /\ \A z \in Servers : batch'[z] = IF z = s THEN <<>> ELSE batch[z]
      BY <1>2 DEF NextRow, TypeOK
    <2>2. at'[s] = 1 /\ pc'[s] = "idle" /\ batch'[s] = <<>>
      BY <2>1 DEF TypeOK
    <2>3. \A z \in Servers \ {s} : at'[z] = at[z] /\ batch'[z] = batch[z] /\ pc'[z] = pc[z]
      BY <2>1 DEF TypeOK
    <2>4. CursorInBatch'
      BY <2>2, <2>3 DEF CursorInBatch
    <2> QED  BY <2>2, <2>3, <2>4
  <1> QED  BY <1>1, <1>2

LEMMA CursorNext ==
    ASSUME TypeOK, CursorInBatch, [Next]_vars
    PROVE  CursorInBatch'
  <1>1. ASSUME NEW s \in Servers, NEW t \in Tokens, Start(s, t) PROVE CursorInBatch'
    BY <1>1 DEF CursorInBatch, Start, TypeOK
  <1>2. ASSUME NEW s \in Servers, Crash(s) PROVE CursorInBatch'
    <2>1. at'[s] = 1 /\ pc'[s] = "down" /\ batch'[s] = <<>>
      BY <1>2 DEF Crash, TypeOK
    <2>2. \A z \in Servers \ {s} : at'[z] = at[z] /\ batch'[z] = batch[z] /\ pc'[z] = pc[z]
      BY <1>2 DEF Crash, TypeOK
    <2> QED  BY <2>1, <2>2 DEF CursorInBatch
  <1>3. ASSUME NEW s \in Servers, Resolve(s) \/ Expire(s) PROVE CursorInBatch'
    BY <1>3 DEF CursorInBatch, Resolve, Expire, TypeOK
  <1>4. ASSUME NEW s \in Servers, Select(s) PROVE CursorInBatch'
    <2>1. PICK w \in Selections(PendingRows, PendingBefore) :
            /\ batch' = [batch EXCEPT ![s] = w]
            /\ pc' = [pc EXCEPT ![s] = IF w = <<>> THEN "idle" ELSE "row"]
      BY <1>4 DEF Select
    <2>2. w \in Seq(Rows) /\ \A i, j \in DOMAIN w : w[i] = w[j] => i = j
      <3>1. PendingRows \in SUBSET Rows
        BY DEF PendingRows
      <3>2. w \in UNION {Orders(T) : T \in SUBSET PendingRows}
        BY DEF Selections
      <3> QED  BY <3>1, <3>2, SelectionsAreSequences
    <2>3. at' = at /\ at[s] = 1
      BY <1>4 DEF Select, CursorInBatch
    <2>4. batch'[s] = w /\ pc'[s] = IF w = <<>> THEN "idle" ELSE "row"
      BY <2>1 DEF TypeOK
    <2>5. \A z \in Servers \ {s} : batch'[z] = batch[z] /\ pc'[z] = pc[z]
      BY <2>1 DEF TypeOK
    <2>6. w # <<>> => 1 <= Len(w)
      BY <2>2
    <2> QED  BY <2>2, <2>3, <2>4, <2>5, <2>6 DEF CursorInBatch
  <1>5. ASSUME NEW s \in Servers, Claim(s) PROVE CursorInBatch'
    BY <1>5 DEF CursorInBatch, Claim, TypeOK
  <1>6. ASSUME NEW s \in Servers, HoldRow(s) \/ ConfirmLost(s) \/ Execute(s)
        PROVE  CursorInBatch'
    BY <1>6, CursorAdvances DEF HoldRow, ConfirmLost, Execute
  <1>7. CASE UNCHANGED <<pc, at, batch>>
    BY <1>7 DEF CursorInBatch
  <1> QED
    BY <1>1, <1>2, <1>3, <1>4, <1>5, <1>6, <1>7 DEF Next, PollStep, Insert,
       BridgeGivesUp, Tick, BotsTick, ApplyWrite, LoseWrite, vars, poll

LEMMA ShapeNext == Shape /\ [Next]_vars => Shape'
  BY TypeNext, TokenNext, CursorNext DEF Shape


\* No step makes an asked row fresh again, and only Claim takes a fresh one.
LEMMA WaitingNext ==
    ASSUME Shape, WaitingIsFresh, [Next]_vars
    PROVE  WaitingIsFresh'
  <1> USE DEF Shape
  <1>1. ASSUME NEW r \in Rows, Insert(r) \/ BridgeGivesUp(r) PROVE WaitingIsFresh'
    BY <1>1 DEF WaitingIsFresh, Insert, BridgeGivesUp, TypeOK, history
  <1>2. ASSUME NEW s \in Servers, Claim(s) PROVE WaitingIsFresh'
    <2>1. runs' = runs
      BY <1>2 DEF Claim
    <2>2. CASE UNCHANGED table
      BY <2>1, <2>2 DEF WaitingIsFresh, table
    <2>3. CASE /\ status' = [status EXCEPT ![batch[s][at[s]]] = "claimed"]
               /\ claimedBy' = [claimedBy EXCEPT ![batch[s][at[s]]] = token[s]]
      BY <2>1, <2>3 DEF WaitingIsFresh, TypeOK
    <2> QED  BY <1>2, <2>2, <2>3 DEF Claim
  <1>3. ASSUME NEW s \in Servers, Execute(s) PROVE WaitingIsFresh'
    BY <1>3 DEF WaitingIsFresh, Execute, WonClaim, TypeOK, table
  <1>4. ASSUME NEW s \in Servers, ApplyWrite(s) PROVE WaitingIsFresh'
    <2> DEFINE w == Head(writes[s])
    <2>1. w \in Write
      BY <1>4, TailType DEF ApplyWrite
    <2> HIDE DEF w
    <2>2. runs' = runs
      BY <1>4 DEF ApplyWrite, history
    <2>3. CASE UNCHANGED table
      BY <2>2, <2>3 DEF WaitingIsFresh, table
    <2>4. CASE /\ Matches(w)
               /\ status' = [status EXCEPT ![w.row] = w.to]
               /\ claimedBy' = [claimedBy EXCEPT ![w.row] =
                                  IF w.op = "expire" THEN NoToken ELSE claimedBy[w.row]]
      <3>1. w.to \in {"absent", "pending"} => status[w.row] = "pending" /\ w.op = "touch"
        BY <2>1, <2>4 DEF Matches, Write, Terminal
      <3> QED  BY <2>2, <2>4, <3>1 DEF WaitingIsFresh, TypeOK
    <2> QED  BY <1>4, <2>3, <2>4 DEF ApplyWrite, w
  <1>5. CASE UNCHANGED <<status, claimedBy, runs>>
    BY <1>5 DEF WaitingIsFresh
  <1> QED
    BY <1>1, <1>2, <1>3, <1>4, <1>5 DEF Next, PollStep, Tick, BotsTick, Start, Crash,
       Resolve, Expire, Select, HoldRow, ConfirmLost, LoseWrite, vars, table, history

\* Moving on from a row keeps what is known of the rows behind it.
LEMMA UnreachedAdvances ==
    ASSUME Shape, UnreachedIsUnrun, NEW s \in Servers, NextRow(s),
           pc[s] \in {"row", "confirm"}, claimedBy' = claimedBy, token' = token,
           \A z \in Servers : \A i \in DOMAIN batch[z] :
              (i >= at[z] /\ (z = s => i > at[z]) /\ claimedBy[batch[z][i]] = token[z])
                 => runs'[batch[z][i]] = runs[batch[z][i]]
    PROVE  UnreachedIsUnrun'
  <1>1. ASSUME NEW z \in Servers, NEW i \in DOMAIN batch'[z],
               i >= at'[z], claimedBy'[batch'[z][i]] = token'[z]
        PROVE  i = at'[z] /\ pc'[z] = "confirm" /\ runs'[batch'[z][i]] = 0
    <2>1. CASE z = s
      <3>1. i \in DOMAIN batch[s] /\ i > at[s] /\ batch'[s][i] = batch[s][i]
        BY <1>1, <2>1, CursorAdvances DEF Shape
      <3>2. claimedBy[batch[s][i]] = token[s] /\ i >= at[s]
        BY <1>1, <2>1, <3>1 DEF Shape, TypeOK
      <3>3. i = at[s]
        BY <3>1, <3>2 DEF UnreachedIsUnrun
      <3> QED  BY <3>1, <3>3 DEF Shape, TypeOK
    <2>2. CASE z # s
      <3>1. at'[z] = at[z] /\ batch'[z] = batch[z] /\ pc'[z] = pc[z]
        BY <2>2, CursorAdvances DEF Shape
      <3> QED  BY <1>1, <2>2, <3>1 DEF UnreachedIsUnrun
    <2> QED  BY <2>1, <2>2
  <1> QED  BY <1>1 DEF UnreachedIsUnrun

LEMMA UnreachedNext ==
    ASSUME Shape, WaitingIsFresh, UnreachedIsUnrun, [Next]_vars
    PROVE  UnreachedIsUnrun'
  <1>1. ASSUME NEW s \in Servers, NEW t \in Tokens, Start(s, t) PROVE UnreachedIsUnrun'
    BY <1>1 DEF UnreachedIsUnrun, Start, Shape, TypeOK, CursorInBatch, table
  <1>2. ASSUME NEW s \in Servers, Crash(s) PROVE UnreachedIsUnrun'
    <2>1. batch'[s] = <<>>
      BY <1>2 DEF Crash, Shape, TypeOK
    <2>2. \A z \in Servers \ {s} : /\ at'[z] = at[z] /\ batch'[z] = batch[z]
                                   /\ pc'[z] = pc[z] /\ token'[z] = token[z]
      BY <1>2 DEF Crash, Shape, TypeOK
    <2>3. UNCHANGED <<claimedBy, runs>>
      BY <1>2 DEF Crash, table, history
    <2> QED  BY <2>1, <2>2, <2>3 DEF UnreachedIsUnrun
  <1>3. ASSUME NEW s \in Servers, Select(s) PROVE UnreachedIsUnrun'
    <2>1. PICK w \in Selections(PendingRows, PendingBefore) :
            /\ batch' = [batch EXCEPT ![s] = w]
            /\ pc' = [pc EXCEPT ![s] = IF w = <<>> THEN "idle" ELSE "row"]
      BY <1>3 DEF Select
    <2>2. \A i \in DOMAIN w : w[i] \in PendingRows
      <3>1. PendingRows \in SUBSET Rows
        BY DEF PendingRows
      <3>2. w \in UNION {Orders(T) : T \in SUBSET PendingRows}
        BY DEF Selections
      <3> QED  BY <3>1, <3>2, SelectionsAreSequences
    <2>3. \A i \in DOMAIN w : claimedBy[w[i]] # token[s]
      BY <1>3, <2>2 DEF PendingRows, WaitingIsFresh, Select, Shape, TokenOfOne
    <2>4. batch'[s] = w
      BY <2>1 DEF Shape, TypeOK
    <2>5. \A z \in Servers \ {s} : batch'[z] = batch[z] /\ pc'[z] = pc[z]
      BY <2>1 DEF Shape, TypeOK
    <2>6. UNCHANGED <<claimedBy, runs, token, at>>
      BY <1>3 DEF Select, table, history
    <2> QED  BY <2>3, <2>4, <2>5, <2>6 DEF UnreachedIsUnrun
  <1>4. ASSUME NEW s \in Servers, Claim(s) PROVE UnreachedIsUnrun'
    <2> DEFINE r == batch[s][at[s]]
    <2>1. r \in Rows /\ at[s] \in DOMAIN batch[s] /\ token[s] # NoToken
      BY <1>4, CursorRow DEF Claim, Shape, TokenOfOne
    <2>2. /\ pc'[s] = "confirm"
          /\ \A z \in Servers \ {s} : pc'[z] = pc[z]
          /\ UNCHANGED <<batch, at, token, runs>>
      BY <1>4 DEF Claim, Shape, TypeOK
    <2>3. CASE UNCHANGED table
      BY <1>4, <2>2, <2>3 DEF UnreachedIsUnrun, table, Claim
    <2>4. CASE status[r] = "pending" /\ claimedBy' = [claimedBy EXCEPT ![r] = token[s]]
      <3>1. runs[r] = 0
        BY <2>1, <2>4 DEF WaitingIsFresh
      <3>2. \A q \in Rows : claimedBy'[q] = IF q = r THEN token[s] ELSE claimedBy[q]
        BY <2>4 DEF Shape, TypeOK
      <3>3. ASSUME NEW z \in Servers, NEW i \in DOMAIN batch[z],
                   i >= at[z], claimedBy'[batch[z][i]] = token[z]
            PROVE  i = at[z] /\ pc'[z] = "confirm" /\ runs[batch[z][i]] = 0
        <4>1. batch[z][i] \in Rows
          BY <3>3 DEF Shape, TypeOK
        <4>2. CASE batch[z][i] # r
          BY <1>4, <2>2, <3>2, <3>3, <4>1, <4>2 DEF UnreachedIsUnrun, Claim
        <4>3. CASE batch[z][i] = r
          <5>1. z = s
            BY <2>1, <3>2, <3>3, <4>3 DEF Shape, TokenOfOne
          <5>2. i = at[s]
            BY <2>1, <4>3, <5>1 DEF Shape, CursorInBatch
          <5> QED  BY <2>2, <3>1, <4>3, <5>1, <5>2
        <4> QED  BY <4>2, <4>3
      <3> QED  BY <2>2, <3>3 DEF UnreachedIsUnrun
    <2> QED  BY <1>4, <2>3, <2>4 DEF Claim
  <1>5. ASSUME NEW s \in Servers, HoldRow(s) \/ ConfirmLost(s) PROVE UnreachedIsUnrun'
    <2>1. UNCHANGED <<claimedBy, token, runs>> /\ NextRow(s) /\ pc[s] \in {"row", "confirm"}
      BY <1>5 DEF HoldRow, ConfirmLost, table, history
    <2> QED  BY <2>1, UnreachedAdvances
  <1>6. ASSUME NEW s \in Servers, Execute(s) PROVE UnreachedIsUnrun'
    <2> DEFINE r == batch[s][at[s]]
    <2>1. /\ UNCHANGED <<claimedBy, token>> /\ NextRow(s) /\ pc[s] = "confirm"
          /\ claimedBy[r] = token[s]
          /\ runs' = [runs EXCEPT ![r] = @ + 1]
      BY <1>6 DEF Execute, WonClaim, table
    <2>2. r \in Rows /\ at[s] \in DOMAIN batch[s] /\ token[s] # NoToken
      BY <2>1, CursorRow DEF Shape, TokenOfOne
    <2>3. ASSUME NEW z \in Servers, NEW i \in DOMAIN batch[z], i >= at[z],
                 z = s => i > at[z], claimedBy[batch[z][i]] = token[z]
          PROVE  runs'[batch[z][i]] = runs[batch[z][i]]
      <3>1. batch[z][i] # r
        BY <2>1, <2>2, <2>3 DEF Shape, TokenOfOne, CursorInBatch, TypeOK
      <3>2. batch[z][i] \in Rows
        BY <2>3 DEF Shape, TypeOK
      <3> QED  BY <2>1, <3>1, <3>2 DEF Shape, TypeOK
    <2> QED  BY <2>1, <2>3, UnreachedAdvances
  <1>7. ASSUME NEW s \in Servers, ApplyWrite(s) PROVE UnreachedIsUnrun'
    <2> DEFINE w == Head(writes[s])
    <2>1. UNCHANGED <<batch, at, token, pc, runs>>
      BY <1>7 DEF ApplyWrite, poll, history
    <2>2. claimedBy' = claimedBy \/ claimedBy' = [claimedBy EXCEPT ![w.row] = NoToken]
      <3>1. CASE w.op = "expire"
        BY <1>7, <3>1 DEF ApplyWrite, table
      <3>2. CASE w.op # "expire"
        BY <1>7, <3>2 DEF ApplyWrite, table, Shape, TypeOK
      <3> QED  BY <3>1, <3>2
    <2>3. \A q \in Rows : claimedBy'[q] = claimedBy[q] \/ claimedBy'[q] = NoToken
      BY <2>2 DEF Shape, TypeOK
    <2>4. ASSUME NEW z \in Servers, NEW i \in DOMAIN batch[z], i >= at[z],
                 claimedBy'[batch[z][i]] = token[z]
          PROVE  claimedBy[batch[z][i]] = token[z]
      <3>1. batch[z][i] \in Rows /\ batch[z] # <<>>
        BY <2>4 DEF Shape, TypeOK
      <3>2. token[z] # NoToken
        BY <3>1 DEF Shape, TokenOfOne, CursorInBatch
      <3> QED  BY <2>3, <2>4, <3>1, <3>2
    <2> QED  BY <2>1, <2>4 DEF UnreachedIsUnrun
  <1>8. CASE UNCHANGED <<batch, at, token, runs, claimedBy>> /\
             \A s \in Servers : pc[s] = "confirm" => pc'[s] = "confirm"
    BY <1>8 DEF UnreachedIsUnrun
  <1>9. ASSUME NEW s \in Servers, Resolve(s) \/ Expire(s) PROVE UnreachedIsUnrun'
    BY <1>8, <1>9 DEF Resolve, Expire, Shape, TypeOK, table, history
  <1>10. CASE UNCHANGED vars
    BY <1>8, <1>10 DEF vars, table, poll, history
  <1> QED
    BY <1>1, <1>2, <1>3, <1>4, <1>5, <1>6, <1>7, <1>8, <1>9, <1>10 DEF Next, PollStep,
       Insert, BridgeGivesUp, Tick, BotsTick, LoseWrite, table, poll, history

LEMMA OnceNext ==
    ASSUME Shape, UnreachedIsUnrun, AtMostOnce, [Next]_vars
    PROVE  AtMostOnce'
  <1>1. ASSUME NEW s \in Servers, Execute(s) PROVE AtMostOnce'
    <2> DEFINE r == batch[s][at[s]]
    <2>1. r \in Rows /\ at[s] \in DOMAIN batch[s]
      BY <1>1, CursorRow DEF Execute, Shape
    <2>2. runs[r] = 0 /\ runs' = [runs EXCEPT ![r] = @ + 1]
      BY <1>1, <2>1 DEF Execute, WonClaim, UnreachedIsUnrun, Shape, TypeOK
    <2> QED  BY <2>1, <2>2 DEF AtMostOnce, Shape, TypeOK
  <1>2. CASE runs' = runs
    BY <1>2 DEF AtMostOnce
  <1> QED
    BY <1>1, <1>2 DEF Next, PollStep, Insert, BridgeGivesUp, Tick, BotsTick, Start, Crash,
       Resolve, Expire, Select, HoldRow, Claim, ConfirmLost, ApplyWrite, LoseWrite, vars,
       history

LEMMA InvNext == QueueInv /\ [Next]_vars => QueueInv'
  BY ShapeNext, WaitingNext, UnreachedNext, OnceNext DEF QueueInv

\* Every reachable state is of the declared types.
THEOREM QueueTypes == Spec => []TypeOK
  <1>1. QueueInv => TypeOK
    BY DEF QueueInv, Shape
  <1> QED  BY InvInit, InvNext, <1>1, PTL DEF Spec

\* No command runs twice, for any number of worldservers, restarts and failed
\* writes: claiming before running, and reading the token back, is enough.
THEOREM CommandsRunAtMostOnce == Spec => []AtMostOnce
  <1>1. QueueInv => AtMostOnce
    BY DEF QueueInv
  <1> QED  BY InvInit, InvNext, <1>1, PTL DEF Spec

-----------------------------------------------------------------------------
\* A statement the asynchronous worker applies finds its row in the state the
\* statement was written for, and leaves it answered or verifying.
LEMMA WriteStep ==
    ASSUME Shape, NEW s \in Servers, ApplyWrite(s)
    PROVE  \/ UNCHANGED status
           \/ \E r \in Rows, to \in Terminal \cup {"verifying"} :
                status[r] \in Held /\ status' = [status EXCEPT ![r] = to]
  <1> DEFINE w == Head(writes[s])
  <1>1. w \in Write
    BY TailType DEF ApplyWrite, Shape
  <1> HIDE DEF w
  <1>2. CASE UNCHANGED table
    BY <1>2 DEF table
  <1>3. CASE Matches(w) /\ status' = [status EXCEPT ![w.row] = w.to]
    <2>1. CASE w.op = "finish"
      <3>1. w.row \in Rows /\ w.to \in Terminal \cup {"verifying"} /\ w.from \in Held
        BY <1>1, <2>1 DEF Write
      <3> QED  BY <1>3, <2>1, <3>1 DEF Matches
    <2>2. CASE w.op = "touch"
      <3>1. w.row \in Rows /\ w.to = "pending" /\ status[w.row] = "pending"
        BY <1>1, <1>3, <2>2 DEF Write, Matches
      <3> QED  BY <1>3, <3>1 DEF Shape, TypeOK
    <2>3. CASE w.op = "expire"
      <3>1. w.row \in Rows /\ w.to = "error" /\ status[w.row] \in Held
        BY <1>1, <1>3, <2>3 DEF Write, Matches
      <3> QED  BY <1>3, <3>1 DEF Terminal
    <2> QED  BY <1>1, <2>1, <2>2, <2>3 DEF Write
  <1> QED  BY <1>2, <1>3 DEF ApplyWrite, w

\* What a step may do to the status column.
LEMMA StatusStep ==
    ASSUME Shape, [Next]_vars
    PROVE  \/ UNCHANGED status
           \/ \E r \in Rows :
                /\ status[r] = "absent" /\ status' = [status EXCEPT ![r] = "pending"]
           \/ \E r \in Rows :
                /\ status[r] = "pending" /\ status' = [status EXCEPT ![r] = "claimed"]
           \/ \E r \in Rows :
                /\ status[r] \in {"pending"} \cup Held
                /\ status' = [status EXCEPT ![r] = "error"]
           \/ \E r \in Rows, to \in Terminal \cup {"verifying"} :
                status[r] \in Held /\ status' = [status EXCEPT ![r] = to]
  <1>1. ASSUME NEW r \in Rows, Insert(r) \/ BridgeGivesUp(r)
        PROVE  \/ status[r] = "absent" /\ status' = [status EXCEPT ![r] = "pending"]
               \/ /\ status[r] \in {"pending"} \cup Held
                  /\ status' = [status EXCEPT ![r] = "error"]
    BY <1>1 DEF Insert, BridgeGivesUp
  <1>2. ASSUME NEW s \in Servers, Claim(s)
        PROVE  \/ UNCHANGED status
               \/ \E r \in Rows : /\ status[r] = "pending"
                                  /\ status' = [status EXCEPT ![r] = "claimed"]
    <2>1. batch[s][at[s]] \in Rows
      BY <1>2, CursorRow DEF Claim, Shape
    <2> QED  BY <1>2, <2>1 DEF Claim, table
  <1> QED
    BY <1>1, <1>2, WriteStep DEF Next, PollStep, Tick, BotsTick, Start, Crash, Resolve,
       Expire, Select, HoldRow, ConfirmLost, Execute, LoseWrite, vars, table

\* An answer is final: no late finish, expiry or claim writes over it.
THEOREM AnswersAreFinal == Spec => EndedStaysEnded
  <1>1. QueueInv /\ [Next]_vars =>
          [\A r \in Rows : status[r] \in Terminal => status'[r] = status[r]]_vars
    <2> SUFFICES ASSUME QueueInv, [Next]_vars, NEW r \in Rows, status[r] \in Terminal
                 PROVE  status'[r] = status[r]
      OBVIOUS
    <2> QED  BY StatusStep DEF QueueInv, Shape, TypeOK, Terminal, Held
  <1> QED  BY InvInit, InvNext, <1>1, PTL DEF Spec, EndedStaysEnded

-----------------------------------------------------------------------------
\* The phase of one row moves, the others stay.
LEMMA PhaseStep ==
    ASSUME TypeOK, NEW r \in Rows, NEW x, NEW y,
           status' = [status EXCEPT ![r] = x], Phase(r)' = y
    PROVE  [q \in Rows |-> Phase(q)]' = [[q \in Rows |-> Phase(q)] EXCEPT ![r] = y]
  <1>1. \A q \in Rows : q # r => status'[q] = status[q]
    BY DEF TypeOK
  <1>2. \A q \in Rows : q # r => Phase(q)' = Phase(q)
    BY <1>1 DEF Phase
  <1> DEFINE P(q) == Phase(q)
             PP(q) == Phase(q)'
  <1>3. \A q \in Rows : q # r => PP(q) = P(q)
    BY <1>2
  <1>4. PP(r) = y
    OBVIOUS
  <1> HIDE DEF P, PP
  <1>5. [q \in Rows |-> PP(q)] = [[q \in Rows |-> P(q)] EXCEPT ![r] = y]
    BY <1>3, <1>4
  <1> QED  BY <1>5 DEF P, PP

LEMMA PhaseOf ==
    ASSUME TypeOK, NEW r \in Rows
    PROVE  /\ status[r] = "absent" => Phase(r) = "unasked"
           /\ status[r] = "pending" => Phase(r) = "waiting"
           /\ status[r] \in Held => Phase(r) = "taken"
           /\ status[r] \in Terminal => Phase(r) = "answered"
  BY DEF Phase, Held, Terminal

LEMMA PhaseOfNext ==
    ASSUME NEW r \in Rows
    PROVE  /\ status'[r] = "pending" => Phase(r)' = "waiting"
           /\ status'[r] \in Held => Phase(r)' = "taken"
           /\ status'[r] \in Terminal => Phase(r)' = "answered"
  BY DEF Phase, Held, Terminal

LEMMA PromiseInit == Init => Promise!Init
  <1> SUFFICES ASSUME Init PROVE Promise!Init
    OBVIOUS
  <1>1. \A r \in Rows : Phase(r) = "unasked"
    <2>1. \A r \in Rows : status[r] = "absent"
      BY DEF Init
    <2> QED  BY <2>1, PhaseOf, InvInit DEF QueueInv, Shape
  <1>2. [r \in Rows |-> Phase(r)] = [r \in Rows |-> "unasked"]
    BY <1>1
  <1> QED  BY <1>2 DEF Init, Promise!Init

LEMMA PromiseStep ==
    ASSUME QueueInv, QueueInv', [Next]_vars
    PROVE  [Promise!Next]_(Promise!vars)
  <1> DEFINE ph == [q \in Rows |-> Phase(q)]
  <1>0. TypeOK /\ TypeOK'
    BY DEF QueueInv, Shape
  <1>1. ASSUME NEW s \in Servers, Execute(s) PROVE Promise!Next
    <2> DEFINE r == batch[s][at[s]]
    <2>1. r \in Rows /\ at[s] \in DOMAIN batch[s]
      BY <1>1, CursorRow DEF Execute, QueueInv, Shape
    <2>2. status[r] \in Held /\ runs[r] = 0 /\ runs' = [runs EXCEPT ![r] = @ + 1]
      BY <1>1, <2>1 DEF Execute, WonClaim, UnreachedIsUnrun, QueueInv, Shape, TypeOK, Held
    <2>3. status' = status
      BY <1>1 DEF Execute, table
    <2> HIDE DEF r
    <2>4. runs' = [runs EXCEPT ![r] = 1]
      BY <2>1, <2>2, <1>0 DEF TypeOK
    <2>5. ph[r] = "taken"
      BY <1>0, <2>1, <2>2, PhaseOf
    <2>6. UNCHANGED ph
      BY <2>3 DEF Phase
    <2>7. Promise!Run(r)
      BY <2>2, <2>4, <2>5, <2>6 DEF Promise!Run
    <2> QED  BY <2>1, <2>7 DEF Promise!Next
  <1>2. ASSUME runs' = runs PROVE [Promise!Next]_(Promise!vars)
    <2>1. CASE UNCHANGED status
      <3>1. UNCHANGED ph
        BY <2>1 DEF Phase
      <3> QED  BY <1>2, <3>1 DEF Promise!vars
    <2>2. ASSUME NEW r \in Rows, NEW to, status' = [status EXCEPT ![r] = to]
          PROVE  /\ status'[r] = to
                 /\ ph' = [ph EXCEPT ![r] = Phase(r)']
      BY <1>0, <2>2, PhaseStep DEF TypeOK
    <2>3. ASSUME NEW r \in Rows, status[r] = "absent",
                 status' = [status EXCEPT ![r] = "pending"]
          PROVE  Promise!Next
      <3>1. ph[r] = "unasked" /\ Phase(r)' = "waiting"
        BY <1>0, <2>2, <2>3, PhaseOf, PhaseOfNext
      <3>2. Promise!Ask(r)
        BY <1>2, <2>2, <2>3, <3>1 DEF Promise!Ask
      <3> QED  BY <3>2 DEF Promise!Next
    <2>4. ASSUME NEW r \in Rows, status[r] = "pending",
                 status' = [status EXCEPT ![r] = "claimed"]
          PROVE  Promise!Next
      <3>1. ph[r] = "waiting" /\ Phase(r)' = "taken"
        BY <1>0, <2>2, <2>4, PhaseOf, PhaseOfNext DEF Held
      <3>2. Promise!Take(r)
        BY <1>2, <2>2, <2>4, <3>1 DEF Promise!Take
      <3> QED  BY <3>2 DEF Promise!Next
    <2>5. ASSUME NEW r \in Rows, NEW to \in Terminal, status[r] \in {"pending"} \cup Held,
                 status' = [status EXCEPT ![r] = to]
          PROVE  Promise!Next
      <3>1. ph[r] \in {"waiting", "taken"} /\ Phase(r)' = "answered"
        BY <1>0, <2>2, <2>5, PhaseOf, PhaseOfNext DEF Held, Terminal
      <3>2. Promise!Answer(r)
        BY <1>2, <2>2, <2>5, <3>1 DEF Promise!Answer
      <3> QED  BY <3>2 DEF Promise!Next
    <2>6. ASSUME NEW r \in Rows, status[r] \in Held,
                 status' = [status EXCEPT ![r] = "verifying"]
          PROVE  UNCHANGED ph
      <3>1. ph[r] = "taken" /\ Phase(r)' = "taken"
        BY <1>0, <2>2, <2>6, PhaseOf, PhaseOfNext DEF Held
      <3> QED  BY <2>2, <2>6, <3>1
    <2> QED
      BY <1>2, <2>1, <2>3, <2>4, <2>5, <2>6, StatusStep
         DEF QueueInv, Terminal, Promise!vars
  <1>3. runs' = runs \/ \E s \in Servers : Execute(s)
    BY DEF Next, PollStep, Insert, BridgeGivesUp, Tick, BotsTick, Start, Crash, Resolve,
           Expire, Select, HoldRow, Claim, ConfirmLost, ApplyWrite, LoseWrite, vars, history
  <1> QED  BY <1>1, <1>2, <1>3

\* The queue keeps the sender's promise, whoever drains it: a command is taken
\* once, runs at most once while it is taken, and its answer is final.
THEOREM QueueKeepsPromise == Spec => PromiseKept
  <1>1. QueueInv /\ QueueInv' /\ [Next]_vars => [Promise!Next]_(Promise!vars)
    BY PromiseStep
  <1> QED
    BY InvInit, InvNext, PromiseInit, <1>1, PTL DEF Spec, PromiseKept, Promise!Spec

-----------------------------------------------------------------------------
(***************************************************************************)
(* The invariant behind OneOrderPerTrigger. While a poll drives its batch, *)
(* the key of every unread order is among those said in this poll, and the *)
(* row about to run has a key that none of them has; outside the batch a   *)
(* poll starts only when the bots have read everything.                    *)
(***************************************************************************)
OrdersAreSpoken ==
    \A s \in Servers :
      /\ \A q \in unread[s] : KeyOf[q] # NoKey
      /\ pc[s] \in {"down", "expire", "select"} => unread[s] = {}
      /\ pc[s] \in {"row", "confirm"} => \A q \in unread[s] : KeyOf[q] \in spoken[s]
      /\ pc[s] = "confirm" =>
           LET k == KeyOf[batch[s][at[s]]] IN
           k # NoKey => k \in spoken[s] /\ \A q \in unread[s] : KeyOf[q] # k

\* What one worldserver does leaves the memory of the others alone.
ServerStep(s) ==
    \/ BotsTick(s) \/ Crash(s) \/ PollStep(s) \/ ApplyWrite(s) \/ LoseWrite(s)
    \/ \E t \in Tokens : Start(s, t)

LEMMA NextIsAServerStep ==
    ASSUME [Next]_vars
    PROVE  \/ \E s \in Servers : ServerStep(s)
           \/ \E r \in Rows : Insert(r) \/ BridgeGivesUp(r)
           \/ Tick
           \/ UNCHANGED vars
  BY DEF Next, ServerStep

LEMMA OthersStandStill ==
    ASSUME TypeOK, NEW s \in Servers, NEW z \in Servers, z # s, ServerStep(s)
    PROVE  /\ token'[z] = token[z] /\ pc'[z] = pc[z]
           /\ batch'[z] = batch[z] /\ at'[z] = at[z]
           /\ spoken'[z] = spoken[z] /\ unread'[z] = unread[z]
           /\ checks'[z] = checks[z] /\ writes'[z] = writes[z]
  <1>1. ASSUME NextRow(s)
        PROVE  pc'[z] = pc[z] /\ batch'[z] = batch[z] /\ at'[z] = at[z]
    BY <1>1 DEF NextRow, TypeOK
  <1>2. CASE BotsTick(s) \/ Crash(s) \/ \E t \in Tokens : Start(s, t)
    BY <1>2 DEF BotsTick, Crash, Start, TypeOK, table, poll, readBacks, history
  <1>3. CASE ApplyWrite(s) \/ LoseWrite(s)
    BY <1>3 DEF ApplyWrite, LoseWrite, TypeOK, poll, readBacks, history
  <1>4. CASE Resolve(s)
    BY <1>4 DEF Resolve, TypeOK, table, history
  <1>5. CASE Expire(s) \/ Select(s) \/ Claim(s)
    BY <1>5 DEF Expire, Select, Claim, TypeOK, table, readBacks, history
  <1>6. CASE HoldRow(s) \/ ConfirmLost(s)
    BY <1>1, <1>6 DEF HoldRow, ConfirmLost, SpokenNext, TypeOK, readBacks, history
  <1>7. CASE Execute(s)
    BY <1>1, <1>7 DEF Execute, SpokenNext, TypeOK
  <1> QED
    BY <1>2, <1>3, <1>4, <1>5, <1>6, <1>7 DEF ServerStep, PollStep

\* Where the poll is after NextRow, and what it remembers having said.
LEMMA AfterNextRow ==
    ASSUME TypeOK, NEW s \in Servers, NextRow(s), SpokenNext(s, spoken[s])
    PROVE  \/ pc'[s] = "row" /\ spoken'[s] = spoken[s]
           \/ pc'[s] = "idle"
  BY DEF NextRow, SpokenNext, TypeOK

LEMMA SpokenStep ==
    ASSUME Shape, OrdersAreSpoken, OneOrderPerTrigger, [Next]_vars
    PROVE  OrdersAreSpoken' /\ OneOrderPerTrigger'
  <1> DEFINE Said(s) ==
        /\ \A q \in unread[s] : KeyOf[q] # NoKey
        /\ pc[s] \in {"down", "expire", "select"} => unread[s] = {}
        /\ pc[s] \in {"row", "confirm"} => \A q \in unread[s] : KeyOf[q] \in spoken[s]
        /\ pc[s] = "confirm" =>
             LET k == KeyOf[batch[s][at[s]]] IN
             k # NoKey => k \in spoken[s] /\ \A q \in unread[s] : KeyOf[q] # k
        /\ \A q, r \in unread[s] : KeyOf[q] = KeyOf[r] => q = r
  <1>1. \A s \in Servers : Said(s)
    BY DEF OrdersAreSpoken, OneOrderPerTrigger
  <1>2. SUFFICES \A s \in Servers : Said(s)'
    BY DEF OrdersAreSpoken, OneOrderPerTrigger
  <1>3. ASSUME NEW s \in Servers,
               /\ unread'[s] = unread[s] \/ unread'[s] = {}
               /\ pc'[s] = pc[s] /\ spoken'[s] = spoken[s]
               /\ batch'[s] = batch[s] /\ at'[s] = at[s]
        PROVE  Said(s)'
    BY <1>1, <1>3
  <1>4. ASSUME NEW s \in Servers, unread'[s] = {},
               pc'[s] = "confirm" => FALSE
        PROVE  Said(s)'
    BY <1>4
  <1>5. ASSUME NEW s \in Servers, ServerStep(s) PROVE Said(s)'
    <2> USE <1>5
    <2>1. CASE BotsTick(s)
      BY <2>1, <1>3 DEF BotsTick, Shape, TypeOK, poll
    <2>2. CASE Crash(s) \/ Resolve(s) \/ \E t \in Tokens : Start(s, t)
      <3>1. unread'[s] = {} /\ pc'[s] # "confirm"
        BY <1>1, <2>2 DEF Crash, Resolve, Start, Shape, TypeOK
      <3> QED  BY <3>1, <1>4
    <2>3. CASE Expire(s) \/ Select(s)
      <3>1. unread'[s] = {} /\ pc'[s] # "confirm"
        BY <1>1, <2>3 DEF Expire, Select, Shape, TypeOK
      <3> QED  BY <3>1, <1>4
    <2>4. CASE HoldRow(s) \/ ConfirmLost(s)
      <3>1. unread'[s] = unread[s] /\ pc[s] \in {"row", "confirm"}
        BY <2>4 DEF HoldRow, ConfirmLost
      <3>2. (pc'[s] = "row" /\ spoken'[s] = spoken[s]) \/ pc'[s] = "idle"
        BY <2>4, AfterNextRow DEF HoldRow, ConfirmLost, Shape
      <3> QED  BY <1>1, <3>1, <3>2
    <2>5. CASE Claim(s)
      <3> DEFINE r == batch[s][at[s]]
      <3>1. /\ pc[s] = "row" /\ pc'[s] = "confirm"
            /\ unread'[s] = unread[s] /\ batch'[s] = batch[s] /\ at'[s] = at[s]
            /\ spoken'[s] = spoken[s] \cup ({KeyOf[r]} \ {NoKey})
            /\ KeyOf[r] = NoKey \/ KeyOf[r] \notin spoken[s]
        BY <2>5 DEF Claim, Saying, HoldForSharedTrigger, Shape, TypeOK
      <3> HIDE DEF r
      <3>2. batch'[s][at'[s]] = r
        BY <3>1 DEF r
      <3> QED  BY <1>1, <3>1, <3>2
    <2>6. CASE Execute(s)
      <3> DEFINE r == batch[s][at[s]]
      <3>1. /\ pc[s] = "confirm"
            /\ unread'[s] = IF KeyOf[r] # NoKey THEN unread[s] \cup {r} ELSE unread[s]
        BY <2>6 DEF Execute, Shape, TypeOK
      <3>2. (pc'[s] = "row" /\ spoken'[s] = spoken[s]) \/ pc'[s] = "idle"
        BY <2>6, AfterNextRow DEF Execute, Shape
      <3>3. KeyOf[r] # NoKey => KeyOf[r] \in spoken[s] /\ \A q \in unread[s] : KeyOf[q] # KeyOf[r]
        BY <1>1, <3>1
      <3> HIDE DEF r
      <3> QED  BY <1>1, <3>1, <3>2, <3>3
    <2>7. CASE ApplyWrite(s) \/ LoseWrite(s)
      BY <2>7, <1>3 DEF ApplyWrite, LoseWrite, poll, history
    <2> QED  BY <2>1, <2>2, <2>3, <2>4, <2>5, <2>6, <2>7 DEF ServerStep, PollStep
  <1>6. ASSUME NEW s \in Servers, ServerStep(s), NEW z \in Servers, z # s PROVE Said(z)'
    <2> HIDE DEF Said
    <2>1. /\ pc'[z] = pc[z] /\ batch'[z] = batch[z] /\ at'[z] = at[z]
          /\ spoken'[z] = spoken[z] /\ unread'[z] = unread[z]
      BY <1>6, OthersStandStill DEF Shape
    <2> QED  BY <1>3, <2>1
  <1>7. CASE \/ \E r \in Rows : Insert(r) \/ BridgeGivesUp(r)
             \/ Tick
             \/ UNCHANGED vars
    <2>1. unread' = unread /\ UNCHANGED poll
      BY <1>7 DEF Insert, BridgeGivesUp, Tick, vars
    <2> HIDE DEF Said
    <2> QED  BY <1>3, <2>1 DEF poll
  <1> HIDE DEF Said
  <1> QED  BY <1>5, <1>6, <1>7, NextIsAServerStep

\* A bot never holds two unread orders with one verb, for any number of rows,
\* worldservers and restarts: holding a row whose verb was said in this poll,
\* and polling only once the bots have read, is enough.
THEOREM OneUnreadOrderPerTrigger == Spec => []OneOrderPerTrigger
  <1> DEFINE Inv == QueueInv /\ OrdersAreSpoken /\ OneOrderPerTrigger
  <1>1. Init => Inv
    <2>1. Init => \A s \in Servers : unread[s] = {} /\ pc[s] = "down"
      BY DEF Init
    <2> QED  BY <2>1, InvInit DEF OrdersAreSpoken, OneOrderPerTrigger
  <1>2. Inv /\ [Next]_vars => Inv'
    BY InvNext, SpokenStep DEF QueueInv
  <1>3. Inv => OneOrderPerTrigger
    OBVIOUS
  <1> QED  BY <1>1, <1>2, <1>3, PTL DEF Spec

-----------------------------------------------------------------------------
(***************************************************************************)
(* The statements a worldserver has still to send. It ends the rows it     *)
(* holds under its own token, expires claims that are not its own, and     *)
(* takes nothing with it into the next run.                                *)
(***************************************************************************)
OwnWrite(s, w) ==
    /\ w.op = "finish" => w.by = token[s]
    /\ w.op = "expire" => w.by # token[s]

WritesAreOwn ==
    \A s \in Servers :
      /\ pc[s] = "down" => writes[s] = <<>>
      /\ \A i \in DOMAIN writes[s] : OwnWrite(s, writes[s][i])

\* Every row of a set has its place in each of its orders.
LEMMA OrdersMissNothing ==
    ASSUME NEW T \in SUBSET Rows, NEW f \in Orders(T), NEW r \in T
    PROVE  \E i \in DOMAIN f : f[i] = r
  <1>0. IsFiniteSet(Rows)
    BY FS_Interval, QueueAssumption DEF Rows
  <1>1. IsFiniteSet(T) /\ Cardinality(T) \in Nat
    BY <1>0, FS_Subset, FS_CardinalityType
  <1>2. Cardinality(1 .. Cardinality(T)) = Cardinality(T)
    BY <1>1, FS_Interval
  <1>3. f \in Injection(1 .. Cardinality(T), T)
    BY DEF Orders, Injection, IsInjective
  <1>4. f \in Surjection(1 .. Cardinality(T), T)
    BY <1>1, <1>2, <1>3, FS_Injection
  <1> QED  BY <1>4 DEF Surjection

\* The places of a queue once statements were added behind it, and once its
\* head is gone.
LEMMA AddedBehind ==
    ASSUME NEW u \in Seq(Write), NEW v \in Seq(Write)
    PROVE  /\ \A i \in DOMAIN u : i \in DOMAIN (u \o v) /\ (u \o v)[i] = u[i]
           /\ \A j \in DOMAIN v : /\ Len(u) + j \in DOMAIN (u \o v)
                                  /\ (u \o v)[Len(u) + j] = v[j]
                                  /\ \A i \in DOMAIN u : Len(u) + j > i
           /\ \A i \in DOMAIN (u \o v) :
                \/ i \in DOMAIN u /\ (u \o v)[i] = u[i]
                \/ \E j \in DOMAIN v : i = Len(u) + j /\ (u \o v)[i] = v[j]
  <1>1. \A i \in DOMAIN (u \o v) : i \in DOMAIN u \/ i - Len(u) \in DOMAIN v
    OBVIOUS
  <1> QED  BY <1>1

LEMMA HeadGone ==
    ASSUME NEW u \in Seq(Write), u # <<>>
    PROVE  /\ \A i \in DOMAIN Tail(u) : i + 1 \in DOMAIN u /\ Tail(u)[i] = u[i + 1]
           /\ \A i \in DOMAIN u : i # 1 => i - 1 \in DOMAIN Tail(u) /\ Tail(u)[i - 1] = u[i]
           /\ 1 \in DOMAIN u /\ Head(u) = u[1]
  OBVIOUS

\* What each step of a poll hands to the asynchronous worker.
LEMMA ResolveSends ==
    ASSUME Shape, NEW s \in Servers, Resolve(s)
    PROVE  \E over \in SUBSET Rows, ws \in Seq(Write) :
             /\ writes'[s] = writes[s] \o ws
             /\ checks'[s] = checks[s] \ over
             /\ \A r \in over : \E i \in DOMAIN ws : ws[i].row = r
             /\ \A i \in DOMAIN ws : /\ ws[i].op = "finish" /\ ws[i].from = "verifying"
                                     /\ ws[i].to # "verifying" /\ ws[i].by = token[s]
  <1> USE QueueAssumption
  <1>1. PICK v \in [checks[s] -> {"wait"} \cup ReadBacks] :
          LET over == {r \in checks[s] : v[r] # "wait"} IN
          /\ \E o \in Orders(over) :
               writes' = [writes EXCEPT ![s] = @ \o
                 [i \in DOMAIN o |-> Finish(o[i], "verifying", v[o[i]], token[s])]]
          /\ checks' = [checks EXCEPT ![s] = @ \ over]
    BY DEF Resolve
  <1> DEFINE over == {r \in checks[s] : v[r] # "wait"}
  <1>2. PICK o \in Orders(over) :
          writes' = [writes EXCEPT ![s] = @ \o
            [i \in DOMAIN o |-> Finish(o[i], "verifying", v[o[i]], token[s])]]
    BY <1>1
  <1>3. over \in SUBSET Rows /\ checks'[s] = checks[s] \ over
    BY <1>1 DEF Shape, TypeOK
  <1>4. \A r \in over : v[r] \in Terminal
    BY DEF Shape, TypeOK
  <1> HIDE DEF over
  <1>5. DOMAIN o = 1 .. Len(o) /\ Len(o) \in Nat /\ \A i \in DOMAIN o : o[i] \in over
    BY <1>3, OrdersAreSequences
  <1> DEFINE ws == [i \in DOMAIN o |-> Finish(o[i], "verifying", v[o[i]], token[s])]
  <1>6. token[s] \in Tokens
    BY DEF Shape, TypeOK, TokenOfOne, Resolve
  <1>7. ASSUME NEW i \in DOMAIN o
        PROVE  /\ ws[i] = Finish(o[i], "verifying", v[o[i]], token[s])
               /\ ws[i] \in Write
               /\ ws[i].op = "finish" /\ ws[i].from = "verifying"
               /\ ws[i].to # "verifying" /\ ws[i].by = token[s] /\ ws[i].row = o[i]
    <2>1. v[o[i]] \in Terminal /\ o[i] \in Rows
      BY <1>3, <1>4, <1>5
    <2> QED  BY <1>6, <2>1 DEF Finish, Write, Held, Terminal
  <1>8. DOMAIN ws = DOMAIN o
    OBVIOUS
  <1>9. writes'[s] = writes[s] \o ws
    BY <1>2 DEF Shape, TypeOK
  <1> HIDE DEF ws
  <1>10. ws \in Seq(Write)
    <2>1. ws = [i \in 1 .. Len(o) |-> ws[i]]
      BY <1>5, <1>8 DEF ws
    <2> QED  BY <1>5, <1>7, <2>1
  <1>11. \A r \in over : \E i \in DOMAIN ws : ws[i].row = r
    BY <1>3, <1>7, <1>8, OrdersMissNothing
  <1> USE <1>3, <1>10
  <1> WITNESS over \in SUBSET Rows, ws \in Seq(Write)
  <1> QED  BY <1>3, <1>7, <1>8, <1>9, <1>11

LEMMA ExpireSends ==
    ASSUME Shape, NEW s \in Servers, Expire(s)
    PROVE  \E ws \in Seq(Write) :
             /\ writes'[s] = writes[s] \o ws
             /\ \A i \in DOMAIN ws : ws[i].op = "expire" /\ ws[i].by # token[s]
  <1> DEFINE Gone(w) == {w[i] : i \in {j \in DOMAIN w : ClaimIsAbandoned(w[j], token[s])}}
  <1>w. PICK w \in Selections(HeldRows, HeldBefore) :
          \E o \in Orders(Gone(w)) :
            writes' = [writes EXCEPT ![s] = writes[s] \o
                         [i \in DOMAIN o |-> Expiry(o[i], claimedBy[o[i]])]]
    BY DEF Expire
  <1>1. PICK o \in Orders(Gone(w)) :
          writes' = [writes EXCEPT ![s] = writes[s] \o
                       [i \in DOMAIN o |-> Expiry(o[i], claimedBy[o[i]])]]
    BY <1>w
  <1>2. Gone(w) \in SUBSET Rows
    <2>1. HeldRows \in SUBSET Rows
      BY DEF HeldRows
    <2>2. w \in UNION {Orders(T) : T \in SUBSET HeldRows}
      BY DEF Selections
    <2> QED  BY <2>1, <2>2, SelectionsAreSequences
  <1>3. \A r \in Gone(w) : claimedBy[r] # token[s]
    BY DEF ClaimIsAbandoned
  <1> HIDE DEF Gone
  <1>4. DOMAIN o = 1 .. Len(o) /\ Len(o) \in Nat /\ \A i \in DOMAIN o : o[i] \in Gone(w)
    BY <1>2, OrdersAreSequences
  <1> DEFINE ws == [i \in DOMAIN o |-> Expiry(o[i], claimedBy[o[i]])]
  <1>5. ASSUME NEW i \in DOMAIN o
        PROVE  /\ ws[i] = Expiry(o[i], claimedBy[o[i]])
               /\ ws[i] \in Write
               /\ ws[i].op = "expire" /\ ws[i].by # token[s]
    BY <1>2, <1>3, <1>4 DEF Expiry, Write, Shape, TypeOK
  <1>6. ws \in Seq(Write)
    BY <1>4, <1>5
  <1>7. writes'[s] = writes[s] \o ws
    BY <1>1 DEF Shape, TypeOK
  <1> QED  BY <1>5, <1>6, <1>7

LEMMA HoldRowSends ==
    ASSUME Shape, NEW s \in Servers, HoldRow(s)
    PROVE  \E ws \in Seq(Write) :
             /\ writes'[s] = writes[s] \o ws
             /\ \A i \in DOMAIN ws : ws[i].op = "touch" /\ ws[i].to = "pending"
  <1> DEFINE w == Touch(batch[s][at[s]])
  <1>1. w \in Write /\ w.op = "touch" /\ w.to = "pending"
    BY CursorRow DEF HoldRow, Shape, Touch, Write
  <1>2. writes'[s] = Append(writes[s], w)
    BY DEF HoldRow, Shape, TypeOK
  <1> HIDE DEF w
  <1>3. writes'[s] = writes[s] \o <<w>> /\ <<w>> \in Seq(Write)
    BY <1>1, <1>2 DEF Shape, TypeOK
  <1>4. \A i \in DOMAIN <<w>> : <<w>>[i] = w
    OBVIOUS
  <1> QED  BY <1>1, <1>3, <1>4

LEMMA ExecuteSends ==
    ASSUME Shape, NEW s \in Servers, Execute(s)
    PROVE  \E ws \in Seq(Write), a \in Answers :
             /\ writes'[s] = writes[s] \o ws
             /\ checks'[s] = Watch(s, batch[s][at[s]], a)
             /\ 1 \in DOMAIN ws
             /\ \A i \in DOMAIN ws : /\ i = 1 /\ ws[i].op = "finish"
                                     /\ ws[i].row = batch[s][at[s]]
                                     /\ ws[i].from = "claimed" /\ ws[i].to = a
                                     /\ ws[i].by = token[s]
  <1> DEFINE r == batch[s][at[s]]
  <1>1. r \in Rows /\ token[s] \in Tokens
    BY CursorRow DEF Execute, Shape, TypeOK, TokenOfOne
  <1>2. PICK a \in Answers :
          /\ writes' = [writes EXCEPT ![s] = Append(@, Finish(r, "claimed", a, token[s]))]
          /\ checks' = [checks EXCEPT ![s] = Watch(s, r, a)]
    BY DEF Execute
  <1> DEFINE w == Finish(r, "claimed", a, token[s])
  <1> HIDE DEF r
  <1>3. /\ w \in Write /\ w.op = "finish" /\ w.row = r
        /\ w.from = "claimed" /\ w.to = a /\ w.by = token[s]
    BY <1>1, QueueAssumption DEF Finish, Write, Held
  <1>4. writes'[s] = Append(writes[s], w) /\ checks'[s] = Watch(s, r, a)
    BY <1>2 DEF Shape, TypeOK
  <1> HIDE DEF w
  <1>5. writes'[s] = writes[s] \o <<w>> /\ <<w>> \in Seq(Write)
    BY <1>3, <1>4 DEF Shape, TypeOK
  <1>6. \A i \in DOMAIN <<w>> : i = 1 /\ <<w>>[i] = w
    OBVIOUS
  <1>7. 1 \in DOMAIN <<w>>
    OBVIOUS
  <1> QED  BY <1>3, <1>4, <1>5, <1>6, <1>7 DEF r

LEMMA OwnStep ==
    ASSUME Shape, WritesAreOwn, [Next]_vars
    PROVE  WritesAreOwn'
  <1> DEFINE Owned(s) == /\ pc[s] = "down" => writes[s] = <<>>
                         /\ \A i \in DOMAIN writes[s] : OwnWrite(s, writes[s][i])
  <1>1. \A s \in Servers : Owned(s)
    BY DEF WritesAreOwn
  <1>2. SUFFICES \A s \in Servers : Owned(s)'
    BY DEF WritesAreOwn
  <1>3. ASSUME NEW s \in Servers, writes'[s] = writes[s], token'[s] = token[s],
               pc'[s] = "down" => pc[s] = "down"
        PROVE  Owned(s)'
    BY <1>1, <1>3 DEF OwnWrite
  <1>4. ASSUME NEW s \in Servers, NEW ws \in Seq(Write), writes'[s] = writes[s] \o ws,
               \A i \in DOMAIN ws : OwnWrite(s, ws[i]),
               token'[s] = token[s], pc'[s] # "down"
        PROVE  Owned(s)'
    <2>1. writes[s] \in Seq(Write)
      BY DEF Shape, TypeOK
    <2> QED  BY <1>1, <1>4, <2>1, AddedBehind DEF OwnWrite
  <1>5. ASSUME NEW s \in Servers, ServerStep(s) PROVE Owned(s)'
    <2> HIDE DEF Owned
    <2>1. CASE BotsTick(s) \/ Select(s) \/ Claim(s) \/ ConfirmLost(s)
      <3>1. pc'[s] = "down" => pc[s] = "down"
        BY <2>1 DEF BotsTick, Select, Claim, ConfirmLost, NextRow, poll, Shape, TypeOK
      <3> QED  BY <2>1, <3>1, <1>3 DEF BotsTick, Select, Claim, ConfirmLost
    <2>2. CASE Crash(s)
      <3>1. writes'[s] = <<>>
        BY <2>2 DEF Crash, Shape, TypeOK
      <3> QED  BY <3>1 DEF Owned
    <2>3. CASE \E t \in Tokens : Start(s, t)
      <3>1. pc[s] = "down" /\ writes' = writes
        BY <2>3 DEF Start
      <3> QED  BY <1>1, <3>1 DEF Owned
    <2>4. CASE ApplyWrite(s) \/ LoseWrite(s)
      <3>1. /\ writes[s] # <<>> /\ writes'[s] = Tail(writes[s])
            /\ token' = token /\ pc' = pc /\ writes[s] \in Seq(Write)
        BY <2>4 DEF ApplyWrite, LoseWrite, poll, Shape, TypeOK
      <3> QED  BY <1>1, <3>1, HeadGone DEF Owned, OwnWrite
    <2>5. CASE Resolve(s)
      <3>1. token' = token /\ pc'[s] # "down"
        BY <2>5 DEF Resolve, Shape, TypeOK
      <3>2. PICK over \in SUBSET Rows, ws \in Seq(Write) :
              /\ writes'[s] = writes[s] \o ws
              /\ checks'[s] = checks[s] \ over
              /\ \A r \in over : \E i \in DOMAIN ws : ws[i].row = r
              /\ \A i \in DOMAIN ws : /\ ws[i].op = "finish" /\ ws[i].from = "verifying"
                                      /\ ws[i].to # "verifying" /\ ws[i].by = token[s]
        BY <2>5, ResolveSends
      <3> QED  BY <3>1, <3>2, <1>4 DEF OwnWrite
    <2>6. CASE Expire(s)
      <3>1. token' = token /\ pc'[s] # "down"
        BY <2>6 DEF Expire, Shape, TypeOK
      <3>2. PICK ws \in Seq(Write) :
              /\ writes'[s] = writes[s] \o ws
              /\ \A i \in DOMAIN ws : ws[i].op = "expire" /\ ws[i].by # token[s]
        BY <2>6, ExpireSends
      <3> QED  BY <3>1, <3>2, <1>4 DEF OwnWrite
    <2>7. CASE HoldRow(s)
      <3>1. token' = token /\ pc'[s] # "down"
        BY <2>7 DEF HoldRow, NextRow, Shape, TypeOK
      <3>2. PICK ws \in Seq(Write) :
              writes'[s] = writes[s] \o ws /\ \A i \in DOMAIN ws : ws[i].op = "touch"
        BY <2>7, HoldRowSends
      <3> QED  BY <3>1, <3>2, <1>4 DEF OwnWrite
    <2>8. CASE Execute(s)
      <3>1. token' = token /\ pc'[s] # "down"
        BY <2>8 DEF Execute, NextRow, Shape, TypeOK
      <3>2. PICK ws \in Seq(Write) :
              /\ writes'[s] = writes[s] \o ws
              /\ \A i \in DOMAIN ws : ws[i].op = "finish" /\ ws[i].by = token[s]
        BY <2>8, ExecuteSends
      <3> QED  BY <3>1, <3>2, <1>4 DEF OwnWrite
    <2> QED
      BY <1>5, <2>1, <2>2, <2>3, <2>4, <2>5, <2>6, <2>7, <2>8 DEF ServerStep, PollStep
  <1>6. ASSUME NEW s \in Servers, ServerStep(s), NEW z \in Servers, z # s PROVE Owned(z)'
    <2> HIDE DEF Owned
    <2> QED  BY <1>6, <1>3, OthersStandStill DEF Shape
  <1>7. CASE \/ \E r \in Rows : Insert(r) \/ BridgeGivesUp(r)
             \/ Tick
             \/ UNCHANGED vars
    <2>1. writes' = writes /\ token' = token /\ UNCHANGED poll
      BY <1>7 DEF Insert, BridgeGivesUp, Tick, vars
    <2> HIDE DEF Owned
    <2> QED  BY <1>3, <2>1 DEF poll
  <1> HIDE DEF Owned
  <1> QED  BY <1>5, <1>6, <1>7, NextIsAServerStep

\* What a step may do to the claimed_by column: a live run claims a row nobody
\* ever held, or a run ends a claim that is not its own.
LEMMA ClaimedByStep ==
    ASSUME Shape, WaitingIsFresh, WritesAreOwn, [Next]_vars
    PROVE  \/ UNCHANGED claimedBy
           \/ \E s \in Servers, r \in Rows :
                /\ claimedBy[r] = NoToken /\ token[s] \in used
                /\ claimedBy' = [claimedBy EXCEPT ![r] = token[s]]
           \/ \E s \in Servers, r \in Rows :
                /\ claimedBy[r] # token[s]
                /\ claimedBy' = [claimedBy EXCEPT ![r] = NoToken]
  <1>1. ASSUME NEW s \in Servers, Claim(s)
        PROVE  \/ UNCHANGED claimedBy
               \/ \E r \in Rows : /\ claimedBy[r] = NoToken /\ token[s] \in used
                                  /\ claimedBy' = [claimedBy EXCEPT ![r] = token[s]]
    <2>1. batch[s][at[s]] \in Rows /\ token[s] \in used
      BY <1>1, CursorRow DEF Claim, Shape, TokenOfOne
    <2> QED  BY <1>1, <2>1 DEF Claim, WaitingIsFresh, table
  <1>2. ASSUME NEW s \in Servers, ApplyWrite(s)
        PROVE  \/ UNCHANGED claimedBy
               \/ \E r \in Rows : /\ claimedBy[r] # token[s]
                                  /\ claimedBy' = [claimedBy EXCEPT ![r] = NoToken]
    <2> DEFINE w == Head(writes[s])
    <2>1. w \in Write /\ 1 \in DOMAIN writes[s] /\ w = writes[s][1]
      BY <1>2, TailType, HeadGone DEF ApplyWrite, Shape, TypeOK
    <2>2. OwnWrite(s, w)
      BY <2>1 DEF WritesAreOwn
    <2>3. \/ UNCHANGED claimedBy
          \/ /\ Matches(w)
             /\ claimedBy' = [claimedBy EXCEPT ![w.row] =
                                IF w.op = "expire" THEN NoToken ELSE @]
      BY <1>2 DEF ApplyWrite, table
    <2> HIDE DEF w
    <2>4. w.row \in Rows
      BY <2>1 DEF Write
    <2>5. CASE w.op = "expire"
      BY <2>2, <2>3, <2>4, <2>5 DEF OwnWrite, Matches
    <2>6. CASE w.op # "expire"
      BY <2>3, <2>4, <2>6 DEF Shape, TypeOK
    <2> QED  BY <2>5, <2>6
  <1> QED
    BY <1>1, <1>2 DEF Next, PollStep, Insert, BridgeGivesUp, Tick, BotsTick, Start, Crash,
       Resolve, Expire, Select, HoldRow, ConfirmLost, Execute, LoseWrite, vars, table

LEMMA OwnInit == Init => WritesAreOwn
  <1> SUFFICES ASSUME Init, NEW s \in Servers PROVE writes[s] = <<>>
    BY DEF WritesAreOwn
  <1> QED  BY DEF Init

\* Where one worldserver drains the queue, however often it restarts and
\* whatever its writes do, no claim of the living run is taken from it: the
\* lease compares the token, and a run queues no expiry of its own claims.
THEOREM LeaseEndsOnlyWhatIsAbandoned ==
    ASSUME \A s, z \in Servers : s = z
    PROVE  Spec => LeaseSparesLivingRun
  <1> DEFINE Inv == QueueInv /\ WritesAreOwn
  <1>1. Init => Inv
    BY InvInit, OwnInit
  <1>2. Inv /\ [Next]_vars => Inv'
    BY InvNext, OwnStep DEF QueueInv
  <1>3. Inv /\ [Next]_vars =>
          [\A r \in Rows, s \in Servers :
             (pc[s] # "down" /\ claimedBy[r] = token[s]) => claimedBy'[r] = token[s]]_vars
    <2> SUFFICES ASSUME Inv, [Next]_vars, NEW r \in Rows, NEW s \in Servers,
                        pc[s] # "down", claimedBy[r] = token[s]
                 PROVE  claimedBy'[r] = token[s]
      OBVIOUS
    <2>1. token[s] # NoToken
      BY DEF QueueInv, Shape, TokenOfOne
    <2> QED  BY <2>1, ClaimedByStep DEF QueueInv, Shape, TypeOK
  <1> QED  BY <1>1, <1>2, <1>3, PTL DEF Spec, LeaseSparesLivingRun

-----------------------------------------------------------------------------
(***************************************************************************)
(* The invariant behind HeldRowIsDriven. A claim carries the token of some *)
(* process start, so a new start holds nothing. A finish that leaves its   *)
(* row verifying is only sent with a read-back in place, and a read-back   *)
(* leaves memory only for a finish of the row, queued behind the first.    *)
(***************************************************************************)
ClaimsAreUsed == \A r \in Rows : claimedBy[r] # NoToken => claimedBy[r] \in used

VerifyingIsWatched ==
    \A s \in Servers : \A i \in DOMAIN writes[s] :
      (writes[s][i].op = "finish" /\ writes[s][i].to = "verifying") =>
        \/ writes[s][i].row \in checks[s]
        \/ \E j \in DOMAIN writes[s] : /\ j > i
                                       /\ writes[s][j].row = writes[s][i].row
                                       /\ writes[s][j].from = "verifying"

LEMMA ClaimsUsedStep ==
    ASSUME Shape, WaitingIsFresh, WritesAreOwn, ClaimsAreUsed, [Next]_vars
    PROVE  ClaimsAreUsed'
  <1>1. used \subseteq used'
    BY DEF Next, PollStep, Insert, BridgeGivesUp, Tick, BotsTick, Start, Crash, Resolve,
           Expire, Select, HoldRow, Claim, ConfirmLost, Execute, ApplyWrite, LoseWrite,
           vars, history
  <1> QED  BY <1>1, ClaimedByStep DEF ClaimsAreUsed, Shape, TypeOK

LEMMA WatchedStep ==
    ASSUME Shape, VerifyingIsWatched, [Next]_vars
    PROVE  VerifyingIsWatched'
  <1> DEFINE Answered(s, i, u) == \E j \in DOMAIN u : /\ j > i /\ u[j].row = u[i].row
                                                      /\ u[j].from = "verifying"
             Seen(s, u, c) == \A i \in DOMAIN u :
                                (u[i].op = "finish" /\ u[i].to = "verifying") =>
                                   u[i].row \in c \/ Answered(s, i, u)
             Grows(s, ws, over) ==
               /\ writes'[s] = writes[s] \o ws
               /\ checks[s] \ over \subseteq checks'[s]
               /\ \A i \in DOMAIN ws : (ws[i].op = "finish" /\ ws[i].to = "verifying") =>
                                           ws[i].row \in checks'[s]
               /\ \A r \in over : \E i \in DOMAIN ws :
                     ws[i].row = r /\ ws[i].from = "verifying"
  <1>1. \A s \in Servers : Seen(s, writes[s], checks[s]) /\ writes[s] \in Seq(Write)
    BY DEF VerifyingIsWatched, Shape, TypeOK
  <1>2. SUFFICES \A s \in Servers : Seen(s, writes'[s], checks'[s])
    BY DEF VerifyingIsWatched
  <1>3. ASSUME NEW s \in Servers, NEW ws \in Seq(Write), NEW over \in SUBSET Rows,
               Grows(s, ws, over)
        PROVE  Seen(s, writes'[s], checks'[s])
    <2> DEFINE u == writes[s]
               n == writes'[s]
    <2> SUFFICES ASSUME NEW i \in DOMAIN n, n[i].op = "finish", n[i].to = "verifying"
                 PROVE  n[i].row \in checks'[s] \/ Answered(s, i, n)
      OBVIOUS
    <2>1. u \in Seq(Write) /\ n = u \o ws
      BY <1>1, <1>3
    <2> HIDE DEF u, n
    <2>2. /\ \A k \in DOMAIN u : k \in DOMAIN n /\ n[k] = u[k]
          /\ \A j \in DOMAIN ws : /\ Len(u) + j \in DOMAIN n /\ n[Len(u) + j] = ws[j]
                                  /\ \A k \in DOMAIN u : Len(u) + j > k
          /\ i \in DOMAIN u \/ \E j \in DOMAIN ws : n[i] = ws[j]
      BY <2>1, AddedBehind
    <2>3. CASE i \in DOMAIN u
      <3>1. u[i].row \in checks[s] \/ Answered(s, i, u)
        BY <1>1, <2>2, <2>3 DEF u
      <3>2. CASE Answered(s, i, u)
        BY <2>2, <2>3, <3>2
      <3>3. CASE u[i].row \in checks[s] /\ u[i].row \in over
        <4>1. PICK j \in DOMAIN ws : ws[j].row = u[i].row /\ ws[j].from = "verifying"
          BY <1>3, <3>3
        <4> QED  BY <2>2, <2>3, <4>1
      <3>4. CASE u[i].row \in checks[s] /\ u[i].row \notin over
        BY <1>3, <2>2, <2>3, <3>4
      <3> QED  BY <3>1, <3>2, <3>3, <3>4
    <2>4. CASE \E j \in DOMAIN ws : n[i] = ws[j]
      BY <1>3, <2>4
    <2> QED  BY <2>2, <2>3, <2>4
  <1>4. ASSUME NEW s \in Servers, NEW ws \in Seq(Write),
               writes'[s] = writes[s] \o ws, checks'[s] = checks[s],
               \A i \in DOMAIN ws : ws[i].op # "finish"
        PROVE  Seen(s, writes'[s], checks'[s])
    <2>1. Grows(s, ws, {})
      BY <1>4
    <2> HIDE DEF Seen, Grows
    <2> QED  BY <1>3, <2>1
  <1>5. ASSUME NEW s \in Servers, writes[s] # <<>>,
               writes'[s] = Tail(writes[s]), checks'[s] = checks[s]
        PROVE  Seen(s, writes'[s], checks'[s])
    <2> DEFINE u == writes[s]
               n == writes'[s]
    <2> SUFFICES ASSUME NEW i \in DOMAIN n, n[i].op = "finish", n[i].to = "verifying"
                 PROVE  n[i].row \in checks[s] \/ Answered(s, i, n)
      BY <1>5
    <2>1. u \in Seq(Write) /\ u # <<>> /\ n = Tail(u)
      BY <1>1, <1>5
    <2> HIDE DEF u, n
    <2>2. /\ i + 1 \in DOMAIN u /\ n[i] = u[i + 1] /\ i \in Nat \ {0}
          /\ \A j \in DOMAIN u : j \in Nat /\
                (j # 1 => j - 1 \in DOMAIN n /\ n[j - 1] = u[j])
      BY <2>1, HeadGone
    <2>3. u[i + 1].row \in checks[s] \/ Answered(s, i + 1, u)
      BY <1>1, <2>2 DEF u
    <2>4. CASE Answered(s, i + 1, u)
      <3>1. PICK j \in DOMAIN u : /\ j > i + 1 /\ u[j].row = u[i + 1].row
                                  /\ u[j].from = "verifying"
        BY <2>4
      <3>2. j - 1 \in DOMAIN n /\ n[j - 1] = u[j] /\ j - 1 > i
        BY <2>2, <3>1
      <3> QED  BY <2>2, <3>1, <3>2
    <2> QED  BY <2>2, <2>3, <2>4
  <1>6. ASSUME NEW s \in Servers, ServerStep(s) PROVE Seen(s, writes'[s], checks'[s])
    <2>1. CASE BotsTick(s) \/ Select(s) \/ Claim(s) \/ ConfirmLost(s)
               \/ \E t \in Tokens : Start(s, t)
      <3>1. writes' = writes /\ checks' = checks
        BY <2>1 DEF BotsTick, Select, Claim, ConfirmLost, Start, readBacks
      <3> HIDE DEF Seen
      <3> QED  BY <1>1, <3>1
    <2>2. CASE Crash(s)
      <3>1. writes'[s] = <<>>
        BY <2>2 DEF Crash, Shape, TypeOK
      <3> QED  BY <3>1
    <2>3. CASE ApplyWrite(s) \/ LoseWrite(s)
      <3>1. writes[s] # <<>> /\ writes'[s] = Tail(writes[s]) /\ checks' = checks
        BY <2>3 DEF ApplyWrite, LoseWrite, readBacks, Shape, TypeOK
      <3> HIDE DEF Seen
      <3> QED  BY <3>1, <1>5
    <2>4. CASE Resolve(s)
      <3>1. PICK over \in SUBSET Rows, ws \in Seq(Write) :
              /\ writes'[s] = writes[s] \o ws
              /\ checks'[s] = checks[s] \ over
              /\ \A r \in over : \E i \in DOMAIN ws : ws[i].row = r
              /\ \A i \in DOMAIN ws : /\ ws[i].op = "finish" /\ ws[i].from = "verifying"
                                      /\ ws[i].to # "verifying" /\ ws[i].by = token[s]
        BY <2>4, ResolveSends
      <3>2. Grows(s, ws, over)
        BY <3>1
      <3> HIDE DEF Seen, Grows
      <3> QED  BY <3>2, <1>3
    <2>5. CASE Expire(s)
      <3>1. PICK ws \in Seq(Write) :
              /\ writes'[s] = writes[s] \o ws
              /\ \A i \in DOMAIN ws : ws[i].op = "expire" /\ ws[i].by # token[s]
        BY <2>5, ExpireSends
      <3>2. checks' = checks
        BY <2>5 DEF Expire, readBacks
      <3> HIDE DEF Seen
      <3> QED  BY <3>1, <3>2, <1>4
    <2>6. CASE HoldRow(s)
      <3>1. PICK ws \in Seq(Write) :
              /\ writes'[s] = writes[s] \o ws
              /\ \A i \in DOMAIN ws : ws[i].op = "touch" /\ ws[i].to = "pending"
        BY <2>6, HoldRowSends
      <3>2. checks' = checks
        BY <2>6 DEF HoldRow, readBacks
      <3> HIDE DEF Seen
      <3> QED  BY <3>1, <3>2, <1>4
    <2>7. CASE Execute(s)
      <3>1. PICK ws \in Seq(Write), a \in Answers :
              /\ writes'[s] = writes[s] \o ws
              /\ checks'[s] = Watch(s, batch[s][at[s]], a)
              /\ 1 \in DOMAIN ws
              /\ \A i \in DOMAIN ws : /\ i = 1 /\ ws[i].op = "finish"
                                      /\ ws[i].row = batch[s][at[s]]
                                      /\ ws[i].from = "claimed" /\ ws[i].to = a
                                      /\ ws[i].by = token[s]
        BY <2>7, ExecuteSends
      <3>2. /\ checks[s] \ {} \subseteq checks'[s]
            /\ a = "verifying" => batch[s][at[s]] \in checks'[s]
        BY <3>1 DEF Watch
      <3>3. Grows(s, ws, {})
        BY <3>1, <3>2
      <3> HIDE DEF Seen, Grows
      <3> QED  BY <3>3, <1>3
    <2> QED  BY <1>6, <2>1, <2>2, <2>3, <2>4, <2>5, <2>6, <2>7 DEF ServerStep, PollStep
  <1>7. ASSUME NEW s \in Servers, ServerStep(s), NEW z \in Servers, z # s
        PROVE  Seen(z, writes'[z], checks'[z])
    <2> HIDE DEF Seen
    <2> QED  BY <1>1, <1>7, OthersStandStill DEF Shape
  <1>8. CASE \/ \E r \in Rows : Insert(r) \/ BridgeGivesUp(r)
             \/ Tick
             \/ UNCHANGED vars
    <2>1. writes' = writes /\ checks' = checks
      BY <1>8 DEF Insert, BridgeGivesUp, Tick, vars, readBacks
    <2> HIDE DEF Seen
    <2> QED  BY <1>1, <2>1
  <1> HIDE DEF Seen
  <1> QED  BY <1>6, <1>7, <1>8, NextIsAServerStep

\* What the other worldservers and the bridge do to a row s holds: nothing.
LEMMA RivalsLeaveMine ==
    ASSUME Shape, WaitingIsFresh, WritesAreOwn, NEW s \in Servers, NEW z \in Servers,
           z # s, ServerStep(z), NEW r \in Rows, status'[r] \in Held,
           token[s] # NoToken, claimedBy'[r] = token[s]
    PROVE  status'[r] = status[r] /\ claimedBy'[r] = claimedBy[r]
  <1>1. CASE Claim(z)
    <2> DEFINE q == batch[z][at[z]]
    <2>1. q \in Rows /\ token[z] # token[s]
      BY <1>1, CursorRow DEF Claim, Shape, TokenOfOne
    <2>2. \/ UNCHANGED table
          \/ /\ claimedBy' = [claimedBy EXCEPT ![q] = token[z]]
             /\ status' = [status EXCEPT ![q] = "claimed"]
      BY <1>1 DEF Claim
    <2> HIDE DEF q
    <2> QED  BY <2>1, <2>2 DEF Shape, TypeOK, table
  <1>2. CASE ApplyWrite(z)
    <2> DEFINE w == Head(writes[z])
    <2>1. w \in Write /\ OwnWrite(z, w) /\ token[z] # token[s]
      BY <1>2, TailType, HeadGone DEF ApplyWrite, Shape, TypeOK, WritesAreOwn, TokenOfOne
    <2>2. \/ UNCHANGED table
          \/ /\ Matches(w)
             /\ status' = [status EXCEPT ![w.row] = w.to]
             /\ claimedBy' = [claimedBy EXCEPT ![w.row] =
                                IF w.op = "expire" THEN NoToken ELSE @]
      BY <1>2 DEF ApplyWrite
    <2> HIDE DEF w
    <2>3. CASE UNCHANGED table
      BY <2>3 DEF table
    <2>4. CASE w.row # r
      BY <2>2, <2>4 DEF Shape, TypeOK, table
    <2>5. CASE Matches(w) /\ w.row = r /\ status'[r] = w.to
      <3>1. w.op = "finish"
        BY <2>1, <2>5 DEF Write, Held
      <3>2. claimedBy[r] = token[z] /\ claimedBy'[r] = claimedBy[r]
        <4>1. claimedBy' = claimedBy \/ claimedBy' = [claimedBy EXCEPT ![w.row] = @]
          BY <2>2, <3>1 DEF table
        <4> QED  BY <2>1, <2>5, <3>1, <4>1 DEF OwnWrite, Matches, Shape, TypeOK
      <3> QED  BY <2>1, <3>2
    <2> QED  BY <2>2, <2>3, <2>4, <2>5 DEF Shape, TypeOK
  <1> QED
    BY <1>1, <1>2 DEF ServerStep, PollStep, BotsTick, Start, Crash, Resolve, Expire, Select,
       HoldRow, ConfirmLost, Execute, LoseWrite, table

LEMMA DrivenStep ==
    ASSUME Shape, Shape', WaitingIsFresh, WritesAreOwn, ClaimsAreUsed, VerifyingIsWatched,
           HeldRowIsDriven, [Next]_vars
    PROVE  HeldRowIsDriven'
  <1> DEFINE Mine(r, s) == status[r] \in Held /\ pc[s] # "down" /\ claimedBy[r] = token[s]
             Ending(r, s) == \E i \in DOMAIN writes[s] :
                                writes[s][i].row = r /\ writes[s][i].from = status[r]
             Driven(r, s) ==
               \/ pc[s] = "confirm" /\ batch[s][at[s]] = r /\ status[r] = "claimed"
               \/ Ending(r, s)
               \/ r \in checks[s] /\ status[r] = "verifying"
  <1> SUFFICES ASSUME faults' = 0, NEW r \in Rows, NEW s \in Servers, Mine(r, s)'
               PROVE  Driven(r, s)'
    BY DEF HeldRowIsDriven
  <1>1. faults = 0
    <2>1. faults' = faults \/ faults' = faults + 1
      BY DEF Next, PollStep, Insert, BridgeGivesUp, Tick, BotsTick, Start, Crash, Resolve,
             Expire, Select, HoldRow, Claim, ConfirmLost, Execute, ApplyWrite, LoseWrite,
             vars, history
    <2> QED  BY <2>1 DEF Shape, TypeOK
  <1>2. Mine(r, s) => Driven(r, s)
    BY <1>1 DEF HeldRowIsDriven
  <1>3. /\ token'[s] # NoToken /\ writes[s] \in Seq(Write)
        /\ \A i \in DOMAIN writes[s] : writes[s][i] \in Write
    BY DEF Shape, TypeOK, TokenOfOne
  <1>4. CASE /\ status'[r] = status[r] /\ claimedBy'[r] = claimedBy[r]
             /\ token'[s] = token[s] /\ pc'[s] = pc[s]
             /\ batch'[s] = batch[s] /\ at'[s] = at[s]
             /\ writes'[s] = writes[s] /\ checks'[s] = checks[s]
    BY <1>2, <1>4
  <1>5. ASSUME NEW z \in Servers, z # s, ServerStep(z) PROVE Driven(r, s)'
    <2> HIDE DEF Driven
    <2>1. /\ token'[s] = token[s] /\ pc'[s] = pc[s]
          /\ batch'[s] = batch[s] /\ at'[s] = at[s]
          /\ writes'[s] = writes[s] /\ checks'[s] = checks[s]
      BY <1>5, OthersStandStill DEF Shape
    <2>2. status'[r] = status[r] /\ claimedBy'[r] = claimedBy[r]
      BY <1>3, <1>5, <2>1, RivalsLeaveMine
    <2> QED  BY <2>1, <2>2, <1>4
  \* The queue grows behind what was there, and no row changes.
  <1>6. ASSUME NEW ws \in Seq(Write), writes'[s] = writes[s] \o ws,
               UNCHANGED <<status, claimedBy>>, token'[s] = token[s], pc[s] # "down",
               pc[s] = "confirm" => batch[s][at[s]] # r,
               r \in checks[s] => r \in checks'[s] \/ \E i \in DOMAIN ws :
                                     ws[i].row = r /\ ws[i].from = "verifying"
        PROVE  Driven(r, s)'
    <2>1. /\ \A i \in DOMAIN writes[s] : i \in DOMAIN writes'[s] /\ writes'[s][i] = writes[s][i]
          /\ \A j \in DOMAIN ws : /\ Len(writes[s]) + j \in DOMAIN writes'[s]
                                  /\ writes'[s][Len(writes[s]) + j] = ws[j]
      BY <1>3, <1>6, AddedBehind
    <2>2. Ending(r, s) \/ (r \in checks[s] /\ status[r] = "verifying")
      <3>1. Mine(r, s)
        BY <1>6
      <3>2. ~ (pc[s] = "confirm" /\ batch[s][at[s]] = r)
        BY <1>6
      <3> HIDE DEF Mine, Ending
      <3> QED  BY <1>2, <3>1, <3>2
    <2>3. CASE Ending(r, s)
      BY <1>6, <2>1, <2>3
    <2>4. CASE r \in checks[s] /\ status[r] = "verifying"
      BY <1>6, <2>1, <2>4
    <2> QED  BY <2>2, <2>3, <2>4
  <1>7. CASE BotsTick(s) \/ Select(s) \/ Crash(s) \/ LoseWrite(s) \/ \E t \in Tokens : Start(s, t)
    <2>1. CASE BotsTick(s)
      BY <1>4, <2>1 DEF BotsTick, table, poll, readBacks
    <2>2. CASE Select(s)
      <3>1. /\ UNCHANGED <<table, token, readBacks, writes>> /\ pc[s] = "select"
        BY <2>2 DEF Select
      <3> QED  BY <1>2, <3>1 DEF table, readBacks
    <2>3. CASE Crash(s) \/ LoseWrite(s)
      BY <1>1, <2>3 DEF Crash, LoseWrite, Shape, TypeOK
    <2>4. CASE \E t \in Tokens : Start(s, t)
      <3>1. token'[s] \notin used /\ claimedBy' = claimedBy
        BY <2>4 DEF Start, table, Shape, TypeOK
      <3> QED  BY <1>3, <3>1 DEF ClaimsAreUsed
    <2> QED  BY <1>7, <2>1, <2>2, <2>3, <2>4
  <1>8. CASE Resolve(s)
    <2>1. PICK over \in SUBSET Rows, ws \in Seq(Write) :
            /\ writes'[s] = writes[s] \o ws
            /\ checks'[s] = checks[s] \ over
            /\ \A q \in over : \E i \in DOMAIN ws : ws[i].row = q
            /\ \A i \in DOMAIN ws : /\ ws[i].op = "finish" /\ ws[i].from = "verifying"
                                    /\ ws[i].to # "verifying" /\ ws[i].by = token[s]
      BY <1>8, ResolveSends
    <2>2. UNCHANGED <<status, claimedBy, token>> /\ pc[s] = "idle"
      BY <1>8 DEF Resolve, table
    <2> HIDE DEF Driven
    <2> QED  BY <2>1, <2>2, <1>6
  <1>9. CASE Expire(s) \/ HoldRow(s)
    <2>1. PICK ws \in Seq(Write) : writes'[s] = writes[s] \o ws
      BY <1>9, ExpireSends, HoldRowSends
    <2>2. UNCHANGED <<status, claimedBy, token, checks>> /\ pc[s] \in {"expire", "row"}
      BY <1>9 DEF Expire, HoldRow, table, readBacks
    <2> HIDE DEF Driven
    <2> QED  BY <2>1, <2>2, <1>6
  <1>10. CASE Claim(s)
    <2> DEFINE q == batch[s][at[s]]
    <2>1. /\ pc[s] = "row" /\ pc'[s] = "confirm"
          /\ UNCHANGED <<token, batch, at, checks, writes>>
          /\ \/ UNCHANGED table
             \/ /\ status' = [status EXCEPT ![q] = "claimed"]
                /\ claimedBy' = [claimedBy EXCEPT ![q] = token[s]]
      BY <1>10 DEF Claim, readBacks, Shape, TypeOK
    <2>2. batch'[s][at'[s]] = q
      BY <2>1
    <2> HIDE DEF q
    <2>3. CASE q = r /\ ~ UNCHANGED table
      BY <2>1, <2>2, <2>3 DEF Shape, TypeOK
    <2>4. CASE q # r \/ UNCHANGED table
      <3>1. status'[r] = status[r] /\ claimedBy'[r] = claimedBy[r]
        BY <2>1, <2>4 DEF Shape, TypeOK, table
      <3> QED  BY <1>2, <2>1, <3>1
    <2> QED  BY <2>3, <2>4
  <1>11. CASE ConfirmLost(s)
    <2>1. /\ UNCHANGED <<table, token, readBacks, writes>> /\ pc[s] = "confirm"
          /\ ~ WonClaim(s, batch[s][at[s]])
      BY <1>11 DEF ConfirmLost
    <2> QED  BY <1>2, <2>1 DEF table, readBacks, WonClaim
  <1>12. CASE Execute(s)
    <2> DEFINE q == batch[s][at[s]]
    <2>1. PICK ws \in Seq(Write), a \in Answers :
            /\ writes'[s] = writes[s] \o ws
            /\ checks'[s] = Watch(s, q, a)
            /\ 1 \in DOMAIN ws
            /\ \A i \in DOMAIN ws : /\ i = 1 /\ ws[i].op = "finish"
                                    /\ ws[i].row = q
                                    /\ ws[i].from = "claimed" /\ ws[i].to = a
                                    /\ ws[i].by = token[s]
      BY <1>12, ExecuteSends
    <2>2. UNCHANGED <<status, claimedBy, token>> /\ pc[s] = "confirm" /\ status[q] = "claimed"
      BY <1>12 DEF Execute, table, WonClaim
    <2>3. checks[s] \subseteq checks'[s]
      BY <2>1 DEF Watch
    <2> HIDE DEF q
    <2>4. CASE q = r
      <3>1. /\ Len(writes[s]) + 1 \in DOMAIN writes'[s]
            /\ writes'[s][Len(writes[s]) + 1] = ws[1]
        BY <1>3, <2>1, AddedBehind
      <3> QED  BY <2>1, <2>2, <2>4, <3>1
    <2>5. CASE q # r
      <3>1. pc[s] = "confirm" => batch[s][at[s]] # r
        BY <2>5 DEF q
      <3> HIDE DEF Driven
      <3> QED  BY <2>1, <2>2, <2>3, <3>1, <1>6
    <2> QED  BY <2>4, <2>5
  <1>13. CASE ApplyWrite(s)
    <2> DEFINE w == Head(writes[s])
    <2>1. /\ writes[s] # <<>> /\ writes'[s] = Tail(writes[s])
          /\ UNCHANGED <<token, pc, batch, at, checks>>
          /\ \/ ~ Matches(w) /\ UNCHANGED table
             \/ /\ Matches(w)
                /\ status' = [status EXCEPT ![w.row] = w.to]
                /\ claimedBy' = [claimedBy EXCEPT ![w.row] =
                                   IF w.op = "expire" THEN NoToken ELSE @]
      BY <1>13 DEF ApplyWrite, poll, readBacks, Shape, TypeOK
    <2>2. /\ 1 \in DOMAIN writes[s] /\ w = writes[s][1] /\ w \in Write /\ OwnWrite(s, w)
          /\ \A i \in DOMAIN writes[s] : i # 1 =>
                i - 1 \in DOMAIN writes'[s] /\ writes'[s][i - 1] = writes[s][i]
      BY <1>3, <2>1, HeadGone DEF WritesAreOwn
    <2> HIDE DEF w
    <2>3. CASE status'[r] = status[r] /\ claimedBy'[r] = claimedBy[r] /\ (w.row = r => ~ Matches(w))
      <3>1. CASE Ending(r, s)
        <4>1. PICK i \in DOMAIN writes[s] : writes[s][i].row = r /\ writes[s][i].from = status[r]
          BY <3>1
        <4>2. CASE i = 1
          <5>1. w.row = r /\ w.from = status[r] /\ claimedBy[r] = token[s] /\ status[r] \in Held
            BY <2>1, <2>2, <2>3, <4>1, <4>2
          <5>2. w.op = "finish"
            BY <2>2, <5>1 DEF Write, Held
          <5> QED  BY <2>2, <2>3, <5>1, <5>2 DEF Matches, OwnWrite
        <4>3. CASE i # 1
          BY <2>2, <2>3, <4>1, <4>3
        <4> QED  BY <4>2, <4>3
      <3>2. CASE ~ Ending(r, s)
        <4>1. Mine(r, s)
          BY <2>1, <2>3
        <4>2. \/ pc[s] = "confirm" /\ batch[s][at[s]] = r /\ status[r] = "claimed"
              \/ r \in checks[s] /\ status[r] = "verifying"
          BY <1>2, <3>2, <4>1
        <4> QED  BY <2>1, <2>3, <4>2
      <3> QED  BY <3>1, <3>2
    <2>4. CASE Matches(w) /\ w.row = r
      <3>1. status'[r] = w.to
        BY <2>1, <2>4 DEF Shape, TypeOK
      <3>2. w.op = "finish" /\ w.to = "verifying"
        BY <2>2, <3>1 DEF Write, Held, Terminal
      <3>3. \/ r \in checks[s]
            \/ \E j \in DOMAIN writes[s] : /\ j > 1 /\ writes[s][j].row = r
                                           /\ writes[s][j].from = "verifying"
        BY <2>2, <2>4, <3>2 DEF VerifyingIsWatched
      <3>4. CASE r \in checks[s]
        BY <2>1, <3>1, <3>2, <3>4
      <3>5. ASSUME NEW j \in DOMAIN writes[s], j > 1, writes[s][j].row = r,
                   writes[s][j].from = "verifying"
            PROVE  Ending(r, s)'
        <4>1. j - 1 \in DOMAIN writes'[s] /\ writes'[s][j - 1] = writes[s][j]
          BY <2>2, <3>5
        <4> QED  BY <3>1, <3>2, <3>5, <4>1
      <3> QED  BY <3>3, <3>4, <3>5
    <2>5. CASE w.row # r
      <3>1. status'[r] = status[r] /\ claimedBy'[r] = claimedBy[r]
        BY <2>1, <2>5 DEF Shape, TypeOK, table
      <3> QED  BY <2>3, <2>5, <3>1
    <2>6. CASE ~ Matches(w)
      BY <2>1, <2>3, <2>6 DEF table
    <2> QED  BY <2>4, <2>5, <2>6
  <1>14. CASE \/ \E q \in Rows : Insert(q) \/ BridgeGivesUp(q)
              \/ Tick
              \/ UNCHANGED vars
    <2>1. UNCHANGED <<claimedBy, token, poll, checks, writes>>
      BY <1>14 DEF Insert, BridgeGivesUp, Tick, vars, table, readBacks
    <2>2. status'[r] = status[r]
      BY <1>14 DEF Insert, BridgeGivesUp, Tick, vars, table, Held, Shape, TypeOK
    <2> HIDE DEF Driven
    <2> QED  BY <2>1, <2>2, <1>4 DEF poll
  <1> HIDE DEF Driven
  <1> QED
    BY <1>5, <1>7, <1>8, <1>9, <1>10, <1>11, <1>12, <1>13, <1>14, NextIsAServerStep
       DEF ServerStep, PollStep

\* As long as no write failed, no row a living run holds is forgotten, for any
\* number of rival worldservers, restarts and commands: it is being run, or its
\* finish is on its way, or a read-back will end it.
THEOREM HeldRowsAreDriven == Spec => []HeldRowIsDriven
  <1> DEFINE Inv == /\ QueueInv /\ WritesAreOwn /\ ClaimsAreUsed
                    /\ VerifyingIsWatched /\ HeldRowIsDriven
  <1>1. Init => Inv
    <2>1. Init => \A s \in Servers : writes[s] = <<>> /\ pc[s] = "down"
      BY DEF Init
    <2>2. Init => \A r \in Rows : claimedBy[r] = NoToken
      BY DEF Init
    <2> QED  BY <2>1, <2>2, InvInit, OwnInit
             DEF ClaimsAreUsed, VerifyingIsWatched, HeldRowIsDriven
  <1>2. Inv /\ [Next]_vars => Inv'
    BY InvNext, OwnStep, ClaimsUsedStep, WatchedStep, DrivenStep DEF QueueInv
  <1>3. Inv => HeldRowIsDriven
    OBVIOUS
  <1> QED  BY <1>1, <1>2, <1>3, PTL DEF Spec

=============================================================================
