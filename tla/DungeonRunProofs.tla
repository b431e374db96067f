--------------------------- MODULE DungeonRunProofs ---------------------------
(***************************************************************************)
(* What TLAPS proves of DungeonRun: for a party of any size, any number of *)
(* wanted runs, of mishaps and of ghosts that run back in.                 *)
(***************************************************************************)
EXTENDS DungeonRun, SequenceTheorems, FiniteSetTheorems, WellFoundedInduction, TLAPS

LEMMA Constants ==
    /\ IsFiniteSet(Members) /\ Leader \in Members /\ Wanted \in Nat \ {0}
    /\ MaxMishaps \in Nat /\ MaxReturns \in Nat
  BY RunAssumption

(***************************************************************************)
(* The last of a finite set of numbers.                                    *)
(***************************************************************************)
LEMMA Greatest ==
    ASSUME NEW S, IsFiniteSet(S), S \subseteq Nat, S # {}
    PROVE  \E i \in S : \A j \in S : j <= i
  <1> DEFINE Above(i) == {j \in S : j > i}
             T == {Above(i) : i \in S}
             R == StrictSubsetOrdering(S)
  <1>1. IsWellFoundedOn(R, FiniteSubsetsOf(S))
    BY FS_StrictSubsetOrderingWellFounded
  <1>2. \A i \in S : Above(i) \in FiniteSubsetsOf(S)
    BY FS_Subset DEF FiniteSubsetsOf
  <1>3. T \subseteq FiniteSubsetsOf(S) /\ T # {}
    BY <1>2
  <1> HIDE DEF R
  <1>4. PICK x \in T : \A y \in T : ~ (<<y, x>> \in R)
    BY <1>1, <1>3, WFMin
  <1>5. PICK i \in S : x = Above(i)
    BY <1>4
  <1>6. ASSUME NEW j \in S, j > i PROVE FALSE
    <2>1. \A k \in S : k > j => k > i
      BY <1>6
    <2>2. j \in Above(i) /\ j \notin Above(j)
      BY <1>6
    <2>3. Above(j) \subseteq Above(i) /\ Above(i) # Above(j)
      BY <2>1, <2>2
    <2>4. <<Above(j), Above(i)>> \in R
      BY <2>3 DEF R, StrictSubsetOrdering
    <2> QED  BY <2>4, <1>4, <1>5
  <1>7. \A j \in S : j \in Nat /\ i \in Nat /\ ~ (j > i)
    BY <1>6
  <1> HIDE DEF T, Above
  <1>8. \A j \in S : j <= i
    BY <1>7
  <1> QED  BY <1>8

LEMMA Span ==
    ASSUME NEW n \in Nat
    PROVE  IsFiniteSet(1 .. n) /\ \A S \in SUBSET (1 .. n) : IsFiniteSet(S) /\ S \subseteq Nat
  <1>1. IsFiniteSet(1 .. n)
    <2>1. 1 \in Int /\ n \in Int
      OBVIOUS
    <2> QED  BY <2>1, FS_Interval
  <1>2. 1 .. n \subseteq Nat
    OBVIOUS
  <1>3. \A S \in SUBSET (1 .. n) : IsFiniteSet(S)
    BY <1>1, FS_Subset
  <1> QED  BY <1>1, <1>2, <1>3

LEMMA LastOfIs ==
    ASSUME NEW n \in Nat, NEW S \in SUBSET (1 .. n)
    PROVE  /\ LastOf(S) \in Nat
           /\ S = {} => LastOf(S) = 0
           /\ S # {} => /\ LastOf(S) \in S /\ LastOf(S) # 0
                        /\ \A j \in S : j <= LastOf(S)
  <1>1. CASE S = {}
    BY <1>1 DEF LastOf
  <1>2. CASE S # {}
    <2>1. IsFiniteSet(S) /\ S \subseteq Nat /\ 0 \notin S
      BY Span
    <2>2. \E i \in S : \A j \in S : j <= i
      BY <1>2, <2>1, Greatest
    <2>3. LastOf(S) \in S /\ \A j \in S : j <= LastOf(S)
      BY <1>2, <2>2 DEF LastOf
    <2> QED  BY <1>2, <2>1, <2>3
  <1> QED  BY <1>1, <1>2

(***************************************************************************)
(* The types, with no bound on what a campaign may write.                  *)
(***************************************************************************)
Outcomes == Unentered \cup Entered

RunStates == [phase : Phases, row : Nat, campaign : Nat, number : Nat,
              verdict : Verdicts, streak : Nat, chosen : BOOLEAN]

Rows == [campaign : Nat, number : Nat, outcome : Outcomes \cup {"active"}]

Asks == [campaign : Nat, attempt : Nat, applied : BOOLEAN, after : Nat]

Writes ==
    [do : {"stamp", "count", "ask", "apply"}, row : Nat, campaign : Nat,
     number : Nat, attempt : Nat, outcome : {""}]
    \cup [do : {"close", "record"}, row : Nat, campaign : Nat,
          number : Nat, attempt : Nat, outcome : Outcomes]

Marks == {"no", "given up", "complete"}

PartyTypes ==
    /\ inside \in SUBSET Members /\ ghosts \in SUBSET (Members \ inside)
    /\ cleared \in BOOLEAN /\ full \in BOOLEAN /\ job \in BOOLEAN
    /\ clears \in Nat /\ mishaps \in 0 .. MaxMishaps /\ returns \in 0 .. MaxReturns
    /\ owed \subseteq Nat

TableTypes == rows \in Seq(Rows) /\ asks \in Seq(Asks) /\ done \in Nat

CoordinatorTypes == {run, hearth} \subseteq RunStates /\ over \in Marks

\* Every variable keeps its type: nobody is both inside and a ghost outside,
\* and every statement the coordinator queues is one the worker knows.
Types == PartyTypes /\ TableTypes /\ CoordinatorTypes /\ queue \in Seq(Writes)

LEMMA TypesGive ==
    ASSUME Types
    PROVE  /\ run \in RunStates /\ hearth \in RunStates /\ over \in Marks
           /\ rows \in Seq(Rows) /\ asks \in Seq(Asks) /\ queue \in Seq(Writes)
           /\ done \in Nat /\ job \in BOOLEAN /\ cleared \in BOOLEAN
           /\ mishaps \in 0 .. MaxMishaps /\ returns \in 0 .. MaxReturns /\ clears \in Nat
           /\ owed \subseteq Nat
  BY DEF Types, PartyTypes, TableTypes, CoordinatorTypes

LEMMA RowIs ==
    ASSUME Types
    PROVE  /\ Len(rows) \in Nat /\ DOMAIN rows = 1 .. Len(rows)
           /\ \A i \in DOMAIN rows : /\ rows[i] \in Rows /\ rows[i].campaign \in Nat
                                     /\ rows[i].number \in Nat /\ i \in Nat
           /\ Len(asks) \in Nat /\ DOMAIN asks = 1 .. Len(asks)
           /\ \A i \in DOMAIN asks : /\ asks[i] \in Asks /\ asks[i].attempt \in Nat
                                     /\ i \in Nat
  <1>1. rows \in Seq(Rows) /\ asks \in Seq(Asks)
    BY TypesGive
  <1>2. /\ Len(rows) \in Nat /\ DOMAIN rows = 1 .. Len(rows)
        /\ Len(asks) \in Nat /\ DOMAIN asks = 1 .. Len(asks)
    BY <1>1, LenProperties
  <1>3. /\ \A i \in DOMAIN rows : rows[i] \in Rows
        /\ \A i \in DOMAIN asks : asks[i] \in Asks
    BY <1>1
  <1> QED  BY <1>2, <1>3 DEF Rows, Asks

\* AllocateCampaignId names a campaign after the newest there is.
LEMMA NewCampaignIs ==
    ASSUME Types, rows # <<>>
    PROVE  \E i \in DOMAIN rows : NewCampaign = 1 + rows[i].campaign
  <1> DEFINE C == {rows[i].campaign : i \in DOMAIN rows}
             n == CHOOSE i \in DOMAIN rows :
                      \A j \in DOMAIN rows : rows[j].campaign <= rows[i].campaign
  <1>1. C \subseteq Nat
    BY RowIs
  <1>2. C # {}
    <2>1. Len(rows) \in DOMAIN rows
      BY RowIs, TypesGive, EmptySeq
    <2> QED  BY <2>1
  <1>3. IsFiniteSet(C)
    <2>1. IsFiniteSet(DOMAIN rows)
      BY RowIs, Span
    <2> DEFINE f == [i \in DOMAIN rows |-> rows[i].campaign]
    <2>2. f \in Surjection(DOMAIN rows, C)
      BY DEF Surjection
    <2> QED  BY <2>1, <2>2, FS_Surjection DEF ExistsSurjection
  <1>4. PICK c \in C : \A k \in C : k <= c
    BY <1>1, <1>2, <1>3, Greatest
  <1>5. \E i \in DOMAIN rows : \A j \in DOMAIN rows : rows[j].campaign <= rows[i].campaign
    BY <1>4
  <1>6. n \in DOMAIN rows
    BY <1>5
  <1>7. NewCampaign = 1 + rows[n].campaign
    BY DEF NewCampaign
  <1> HIDE DEF n
  <1> QED  BY <1>6, <1>7

\* What the coordinator reads in the tables are numbers.
LEMMA Reads ==
    ASSUME Types
    PROVE  /\ ActiveRow \in Nat /\ InProgress \in Nat /\ Unstarted \in Nat
           /\ NewCampaign \in Nat /\ NewCampaign # 0
           /\ \A c : Trailing(c) \in Nat /\ NewestAsk(c) \in Nat
           /\ \A c : NewestAsk(c) # 0 => NewestAsk(c) \in DOMAIN asks
  <1>1. ActiveRow \in Nat
    <2>1. {i \in DOMAIN rows : rows[i].outcome = "active"} \in SUBSET (1 .. Len(rows))
      BY RowIs
    <2> QED  BY <2>1, RowIs, LastOfIs DEF ActiveRow
  <1>2. InProgress \in Nat
    <2> DEFINE S == {j \in DOMAIN rows : rows[j].campaign # 0}
    <2>1. S \in SUBSET (1 .. Len(rows))
      BY RowIs
    <2>2. LastOf(S) \in Nat /\ (LastOf(S) # 0 => LastOf(S) \in DOMAIN rows)
      BY <2>1, RowIs, LastOfIs
    <2> QED  BY <2>2, RowIs DEF InProgress
  <1>3. Unstarted \in Nat
    <2>1. rows # <<>> => Len(rows) \in DOMAIN rows
      BY RowIs, TypesGive, EmptySeq
    <2> QED  BY <2>1, RowIs DEF Unstarted
  <1>4. NewCampaign \in Nat /\ NewCampaign # 0
    <2>1. CASE rows = <<>>
      BY <2>1 DEF NewCampaign
    <2>2. CASE rows # <<>>
      <3>1. PICK i \in DOMAIN rows : NewCampaign = 1 + rows[i].campaign
        BY <2>2, NewCampaignIs
      <3>2. rows[i].campaign \in Nat
        BY RowIs
      <3> QED  BY <3>1, <3>2
    <2> QED  BY <2>1, <2>2
  <1>5. ASSUME NEW c PROVE Trailing(c) \in Nat
    <2> DEFINE S == {i \in RowsOf(c) :
                       \A j \in RowsOf(c) : j >= i => rows[j].outcome \in Unentered}
    <2>1. S \subseteq 1 .. Len(rows)
      BY RowIs DEF RowsOf
    <2>2. IsFiniteSet(S)
      BY <2>1, RowIs, Span
    <2> QED  BY <2>2, FS_CardinalityType DEF Trailing
  <1>6. ASSUME NEW c
        PROVE  NewestAsk(c) \in Nat /\ (NewestAsk(c) # 0 => NewestAsk(c) \in DOMAIN asks)
    <2> DEFINE S == {i \in DOMAIN asks : asks[i].campaign = c}
    <2>1. S \in SUBSET (1 .. Len(asks))
      BY RowIs
    <2>2. LastOf(S) \in Nat /\ (LastOf(S) # 0 => LastOf(S) \in DOMAIN asks)
      BY <2>1, RowIs, LastOfIs
    <2> QED  BY <2>2 DEF NewestAsk
  <1> QED  BY <1>1, <1>2, <1>3, <1>4, <1>5, <1>6

(***************************************************************************)
(* The queued statements.  No poll queues two counts.                      *)
(***************************************************************************)
CountFree(q) == \A i \in DOMAIN q : q[i].do # "count"

OneCount(q) == \A i, j \in DOMAIN q : q[i].do = "count" /\ q[j].do = "count" => i = j

Counted(q) == \E i \in DOMAIN q : q[i].do = "count"

LEMMA Written ==
    ASSUME NEW r \in RunStates, NEW o \in Outcomes
    PROVE  /\ Stamp(r) \in Writes /\ Close(r, o) \in Writes /\ Record(r, o) \in Writes
           /\ Count(r) \in Writes /\ Ask(r) \in Writes /\ Apply(r) \in Writes
           /\ Stamp(r).do = "stamp" /\ Close(r, o).do = "close" /\ Record(r, o).do = "record"
           /\ Count(r).do = "count" /\ Ask(r).do = "ask" /\ Apply(r).do = "apply"
  BY DEF Stamp, Close, Record, Count, Ask, Apply, Statement, Writes, RunStates

LEMMA NoneQueued == <<>> \in Seq(Writes) /\ CountFree(<<>>)
  BY EmptySeq DEF CountFree

LEMMA OneQueued ==
    ASSUME NEW w \in Writes
    PROVE  <<w>> \in Seq(Writes) /\ (w.do # "count" => CountFree(<<w>>))
  BY DEF CountFree

LEMMA FreeIsOne ==
    ASSUME NEW q, CountFree(q)
    PROVE  OneCount(q) /\ ~ Counted(q)
  BY DEF CountFree, OneCount, Counted

LEMMA BothFree ==
    ASSUME NEW p \in Seq(Writes), NEW q \in Seq(Writes), CountFree(p), CountFree(q)
    PROVE  p \o q \in Seq(Writes) /\ CountFree(p \o q)
  <1> DEFINE s == p \o q
  <1>1. /\ s \in Seq(Writes) /\ Len(s) = Len(p) + Len(q) /\ Len(p) \in Nat /\ Len(q) \in Nat
        /\ \A i \in 1 .. Len(p) + Len(q) : s[i] = IF i <= Len(p) THEN p[i] ELSE q[i - Len(p)]
        /\ DOMAIN s = 1 .. Len(s) /\ DOMAIN p = 1 .. Len(p) /\ DOMAIN q = 1 .. Len(q)
    BY ConcatProperties, LenProperties
  <1> HIDE DEF s
  <1>2. ASSUME NEW i \in 1 .. Len(p) + Len(q) PROVE s[i].do # "count"
    <2>1. CASE i <= Len(p)
      <3>1. i \in 1 .. Len(p) /\ s[i] = p[i]
        BY <1>1, <2>1
      <3> QED  BY <1>1, <3>1 DEF CountFree
    <2>2. CASE ~ (i <= Len(p))
      <3>1. i - Len(p) \in 1 .. Len(q) /\ s[i] = q[i - Len(p)]
        BY <1>1, <2>2
      <3> QED  BY <1>1, <3>1 DEF CountFree
    <2> QED  BY <2>1, <2>2
  <1>3. CountFree(s)
    BY <1>1, <1>2 DEF CountFree
  <1> QED  BY <1>1, <1>3 DEF s

\* A count between statements that are none.
LEMMA OneBetween ==
    ASSUME NEW p \in Seq(Writes), NEW q \in Seq(Writes), CountFree(p), CountFree(q),
           NEW w \in Writes
    PROVE  (p \o <<w>>) \o q \in Seq(Writes) /\ OneCount((p \o <<w>>) \o q)
  <1> DEFINE t == <<w>>
             a == p \o t
             s == a \o q
  <1>1. t \in Seq(Writes) /\ Len(t) = 1
    OBVIOUS
  <1> HIDE DEF t
  <1>6. /\ a \in Seq(Writes) /\ Len(a) = Len(p) + Len(t)
        /\ \A i \in 1 .. Len(p) + Len(t) : a[i] = IF i <= Len(p) THEN p[i] ELSE t[i - Len(p)]
    BY <1>1, ConcatProperties
  <1>7. Len(p) \in Nat /\ DOMAIN p = 1 .. Len(p)
    BY LenProperties
  <1>2. /\ a \in Seq(Writes) /\ Len(a) = Len(p) + 1 /\ Len(p) \in Nat
        /\ \A i \in 1 .. Len(p) : a[i] = p[i]
        /\ DOMAIN p = 1 .. Len(p)
    BY <1>1, <1>6, <1>7
  <1> HIDE DEF a
  <1>3. /\ s \in Seq(Writes) /\ Len(s) = Len(a) + Len(q) /\ Len(q) \in Nat
        /\ \A i \in 1 .. Len(a) + Len(q) : s[i] = IF i <= Len(a) THEN a[i] ELSE q[i - Len(a)]
        /\ DOMAIN s = 1 .. Len(s) /\ DOMAIN q = 1 .. Len(q)
    BY <1>2, ConcatProperties, LenProperties
  <1> HIDE DEF s
  <1>4. ASSUME NEW i \in DOMAIN s, s[i].do = "count"
        PROVE  i = Len(p) + 1
    <2>1. CASE i <= Len(p)
      <3>1. i \in 1 .. Len(p) /\ s[i] = p[i]
        BY <1>2, <1>3, <2>1
      <3> QED  BY <1>2, <1>4, <3>1 DEF CountFree
    <2>2. CASE i > Len(p) + 1
      <3>1. i - Len(a) \in 1 .. Len(q) /\ s[i] = q[i - Len(a)]
        BY <1>2, <1>3, <2>2
      <3> QED  BY <1>3, <1>4, <3>1 DEF CountFree
    <2>3. i \in Nat
      BY <1>2, <1>3
    <2> QED  BY <1>2, <2>1, <2>2, <2>3
  <1>5. OneCount(s)
    BY <1>4 DEF OneCount
  <1> QED  BY <1>3, <1>5 DEF s, a, t

\* The worker takes the count, or leaves it where it is.
LEMMA WorkerCounts ==
    ASSUME NEW q \in Seq(Writes), q # <<>>, OneCount(q)
    PROVE  /\ Head(q) \in Writes /\ Tail(q) \in Seq(Writes) /\ OneCount(Tail(q))
           /\ Head(q).do = "count" => Counted(q) /\ ~ Counted(Tail(q))
           /\ Counted(Tail(q)) => Counted(q)
  <1> DEFINE t == Tail(q)
  <1>1. /\ Head(q) \in Writes /\ t \in Seq(Writes) /\ Len(t) = Len(q) - 1
        /\ \A i \in 1 .. Len(t) : t[i] = q[i + 1]
        /\ Len(q) \in Nat \ {0} /\ DOMAIN q = 1 .. Len(q) /\ DOMAIN t = 1 .. Len(t)
    BY HeadTailProperties, LenProperties, EmptySeq
  <1>2. Head(q) = q[1] /\ 1 \in DOMAIN q
    BY <1>1
  <1> HIDE DEF t
  <1>3. \A i \in DOMAIN t : i + 1 \in DOMAIN q /\ t[i] = q[i + 1] /\ i + 1 # 1 /\ i \in Nat
    BY <1>1
  <1>4. OneCount(t)
    <2>1. SUFFICES ASSUME NEW i \in DOMAIN t, NEW j \in DOMAIN t,
                          t[i].do = "count", t[j].do = "count"
                   PROVE  i = j
      BY DEF OneCount
    <2>2. i + 1 = j + 1
      BY <1>3, <2>1 DEF OneCount
    <2> QED  BY <1>3, <2>2
  <1>5. Head(q).do = "count" => Counted(q) /\ ~ Counted(t)
    BY <1>2, <1>3 DEF OneCount, Counted
  <1>6. Counted(t) => Counted(q)
    BY <1>3 DEF Counted
  <1> QED  BY <1>1, <1>4, <1>5, <1>6 DEF t

LEMMA CountsAre ==
    ASSUME NEW q \in Seq(Writes), OneCount(q)
    PROVE  Cardinality({i \in DOMAIN q : q[i].do = "count"}) = IF Counted(q) THEN 1 ELSE 0
  <1> DEFINE S == {i \in DOMAIN q : q[i].do = "count"}
  <1>1. CASE Counted(q)
    <2>1. PICK i \in DOMAIN q : q[i].do = "count"
      BY <1>1 DEF Counted
    <2>2. S = {i}
      BY <2>1 DEF OneCount
    <2> QED  BY <1>1, <2>2, FS_Singleton
  <1>2. CASE ~ Counted(q)
    <2>1. S = {}
      BY <1>2 DEF Counted
    <2> QED  BY <1>2, <2>1, FS_EmptySet
  <1> QED  BY <1>1, <1>2

(***************************************************************************)
(* The inductive invariant.  A clear is pending while a run that is over   *)
(* as complete has not been closed, or while a cleared copy, or the mark   *)
(* of a completed run, can still be found by an adoption.                  *)
(***************************************************************************)
Pending ==
    \/ run.verdict = "complete" \/ hearth.verdict = "complete"
    \/ inside # {} /\ over = "complete"
    \/ cleared /\ (inside # {} \/ run.phase \in {"StagedInside", "Clearing"})

\* A copy is new until somebody stands in it.
FreshCopy == run.phase \in {"Gathering", "Barrier", "Enter"} => ~ cleared

\* A run under way carries no mark of the one before.
Unmarked ==
    run.phase \in {"Gathering", "Barrier", "Enter", "StagedInside", "Clearing"}
        => over = "no"

\* A failed exit is waited for, unless full bags evacuate whom they find.
HearthWaits ==
    hearth # NoEpisode => \/ run.phase = "Idle"
                          \/ run.phase = "Exiting" /\ run.verdict = "evacuated"

VerdictExits == run.verdict # "none" => run.phase = "Exiting"

\* A count is on its way only between two runs.
CountRests == Counted(queue) => run.phase \notin Fresh \cup {"Exiting"}

Once(b) == IF b THEN 1 ELSE 0

\* Done, on its way to the worker, or still to be found: a clear is one of them,
\* and so is a run that is wanted.
Budget ==
    /\ done + Once(Counted(queue)) + Once(Pending) <= clears + returns
    /\ done + Once(Counted(queue)) + Once(Pending) <= Wanted + returns

Phased == FreshCopy /\ Unmarked /\ HearthWaits /\ VerdictExits /\ CountRests

IInv == Types /\ OneCount(queue) /\ Phased /\ Budget

\* Nothing is run once all that is wanted is done.
RunsWanted == run.phase \in Fresh => done < Wanted

LEMMA InvariantCounts == IInv => ClearCountedOnce
  <1> SUFFICES ASSUME IInv PROVE ClearCountedOnce
    OBVIOUS
  <1>1. queue \in Seq(Writes) /\ OneCount(queue) /\ Budget
        /\ done \in Nat /\ clears \in Nat /\ returns \in 0 .. MaxReturns /\ MaxReturns \in Nat
    BY TypesGive, Constants DEF IInv
  <1>2. CountsQueued = Once(Counted(queue))
    BY <1>1, CountsAre DEF CountsQueued, Once
  <1>3. Once(Counted(queue)) \in Nat /\ Once(Pending) \in Nat
    BY DEF Once
  <1>4. done + Once(Counted(queue)) + Once(Pending) <= clears + returns
    BY <1>1 DEF Budget
  <1> QED  BY <1>1, <1>2, <1>3, <1>4 DEF ClearCountedOnce

LEMMA AtRest ==
    /\ IdleRun \in RunStates /\ IdleRun.phase = "Idle" /\ IdleRun.verdict = "none"
    /\ NoEpisode \in RunStates /\ NoEpisode.verdict = "none"
  BY DEF IdleRun, NoEpisode, RunStates, Phases, Fresh, Verdicts

LEMMA Repairs ==
    ASSUME NEW r \in RunStates, NEW n \in Nat
    PROVE  /\ Repair(r, n) \in RunStates /\ Repair(r, n).phase = "Repairing"
           /\ Repair(r, n).verdict = "none" /\ Repair(r, n).campaign = r.campaign
           /\ Repair(r, n).number = n
  BY DEF Repair, IdleRun, RunStates, Phases, Fresh, Verdicts

LEMMA Recovers ==
    ASSUME NEW r \in RunStates, NEW n \in Nat
    PROVE  /\ Recover(r, n) \in RunStates /\ Recover(r, n).phase = "Recovering"
           /\ Recover(r, n).verdict = r.verdict /\ Recover(r, n).chosen = FALSE
           /\ Recover(r, n).streak = n /\ Recover(r, n).campaign = r.campaign
  BY DEF Recover, RunStates, Phases, Fresh

LEMMA Exits ==
    ASSUME NEW r \in RunStates
    PROVE  /\ ExitOutcome(r) \in Outcomes
           /\ ExitOutcome(r) = "complete" <=> r.verdict = "complete"
           /\ ExitOutcome(r) = "evacuated" <=> r.verdict = "evacuated"
  BY DEF ExitOutcome, Outcomes, Unentered, Entered, RunStates, Verdicts

\* The end of a run: it is counted only if it is complete.
LEMMA EndRunGives ==
    ASSUME Types, NEW r \in RunStates, NEW o \in Outcomes, NEW wanted, NEW wiped,
           NEW before \in Seq(Writes), CountFree(before),
           EndRun(r, o, wanted, wiped, before)
    PROVE  /\ run' \in RunStates /\ run'.verdict = "none"
           /\ run'.phase \in {"Idle", "Repairing", "Recovering"}
           /\ o = "evacuated" => run'.phase = "Idle"
           /\ queue' \in Seq(Writes) /\ OneCount(queue')
           /\ Counted(queue') => o = "complete"
           /\ owed' \subseteq Nat
  <1> DEFINE row == IF o = "reset_failed" THEN 0 ELSE RowOf(r)
             id == [r EXCEPT !.row = row]
             k == [r EXCEPT !.streak = 0]
             n == DoneAfter(r, o) + 1
             next == Repair(k, n)
             again == /\ o # "evacuated" /\ wanted
                      /\ DoneAfter(r, o) < Wanted /\ ~ wiped
             m == MaxOf(r.streak + 1, Trailing(r.campaign))
             recovering == Recover(next, m)
             recovers == again /\ o \in Unentered
             a == IF id.row # 0 THEN <<Close(id, o)>> ELSE <<>>
             b == IF Counts(o) THEN <<Count(r)>> ELSE <<>>
             c == IF recovers THEN <<Ask(recovering)>> ELSE <<>>
  <1>1. /\ run' = IF recovers THEN recovering ELSE IF again THEN next ELSE IdleRun
        /\ queue' = ((before \o a) \o b) \o c
        /\ owed' = IF o \in Unentered \ {"evacuated"} THEN owed \cup {r.campaign}
                   ELSE owed \ {r.campaign}
    BY Zenon DEF EndRun
  <1>2. row \in Nat /\ r.streak \in Nat /\ r.number \in Nat
    BY Reads DEF RowOf, RunStates
  <1>3. id \in RunStates /\ k \in RunStates
    BY <1>2 DEF RunStates
  <1>4. n \in Nat /\ m \in Nat
    <2>1. Trailing(r.campaign) \in Nat
      BY Reads
    <2>2. r.streak + 1 \in Nat
      BY <1>2
    <2>3. DoneAfter(r, o) \in Nat
      BY <1>2 DEF DoneAfter
    <2> QED  BY <2>1, <2>2, <2>3 DEF MaxOf
  <1>5. next \in RunStates /\ next.phase = "Repairing" /\ next.verdict = "none"
    BY <1>3, <1>4, Repairs
  <1>6. recovering \in RunStates /\ recovering.phase = "Recovering"
        /\ recovering.verdict = "none"
    BY <1>4, <1>5, Recovers
  <1>7. a \in Seq(Writes) /\ CountFree(a)
    BY <1>3, Written, OneQueued, NoneQueued
  <1>8. c \in Seq(Writes) /\ CountFree(c)
    BY <1>6, Written, OneQueued, NoneQueued
  <1>9. recovers => again
    OBVIOUS
  <1>10. again => o # "evacuated"
    OBVIOUS
  <1> HIDE DEF row, id, k, n, m, next, recovering, again, recovers, a, c
  <1>11. /\ run' \in RunStates /\ run'.verdict = "none"
         /\ run'.phase \in {"Idle", "Repairing", "Recovering"}
         /\ o = "evacuated" => run'.phase = "Idle"
    BY <1>1, <1>5, <1>6, <1>9, <1>10, AtRest
  <1>12. owed' \subseteq Nat
    <2>1. owed \subseteq Nat
      BY DEF Types, PartyTypes
    <2>2. r.campaign \in Nat
      BY DEF RunStates
    <2> QED  BY <1>1, <2>1, <2>2
  <1>13. before \o a \in Seq(Writes) /\ CountFree(before \o a)
    BY <1>7, BothFree
  <1>14. CASE Counts(o)
    <2>1. queue' = ((before \o a) \o <<Count(r)>>) \o c
      BY <1>1, <1>14
    <2>2. Count(r) \in Writes
      BY Written
    <2>3. queue' \in Seq(Writes) /\ OneCount(queue')
      BY <1>8, <1>13, <2>1, <2>2, OneBetween
    <2> QED  BY <1>11, <1>12, <1>14, <2>3 DEF Counts
  <1>15. CASE ~ Counts(o)
    <2>1. queue' = ((before \o a) \o <<>>) \o c
      BY <1>1, <1>15
    <2>2. (before \o a) \o <<>> \in Seq(Writes) /\ CountFree((before \o a) \o <<>>)
      BY <1>13, BothFree, NoneQueued
    <2>3. queue' \in Seq(Writes) /\ CountFree(queue')
      BY <1>8, <2>1, <2>2, BothFree
    <2> QED  BY <1>11, <1>12, <2>3, FreeIsOne
  <1> QED  BY <1>14, <1>15

(***************************************************************************)
(* What is left of a step once its own part is known.                      *)
(***************************************************************************)

LEMMA OnceIs ==
    ASSUME NEW a \in BOOLEAN, NEW b \in BOOLEAN
    PROVE  /\ Once(a) \in {0, 1} /\ (~ a => Once(a) = 0) /\ (a => Once(a) = 1)
           /\ (a => b) => Once(a) <= Once(b)
  BY DEF Once

LEMMA Flags == Pending \in BOOLEAN /\ Pending' \in BOOLEAN
               /\ Counted(queue) \in BOOLEAN /\ Counted(queue') \in BOOLEAN
  BY DEF Pending, Counted

LEMMA Steady ==
    ASSUME Types, UNCHANGED <<inside, ghosts, full, clears, job, returns, rows, asks, done>>,
           cleared' \in BOOLEAN, Mishap \/ NoMishap, run' \in RunStates,
           hearth' \in RunStates, over' \in Marks, queue' \in Seq(Writes),
           owed' \subseteq Nat
    PROVE  Types'
  <1>1. mishaps' \in 0 .. MaxMishaps
    BY TypesGive, Constants DEF Mishap, NoMishap
  <1>2. PartyTypes'
    BY <1>1 DEF Types, PartyTypes
  <1>3. TableTypes' /\ CoordinatorTypes'
    BY DEF Types, TableTypes, CoordinatorTypes
  <1> QED  BY <1>2, <1>3 DEF Types

\* A poll that finds the queue empty: it may count a clear that was pending.
LEMMA PollKeeps ==
    ASSUME IInv, queue = <<>>,
           UNCHANGED <<inside, ghosts, full, clears, job, returns, rows, asks, done>>,
           cleared' \in BOOLEAN, Mishap \/ NoMishap, run' \in RunStates,
           hearth' \in RunStates, over' \in Marks, queue' \in Seq(Writes),
           owed' \subseteq Nat, OneCount(queue'), Phased',
           Counted(queue') => Pending /\ ~ Pending',
           Pending' => Pending
    PROVE  IInv'
  <1>1. Types'
    BY Steady DEF IInv
  <1>2. Budget'
    <2>1. done \in Nat /\ clears + returns \in Nat /\ Wanted + returns \in Nat
      BY TypesGive, Constants DEF IInv
    <2>2. ~ Counted(queue)
      BY NoneQueued, FreeIsOne
    <2>3. Once(Counted(queue')) + Once(Pending') <= Once(Pending)
      BY Flags, OnceIs
    <2>4. /\ Once(Counted(queue')) \in Nat /\ Once(Pending') \in Nat
          /\ Once(Counted(queue)) = 0 /\ Once(Pending) \in Nat
      BY <2>2, Flags, OnceIs
    <2>5. /\ done + Once(Counted(queue)) + Once(Pending) <= clears + returns
          /\ done + Once(Counted(queue)) + Once(Pending) <= Wanted + returns
      BY DEF IInv, Budget
    <2>6. /\ done + Once(Counted(queue')) + Once(Pending') <= clears + returns
          /\ done + Once(Counted(queue')) + Once(Pending') <= Wanted + returns
      BY <2>1, <2>3, <2>4, <2>5
    <2> QED  BY <2>6 DEF Budget, Once, Counted
  <1> QED  BY <1>1, <1>2 DEF IInv, OneCount

\* A step of the world, which leaves the coordinator alone.
LEMMA WorldKeeps ==
    ASSUME IInv, UNCHANGED <<coordinator, queue, done>>, PartyTypes', TableTypes',
           FreshCopy',
           \/ UNCHANGED <<clears, returns>> /\ (Pending' => Pending)
           \/ clears' = clears /\ returns' = returns + 1
           \/ clears' = clears + 1 /\ returns' = returns /\ done < Wanted /\ ~ Counted(queue)
    PROVE  IInv'
  <1>1. Types'
    BY DEF IInv, Types, CoordinatorTypes, coordinator
  <1>2. Phased'
    BY DEF IInv, Phased, Unmarked, HearthWaits, VerdictExits, CountRests, Counted, coordinator
  <1>3. Budget'
    <2>1. done \in Nat /\ clears \in Nat /\ returns \in Nat /\ Wanted \in Nat
      BY TypesGive, Constants DEF IInv
    <2>2. /\ Once(Counted(queue)) \in Nat /\ Once(Pending') \in {0, 1} /\ Once(Pending) \in {0, 1}
          /\ (Pending' => Pending) => Once(Pending') <= Once(Pending)
          /\ ~ Counted(queue) => Once(Counted(queue)) = 0
      BY Flags, OnceIs
    <2>3. /\ done + Once(Counted(queue)) + Once(Pending) <= clears + returns
          /\ done + Once(Counted(queue)) + Once(Pending) <= Wanted + returns
      BY DEF IInv, Budget
    <2>4. /\ done + Once(Counted(queue)) + Once(Pending') <= clears' + returns'
          /\ done + Once(Counted(queue)) + Once(Pending') <= Wanted + returns'
      <3>1. CASE UNCHANGED <<clears, returns>> /\ (Pending' => Pending)
        BY <2>1, <2>2, <2>3, <3>1
      <3>2. CASE clears' = clears /\ returns' = returns + 1
        BY <2>1, <2>2, <2>3, <3>2
      <3>3. CASE clears' = clears + 1 /\ returns' = returns /\ done < Wanted /\ ~ Counted(queue)
        BY <2>1, <2>2, <2>3, <3>3
      <3> QED  BY <3>1, <3>2, <3>3
    <2> QED  BY <2>4 DEF Budget, Once, Counted
  <1> QED  BY <1>1, <1>2, <1>3 DEF IInv, OneCount

\* The head of the poll drops the mark, or leaves it.
LEMMA MarkGives ==
    ASSUME Types
    PROVE  /\ MarkAtHead \in Marks /\ (MarkAtHead # "no" => MarkAtHead = over)
           /\ run.phase \in Fresh => MarkAtHead = "no"
  BY TypesGive DEF MarkAtHead, Marks

LEMMA StampOfGives ==
    ASSUME NEW r \in RunStates
    PROVE  StampOf(r) \in Seq(Writes) /\ CountFree(StampOf(r))
  <1>1. Stamp(r) \in Writes /\ Stamp(r).do # "count"
    <2>1. "complete" \in Outcomes
      BY DEF Outcomes, Entered
    <2> QED  BY <2>1, Written
  <1>2. <<Stamp(r)>> \in Seq(Writes) /\ CountFree(<<Stamp(r)>>)
    BY <1>1, OneQueued
  <1> QED  BY <1>2, NoneQueued DEF StampOf

LEMMA StampedGives ==
    ASSUME Types
    PROVE  /\ Stamped \in RunStates /\ Stamped.verdict = run.verdict
           /\ Stamped.phase = run.phase
           /\ Stamps \in Seq(Writes) /\ CountFree(Stamps)
           /\ RowOf(Stamped) \in Nat
  <1>1. Stamped \in RunStates /\ Stamped.verdict = run.verdict /\ Stamped.phase = run.phase
        /\ Stamped.row \in Nat
    BY Reads, TypesGive DEF Stamped, RunStates
  <1>2. Stamps \in Seq(Writes) /\ CountFree(Stamps)
    BY <1>1, StampOfGives, NoneQueued DEF Stamps
  <1>3. RowOf(Stamped) \in Nat
    BY <1>1, Reads DEF RowOf
  <1> QED  BY <1>1, <1>2, <1>3

LEMMA AdoptedGives ==
    ASSUME Types, NEW p \in Phases, NEW new \in Nat
    PROVE  /\ Adopted(p, new) \in RunStates /\ Adopted(p, new).phase = p
           /\ Adopted(p, new).verdict = "none"
  <1> DEFINE i == ActiveRow
             c == IF i = 0 THEN 0 ELSE rows[i].campaign
             n == IF i = 0 THEN 0 ELSE rows[i].number
  <1>1. i \in Nat /\ InProgress \in Nat /\ done + 1 \in Nat
    BY Reads, TypesGive
  <1>2. i # 0 => i \in DOMAIN rows
    <2> DEFINE S == {j \in DOMAIN rows : rows[j].outcome = "active"}
    <2>1. S \in SUBSET (1 .. Len(rows))
      BY RowIs
    <2>2. LastOf(S) # 0 => LastOf(S) \in S
      BY <2>1, RowIs, LastOfIs
    <2> QED  BY <2>2 DEF ActiveRow
  <1>3. c \in Nat /\ n \in Nat
    BY <1>2, RowIs
  <1>4. Adopted(p, new) =
            [IdleRun EXCEPT !.phase = p, !.row = i, !.number = OrElse(n, done + 1),
                            !.campaign = OrElse(c, OrElse(InProgress, new))]
    BY DEF Adopted
  <1> HIDE DEF i, c, n
  <1>5. OrElse(n, done + 1) \in Nat /\ OrElse(c, OrElse(InProgress, new)) \in Nat
    BY <1>1, <1>3 DEF OrElse
  <1>6. IdleRun \in RunStates /\ IdleRun.verdict = "none"
    BY AtRest
  <1> QED  BY <1>1, <1>4, <1>5, <1>6 DEF RunStates

\* A poll that leaves the failed exit alone and counts nothing.
LEMMA QuietPoll ==
    ASSUME IInv, queue = <<>>,
           UNCHANGED <<inside, ghosts, full, clears, job, returns, rows, asks, done, hearth>>,
           cleared' \in BOOLEAN, cleared' => cleared, Mishap \/ NoMishap,
           run' \in RunStates, (over' = MarkAtHead) \/ over' \in {"no", "given up"},
           queue' \in Seq(Writes), OneCount(queue'), ~ Counted(queue'),
           owed' \subseteq Nat,
           run'.verdict = "complete" => Pending,
           run'.phase \in {"StagedInside", "Clearing"} =>
               inside # {} \/ run.phase \in {"StagedInside", "Clearing"},
           run'.phase \in {"Gathering", "Barrier", "Enter"} => ~ cleared',
           run'.phase \in {"Gathering", "Barrier", "Enter", "StagedInside", "Clearing"}
               => (over' = "no") \/ (over' = MarkAtHead /\ run.phase \in Fresh),
           \/ hearth = NoEpisode \/ run'.phase = "Idle"
           \/ run'.phase = "Exiting" /\ run'.verdict = "evacuated",
           run'.verdict # "none" => run'.phase = "Exiting"
    PROVE  IInv'
  <1>1. over' \in Marks /\ (over' = "complete" => over = "complete")
    BY MarkGives DEF Marks, IInv
  <1>2. hearth' \in RunStates
    BY TypesGive DEF IInv
  <1>3. FreshCopy' /\ VerdictExits'
    BY DEF FreshCopy, VerdictExits
  <1>4. Unmarked'
    BY MarkGives DEF Unmarked, IInv
  <1>5. HearthWaits'
    BY DEF HearthWaits, NoEpisode, IdleRun
  <1>6. Pending' => Pending
    BY <1>1 DEF Pending
  <1>7. CountRests'
    BY DEF CountRests, Counted
  <1> QED  BY <1>1, <1>2, <1>3, <1>4, <1>5, <1>6, <1>7, PollKeeps DEF Phased

\* In the phases of a run, nothing else is waited for and no verdict is given.
LEMMA UnderWay ==
    ASSUME IInv, run.phase \notin {"Idle", "Exiting"}
    PROVE  /\ hearth = NoEpisode /\ run.verdict = "none"
           /\ run \in RunStates
  BY TypesGive DEF IInv, Phased, HearthWaits, VerdictExits

LEMMA GoesGives ==
    ASSUME Types, NEW r, Goes(r)
    PROVE  /\ run' = r /\ over' = MarkAtHead
           /\ queue' \in Seq(Writes) /\ OneCount(queue') /\ ~ Counted(queue')
           /\ owed' \subseteq Nat
  <1>1. run' = r /\ over' = MarkAtHead /\ queue' = <<>> /\ owed' = owed
    BY DEF Goes
  <1>2. owed \subseteq Nat
    BY DEF Types, PartyTypes
  <1> QED  BY <1>1, <1>2, NoneQueued, FreeIsOne

LEMMA GoesInsideGives ==
    ASSUME Types, NEW r, GoesInside(r)
    PROVE  /\ run' = r /\ over' = MarkAtHead
           /\ queue' \in Seq(Writes) /\ OneCount(queue') /\ ~ Counted(queue')
           /\ owed' \subseteq Nat
  <1>1. run' = r /\ over' = MarkAtHead /\ queue' = Stamps /\ owed' = owed
    BY DEF GoesInside
  <1>2. owed \subseteq Nat
    BY DEF Types, PartyTypes
  <1> QED  BY <1>1, <1>2, StampedGives, FreeIsOne

(***************************************************************************)
(* The polls, one lemma for each kind.                                     *)
(***************************************************************************)
LEMMA HoldsOutKeeps == ASSUME IInv, PollHoldsOut PROVE IInv'
  <1>1. /\ queue = <<>> /\ run' = IdleRun /\ over' = MarkAtHead /\ queue' = <<>>
        /\ UNCHANGED <<inside, ghosts, cleared, full, clears, job, returns, rows, asks,
                       done, hearth, mishaps, owed>>
    BY DEF PollHoldsOut, Poll, world, party, database
  <1>2. cleared \in BOOLEAN /\ owed \subseteq Nat /\ NoMishap
    BY <1>1 DEF IInv, Types, PartyTypes, NoMishap
  <1>3. queue' \in Seq(Writes) /\ OneCount(queue') /\ ~ Counted(queue')
    BY <1>1, NoneQueued, FreeIsOne
  <1> QED  BY <1>1, <1>2, <1>3, AtRest, QuietPoll

LEMMA StandsDownKeeps == ASSUME IInv, PollStandsDown PROVE IInv'
  <1>1. /\ queue = <<>> /\ over' = MarkAtHead /\ queue' = <<>>
        /\ run' = IF run.phase \in {"StagedInside", "Clearing"}
                  THEN [run EXCEPT !.phase = "Exiting"] ELSE IdleRun
        /\ run.phase \notin {"Idle", "Exiting"}
        /\ UNCHANGED <<inside, ghosts, cleared, full, clears, job, returns, rows, asks,
                       done, hearth, mishaps, owed>>
    BY DEF PollStandsDown, Poll, world, party, database
  <1>2. cleared \in BOOLEAN /\ owed \subseteq Nat /\ NoMishap
    BY <1>1 DEF IInv, Types, PartyTypes, NoMishap
  <1>3. queue' \in Seq(Writes) /\ OneCount(queue') /\ ~ Counted(queue')
    BY <1>1, NoneQueued, FreeIsOne
  <1>4. hearth = NoEpisode /\ run.verdict = "none" /\ run \in RunStates
    BY <1>1, UnderWay
  <1>5. run' \in RunStates /\ run'.verdict = "none" /\ run'.phase \in {"Idle", "Exiting"}
    BY <1>1, <1>4, AtRest DEF RunStates, Phases
  <1> QED  BY <1>1, <1>2, <1>3, <1>4, <1>5, QuietPoll

\* The phases that only go on: repairs, gathering, barrier, entering.
LEMMA OutsideKeeps ==
    ASSUME IInv,
           \/ PollLeaderInside \/ PollRepairs \/ PollGathers \/ PollRegathers
           \/ PollOpens \/ PollEntersAll \/ PollEnterGivesUp \/ PollRecovered
    PROVE  IInv'
  <1> DEFINE At(p) == [run EXCEPT !.phase = p]
  <1>1. /\ queue = <<>>
        /\ UNCHANGED <<inside, ghosts, cleared, full, clears, job, returns, rows, asks,
                       done, hearth>>
        /\ Mishap \/ NoMishap
    BY DEF PollLeaderInside, PollRepairs, PollGathers, PollRegathers, PollOpens,
           PollEntersAll, PollEnterGivesUp, PollRecovered, Live, Phase, Poll, world, party,
           database, NoMishap
  <1>2. \E r : /\ Goes(r)
               /\ \/ r = IdleRun
                  \/ r = Repair(run, run.number) /\ run.phase = "Recovering"
                  \/ r = At("Resetting") /\ run.phase = "Repairing"
                  \/ r = At("Barrier") /\ run.phase = "Gathering"
                  \/ r = At("Gathering") /\ run.phase = "Barrier"
                  \/ r = At("Enter") /\ run.phase = "Barrier"
                  \/ r = At("StagedInside") /\ run.phase = "Enter" /\ inside = Members
    BY DEF PollLeaderInside, PollRepairs, PollGathers, PollRegathers, PollOpens,
           PollEntersAll, PollEnterGivesUp, PollRecovered, Live, Phase
  <1>3. PICK r : /\ Goes(r)
                 /\ \/ r = IdleRun
                    \/ r = Repair(run, run.number) /\ run.phase = "Recovering"
                    \/ r = At("Resetting") /\ run.phase = "Repairing"
                    \/ r = At("Barrier") /\ run.phase = "Gathering"
                    \/ r = At("Gathering") /\ run.phase = "Barrier"
                    \/ r = At("Enter") /\ run.phase = "Barrier"
                    \/ r = At("StagedInside") /\ run.phase = "Enter" /\ inside = Members
    BY <1>2
  <1>4. /\ run' = r /\ over' = MarkAtHead
        /\ queue' \in Seq(Writes) /\ OneCount(queue') /\ ~ Counted(queue')
        /\ owed' \subseteq Nat
    BY <1>3, GoesGives DEF IInv
  <1>5. cleared \in BOOLEAN /\ inside \in SUBSET Members
    BY DEF IInv, Types, PartyTypes
  <1>6. CASE r = IdleRun
    BY <1>1, <1>4, <1>5, <1>6, AtRest, QuietPoll
  <1>7. CASE r = Repair(run, run.number) /\ run.phase = "Recovering"
    <2>1. hearth = NoEpisode /\ run \in RunStates /\ run.number \in Nat
      BY <1>7, UnderWay DEF RunStates
    <2>2. run' \in RunStates /\ run'.phase = "Repairing" /\ run'.verdict = "none"
      BY <1>4, <1>7, <2>1, Repairs
    <2> QED  BY <1>1, <1>4, <1>5, <2>1, <2>2, QuietPoll
  <1>8. CASE r = At("Resetting") /\ run.phase = "Repairing"
    <2>1. hearth = NoEpisode /\ run \in RunStates /\ run.verdict = "none"
      BY <1>8, UnderWay
    <2>2. run' \in RunStates /\ run'.phase = "Resetting" /\ run'.verdict = "none"
      BY <1>4, <1>8, <2>1 DEF RunStates, Phases, Fresh
    <2> QED  BY <1>1, <1>4, <1>5, <2>1, <2>2, QuietPoll
  <1>9. CASE \/ r = At("Barrier") /\ run.phase = "Gathering"
             \/ r = At("Gathering") /\ run.phase = "Barrier"
             \/ r = At("Enter") /\ run.phase = "Barrier"
             \/ r = At("StagedInside") /\ run.phase = "Enter" /\ inside = Members
    <2>1. hearth = NoEpisode /\ run \in RunStates /\ run.verdict = "none"
      BY <1>9, UnderWay
    <2>2. /\ run' \in RunStates /\ run'.verdict = "none"
          /\ run'.phase \in {"Barrier", "Gathering", "Enter", "StagedInside"}
          /\ run'.phase = "StagedInside" => inside = Members
      BY <1>4, <1>9, <2>1 DEF RunStates, Phases, Fresh
    <2>3. run.phase \in Fresh /\ ~ cleared
      BY <1>9 DEF IInv, Phased, FreshCopy, Fresh
    <2>4. Members # {}
      BY Constants
    <2> QED  BY <1>1, <1>4, <1>5, <2>1, <2>2, <2>3, <2>4, QuietPoll
  <1> QED  BY <1>3, <1>6, <1>7, <1>8, <1>9

\* A reset makes a new copy.
LEMMA ResetsKeeps == ASSUME IInv, PollResets PROVE IInv'
  <1>1. /\ queue = <<>> /\ run.phase = "Resetting" /\ cleared' = FALSE
        /\ Goes([run EXCEPT !.phase = "Gathering"])
        /\ UNCHANGED <<inside, ghosts, full, clears, job, returns, rows, asks, done, hearth>>
        /\ NoMishap
    BY DEF PollResets, Live, Phase, Poll, party, database, Reset, NoMishap
  <1>2. hearth = NoEpisode /\ run \in RunStates /\ run.verdict = "none"
    BY <1>1, UnderWay
  <1>3. /\ run' = [run EXCEPT !.phase = "Gathering"] /\ over' = MarkAtHead
        /\ queue' \in Seq(Writes) /\ OneCount(queue') /\ ~ Counted(queue')
        /\ owed' \subseteq Nat
    BY <1>1, GoesGives DEF IInv
  <1>4. run' \in RunStates /\ run'.phase = "Gathering" /\ run'.verdict = "none"
    BY <1>2, <1>3 DEF RunStates, Phases, Fresh
  <1>5. run.phase \in Fresh
    BY <1>1 DEF Fresh
  <1> QED  BY <1>1, <1>2, <1>3, <1>4, <1>5, QuietPoll

\* The phases inside.
LEMMA InsideKeeps ==
    ASSUME IInv, \/ PollClears \/ PollReassembles \/ PollProves \/ PollGivesUp
    PROVE  IInv'
  <1>1. /\ queue = <<>> /\ inside # {}
        /\ UNCHANGED <<inside, ghosts, cleared, full, clears, job, returns, rows, asks,
                       done, hearth>>
        /\ Mishap \/ NoMishap
        /\ run.phase \in {"StagedInside", "Clearing", "Enter"}
    BY Constants DEF PollClears, PollReassembles, PollProves, PollGivesUp, Live, Phase, Poll,
           world, party, database, NoMishap
  <1>2. hearth = NoEpisode /\ run \in RunStates /\ run.verdict = "none"
        /\ cleared \in BOOLEAN /\ run.phase \in Fresh
    BY <1>1, UnderWay DEF IInv, Types, PartyTypes, Fresh
  <1>3. Stamped \in RunStates /\ Stamped.verdict = "none"
    BY <1>2, StampedGives DEF IInv
  <1>4. CASE PollClears \/ PollReassembles
    <2>1. PICK p \in {"StagedInside", "Clearing"} : GoesInside([Stamped EXCEPT !.phase = p])
      BY <1>4 DEF PollClears, PollReassembles
    <2>2. /\ run' = [Stamped EXCEPT !.phase = p] /\ over' = MarkAtHead
          /\ queue' \in Seq(Writes) /\ OneCount(queue') /\ ~ Counted(queue')
          /\ owed' \subseteq Nat
      BY <2>1, GoesInsideGives DEF IInv
    <2>3. run' \in RunStates /\ run'.phase = p /\ run'.verdict = "none"
      BY <1>3, <2>2 DEF RunStates, Phases, Fresh
    <2> QED  BY <1>1, <1>2, <2>2, <2>3, QuietPoll
  <1>5. CASE PollProves
    <2>1. /\ GoesInside([Stamped EXCEPT !.phase = "Exiting", !.verdict = "complete"])
          /\ cleared
      BY <1>5 DEF PollProves
    <2>2. /\ run' = [Stamped EXCEPT !.phase = "Exiting", !.verdict = "complete"]
          /\ over' = MarkAtHead
          /\ queue' \in Seq(Writes) /\ OneCount(queue') /\ ~ Counted(queue')
          /\ owed' \subseteq Nat
      BY <2>1, GoesInsideGives DEF IInv
    <2>3. run' \in RunStates /\ run'.phase = "Exiting"
      BY <1>3, <2>2 DEF RunStates, Phases, Verdicts
    <2>4. Pending
      BY <1>1, <2>1 DEF Pending
    <2> QED  BY <1>1, <1>2, <2>2, <2>3, <2>4, QuietPoll
  <1>6. CASE PollGivesUp
    <2>1. PICK v \in {"stalled", "client_lost"} :
              Goes([run EXCEPT !.phase = "Exiting", !.verdict = v])
      BY <1>6 DEF PollGivesUp
    <2>2. /\ run' = [run EXCEPT !.phase = "Exiting", !.verdict = v]
          /\ over' = MarkAtHead
          /\ queue' \in Seq(Writes) /\ OneCount(queue') /\ ~ Counted(queue')
          /\ owed' \subseteq Nat
      BY <2>1, GoesGives DEF IInv
    <2>3. run' \in RunStates /\ run'.phase = "Exiting" /\ run'.verdict = v
      BY <1>2, <2>2 DEF RunStates, Phases, Verdicts
    <2> QED  BY <1>1, <1>2, <2>2, <2>3, QuietPoll
  <1> QED  BY <1>4, <1>5, <1>6

\* Full bags: the run ends without having been one.
LEMMA EvacuatesKeeps == ASSUME IInv, PollEvacuates PROVE IInv'
  <1> DEFINE a == Adopted("Idle", 0)
             r == IF run.phase = "Idle" THEN a ELSE run
  <1>1. /\ queue = <<>> /\ inside # {} /\ over' = MarkAtHead
        /\ run' = [r EXCEPT !.phase = "Exiting", !.verdict = "evacuated"]
        /\ queue' = IF run.phase = "Idle" THEN StampOf(r) ELSE <<>>
        /\ UNCHANGED <<inside, ghosts, cleared, full, clears, job, returns, rows, asks,
                       done, hearth, mishaps>>
        /\ owed' = IF run.phase = "Idle" THEN owed \ {r.campaign} ELSE owed
    BY DEF PollEvacuates, Poll, world, party, database
  <1>2. a \in RunStates
    BY AdoptedGives DEF IInv, Phases
  <1>3. r \in RunStates
    BY <1>2, TypesGive DEF IInv
  <1> HIDE DEF r, a
  <1>4. queue' \in Seq(Writes) /\ OneCount(queue') /\ ~ Counted(queue')
    BY <1>1, <1>3, StampOfGives, NoneQueued, FreeIsOne
  <1>5. run' \in RunStates /\ run'.phase = "Exiting" /\ run'.verdict = "evacuated"
    BY <1>1, <1>3 DEF RunStates, Phases, Verdicts
  <1>6. cleared \in BOOLEAN /\ owed' \subseteq Nat /\ NoMishap
    BY <1>1 DEF IInv, Types, PartyTypes, NoMishap
  <1> QED  BY <1>1, <1>4, <1>5, <1>6, QuietPoll

\* The recovery is chosen.
LEMMA ChoosesKeeps == ASSUME IInv, PollChooses PROVE IInv'
  <1>1. /\ queue = <<>> /\ run.phase = "Recovering" /\ over' = over
        /\ run' \in {IdleRun, Repair(run, run.number), [run EXCEPT !.chosen = TRUE]}
        /\ queue' = <<Apply(run)>> /\ owed' = owed \ {run.campaign}
        /\ UNCHANGED <<inside, ghosts, cleared, full, clears, job, returns, rows, asks,
                       done, hearth, mishaps>>
    BY DEF PollChooses, Live, Phase, Poll, world, party, database
  <1>2. hearth = NoEpisode /\ run \in RunStates /\ run.verdict = "none" /\ run.number \in Nat
    BY <1>1, UnderWay DEF RunStates
  <1>3. run' \in RunStates /\ run'.verdict = "none"
        /\ run'.phase \in {"Idle", "Repairing", "Recovering"}
    <2>1. CASE run' = [run EXCEPT !.chosen = TRUE]
      BY <1>1, <1>2, <2>1 DEF RunStates
    <2> QED  BY <1>1, <1>2, <2>1, AtRest, Repairs
  <1>4. queue' \in Seq(Writes) /\ OneCount(queue') /\ ~ Counted(queue')
    <2>1. "complete" \in Outcomes
      BY DEF Outcomes, Entered
    <2>2. Apply(run) \in Writes /\ Apply(run).do = "apply"
      BY <1>2, <2>1, Written
    <2> QED  BY <1>1, <2>2, OneQueued, FreeIsOne
  <1>5. /\ cleared \in BOOLEAN /\ over \in Marks /\ hearth \in RunStates /\ NoMishap
        /\ owed' \subseteq Nat
    BY <1>1, TypesGive DEF IInv, NoMishap
  <1>8. CountRests'
    BY <1>4 DEF CountRests, Counted
  <1>6. Phased'
    BY <1>1, <1>2, <1>3, <1>8
       DEF Phased, FreshCopy, Unmarked, HearthWaits, VerdictExits, NoEpisode, IdleRun
  <1>7. Pending' => Pending
    BY <1>1, <1>3 DEF Pending
  <1> QED  BY <1>1, <1>3, <1>4, <1>5, <1>6, <1>7, PollKeeps

\* A run that is over: closed, and counted if it is complete.
LEMMA FailsKeeps ==
    ASSUME IInv, \/ PollResetFails \/ PollStagingFails \/ PollFindsNobody \/ PollSplits
    PROVE  IInv'
  <1>1. /\ queue = <<>>
        /\ UNCHANGED <<inside, ghosts, cleared, full, clears, job, returns, rows, asks,
                       done, hearth>>
        /\ Mishap \/ NoMishap
        /\ run.phase \in {"Resetting", "Gathering", "Barrier", "StagedInside", "Clearing"}
        /\ (over' = MarkAtHead) \/ over' \in {"no", "given up"}
    BY DEF PollResetFails, PollStagingFails, PollFindsNobody, PollSplits, Live, Phase, Poll,
           world, party, database, NoMishap
  <1>2. hearth = NoEpisode /\ run \in RunStates /\ cleared \in BOOLEAN
    BY <1>1, UnderWay DEF IInv, Types, PartyTypes
  <1>3. Types
    BY DEF IInv
  <1>4. \E o \in Outcomes \ {"complete"}, r \in RunStates, before \in Seq(Writes) :
           \E wanted, wiped : CountFree(before) /\ EndRun(r, o, wanted, wiped, before)
    <2>1. {"reset_failed", "staging_failed", "emptied", "wipe", "split_failed"}
              \subseteq Outcomes \ {"complete"}
      BY DEF Outcomes, Unentered, Entered
    <2>2. \A o \in Outcomes, r \in RunStates :
              <<Record(r, o)>> \in Seq(Writes) /\ CountFree(<<Record(r, o)>>)
      BY Written, OneQueued
    <2>3. \A r \in RunStates : <<Stamp(r)>> \in Seq(Writes) /\ CountFree(<<Stamp(r)>>)
      BY <2>1, Written, OneQueued
    <2>4. /\ Stamped \in RunStates /\ Stamps \in Seq(Writes) /\ CountFree(Stamps)
          /\ RowOf(run) \in Nat
      <3>1. RowOf(run) \in Nat
        BY <1>2, <1>3, Reads DEF RowOf, RunStates
      <3> QED  BY <1>3, <3>1, StampedGives
    <2>5. CASE PollResetFails
      <3>1. EndRun(run, "reset_failed", TRUE, FALSE, <<Record(run, "reset_failed")>>)
        BY <2>5 DEF PollResetFails
      <3>2. /\ "reset_failed" \in Outcomes \ {"complete"}
            /\ <<Record(run, "reset_failed")>> \in Seq(Writes)
            /\ CountFree(<<Record(run, "reset_failed")>>)
        BY <1>2, <2>1, <2>2
      <3> QED  BY <1>2, <3>1, <3>2
    <2>6. CASE PollStagingFails
      <3> DEFINE w(b) == IF ~ b THEN <<>>
                         ELSE IF RowOf(run) # 0 THEN <<Stamp([run EXCEPT !.row = RowOf(run)])>>
                         ELSE <<Record(run, "staging_failed")>>
      <3>1. PICK b \in BOOLEAN : EndRun(run, "staging_failed", TRUE, FALSE, w(b))
        BY <2>6 DEF PollStagingFails
      <3>2. [run EXCEPT !.row = RowOf(run)] \in RunStates
        BY <1>2, <2>4 DEF RunStates
      <3>3. "staging_failed" \in Outcomes \ {"complete"}
        BY <2>1
      <3>4. w(b) \in Seq(Writes) /\ CountFree(w(b))
        BY <1>2, <2>2, <2>3, <3>2, <3>3, NoneQueued
      <3> HIDE DEF w
      <3> QED  BY <1>2, <3>1, <3>3, <3>4
    <2>7. CASE PollFindsNobody
      <3>1. PICK o \in {"emptied", "wipe"}, second \in BOOLEAN :
                EndRun(Stamped, o, job, second, Stamps)
        BY <2>7 DEF PollFindsNobody
      <3>2. o \in Outcomes \ {"complete"}
        BY <2>1
      <3> QED  BY <2>4, <3>1, <3>2
    <2>8. CASE PollSplits
      <3> DEFINE w == IF RowOf(Stamped) # 0 THEN <<Stamp(Stamped)>>
                      ELSE <<Record(run, "split_failed")>>
      <3>1. EndRun(Stamped, "split_failed", job, FALSE, Stamps \o w)
        BY <2>8 DEF PollSplits
      <3>2. "split_failed" \in Outcomes \ {"complete"}
        BY <2>1
      <3>3. w \in Seq(Writes) /\ CountFree(w)
        BY <1>2, <2>2, <2>3, <2>4, <3>2
      <3> HIDE DEF w
      <3>4. Stamps \o w \in Seq(Writes) /\ CountFree(Stamps \o w)
        BY <2>4, <3>3, BothFree
      <3> QED  BY <2>4, <3>1, <3>2, <3>4
    <2> QED  BY <2>5, <2>6, <2>7, <2>8
  <1>5. PICK o \in Outcomes \ {"complete"}, r \in RunStates, before \in Seq(Writes) :
             \E wanted, wiped : CountFree(before) /\ EndRun(r, o, wanted, wiped, before)
    BY <1>4
  <1>6. /\ run' \in RunStates /\ run'.verdict = "none"
        /\ run'.phase \in {"Idle", "Repairing", "Recovering"}
        /\ queue' \in Seq(Writes) /\ OneCount(queue')
        /\ ~ Counted(queue')
        /\ owed' \subseteq Nat
    BY <1>3, <1>5, EndRunGives
  <1> QED  BY <1>1, <1>2, <1>6, QuietPoll

\* The run that the hearths brought home from is counted where it was pending.
LEMMA FinalizesKeeps == ASSUME IInv, PollFinalizes PROVE IInv'
  <1>1. /\ queue = <<>> /\ run.phase = "Idle" /\ inside = {} /\ hearth' = NoEpisode
        /\ EndRun(hearth, ExitOutcome(hearth), job, FALSE, <<>>)
        /\ UNCHANGED <<inside, ghosts, cleared, full, clears, job, returns, rows, asks,
                       done, over, mishaps>>
    BY DEF PollFinalizes, Phase, Poll, world, party, database
  <1>2. /\ hearth \in RunStates /\ over \in Marks /\ cleared \in BOOLEAN /\ NoMishap
        /\ Types
    BY <1>1, TypesGive DEF IInv, NoMishap
  <1>3. ExitOutcome(hearth) \in Outcomes
        /\ (ExitOutcome(hearth) = "complete" <=> hearth.verdict = "complete")
    BY <1>2, Exits
  <1>4. /\ run' \in RunStates /\ run'.verdict = "none"
        /\ run'.phase \in {"Idle", "Repairing", "Recovering"}
        /\ queue' \in Seq(Writes) /\ OneCount(queue')
        /\ Counted(queue') => ExitOutcome(hearth) = "complete"
        /\ owed' \subseteq Nat
    BY <1>1, <1>2, <1>3, NoneQueued, EndRunGives
  <1>5. ~ Pending' /\ (Counted(queue') => Pending)
    BY <1>1, <1>3, <1>4, AtRest DEF Pending
  <1>8. CountRests'
    BY <1>4 DEF CountRests, Fresh
  <1>6. Phased'
    BY <1>1, <1>4, <1>8
       DEF Phased, FreshCopy, Unmarked, HearthWaits, VerdictExits, NoEpisode, IdleRun
  <1>7. hearth' \in RunStates
    BY <1>1, AtRest
  <1> QED  BY <1>1, <1>2, <1>4, <1>5, <1>6, <1>7, PollKeeps

\* The run that walked out is counted where it was pending.
LEMMA ExitsKeeps == ASSUME IInv, PollExits PROVE IInv'
  <1>1. /\ queue = <<>> /\ run.phase = "Exiting" /\ inside = {}
        /\ EndRun(run, ExitOutcome(run), job, FALSE, <<>>)
        /\ UNCHANGED <<inside, ghosts, cleared, full, clears, job, returns, rows, asks,
                       done, over, hearth, mishaps>>
    BY DEF PollExits, Phase, Poll, world, party, database
  <1>2. /\ run \in RunStates /\ hearth \in RunStates /\ over \in Marks
        /\ cleared \in BOOLEAN /\ NoMishap /\ Types
    BY <1>1, TypesGive DEF IInv, NoMishap
  <1>3. /\ ExitOutcome(run) \in Outcomes
        /\ ExitOutcome(run) = "complete" <=> run.verdict = "complete"
        /\ ExitOutcome(run) = "evacuated" <=> run.verdict = "evacuated"
    BY <1>2, Exits
  <1>4. /\ run' \in RunStates /\ run'.verdict = "none"
        /\ run'.phase \in {"Idle", "Repairing", "Recovering"}
        /\ ExitOutcome(run) = "evacuated" => run'.phase = "Idle"
        /\ queue' \in Seq(Writes) /\ OneCount(queue')
        /\ Counted(queue') => ExitOutcome(run) = "complete"
        /\ owed' \subseteq Nat
    BY <1>1, <1>2, <1>3, NoneQueued, EndRunGives
  <1>5. hearth # NoEpisode => run.verdict = "evacuated"
    BY <1>1 DEF IInv, Phased, HearthWaits
  <1>6. Pending' => hearth.verdict = "complete"
    BY <1>1, <1>4 DEF Pending
  <1>7. Pending' => Pending /\ hearth # NoEpisode
    BY <1>6, AtRest DEF Pending
  <1>8. Counted(queue') => Pending /\ ~ Pending'
    BY <1>3, <1>4, <1>5, <1>7 DEF Pending
  <1>10. CountRests'
    BY <1>4 DEF CountRests, Fresh
  <1>9. Phased'
    BY <1>1, <1>3, <1>4, <1>5, <1>10
       DEF Phased, FreshCopy, Unmarked, HearthWaits, VerdictExits, NoEpisode, IdleRun
  <1> QED  BY <1>1, <1>2, <1>4, <1>7, <1>8, <1>9, PollKeeps

\* The walk out that gave up hands its verdict to the hearths.
LEMMA ExitFailsKeeps == ASSUME IInv, PollExitFails PROVE IInv'
  <1>1. /\ queue = <<>> /\ run.phase = "Exiting" /\ run' = IdleRun /\ queue' = <<>> /\ Mishap
        /\ hearth' = [run EXCEPT !.row = RowOf(run)] \/ hearth' = NoEpisode
        /\ UNCHANGED <<inside, ghosts, cleared, full, clears, job, returns, rows, asks,
                       done, over, owed>>
    BY DEF PollExitFails, Phase, Poll, world, party, database
  <1>2. /\ run \in RunStates /\ over \in Marks /\ cleared \in BOOLEAN
        /\ owed \subseteq Nat
    BY TypesGive DEF IInv, Types, PartyTypes
  <1>3. RowOf(run) \in Nat
    BY <1>2, Reads DEF IInv, RowOf, RunStates
  <1>4. hearth' \in RunStates /\ (hearth'.verdict = "complete" => run.verdict = "complete")
    BY <1>1, <1>2, <1>3, AtRest DEF RunStates
  <1>5. queue' \in Seq(Writes) /\ OneCount(queue') /\ ~ Counted(queue')
    BY <1>1, NoneQueued, FreeIsOne
  <1>8. CountRests'
    BY <1>5 DEF CountRests, Counted
  <1>6. Phased'
    BY <1>1, <1>8, AtRest DEF Phased, FreshCopy, Unmarked, HearthWaits, VerdictExits
  <1>7. Pending' => Pending
    BY <1>1, <1>4, AtRest DEF Pending
  <1> QED  BY <1>1, <1>2, <1>4, <1>5, <1>6, <1>7, AtRest, PollKeeps

\* An adoption says complete only of a clear that is pending.
LEMMA AdoptsKeeps == ASSUME IInv, PollAdopts PROVE IInv'
  <1>1. /\ queue = <<>> /\ run.phase = "Idle" /\ inside # {} /\ hearth' = NoEpisode
        /\ UNCHANGED <<inside, ghosts, cleared, full, clears, job, returns, rows, asks,
                       done, mishaps>>
    BY DEF PollAdopts, Phase, Poll, world, party, database
  <1>2. \E mark \in {over, "complete", "given up"} :
          /\ mark = "complete" => over = "complete" \/ hearth.verdict = "complete"
          /\ LET verdict == IF cleared \/ mark = "complete" THEN "complete"
                            ELSE IF mark = "given up" THEN "stalled" ELSE "none"
                 r == Adopted(AdoptAt(mark), NewCampaign)
             IN  /\ run' = [r EXCEPT !.verdict = verdict]
                 /\ queue' = StampOf(r)
                 /\ over' = mark
                 /\ owed' = owed \ {r.campaign}
    BY DEF PollAdopts
  <1>3. PICK mark \in {over, "complete", "given up"} :
          /\ mark = "complete" => over = "complete" \/ hearth.verdict = "complete"
          /\ LET verdict == IF cleared \/ mark = "complete" THEN "complete"
                            ELSE IF mark = "given up" THEN "stalled" ELSE "none"
                 r == Adopted(AdoptAt(mark), NewCampaign)
             IN  /\ run' = [r EXCEPT !.verdict = verdict]
                 /\ queue' = StampOf(r)
                 /\ over' = mark
                 /\ owed' = owed \ {r.campaign}
    BY <1>2
  <1> DEFINE v == IF cleared \/ mark = "complete" THEN "complete"
                  ELSE IF mark = "given up" THEN "stalled" ELSE "none"
             r == Adopted(AdoptAt(mark), NewCampaign)
  <1>4. /\ run' = [r EXCEPT !.verdict = v] /\ queue' = StampOf(r) /\ over' = mark
        /\ owed' = owed \ {r.campaign}
    BY <1>3
  <1>5. /\ over \in Marks /\ cleared \in BOOLEAN /\ NoMishap /\ Types
        /\ mark \in Marks /\ owed' \subseteq Nat
    BY <1>1, <1>4, TypesGive DEF IInv, NoMishap, Marks
  <1>6. /\ AdoptAt(mark) \in {"Exiting", "Clearing", "StagedInside"}
        /\ cleared \/ mark # "no" => AdoptAt(mark) = "Exiting"
    BY DEF AdoptAt
  <1>7. r \in RunStates /\ r.phase = AdoptAt(mark)
    <2>1. AdoptAt(mark) \in Phases /\ NewCampaign \in Nat
      BY <1>5, <1>6, Reads DEF Phases, Fresh
    <2> QED  BY <1>5, <2>1, AdoptedGives
  <1>8. queue' \in Seq(Writes) /\ OneCount(queue') /\ ~ Counted(queue')
    BY <1>4, <1>7, StampOfGives, FreeIsOne
  <1>9. /\ v \in {"complete", "stalled", "none"}
        /\ v # "none" => cleared \/ mark # "no"
        /\ v = "complete" => cleared \/ mark = "complete"
    BY <1>5 DEF Marks
  <1> HIDE DEF v, r
  <1>10. run' \in RunStates /\ run'.phase = AdoptAt(mark) /\ run'.verdict = v
    BY <1>4, <1>7, <1>9 DEF RunStates, Verdicts
  <1>14. CountRests'
    BY <1>8 DEF CountRests, Counted
  <1>11. Phased'
    BY <1>1, <1>4, <1>6, <1>9, <1>10, <1>14
       DEF Phased, FreshCopy, Unmarked, HearthWaits, VerdictExits, NoEpisode, IdleRun
  <1>12. Pending' => Pending
    BY <1>1, <1>3, <1>4, <1>9, <1>10, AtRest DEF Pending
  <1>13. hearth' \in RunStates
    BY <1>1, AtRest
  <1> QED  BY <1>1, <1>4, <1>5, <1>8, <1>10, <1>11, <1>12, <1>13, PollKeeps

\* The next run of the campaign, or its recovery.
LEMMA StartsKeeps == ASSUME IInv, PollStarts PROVE IInv'
  <1> DEFINE c == NextCampaign
             r == [IdleRun EXCEPT !.campaign = c, !.number = done + 1]
  <1>1. /\ queue = <<>> /\ run.phase = "Idle" /\ inside = {} /\ hearth = NoEpisode
        /\ over' = "no"
        /\ IF Resumed(c)
           THEN run' = Recover(r, asks[NewestAsk(c)].attempt) /\ queue' = <<>>
           ELSE IF Trailing(c) > 0 /\ ~AppliedFor(c, Trailing(c))
           THEN /\ run' = Recover(r, Trailing(c))
                /\ queue' = <<Ask(run')>>
           ELSE run' = [r EXCEPT !.phase = "Resetting"] /\ queue' = <<>>
        /\ UNCHANGED <<inside, ghosts, cleared, full, clears, job, returns, rows, asks,
                       done, hearth, mishaps, owed>>
    BY DEF PollStarts, Phase, Poll, world, party, database
  <1>2. /\ cleared \in BOOLEAN /\ owed \subseteq Nat /\ NoMishap
        /\ Types
    BY <1>1 DEF IInv, Types, PartyTypes, NoMishap
  <1>3. c \in Nat
    BY <1>2, Reads DEF NextCampaign, OrElse
  <1>4. r \in RunStates /\ r.verdict = "none" /\ done + 1 \in Nat
    <2>1. done + 1 \in Nat
      BY <1>2, TypesGive
    <2> QED  BY <1>3, <2>1, AtRest DEF RunStates, IdleRun
  <1>5. Trailing(c) \in Nat
    BY <1>2, Reads
  <1>6. Resumed(c) => asks[NewestAsk(c)].attempt \in Nat
    <2>1. Resumed(c) => NewestAsk(c) # 0
      BY DEF Resumed
    <2>2. NewestAsk(c) # 0 => NewestAsk(c) \in DOMAIN asks
      BY <1>2, Reads
    <2> QED  BY <1>2, <2>1, <2>2, RowIs
  <1> HIDE DEF c, r
  <1>7. /\ run' \in RunStates /\ run'.verdict = "none"
        /\ run'.phase \in {"Recovering", "Resetting"}
        /\ queue' \in Seq(Writes) /\ OneCount(queue') /\ ~ Counted(queue')
    <2>1. CASE Resumed(c)
      <3>1. run' = Recover(r, asks[NewestAsk(c)].attempt) /\ queue' = <<>>
        BY <1>1, <2>1
      <3> QED  BY <1>4, <1>6, <2>1, <3>1, Recovers, NoneQueued, FreeIsOne
    <2>2. CASE ~ Resumed(c) /\ Trailing(c) > 0 /\ ~ AppliedFor(c, Trailing(c))
      <3>1. run' = Recover(r, Trailing(c)) /\ queue' = <<Ask(run')>>
        BY <1>1, <2>2
      <3>2. run' \in RunStates /\ run'.verdict = "none" /\ run'.phase = "Recovering"
        BY <1>4, <1>5, <3>1, Recovers
      <3>3. "complete" \in Outcomes
        BY DEF Outcomes, Entered
      <3>4. Ask(run') \in Writes /\ Ask(run').do = "ask"
        BY <3>2, <3>3, Written
      <3> QED  BY <3>1, <3>2, <3>4, OneQueued, FreeIsOne
    <2>3. CASE ~ Resumed(c) /\ ~ (Trailing(c) > 0 /\ ~ AppliedFor(c, Trailing(c)))
      <3>1. run' = [r EXCEPT !.phase = "Resetting"] /\ queue' = <<>>
        BY <1>1, <2>3
      <3>2. run' \in RunStates /\ run'.verdict = "none" /\ run'.phase = "Resetting"
        BY <1>4, <3>1 DEF RunStates, Phases, Fresh
      <3> QED  BY <3>1, <3>2, NoneQueued, FreeIsOne
    <2> QED  BY <2>1, <2>2, <2>3
  <1> QED  BY <1>1, <1>2, <1>7, QuietPoll

LEMMA CoordinatorKeeps == ASSUME IInv, CoordinatorPoll PROVE IInv'
  BY HoldsOutKeeps, StandsDownKeeps, OutsideKeeps, ResetsKeeps, InsideKeeps, EvacuatesKeeps,
     ChoosesKeeps, FailsKeeps, FinalizesKeeps, ExitsKeeps, ExitFailsKeeps, AdoptsKeeps,
     StartsKeeps
     DEF CoordinatorPoll, PollIdle, PollOutside, PollInside, PollLeaves, PollRecovery

(***************************************************************************)
(* The worker and the world.                                               *)
(***************************************************************************)
LEMMA TablesAfter ==
    ASSUME Types, NEW w \in Writes
    PROVE  RowsAfter(w) \in Seq(Rows) /\ AsksAfter(w) \in Seq(Asks)
  <1>1. rows \in Seq(Rows) /\ asks \in Seq(Asks)
    BY TypesGive
  <1>2. /\ w.do \in {"stamp", "count", "ask", "apply", "close", "record"}
        /\ w.row \in Nat /\ w.campaign \in Nat /\ w.number \in Nat /\ w.attempt \in Nat
        /\ w.do \in {"close", "record"} => w.outcome \in Outcomes
    BY DEF Writes
  <1>3. RowsAfter(w) \in Seq(Rows)
    <2>1. CASE w.do = "stamp" /\ w.row \in DOMAIN rows /\ rows[w.row].campaign = 0
      <3> DEFINE x == [[rows[w.row] EXCEPT !.campaign = w.campaign] EXCEPT !.number = w.number]
                 y == [rows EXCEPT ![w.row] = x]
      <3>1. x \in Rows
        <4>1. rows[w.row] \in Rows
          BY <2>1, RowIs
        <4> QED  BY <1>2, <4>1 DEF Rows
      <3>2. y \in Seq(Rows)
        BY <1>1, <2>1, <3>1, ExceptSeq
      <3>3. RowsAfter(w) = [rows EXCEPT ![w.row].campaign = w.campaign, ![w.row].number = w.number]
        BY <2>1 DEF RowsAfter
      <3>4. [rows EXCEPT ![w.row].campaign = w.campaign, ![w.row].number = w.number] = y
        BY <1>1, <2>1
      <3> QED  BY <3>2, <3>3, <3>4
    <2>2. CASE w.do = "close" /\ Active(w.row)
      <3> DEFINE x == [rows[w.row] EXCEPT !.outcome = w.outcome]
      <3>1. w.row \in DOMAIN rows
        BY <2>2 DEF Active
      <3>2. x \in Rows
        <4>1. rows[w.row] \in Rows
          BY <3>1, RowIs
        <4> QED  BY <1>2, <2>2, <4>1 DEF Rows
      <3>3. RowsAfter(w) = [rows EXCEPT ![w.row] = x]
        BY <2>2 DEF RowsAfter
      <3> QED  BY <1>1, <3>1, <3>2, <3>3, ExceptSeq
    <2>3. CASE w.do = "record"
      <3> DEFINE x == [campaign |-> w.campaign, number |-> w.number, outcome |-> w.outcome]
      <3>1. x \in Rows
        BY <1>2, <2>3 DEF Rows
      <3>2. RowsAfter(w) = Append(rows, x)
        BY <2>3 DEF RowsAfter
      <3> QED  BY <1>1, <3>1, <3>2, AppendProperties
    <2>4. CASE /\ ~ (w.do = "stamp" /\ w.row \in DOMAIN rows /\ rows[w.row].campaign = 0)
               /\ ~ (w.do = "close" /\ Active(w.row))
               /\ w.do # "record"
      BY <1>1, <2>4 DEF RowsAfter
    <2> QED  BY <2>1, <2>2, <2>3, <2>4
  <1>4. AsksAfter(w) \in Seq(Asks)
    <2>1. CASE w.do = "ask"
      <3> DEFINE x == [campaign |-> w.campaign, attempt |-> w.attempt,
                       applied |-> FALSE, after |-> Len(rows)]
      <3>1. x \in Asks
        BY <1>2, RowIs DEF Asks
      <3>2. AsksAfter(w) = Append(asks, x)
        BY <2>1 DEF AsksAfter
      <3> QED  BY <1>1, <3>1, <3>2, AppendProperties
    <2>2. CASE w.do = "apply"
      <3> DEFINE f == [i \in DOMAIN asks |->
                         IF asks[i].campaign = w.campaign /\ asks[i].attempt = w.attempt
                         THEN [asks[i] EXCEPT !.applied = TRUE] ELSE asks[i]]
      <3>1. \A i \in DOMAIN asks : f[i] \in Asks
        BY RowIs DEF Asks
      <3>2. f \in [1 .. Len(asks) -> Asks] /\ Len(asks) \in Nat
        BY <3>1, RowIs
      <3>3. AsksAfter(w) = f
        BY <2>2 DEF AsksAfter
      <3> HIDE DEF f
      <3> QED  BY <3>2, <3>3, SeqDef
    <2>3. CASE w.do \notin {"ask", "apply"}
      BY <1>1, <2>3 DEF AsksAfter
    <2> QED  BY <2>1, <2>2, <2>3
  <1> QED  BY <1>3, <1>4

\* The worker counts what was queued.
LEMMA WorkerKeeps == ASSUME IInv, ApplyWrite PROVE IInv'
  <1>1. /\ queue # <<>> /\ queue' = Tail(queue)
        /\ rows' = RowsAfter(Head(queue)) /\ asks' = AsksAfter(Head(queue))
        /\ done' = IF Head(queue).do = "count" THEN done + 1 ELSE done
        /\ UNCHANGED <<inside, ghosts, cleared, full, clears, job, run, over, hearth,
                       mishaps, returns, owed>>
    BY DEF ApplyWrite, world, party, coordinator, spent
  <1>2. /\ queue \in Seq(Writes) /\ OneCount(queue) /\ done \in Nat /\ clears \in Nat
        /\ returns \in Nat /\ Types
    BY TypesGive, Constants DEF IInv
  <1>3. /\ Head(queue) \in Writes /\ queue' \in Seq(Writes) /\ OneCount(queue')
        /\ Head(queue).do = "count" => Counted(queue) /\ ~ Counted(queue')
        /\ Counted(queue') => Counted(queue)
    BY <1>1, <1>2, WorkerCounts
  <1>4. rows' \in Seq(Rows) /\ asks' \in Seq(Asks) /\ done' \in Nat
    BY <1>1, <1>2, <1>3, TablesAfter
  <1>5. Types'
    BY <1>1, <1>2, <1>3, <1>4 DEF Types, PartyTypes, TableTypes, CoordinatorTypes
  <1>8. CountRests'
    BY <1>1, <1>3 DEF IInv, Phased, CountRests, Counted
  <1>6. Phased'
    BY <1>1, <1>8
       DEF IInv, Phased, FreshCopy, Unmarked, HearthWaits, VerdictExits, NoEpisode, IdleRun
  <1>7. Budget'
    <2>1. Pending' = Pending
      BY <1>1 DEF Pending
    <2>2. done' + Once(Counted(queue')) <= done + Once(Counted(queue))
      BY <1>1, <1>2, <1>3, Flags, OnceIs
    <2>3. /\ Once(Counted(queue')) \in Nat /\ Once(Pending) \in Nat
          /\ Once(Counted(queue)) \in Nat
      BY Flags, OnceIs
    <2>4. /\ done + Once(Counted(queue)) + Once(Pending) <= clears + returns
          /\ done + Once(Counted(queue)) + Once(Pending) <= Wanted + returns
      BY DEF IInv, Budget
    <2>5. /\ done' + Once(Counted(queue')) + Once(Pending) <= clears' + returns'
          /\ done' + Once(Counted(queue')) + Once(Pending) <= Wanted + returns'
      BY <1>1, <1>2, <1>4, <2>2, <2>3, <2>4, Constants
    <2> QED  BY <2>1, <2>5 DEF Budget, Once, Counted
  <1> QED  BY <1>3, <1>5, <1>6, <1>7 DEF IInv, OneCount

\* Whoever walks in while a run is entered or staged finds a new copy, or one
\* whose clear was pending already.
LEMMA WalksKeep == ASSUME IInv, Walks PROVE IInv'
  <1>1. PICK m \in Members : WalksIn(m) \/ WalksOut(m) \/ Rises(m)
    BY DEF Walks
  <1>2. /\ UNCHANGED <<coordinator, queue, done, clears, returns, cleared>>
        /\ UNCHANGED <<rows, asks, full, job, mishaps, owed, run, over, hearth>>
    BY <1>1 DEF WalksIn, WalksOut, Rises, Elsewhere, database, spent, coordinator
  <1>3. inside \in SUBSET Members /\ ghosts \in SUBSET (Members \ inside)
    BY DEF IInv, Types, PartyTypes
  <1>4. inside' \in SUBSET Members /\ ghosts' \in SUBSET (Members \ inside')
    BY <1>1, <1>3 DEF WalksIn, WalksOut, Rises, LivingOutside
  <1>5. PartyTypes' /\ TableTypes'
    BY <1>2, <1>4 DEF IInv, Types, PartyTypes, TableTypes
  <1>6. FreshCopy'
    BY <1>2 DEF IInv, Phased, FreshCopy
  <1>7. Pending' => Pending
    <2>1. CASE WalksIn(m)
      <3>1. run.phase \in {"Enter", "StagedInside"}
        BY <2>1 DEF WalksIn
      <3>2. over = "no" /\ (run.phase = "Enter" => ~ cleared)
        BY <3>1 DEF IInv, Phased, Unmarked, FreshCopy
      <3> QED  BY <1>2, <3>1, <3>2 DEF Pending
    <2>2. CASE WalksOut(m) \/ Rises(m)
      <3>1. inside' # {} => inside # {}
        BY <2>2 DEF WalksOut, Rises
      <3> QED  BY <1>2, <3>1 DEF Pending
    <2> QED  BY <1>1, <2>1, <2>2
  <1>8. UNCHANGED <<clears, returns>>
    BY <1>2
  <1> QED  BY <1>2, <1>5, <1>6, <1>7, <1>8, WorldKeeps

\* Deaths, full and empty bags, and the job take no clear and make none.
LEMMA HappensKeeps ==
    ASSUME IInv,
           \/ \E m \in Members : Dies(m)
           \/ BagsFill \/ BagsEmpty \/ JobGoes \/ JobComes
    PROVE  IInv'
  <1>1. /\ UNCHANGED <<coordinator, queue, done, clears, returns, cleared>>
        /\ UNCHANGED <<rows, asks, owed, run, over, hearth>>
        /\ inside' # {} => inside # {}
        /\ Mishap \/ NoMishap
    BY DEF Dies, BagsFill, BagsEmpty, JobGoes, JobComes, Elsewhere, database, spent,
           coordinator, world, party, NoMishap
  <1>2. /\ inside \in SUBSET Members /\ ghosts \in SUBSET (Members \ inside)
        /\ full \in BOOLEAN /\ job \in BOOLEAN
    BY DEF IInv, Types, PartyTypes
  <1>3. /\ inside' \in SUBSET Members /\ ghosts' \in SUBSET (Members \ inside')
        /\ full' \in BOOLEAN /\ job' \in BOOLEAN
    BY <1>2 DEF Dies, BagsFill, BagsEmpty, JobGoes, JobComes, Elsewhere, world, party
  <1>4. mishaps' \in 0 .. MaxMishaps
    BY <1>1, TypesGive, Constants DEF IInv, Mishap, NoMishap
  <1>5. PartyTypes' /\ TableTypes'
    BY <1>1, <1>3, <1>4 DEF IInv, Types, PartyTypes, TableTypes
  <1>6. FreshCopy' /\ (Pending' => Pending)
    BY <1>1 DEF IInv, Phased, FreshCopy, Pending
  <1>7. UNCHANGED <<clears, returns>>
    BY <1>1
  <1> QED  BY <1>1, <1>5, <1>6, <1>7, WorldKeeps

\* A ghost that runs back in may find a copy that was counted; a boss that
\* dies makes a clear.
LEMMA ClearsKeep ==
    ASSUME IInv, RunsWanted,
           \/ \E m \in Members : RunsBackIn(m)
           \/ LastBossDies
    PROVE  IInv'
  <1>1. /\ UNCHANGED <<coordinator, queue, done>>
        /\ UNCHANGED <<rows, asks, owed, run, over, hearth, full, job, mishaps>>
    BY DEF RunsBackIn, LastBossDies, Elsewhere, database, spent, coordinator, party
  <1>2. /\ inside \in SUBSET Members /\ ghosts \in SUBSET (Members \ inside)
        /\ cleared \in BOOLEAN /\ clears \in Nat /\ returns \in 0 .. MaxReturns
        /\ MaxReturns \in Nat
    BY Constants DEF IInv, Types, PartyTypes
  <1>3. /\ inside' \in SUBSET Members /\ ghosts' \in SUBSET (Members \ inside')
        /\ cleared' \in BOOLEAN /\ clears' \in Nat /\ returns' \in 0 .. MaxReturns
        /\ \/ clears' = clears /\ returns' = returns + 1
           \/ clears' = clears + 1 /\ returns' = returns /\ done < Wanted /\ ~ Counted(queue)
        /\ run.phase \notin {"StagedInside", "Clearing"} => cleared' = cleared
    <2>1. CASE LastBossDies
      <3>1. /\ cleared' = TRUE /\ clears' = clears + 1
            /\ inside' = inside /\ ghosts' = ghosts /\ returns' = returns
            /\ run.phase \in {"StagedInside", "Clearing"}
        BY <2>1 DEF LastBossDies, party, spent
      <3>2. returns \in Nat /\ clears + 1 \in Nat
        BY <1>2
      <3>3. done < Wanted /\ ~ Counted(queue)
        BY <3>1 DEF RunsWanted, Fresh, IInv, Phased, CountRests
      <3> QED  BY <1>2, <3>1, <3>2, <3>3
    <2>2. CASE \E m \in Members : RunsBackIn(m)
      <3>1. PICK m \in Members : RunsBackIn(m)
        BY <2>2
      <3>2. /\ ghosts' = ghosts \ {m} /\ inside' = inside \cup {m}
            /\ cleared' = cleared /\ clears' = clears
            /\ returns' = returns + 1 /\ returns < MaxReturns
        BY <3>1 DEF RunsBackIn
      <3>3. inside' \in SUBSET Members /\ ghosts' \in SUBSET (Members \ inside')
        BY <1>2, <3>1, <3>2
      <3>4. returns' \in 0 .. MaxReturns
        BY <1>2, <3>2
      <3> QED  BY <1>2, <3>2, <3>3, <3>4
    <2> QED  BY <2>1, <2>2
  <1>4. PartyTypes' /\ TableTypes'
    BY <1>1, <1>3 DEF IInv, Types, PartyTypes, TableTypes
  <1>5. FreshCopy'
    BY <1>1, <1>3 DEF IInv, Phased, FreshCopy
  <1> QED  BY <1>1, <1>3, <1>4, <1>5, WorldKeeps

\* The rows that the arming drive opens and the sweep closes.
LEMMA RowsKeep == ASSUME IInv, OpensRow \/ ClosesCold PROVE IInv'
  <1>1. /\ UNCHANGED <<coordinator, queue, done>>
        /\ UNCHANGED <<inside, ghosts, cleared, full, clears, job, run, over, hearth, asks,
                       mishaps, returns, owed>>
    BY DEF OpensRow, ClosesCold, world, party, coordinator, spent
  <1>2. Types /\ rows \in Seq(Rows)
    BY TypesGive DEF IInv
  <1>3. rows' \in Seq(Rows)
    <2>1. CASE OpensRow
      <3> DEFINE x == [campaign |-> 0, number |-> 0, outcome |-> "active"]
      <3>1. x \in Rows
        BY DEF Rows
      <3>2. rows' = Append(rows, x)
        BY <2>1 DEF OpensRow
      <3> QED  BY <1>2, <3>1, <3>2, AppendProperties
    <2>2. CASE ClosesCold
      <3> DEFINE x == [rows[ActiveRow] EXCEPT !.outcome = "emptied"]
                 S == {i \in DOMAIN rows : rows[i].outcome = "active"}
      <3>1. S \in SUBSET (1 .. Len(rows))
        BY <1>2, RowIs
      <3>2. LastOf(S) # 0 => LastOf(S) \in S
        BY <1>2, <3>1, RowIs, LastOfIs
      <3>3. ActiveRow \in DOMAIN rows
        BY <2>2, <3>2 DEF ActiveRow, ClosesCold
      <3>4. x \in Rows
        <4>1. rows[ActiveRow] \in Rows
          BY <1>2, <3>3, RowIs
        <4> QED  BY <4>1 DEF Rows, Outcomes, Entered
      <3>5. rows' = [rows EXCEPT ![ActiveRow] = x]
        BY <2>2 DEF ClosesCold
      <3> QED  BY <1>2, <3>3, <3>4, <3>5, ExceptSeq
    <2> QED  BY <2>1, <2>2
  <1>4. PartyTypes' /\ TableTypes'
    BY <1>1, <1>2, <1>3 DEF Types, PartyTypes, TableTypes
  <1>5. FreshCopy' /\ (Pending' => Pending)
    BY <1>1 DEF IInv, Phased, FreshCopy, Pending
  <1>6. UNCHANGED <<clears, returns>>
    BY <1>1
  <1> QED  BY <1>1, <1>4, <1>5, <1>6, WorldKeeps

\* A restart forgets what was queued: a count may be lost, none is made.
LEMMA RestartKeeps == ASSUME IInv, Restart PROVE IInv'
  <1>1. /\ run' = IdleRun /\ over' = "no" /\ hearth' = NoEpisode /\ queue' = <<>> /\ Mishap
        /\ owed' \subseteq owed
        /\ UNCHANGED <<inside, ghosts, cleared, full, clears, job, rows, asks, done, returns>>
    BY DEF Restart, world, party, database
  <1>2. Types'
    <2>1. /\ run' \in RunStates /\ hearth' \in RunStates /\ over' \in Marks
          /\ queue' \in Seq(Writes)
      BY <1>1, AtRest, NoneQueued DEF Marks
    <2>2. cleared' \in BOOLEAN /\ owed' \subseteq Nat /\ Types
      BY <1>1 DEF IInv, Types, PartyTypes
    <2> QED  BY <1>1, <2>1, <2>2, Steady
  <1>4. OneCount(queue') /\ ~ Counted(queue')
    BY <1>1, NoneQueued, FreeIsOne
  <1>7. CountRests'
    BY <1>4 DEF CountRests, Counted
  <1>3. Phased'
    BY <1>1, <1>7, AtRest DEF Phased, FreshCopy, Unmarked, HearthWaits, VerdictExits
  <1>5. Pending' => Pending
    BY <1>1, AtRest DEF Pending
  <1>6. Budget'
    <2>1. done \in Nat /\ clears \in Nat /\ returns \in Nat
      BY TypesGive, Constants DEF IInv
    <2>2. /\ Once(Counted(queue')) = 0 /\ Once(Counted(queue)) \in Nat
          /\ Once(Pending') \in Nat /\ Once(Pending) \in Nat /\ Once(Pending') <= Once(Pending)
      BY <1>4, <1>5, Flags, OnceIs
    <2>3. /\ done + Once(Counted(queue)) + Once(Pending) <= clears + returns
          /\ done + Once(Counted(queue)) + Once(Pending) <= Wanted + returns
      BY DEF IInv, Budget
    <2>4. /\ done + Once(Counted(queue')) + Once(Pending') <= clears + returns
          /\ done + Once(Counted(queue')) + Once(Pending') <= Wanted + returns
      BY <2>1, <2>2, <2>3, Constants
    <2> QED  BY <1>1, <2>4 DEF Budget, Once, Counted
  <1> QED  BY <1>2, <1>3, <1>4, <1>6 DEF IInv, OneCount

LEMMA NextKeeps == IInv /\ RunsWanted /\ [Next]_vars => IInv'
  <1> SUFFICES ASSUME IInv, RunsWanted, [Next]_vars PROVE IInv'
    OBVIOUS
  <1>1. CASE Next
    BY <1>1, CoordinatorKeeps, WorkerKeeps, WalksKeep, HappensKeeps, ClearsKeep, RowsKeep,
       RestartKeeps DEF Next
  <1>2. CASE UNCHANGED vars
    <2>1. /\ UNCHANGED <<coordinator, queue, done, clears, returns>>
          /\ UNCHANGED <<inside, ghosts, cleared, full, job, run, over, hearth, rows, asks,
                         mishaps, owed>>
      BY <1>2 DEF vars, world, party, coordinator, database, spent
    <2>2. PartyTypes' /\ TableTypes' /\ FreshCopy'
      BY <2>1 DEF IInv, Types, PartyTypes, TableTypes, Phased, FreshCopy
    <2>3. UNCHANGED <<clears, returns>> /\ (Pending' => Pending)
      BY <2>1 DEF Pending
    <2> QED  BY <2>1, <2>2, <2>3, WorldKeeps
  <1> QED  BY <1>1, <1>2

LEMMA InitKeeps == Init => IInv
  <1> SUFFICES ASSUME Init PROVE IInv
    OBVIOUS
  <1>1. PartyTypes
    <2>1. 0 \in 0 .. MaxMishaps /\ 0 \in 0 .. MaxReturns
      BY Constants
    <2>2. inside = {} /\ ghosts = {} /\ mishaps = 0 /\ returns = 0 /\ clears = 0
      BY DEF Init
    <2>3. cleared \in BOOLEAN /\ full \in BOOLEAN /\ job \in BOOLEAN /\ owed = {}
      BY DEF Init
    <2> QED  BY <2>1, <2>2, <2>3 DEF PartyTypes
  <1>2. TableTypes /\ CoordinatorTypes /\ queue \in Seq(Writes)
    BY AtRest, NoneQueued, EmptySeq DEF Init, TableTypes, CoordinatorTypes, Marks
  <1>3. OneCount(queue) /\ ~ Counted(queue)
    BY NoneQueued, FreeIsOne DEF Init
  <1>4. Phased
    BY <1>3, AtRest
       DEF Init, Phased, FreshCopy, Unmarked, HearthWaits, VerdictExits, CountRests
  <1>5. Budget
    <2>1. ~ Pending
      BY AtRest DEF Init, Pending
    <2>2. Once(Pending) = 0 /\ Once(Counted(queue)) = 0
      BY <1>3, <2>1, Flags, OnceIs
    <2> QED  BY <2>2, Constants DEF Init, Budget
  <1> QED  BY <1>1, <1>2, <1>3, <1>4, <1>5 DEF IInv, Types

\* A run is opened, adopted and driven only while one is wanted, and what is
\* done grows only between two runs.
LEMMA EndRunRests ==
    ASSUME NEW r, NEW o, NEW wanted, NEW wiped, NEW before, EndRun(r, o, wanted, wiped, before)
    PROVE  run'.phase \in {"Idle", "Repairing", "Recovering"}
  <1> DEFINE next == Repair([r EXCEPT !.streak = 0], DoneAfter(r, o) + 1)
             recovering == Recover(next, MaxOf(r.streak + 1, Trailing(r.campaign)))
  <1>1. run' \in {recovering, next, IdleRun}
    BY Zenon DEF EndRun
  <1>2. next.phase = "Repairing"
    BY DEF Repair, IdleRun
  <1>3. recovering.phase = "Recovering"
    <2> HIDE DEF next
    <2>1. next = Repair([r EXCEPT !.streak = 0], DoneAfter(r, o) + 1)
      BY DEF next
    <2>2. Repair([r EXCEPT !.streak = 0], DoneAfter(r, o) + 1).phase = "Repairing"
      BY DEF Repair, IdleRun
    <2> QED  BY <2>1, <2>2 DEF Recover, Repair, IdleRun
  <1> QED  BY <1>1, <1>2, <1>3 DEF IdleRun

LEMMA OneOrOther == \A m, n \in Nat : m >= n \/ m < n
  OBVIOUS

LEMMA PollWants ==
    ASSUME IInv, RunsWanted, CoordinatorPoll
    PROVE  run'.phase \in Fresh => done < Wanted
  <1>1. run \in RunStates /\ Types
    BY TypesGive DEF IInv
  <1>2. Stamped \in RunStates
    BY <1>1, StampedGives
  <1>3. CASE PollHoldsOut \/ PollExitFails
    BY <1>3 DEF PollHoldsOut, PollExitFails, IdleRun, Fresh
  <1>4. CASE PollStandsDown
    BY <1>1, <1>4 DEF PollStandsDown, RunStates, IdleRun, Fresh
  <1>5. CASE \/ PollFinalizes \/ PollExits \/ PollResetFails \/ PollStagingFails
             \/ PollFindsNobody \/ PollSplits
    <2>1. \E r, o, wanted, wiped, before : EndRun(r, o, wanted, wiped, before)
      BY <1>5 DEF PollFinalizes, PollExits, PollResetFails, PollStagingFails,
                  PollFindsNobody, PollSplits
    <2> QED  BY <2>1, EndRunRests DEF Fresh
  <1>6. CASE PollAdopts
    <2>1. PICK mark, v :
              run' = [Adopted(AdoptAt(mark), NewCampaign) EXCEPT !.verdict = v]
      BY <1>6 DEF PollAdopts
    <2>2. AdoptAt(mark) = "Exiting" \/ (done < Wanted /\ AdoptAt(mark) \in Phases)
      <3>1. done \in Nat /\ Wanted \in Nat
        BY <1>1, TypesGive, Constants
      <3>2. ~ (done >= Wanted) => done < Wanted
        BY <3>1, OneOrOther
      <3>3. done >= Wanted => AdoptAt(mark) = "Exiting"
        BY DEF AdoptAt
      <3>4. AdoptAt(mark) \in {"Exiting", "Clearing", "StagedInside"}
        BY DEF AdoptAt
      <3> QED  BY <3>2, <3>3, <3>4 DEF Phases, Fresh
    <2>3. AdoptAt(mark) \in Phases /\ NewCampaign \in Nat
      BY <1>1, <2>2, Reads DEF Phases
    <2>4. Adopted(AdoptAt(mark), NewCampaign) \in RunStates
          /\ Adopted(AdoptAt(mark), NewCampaign).phase = AdoptAt(mark)
      BY <1>1, <2>3, AdoptedGives
    <2>5. run'.phase = AdoptAt(mark)
      BY <2>1, <2>4 DEF RunStates
    <2> QED  BY <2>2, <2>5 DEF Fresh
  <1>7. CASE PollStarts
    BY <1>7 DEF PollStarts
  <1>8. CASE PollEvacuates
    <2> DEFINE r == IF run.phase = "Idle" THEN Adopted("Idle", 0) ELSE run
    <2>1. run' = [r EXCEPT !.phase = "Exiting", !.verdict = "evacuated"]
      BY <1>8 DEF PollEvacuates
    <2>2. r \in RunStates
      BY <1>1, AdoptedGives DEF Phases
    <2> HIDE DEF r
    <2>3. run'.phase = "Exiting"
      BY <2>1, <2>2 DEF RunStates
    <2> QED  BY <2>3 DEF Fresh
  <1>9. CASE \/ PollRepairs \/ PollResets \/ PollGathers \/ PollRegathers \/ PollOpens
             \/ PollLeaderInside \/ PollEntersAll \/ PollEnterGivesUp \/ PollClears
             \/ PollReassembles \/ PollProves \/ PollGivesUp \/ PollChooses \/ PollRecovered
    BY <1>9 DEF PollRepairs, PollResets, PollGathers, PollRegathers, PollOpens,
                PollLeaderInside, PollEntersAll, PollEnterGivesUp, PollClears,
                PollReassembles, PollProves, PollGivesUp, PollChooses, PollRecovered, Live
  <1> QED
    BY <1>3, <1>4, <1>5, <1>6, <1>7, <1>8, <1>9
       DEF CoordinatorPoll, PollIdle, PollOutside, PollInside, PollLeaves, PollRecovery

LEMMA NextWants ==
    ASSUME IInv, RunsWanted, [Next]_vars
    PROVE  RunsWanted'
  <1>1. CASE CoordinatorPoll
    <2>1. done' = done
      BY <1>1 DEF CoordinatorPoll, PollIdle, PollOutside, PollInside, PollLeaves,
         PollRecovery, PollHoldsOut, PollStandsDown, PollFinalizes, PollAdopts, PollStarts,
         PollRepairs, PollResets, PollResetFails, PollGathers, PollRegathers,
         PollStagingFails, PollOpens, PollLeaderInside, PollEntersAll, PollEnterGivesUp,
         PollFindsNobody, PollClears, PollSplits, PollReassembles, PollProves, PollGivesUp,
         PollExits, PollExitFails, PollEvacuates, PollChooses, PollRecovered,
         Live, Phase, Poll, database
    <2> QED  BY <1>1, <2>1, PollWants DEF RunsWanted
  <1>2. CASE ApplyWrite
    <2>1. queue \in Seq(Writes) /\ OneCount(queue) /\ queue # <<>>
      BY <1>2, TypesGive DEF IInv, ApplyWrite
    <2>2. run.phase \in Fresh => Head(queue).do # "count"
      BY <2>1, WorkerCounts DEF IInv, Phased, CountRests
    <2> QED  BY <1>2, <2>2 DEF ApplyWrite, coordinator, RunsWanted
  <1>3. CASE \/ Walks \/ \E m \in Members : Dies(m) \/ RunsBackIn(m)
             \/ LastBossDies \/ BagsFill \/ BagsEmpty \/ JobGoes \/ JobComes
             \/ OpensRow \/ ClosesCold \/ UNCHANGED vars
    BY <1>3 DEF Walks, WalksIn, WalksOut, Rises, Dies, RunsBackIn, LastBossDies, BagsFill,
       BagsEmpty, JobGoes, JobComes, OpensRow, ClosesCold, Elsewhere, vars, coordinator,
       database, RunsWanted
  <1>4. CASE Restart
    BY <1>4 DEF Restart, RunsWanted, IdleRun, Fresh
  <1> QED  BY <1>1, <1>2, <1>3, <1>4 DEF Next

LEMMA InitWants == Init => RunsWanted
  BY DEF Init, IdleRun, RunsWanted, Fresh

LEMMA RunInv == Spec => [](IInv /\ RunsWanted)
  <1>1. IInv /\ RunsWanted /\ [Next]_vars => (IInv /\ RunsWanted)'
    BY NextKeeps, NextWants
  <1> QED  BY <1>1, InitKeeps, InitWants, PTL DEF Spec

(***************************************************************************)
(* A recovery that is owed can be found: its request is about to be        *)
(* written, or it is written, not applied, and newer than every row of its *)
(* campaign.                                                               *)
(***************************************************************************)
Asked(q, c) == \E i \in DOMAIN q : q[i].do = "ask" /\ q[i].campaign = c

Touches(q, c) ==
    \E i \in DOMAIN q : q[i].do \in {"stamp", "record", "apply"} /\ q[i].campaign = c

AskIsLast(q) == \A i \in DOMAIN q : q[i].do = "ask" => i = Len(q)

Awaits(a, q, c) ==
    \E n \in DOMAIN a :
        /\ a[n].campaign = c /\ ~ a[n].applied
        /\ \A m \in DOMAIN a : a[m].campaign = c => m <= n
        /\ \A i \in DOMAIN q : q[i].campaign = c => i <= a[n].after

Kept == \A c \in owed : Asked(queue, c) \/ (Awaits(asks, rows, c) /\ ~ Touches(queue, c))

\* A campaign that is under way is owed nothing.
WaitsItsTurn ==
    \/ run.phase \in Fresh \cup {"Repairing"}
    \/ run.phase = "Recovering" /\ run.chosen
    => run.campaign \notin owed

\* Every run has a campaign, save one that full bags evacuate when it is found.
CampaignKnown ==
    /\ run.phase # "Idle" /\ run.verdict # "evacuated" => run.campaign # 0
    /\ hearth # NoEpisode /\ hearth.verdict # "evacuated" => hearth.campaign # 0
    /\ 0 \notin owed

\* No run has a number beyond the next one: a failed attempt is tried again.
Numbers(q) ==
    \A i \in DOMAIN q : q[i].do \in {"stamp", "record"} => q[i].number <= done + 1

Numbered ==
    /\ run.number <= done + 1 + Once(Counted(queue))
    /\ hearth.number <= done + 1
    /\ \A i \in DOMAIN rows : rows[i].number <= done + 1
    /\ Numbers(queue)

RInv == Numbered /\ CampaignKnown /\ WaitsItsTurn /\ AskIsLast(queue) /\ Kept

LEMMA ResumesWhatAwaits ==
    ASSUME Types, NEW c, Awaits(asks, rows, c)
    PROVE  Resumed(c)
  <1> DEFINE S == {i \in DOMAIN asks : asks[i].campaign = c}
  <1>1. PICK n \in DOMAIN asks :
            /\ asks[n].campaign = c /\ ~ asks[n].applied
            /\ \A m \in DOMAIN asks : asks[m].campaign = c => m <= n
            /\ \A i \in DOMAIN rows : rows[i].campaign = c => i <= asks[n].after
    BY DEF Awaits
  <1>2. S \in SUBSET (1 .. Len(asks)) /\ n \in S
    BY <1>1, RowIs
  <1>3. LastOf(S) \in S /\ LastOf(S) # 0 /\ \A j \in S : j <= LastOf(S)
    BY <1>2, RowIs, LastOfIs
  <1>4. LastOf(S) <= n /\ n <= LastOf(S)
    BY <1>1, <1>2, <1>3
  <1>5. LastOf(S) = n
    <2>1. LastOf(S) \in Nat /\ n \in Nat
      BY <1>2, <1>3, RowIs
    <2> QED  BY <1>4, <2>1
  <1>6. NewestAsk(c) = n /\ n # 0
    BY <1>3, <1>5 DEF NewestAsk
  <1> QED  BY <1>1, <1>6 DEF Resumed, RowsOf

(***************************************************************************)
(* What the worker does to the tables.                                     *)
(***************************************************************************)
LEMMA RowsAfterAre ==
    ASSUME Types, NEW w \in Writes, NEW i \in DOMAIN RowsAfter(w)
    PROVE  \/ /\ i \in DOMAIN rows
              /\ RowsAfter(w)[i].campaign = rows[i].campaign
              /\ RowsAfter(w)[i].number = rows[i].number
           \/ /\ w.do \in {"stamp", "record"}
              /\ RowsAfter(w)[i].campaign = w.campaign
              /\ RowsAfter(w)[i].number = w.number
  <1>1. rows \in Seq(Rows) /\ DOMAIN rows = 1 .. Len(rows) /\ Len(rows) \in Nat
        /\ \A j \in DOMAIN rows : rows[j] \in Rows
    BY TypesGive, RowIs
  <1>2. CASE w.do = "stamp" /\ w.row \in DOMAIN rows /\ rows[w.row].campaign = 0
    <2>1. RowsAfter(w) = [rows EXCEPT ![w.row].campaign = w.campaign, ![w.row].number = w.number]
      BY <1>2 DEF RowsAfter
    <2>2. i \in DOMAIN rows
      BY <1>1, <2>1
    <2>3. CASE i = w.row
      <3>1. RowsAfter(w)[i] = [[rows[i] EXCEPT !.campaign = w.campaign] EXCEPT !.number = w.number]
        BY <1>1, <2>1, <2>2, <2>3
      <3>2. RowsAfter(w)[i].campaign = w.campaign /\ RowsAfter(w)[i].number = w.number
        BY <1>1, <2>2, <3>1 DEF Rows
      <3> QED  BY <1>2, <3>2
    <2>4. CASE i # w.row
      <3>1. RowsAfter(w)[i] = rows[i]
        BY <1>1, <2>1, <2>2, <2>4
      <3> QED  BY <2>2, <3>1
    <2> QED  BY <2>3, <2>4
  <1>3. CASE w.do = "close" /\ Active(w.row)
    <2>1. RowsAfter(w) = [rows EXCEPT ![w.row].outcome = w.outcome]
      BY <1>3 DEF RowsAfter
    <2>2. i \in DOMAIN rows
      BY <1>1, <2>1
    <2>3. RowsAfter(w)[i].campaign = rows[i].campaign /\ RowsAfter(w)[i].number = rows[i].number
      <3>1. CASE i = w.row
        <4>1. RowsAfter(w)[i] = [rows[i] EXCEPT !.outcome = w.outcome]
          BY <1>1, <2>1, <2>2, <3>1
        <4> QED  BY <1>1, <2>2, <4>1 DEF Rows
      <3>2. CASE i # w.row
        <4>1. RowsAfter(w)[i] = rows[i]
          BY <1>1, <2>1, <2>2, <3>2
        <4> QED  BY <4>1
      <3> QED  BY <3>1, <3>2
    <2> QED  BY <2>2, <2>3
  <1>4. CASE w.do = "record"
    <2> DEFINE x == [campaign |-> w.campaign, number |-> w.number, outcome |-> w.outcome]
    <2>1. RowsAfter(w) = Append(rows, x)
      BY <1>4 DEF RowsAfter
    <2>2. x.campaign = w.campaign /\ x.number = w.number
      OBVIOUS
    <2>3. DOMAIN Append(rows, x) = 1 .. Len(rows) + 1
          /\ \A j \in 1 .. Len(rows) : Append(rows, x)[j] = rows[j]
          /\ Append(rows, x)[Len(rows) + 1] = x
      BY <1>1
    <2> HIDE DEF x
    <2>4. i \in 1 .. Len(rows) \/ i = Len(rows) + 1
      BY <1>1, <2>1, <2>3
    <2> QED  BY <1>1, <1>4, <2>1, <2>2, <2>3, <2>4
  <1>5. CASE /\ ~ (w.do = "stamp" /\ w.row \in DOMAIN rows /\ rows[w.row].campaign = 0)
             /\ ~ (w.do = "close" /\ Active(w.row))
             /\ w.do # "record"
    <2>1. RowsAfter(w) = rows
      BY <1>5 DEF RowsAfter
    <2> QED  BY <2>1
  <1> QED  BY <1>2, <1>3, <1>4, <1>5

\* A statement about another campaign leaves a request as it was.
LEMMA AwaitsStill ==
    ASSUME Types, NEW w \in Writes, NEW c, c # 0, Awaits(asks, rows, c),
           w.do \in {"stamp", "record", "apply", "ask"} => w.campaign # c
    PROVE  Awaits(AsksAfter(w), RowsAfter(w), c)
  <1>1. PICK n \in DOMAIN asks :
            /\ asks[n].campaign = c /\ ~ asks[n].applied
            /\ \A m \in DOMAIN asks : asks[m].campaign = c => m <= n
            /\ \A i \in DOMAIN rows : rows[i].campaign = c => i <= asks[n].after
    BY DEF Awaits
  <1>2. asks \in Seq(Asks) /\ DOMAIN asks = 1 .. Len(asks) /\ Len(asks) \in Nat
        /\ \A j \in DOMAIN asks : asks[j] \in Asks
    BY TypesGive, RowIs
  <1>3. \A i \in DOMAIN RowsAfter(w) :
            RowsAfter(w)[i].campaign = c => i \in DOMAIN rows /\ rows[i].campaign = c
    BY RowsAfterAre
  <1>4. /\ n \in DOMAIN AsksAfter(w) /\ AsksAfter(w)[n] = asks[n]
        /\ \A m \in DOMAIN AsksAfter(w) :
              AsksAfter(w)[m].campaign = c => m \in DOMAIN asks /\ asks[m].campaign = c
    <2>1. CASE w.do = "ask"
      <3> DEFINE x == [campaign |-> w.campaign, attempt |-> w.attempt,
                       applied |-> FALSE, after |-> Len(rows)]
      <3>1. AsksAfter(w) = Append(asks, x) /\ x.campaign # c
        BY <2>1 DEF AsksAfter
      <3>2. DOMAIN Append(asks, x) = 1 .. Len(asks) + 1
            /\ \A j \in 1 .. Len(asks) : Append(asks, x)[j] = asks[j]
            /\ Append(asks, x)[Len(asks) + 1] = x
        BY <1>2
      <3> HIDE DEF x
      <3>3. \A m \in 1 .. Len(asks) + 1 : m \in 1 .. Len(asks) \/ m = Len(asks) + 1
        BY <1>2
      <3>4. n \in 1 .. Len(asks) + 1
        BY <1>2
      <3> QED  BY <1>2, <3>1, <3>2, <3>3, <3>4
    <2>2. CASE w.do = "apply"
      <3>1. AsksAfter(w) = [i \in DOMAIN asks |->
                IF asks[i].campaign = w.campaign /\ asks[i].attempt = w.attempt
                THEN [asks[i] EXCEPT !.applied = TRUE] ELSE asks[i]]
        BY <2>2 DEF AsksAfter
      <3>2. \A m \in DOMAIN asks : AsksAfter(w)[m].campaign = asks[m].campaign
        BY <1>2, <3>1 DEF Asks
      <3>3. AsksAfter(w)[n] = asks[n]
        BY <1>1, <2>2, <3>1
      <3> QED  BY <3>1, <3>2, <3>3
    <2>3. CASE w.do \notin {"ask", "apply"}
      BY <2>3 DEF AsksAfter
    <2> QED  BY <2>1, <2>2, <2>3
  <1> QED  BY <1>1, <1>3, <1>4 DEF Awaits

LEMMA AwaitsOnceAsked ==
    ASSUME Types, NEW w \in Writes, w.do = "ask"
    PROVE  Awaits(AsksAfter(w), RowsAfter(w), w.campaign)
  <1> DEFINE x == [campaign |-> w.campaign, attempt |-> w.attempt,
                   applied |-> FALSE, after |-> Len(rows)]
             a == Append(asks, x)
             n == Len(asks) + 1
  <1>1. AsksAfter(w) = a /\ RowsAfter(w) = rows
    BY DEF AsksAfter, RowsAfter
  <1>2. asks \in Seq(Asks) /\ DOMAIN asks = 1 .. Len(asks) /\ Len(asks) \in Nat
        /\ DOMAIN rows = 1 .. Len(rows)
    BY TypesGive, RowIs
  <1>3. DOMAIN a = 1 .. n /\ a[n] = x /\ n \in DOMAIN a
    BY <1>2
  <1>4. x.campaign = w.campaign /\ ~ x.applied /\ x.after = Len(rows)
    OBVIOUS
  <1> HIDE DEF x, a
  <1>5. \A m \in DOMAIN a : m <= n
    BY <1>2, <1>3
  <1>6. \A i \in DOMAIN rows : i <= Len(rows)
    BY <1>2
  <1> QED  BY <1>1, <1>3, <1>4, <1>5, <1>6 DEF Awaits


\* The worker takes the request last, and by then it is newer than every row.
LEMMA WorkerOwes == ASSUME IInv, RInv, ApplyWrite PROVE RInv'
  <1> DEFINE w == Head(queue)
  <1>1. /\ queue # <<>> /\ queue' = Tail(queue)
        /\ rows' = RowsAfter(w) /\ asks' = AsksAfter(w)
        /\ done' = IF w.do = "count" THEN done + 1 ELSE done
        /\ UNCHANGED <<run, hearth, owed>>
    BY DEF ApplyWrite, coordinator
  <1>2. /\ queue \in Seq(Writes) /\ OneCount(queue) /\ done \in Nat /\ Types
        /\ run \in RunStates /\ hearth \in RunStates
    BY TypesGive DEF IInv
  <1>3. /\ w \in Writes /\ queue' \in Seq(Writes)
        /\ Len(queue') = Len(queue) - 1 /\ Len(queue) \in Nat \ {0}
        /\ \A i \in 1 .. Len(queue') : queue'[i] = queue[i + 1]
        /\ DOMAIN queue = 1 .. Len(queue) /\ DOMAIN queue' = 1 .. Len(queue')
        /\ w = queue[1]
    BY <1>1, <1>2, HeadTailProperties, LenProperties, EmptySeq
  <1>4. \A i \in DOMAIN queue' : i + 1 \in DOMAIN queue /\ queue'[i] = queue[i + 1] /\ i \in Nat
    BY <1>3
  <1>5. 1 \in DOMAIN queue /\ \A i \in DOMAIN queue : i # 1 => i - 1 \in DOMAIN queue'
                                                      /\ queue'[i - 1] = queue[i]
    BY <1>3
  <1> HIDE DEF w
  <1>6. Numbered'
    <2>1. Numbered /\ run.number \in Nat /\ hearth.number \in Nat
      BY <1>2 DEF RInv, RunStates
    <2>2. done <= done' /\ done' \in Nat
      BY <1>1, <1>2
    <2>3. done' + Once(Counted(queue')) = done + Once(Counted(queue))
      <3>1. CASE w.do = "count"
        <4>1. Counted(queue) /\ ~ Counted(queue')
          BY <1>1, <1>2, <3>1, WorkerCounts DEF w
        <4>2. Once(Counted(queue)) = 1 /\ Once(Counted(queue')) = 0
          BY <4>1, Flags, OnceIs
        <4> QED  BY <1>1, <1>2, <3>1, <4>2
      <3>2. CASE w.do # "count"
        <4>1. Counted(queue) => Counted(queue')
          BY <1>3, <1>5, <3>2 DEF Counted
        <4>2. Counted(queue') => Counted(queue)
          BY <1>4 DEF Counted
        <4> QED  BY <1>1, <1>2, <3>2, <4>1, <4>2, Flags, OnceIs
      <3> QED  BY <3>1, <3>2
    <2>4. run'.number <= done' + 1 + Once(Counted(queue'))
      <3>1. Once(Counted(queue')) \in Nat /\ Once(Counted(queue)) \in Nat
        BY Flags, OnceIs
      <3>2. run'.number <= done + 1 + Once(Counted(queue))
        BY <1>1, <2>1 DEF Numbered
      <3> QED  BY <1>1, <1>2, <2>1, <2>2, <2>3, <3>1, <3>2
    <2>5. hearth'.number <= done' + 1
      BY <1>1, <1>2, <2>1, <2>2 DEF Numbered
    <2>6. Numbers(queue)
      BY <2>1 DEF Numbered
    <2>7. w.do \in {"stamp", "record"} => w.number <= done + 1
      BY <1>3, <1>5, <2>6 DEF Numbers
    <2>8. \A i \in DOMAIN rows' : rows'[i].number <= done' + 1
      <3>1. SUFFICES ASSUME NEW i \in DOMAIN rows' PROVE rows'[i].number <= done' + 1
        OBVIOUS
      <3>2. \/ i \in DOMAIN rows /\ rows'[i].number = rows[i].number
            \/ w.do \in {"stamp", "record"} /\ rows'[i].number = w.number
        BY <1>1, <1>2, <1>3, RowsAfterAre
      <3>3. rows'[i].number <= done + 1 /\ rows'[i].number \in Nat
        <4>1. CASE i \in DOMAIN rows /\ rows'[i].number = rows[i].number
          BY <1>2, <2>1, <4>1, RowIs DEF Numbered
        <4>2. CASE w.do \in {"stamp", "record"} /\ rows'[i].number = w.number
          BY <1>3, <2>7, <4>2 DEF Writes
        <4> QED  BY <3>2, <4>1, <4>2
      <3> QED  BY <1>2, <2>2, <3>3
    <2>9. Numbers(queue)'
      <3>1. SUFFICES ASSUME NEW i \in DOMAIN queue', queue'[i].do \in {"stamp", "record"}
                     PROVE  queue'[i].number <= done' + 1
        BY DEF Numbers
      <3>2. i + 1 \in DOMAIN queue /\ queue'[i] = queue[i + 1]
        BY <1>4
      <3>3. queue'[i].number <= done + 1 /\ queue'[i] \in Writes
        BY <1>2, <2>6, <3>1, <3>2 DEF Numbers
      <3>4. queue'[i].number \in Nat
        BY <3>3 DEF Writes
      <3> QED  BY <1>2, <2>2, <3>3, <3>4
    <2> QED  BY <2>4, <2>5, <2>8, <2>9 DEF Numbered, Once, Counted
  <1>7. CampaignKnown' /\ WaitsItsTurn'
    BY <1>1 DEF RInv, CampaignKnown, WaitsItsTurn, NoEpisode, IdleRun
  <1>8. AskIsLast(queue')
    <2>1. SUFFICES ASSUME NEW i \in DOMAIN queue', queue'[i].do = "ask" PROVE i = Len(queue')
      BY DEF AskIsLast
    <2>2. i + 1 = Len(queue)
      BY <1>4, <2>1 DEF RInv, AskIsLast
    <2> QED  BY <1>3, <1>4, <2>2
  <1>9. ASSUME NEW c \in owed
        PROVE  Asked(queue', c) \/ (Awaits(asks', rows', c) /\ ~ Touches(queue', c))
    <2>1. c # 0
      BY DEF RInv, CampaignKnown
    <2>2. CASE Asked(queue, c)
      <3>1. PICK i \in DOMAIN queue : queue[i].do = "ask" /\ queue[i].campaign = c
        BY <2>2 DEF Asked
      <3>2. CASE i # 1
        BY <1>5, <3>1, <3>2 DEF Asked
      <3>3. CASE i = 1
        <4>1. w.do = "ask" /\ w.campaign = c
          BY <1>3, <3>1, <3>3
        <4>2. Awaits(asks', rows', c)
          BY <1>1, <1>2, <1>3, <4>1, AwaitsOnceAsked
        <4>3. Len(queue) = 1
          BY <3>1, <3>3 DEF RInv, AskIsLast
        <4>4. DOMAIN queue' = {}
          BY <1>3, <4>3
        <4> QED  BY <4>2, <4>4 DEF Touches
      <3> QED  BY <3>2, <3>3
    <2>3. CASE ~ Asked(queue, c)
      <3>1. Awaits(asks, rows, c) /\ ~ Touches(queue, c)
        BY <2>3, <1>9 DEF RInv, Kept
      <3>2. w.do \in {"stamp", "record", "apply", "ask"} => w.campaign # c
        BY <1>3, <1>5, <2>3, <3>1 DEF Asked, Touches
      <3>3. Awaits(asks', rows', c)
        BY <1>1, <1>2, <1>3, <2>1, <3>1, <3>2, AwaitsStill
      <3>4. ~ Touches(queue', c)
        BY <1>4, <3>1 DEF Touches
      <3> QED  BY <3>3, <3>4
    <2> QED  BY <2>2, <2>3
  <1>10. Kept'
    BY <1>1, <1>9 DEF Kept, Asked, Awaits, Touches
  <1> QED  BY <1>6, <1>7, <1>8, <1>10 DEF RInv, AskIsLast

(***************************************************************************)
(* What a poll queues.                                                     *)
(***************************************************************************)
\* Statements of one campaign, none of them a request.
For(q, c, n) ==
    \A i \in DOMAIN q : q[i].do # "ask" /\ q[i].campaign = c /\ q[i].number <= n

LEMMA ForNone == \A c, n : For(<<>>, c, n)
  BY DEF For

LEMMA ForOne ==
    ASSUME NEW w, NEW n, w.do # "ask", w.number <= n
    PROVE  For(<<w>>, w.campaign, n)
  BY DEF For

LEMMA ForBoth ==
    ASSUME NEW p \in Seq(Writes), NEW q \in Seq(Writes), NEW c, NEW n, For(p, c, n), For(q, c, n)
    PROVE  p \o q \in Seq(Writes) /\ For(p \o q, c, n)
  <1> DEFINE s == p \o q
  <1>1. /\ s \in Seq(Writes) /\ Len(s) = Len(p) + Len(q) /\ Len(p) \in Nat /\ Len(q) \in Nat
        /\ \A i \in 1 .. Len(p) + Len(q) : s[i] = IF i <= Len(p) THEN p[i] ELSE q[i - Len(p)]
        /\ DOMAIN s = 1 .. Len(s) /\ DOMAIN p = 1 .. Len(p) /\ DOMAIN q = 1 .. Len(q)
    BY ConcatProperties, LenProperties
  <1> HIDE DEF s
  <1>2. ASSUME NEW i \in 1 .. Len(p) + Len(q)
        PROVE  s[i].do # "ask" /\ s[i].campaign = c /\ s[i].number <= n
    <2>1. CASE i <= Len(p)
      <3>1. i \in DOMAIN p /\ s[i] = p[i]
        BY <1>1, <2>1
      <3> QED  BY <3>1 DEF For
    <2>2. CASE ~ (i <= Len(p))
      <3>1. i - Len(p) \in DOMAIN q /\ s[i] = q[i - Len(p)]
        BY <1>1, <2>2
      <3> QED  BY <3>1 DEF For
    <2> QED  BY <2>1, <2>2
  <1>3. For(s, c, n)
    BY <1>1, <1>2 DEF For
  <1> QED  BY <1>1, <1>3 DEF s

LEMMA NotAsked ==
    ASSUME NEW q, NEW c, NEW n, For(q, c, n)
    PROVE  /\ AskIsLast(q) /\ \A b : ~ Asked(q, b)
           /\ \A b : b # c => ~ Touches(q, b)
           /\ \A i \in DOMAIN q : q[i].number <= n
  BY DEF For, AskIsLast, Asked, Touches

\* Such statements and the campaign's request behind them.
LEMMA AskedAtTheEnd ==
    ASSUME NEW p \in Seq(Writes), NEW w \in Writes, NEW n, For(p, w.campaign, n), w.do = "ask"
    PROVE  /\ AskIsLast(p \o <<w>>) /\ Asked(p \o <<w>>, w.campaign)
           /\ \A b : b # w.campaign => ~ Touches(p \o <<w>>, b)
           /\ \A i \in DOMAIN (p \o <<w>>) :
                 (p \o <<w>>)[i].do # "ask" => (p \o <<w>>)[i].number <= n
  <1> DEFINE t == <<w>>
             s == p \o t
  <1>1. t \in Seq(Writes) /\ Len(t) = 1 /\ t[1] = w
    OBVIOUS
  <1> HIDE DEF t
  <1>2. /\ s \in Seq(Writes) /\ Len(s) = Len(p) + 1 /\ Len(p) \in Nat
        /\ \A i \in 1 .. Len(p) + 1 : s[i] = IF i <= Len(p) THEN p[i] ELSE t[i - Len(p)]
        /\ DOMAIN s = 1 .. Len(s) /\ DOMAIN p = 1 .. Len(p)
    <2>1. /\ s \in Seq(Writes) /\ Len(s) = Len(p) + Len(t)
          /\ \A i \in 1 .. Len(p) + Len(t) :
                s[i] = IF i <= Len(p) THEN p[i] ELSE t[i - Len(p)]
      BY <1>1, ConcatProperties
    <2> HIDE DEF s
    <2>2. Len(p) \in Nat /\ DOMAIN p = 1 .. Len(p) /\ DOMAIN s = 1 .. Len(s)
      BY <2>1, LenProperties
    <2> QED  BY <1>1, <2>1, <2>2
  <1> HIDE DEF s
  <1>3. Len(s) \in DOMAIN s /\ s[Len(s)] = w
    BY <1>1, <1>2
  <1>4. \A i \in DOMAIN s : i # Len(s) => i \in DOMAIN p /\ s[i] = p[i]
    BY <1>2
  <1>5. AskIsLast(s) /\ Asked(s, w.campaign)
    BY <1>3, <1>4 DEF AskIsLast, Asked, For
  <1>6. \A b : b # w.campaign => ~ Touches(s, b)
    BY <1>3, <1>4 DEF Touches, For
  <1>7. \A i \in DOMAIN s : s[i].do # "ask" => s[i].number <= n
    BY <1>3, <1>4 DEF For
  <1> QED  BY <1>5, <1>6, <1>7 DEF s, t


(***************************************************************************)
(* The polls, and what is owed after them.                                 *)
(***************************************************************************)
LEMMA PollOwes ==
    ASSUME RInv, queue = <<>>, UNCHANGED <<rows, asks, done>>,
           run'.number <= done + 1 + Once(Counted(queue')), hearth'.number <= done + 1,
           Numbers(queue)', CampaignKnown', WaitsItsTurn', AskIsLast(queue'),
           \A c \in owed' : Asked(queue', c) \/ (c \in owed /\ ~ Touches(queue', c))
    PROVE  RInv'
  <1>1. Numbered'
    BY DEF RInv, Numbered, Numbers, Once, Counted
  <1>2. \A c \in owed : Awaits(asks, rows, c)
    <2>1. \A c : ~ Asked(queue, c)
      BY DEF Asked
    <2> QED  BY <2>1 DEF RInv, Kept
  <1>3. Kept'
    BY <1>2 DEF Kept, Awaits, Asked, Touches
  <1> QED  BY <1>1, <1>3 DEF RInv, AskIsLast

LEMMA FreshQueue ==
    ASSUME Types, RInv, queue = <<>>
    PROVE  /\ run.number <= done + 1 /\ hearth.number <= done + 1
           /\ done \in Nat /\ run.number \in Nat /\ hearth.number \in Nat
           /\ \A c \in owed : Awaits(asks, rows, c)
           /\ 0 \notin owed /\ \A i \in DOMAIN rows : rows[i].number <= done + 1
  <1>1. Once(Counted(queue)) = 0
    BY NoneQueued, FreeIsOne, Flags, OnceIs
  <1>2. /\ done \in Nat /\ run.number \in Nat /\ hearth.number \in Nat
    BY TypesGive DEF RunStates
  <1>3. run.number <= done + 1 + 0
    BY <1>1 DEF RInv, Numbered
  <1>4. \A c \in owed : Awaits(asks, rows, c)
    BY DEF RInv, Kept, Asked
  <1> QED  BY <1>2, <1>3, <1>4 DEF RInv, Numbered, CampaignKnown

\* A poll that asks for no recovery.
LEMMA QuietOwes ==
    ASSUME IInv, RInv, queue = <<>>, UNCHANGED <<rows, asks, done>>,
           hearth' = hearth \/ hearth' = NoEpisode,
           run' \in RunStates, run'.number <= done + 1,
           owed' \subseteq owed, NEW c, For(queue', c, done + 1), c \notin owed',
           run'.phase # "Idle" /\ run'.verdict # "evacuated" => run'.campaign # 0,
           WaitsItsTurn'
    PROVE  RInv'
  <1>1. done \in Nat /\ run'.number \in Nat /\ hearth'.number <= done + 1
    <2>1. done \in Nat /\ hearth.number <= done + 1 /\ 0 <= done + 1
      BY FreshQueue DEF IInv
    <2>2. NoEpisode.number = 0
      BY DEF NoEpisode, IdleRun
    <2>3. run'.number \in Nat
      BY DEF RunStates
    <2> QED  BY <2>1, <2>2, <2>3
  <1>2. Once(Counted(queue')) \in Nat
    BY Flags, OnceIs
  <1>3. run'.number <= done + 1 + Once(Counted(queue'))
    BY <1>1, <1>2
  <1>4. /\ AskIsLast(queue') /\ \A b \in owed' : ~ Touches(queue', b)
        /\ \A i \in DOMAIN queue' : queue'[i].number <= done + 1
    BY NotAsked
  <1>5. Numbers(queue)'
    BY <1>4 DEF Numbers
  <1>6. CampaignKnown'
    BY DEF RInv, CampaignKnown, NoEpisode, IdleRun
  <1> QED  BY <1>1, <1>3, <1>4, <1>5, <1>6, PollOwes

\* The phases with no verdict keep the run they are about.
LEMMA RunGoesOn ==
    ASSUME IInv, RInv, queue = <<>>, UNCHANGED <<rows, asks, done, hearth, owed>>,
           run.phase \notin {"Idle", "Exiting"},
           run' \in RunStates, run'.number = run.number, run'.campaign = run.campaign,
           For(queue', run.campaign, done + 1),
           run.campaign \notin owed \/ queue' = <<>>,
           WaitsItsTurn'
    PROVE  RInv'
  <1>1. run.number <= done + 1 /\ 0 \notin owed
    BY FreshQueue DEF IInv
  <1>2. run.campaign # 0
    BY UnderWay DEF RInv, CampaignKnown
  <1>3. CASE run.campaign \notin owed
    BY <1>1, <1>2, <1>3, QuietOwes
  <1>4. CASE queue' = <<>>
    <2>1. For(queue', 0, done + 1)
      BY <1>4, ForNone
    <2> QED  BY <1>1, <1>2, <2>1, QuietOwes
  <1> QED  BY <1>3, <1>4

\* The coordinator drops the run.
LEMMA RunDropped ==
    ASSUME IInv, RInv, queue = <<>>, UNCHANGED <<rows, asks, done, hearth, owed>>,
           run' = IdleRun, queue' = <<>>
    PROVE  RInv'
  <1>1. 0 \notin owed /\ done \in Nat
    BY FreshQueue DEF IInv
  <1>2. For(queue', 0, done + 1)
    BY ForNone
  <1>3. run' \in RunStates /\ run'.phase = "Idle" /\ run'.number = 0
    BY AtRest DEF IdleRun
  <1>4. WaitsItsTurn'
    BY <1>3 DEF WaitsItsTurn, Fresh
  <1> QED  BY <1>1, <1>2, <1>3, <1>4, QuietOwes

LEMMA GoesOwes ==
    ASSUME IInv, RInv,
           \/ PollHoldsOut \/ PollStandsDown \/ PollLeaderInside \/ PollRepairs
           \/ PollResets \/ PollGathers \/ PollRegathers \/ PollOpens \/ PollEntersAll
           \/ PollEnterGivesUp \/ PollGivesUp \/ PollRecovered
    PROVE  RInv'
  <1> DEFINE At(p) == [run EXCEPT !.phase = p]
  <1>1. /\ queue = <<>> /\ queue' = <<>>
        /\ UNCHANGED <<rows, asks, done, hearth, owed>>
    BY DEF PollHoldsOut, PollStandsDown, PollLeaderInside, PollRepairs, PollResets,
           PollGathers, PollRegathers, PollOpens, PollEntersAll, PollEnterGivesUp,
           PollGivesUp, PollRecovered, Goes, Live, Phase, Poll, database
  <1>2. \/ run' = IdleRun
        \/ run' = At("Exiting") /\ run.phase \notin {"Idle", "Exiting"}
        \/ run' = At("Resetting") /\ run.phase = "Repairing"
        \/ /\ \E p \in Fresh : run' = At(p)
           /\ run.phase \in Fresh
        \/ /\ \E v \in {"stalled", "client_lost"} :
                 run' = [run EXCEPT !.phase = "Exiting", !.verdict = v]
           /\ run.phase \in Fresh
        \/ run' = Repair(run, run.number) /\ run.phase = "Recovering" /\ run.chosen
    BY DEF PollHoldsOut, PollStandsDown, PollLeaderInside, PollRepairs, PollResets,
           PollGathers, PollRegathers, PollOpens, PollEntersAll, PollEnterGivesUp,
           PollGivesUp, PollRecovered, Goes, Live, Phase, Fresh
  <1>3. CASE run' = IdleRun
    BY <1>1, <1>3, RunDropped
  <1>4. CASE run' # IdleRun
    <2>1. run.phase \notin {"Idle", "Exiting"}
      BY <1>2, <1>4 DEF Fresh
    <2>2. run \in RunStates
      BY <2>1, UnderWay
    <2>3. /\ run' \in RunStates /\ run'.number = run.number /\ run'.campaign = run.campaign
          /\ \/ run'.phase = "Exiting"
             \/ run'.phase \in Fresh \cup {"Repairing"}
                /\ (run.phase \in Fresh \cup {"Repairing"}
                      \/ (run.phase = "Recovering" /\ run.chosen))
      <3>1. CASE run' = At("Exiting")
        BY <2>2, <3>1 DEF RunStates, Phases
      <3>2. CASE run' = At("Resetting") /\ run.phase = "Repairing"
        BY <2>2, <3>2 DEF RunStates, Phases, Fresh
      <3>3. CASE (\E p \in Fresh : run' = At(p)) /\ run.phase \in Fresh
        BY <2>2, <3>3 DEF RunStates, Phases
      <3>4. CASE \E v \in {"stalled", "client_lost"} :
                     run' = [run EXCEPT !.phase = "Exiting", !.verdict = v]
        BY <2>2, <3>4 DEF RunStates, Phases, Verdicts
      <3>5. CASE run' = Repair(run, run.number) /\ run.phase = "Recovering" /\ run.chosen
        <4>1. run.number \in Nat
          BY <2>2 DEF RunStates
        <4> QED  BY <2>2, <3>5, <4>1, Repairs
      <3> QED  BY <1>2, <1>4, <3>1, <3>2, <3>3, <3>4, <3>5
    <2>4. WaitsItsTurn'
      BY <1>1, <2>3 DEF RInv, WaitsItsTurn, Fresh
    <2>5. For(queue', run.campaign, done + 1)
      BY <1>1, ForNone
    <2> QED  BY <1>1, <2>1, <2>3, <2>4, <2>5, RunGoesOn
  <1> QED  BY <1>3, <1>4

LEMMA StampIs ==
    ASSUME NEW r
    PROVE  /\ Stamp(r).do = "stamp" /\ Stamp(r).campaign = r.campaign
           /\ Stamp(r).number = r.number
  BY DEF Stamp, Statement

LEMMA StampOfFor ==
    ASSUME NEW r, NEW n, r.number <= n
    PROVE  For(StampOf(r), r.campaign, n)
  <1>1. For(<<Stamp(r)>>, r.campaign, n)
    <2>1. Stamp(r).do # "ask" /\ Stamp(r).number <= n /\ Stamp(r).campaign = r.campaign
      BY StampIs
    <2>2. For(<<Stamp(r)>>, Stamp(r).campaign, n)
      BY <2>1, ForOne
    <2> QED  BY <2>1, <2>2
  <1> QED  BY <1>1, ForNone DEF StampOf

LEMMA StampsFor ==
    ASSUME Types, NEW n, run.number <= n
    PROVE  /\ For(Stamps, run.campaign, n)
           /\ Stamped.number = run.number /\ Stamped.campaign = run.campaign
           /\ Stamped.chosen = run.chosen
  <1>1. run \in RunStates
    BY TypesGive
  <1>2. Stamped.number = run.number /\ Stamped.campaign = run.campaign
        /\ Stamped.chosen = run.chosen
    BY <1>1 DEF Stamped, RunStates
  <1>3. For(StampOf(Stamped), run.campaign, n)
    BY <1>2, StampOfFor
  <1> QED  BY <1>2, <1>3, ForNone DEF Stamps

LEMMA InsideOwes ==
    ASSUME IInv, RInv, PollClears \/ PollReassembles \/ PollProves
    PROVE  RInv'
  <1>1. /\ queue = <<>> /\ queue' = Stamps
        /\ UNCHANGED <<rows, asks, done, hearth, owed>>
        /\ run.phase \in {"StagedInside", "Clearing"}
    BY DEF PollClears, PollReassembles, PollProves, GoesInside, Live, Phase, Poll, database
  <1>2. \/ \E p \in {"StagedInside", "Clearing"} : run' = [Stamped EXCEPT !.phase = p]
        \/ run' = [Stamped EXCEPT !.phase = "Exiting", !.verdict = "complete"]
    BY DEF PollClears, PollReassembles, PollProves, GoesInside
  <1>3. run.number <= done + 1 /\ Types
    BY <1>1, FreshQueue DEF IInv
  <1>4. /\ Stamped \in RunStates
        /\ Stamped.number = run.number /\ Stamped.campaign = run.campaign
        /\ For(queue', run.campaign, done + 1)
    BY <1>1, <1>3, StampsFor, StampedGives
  <1>5. /\ run' \in RunStates /\ run'.number = run.number /\ run'.campaign = run.campaign
        /\ run'.phase \in {"StagedInside", "Clearing", "Exiting"}
    BY <1>2, <1>4 DEF RunStates, Phases, Fresh, Verdicts
  <1>6. run.campaign \notin owed
    BY <1>1 DEF RInv, WaitsItsTurn, Fresh
  <1>7. WaitsItsTurn'
    BY <1>1, <1>5, <1>6 DEF WaitsItsTurn, Fresh
  <1> QED  BY <1>1, <1>4, <1>5, <1>6, <1>7, RunGoesOn

LEMMA AskIs ==
    ASSUME NEW r
    PROVE  Ask(r).do = "ask" /\ Ask(r).campaign = r.campaign
  BY DEF Ask, Statement

\* The end of a run: a failed attempt is owed its recovery, and asks for it.
LEMMA EndRunOwes ==
    ASSUME IInv, RInv, queue = <<>>, UNCHANGED <<rows, asks, done>>,
           hearth' = hearth \/ hearth' = NoEpisode,
           NEW r \in RunStates, r.number <= done + 1,
           NEW o \in Outcomes, NEW wanted, NEW wiped,
           o \in Unentered \ {"evacuated"} => wanted /\ ~ wiped /\ done < Wanted,
           o # "evacuated" => r.campaign # 0,
           NEW before \in Seq(Writes), For(before, r.campaign, done + 1),
           EndRun(r, o, wanted, wiped, before)
    PROVE  RInv'
  <1> DEFINE row == IF o = "reset_failed" THEN 0 ELSE RowOf(r)
             id == [r EXCEPT !.row = row]
             k == [r EXCEPT !.streak = 0]
             n == DoneAfter(r, o) + 1
             next == Repair(k, n)
             again == /\ o # "evacuated" /\ wanted
                      /\ DoneAfter(r, o) < Wanted /\ ~ wiped
             m == MaxOf(r.streak + 1, Trailing(r.campaign))
             recovering == Recover(next, m)
             recovers == again /\ o \in Unentered
             a == IF id.row # 0 THEN <<Close(id, o)>> ELSE <<>>
             b == IF Counts(o) THEN <<Count(r)>> ELSE <<>>
             c == IF recovers THEN <<Ask(recovering)>> ELSE <<>>
  <1>1. /\ run' = IF recovers THEN recovering ELSE IF again THEN next ELSE IdleRun
        /\ queue' = ((before \o a) \o b) \o c
        /\ owed' = IF o \in Unentered \ {"evacuated"} THEN owed \cup {r.campaign}
                   ELSE owed \ {r.campaign}
    BY Zenon DEF EndRun
  <1>2. /\ done \in Nat /\ hearth.number <= done + 1 /\ 0 <= done + 1 /\ 0 \notin owed
        /\ Types
    BY FreshQueue DEF IInv
  <1>3. row \in Nat /\ r.streak \in Nat /\ r.number \in Nat /\ r.campaign \in Nat
    BY <1>2, Reads DEF RowOf, RunStates
  <1>4. /\ id \in RunStates /\ k \in RunStates
        /\ id.campaign = r.campaign /\ id.number = r.number /\ k.campaign = r.campaign
    BY <1>3 DEF RunStates
  <1>5. /\ n \in Nat /\ m \in Nat
        /\ o = "complete" => n <= done + 2
        /\ o # "complete" => n <= done + 1
        /\ o \in Unentered => (done < Wanted => DoneAfter(r, o) < Wanted)
    <2>1. Trailing(r.campaign) \in Nat
      BY <1>2, Reads
    <2>2. r.streak + 1 \in Nat
      BY <1>3
    <2>3. m \in Nat
      BY <2>1, <2>2 DEF MaxOf
    <2>4. o \in Unentered => o # "complete"
      BY DEF Unentered
    <2>5. Wanted \in Nat
      BY Constants
    <2>6. DoneAfter(r, o) = IF o = "complete" THEN r.number
                            ELSE IF r.number = 0 THEN 0 ELSE r.number - 1
      BY DEF DoneAfter
    <2> HIDE DEF m
    <2>7. CASE o = "complete"
      BY <1>2, <1>3, <2>3, <2>4, <2>6, <2>7
    <2>8. CASE o # "complete"
      <3>1. DoneAfter(r, o) \in Nat /\ DoneAfter(r, o) <= done
        BY <1>2, <1>3, <2>6, <2>8
      <3> QED  BY <1>2, <2>3, <2>5, <2>8, <3>1
    <2> QED  BY <2>7, <2>8
  <1>6. /\ next \in RunStates /\ next.phase = "Repairing" /\ next.verdict = "none"
        /\ next.number = n /\ next.campaign = r.campaign
    <2>1. k \in RunStates /\ n \in Nat /\ k.campaign = r.campaign
      BY <1>4, <1>5
    <2> HIDE DEF k, n
    <2> QED  BY <2>1, Repairs
  <1>7. /\ recovering \in RunStates /\ recovering.phase = "Recovering"
        /\ recovering.chosen = FALSE /\ recovering.campaign = r.campaign
        /\ recovering.number = n
    <2>1. recovering.number = next.number
      BY <1>6 DEF Recover, RunStates
    <2> QED  BY <1>5, <1>6, <2>1, Recovers
  <1>8. a \in Seq(Writes) /\ For(a, r.campaign, done + 1)
    <2>1. Close(id, o) \in Writes
      BY <1>4, Written
    <2>2. /\ Close(id, o).do # "ask" /\ Close(id, o).campaign = r.campaign
          /\ Close(id, o).number <= done + 1
      BY <1>4 DEF Close, Statement
    <2>3. <<Close(id, o)>> \in Seq(Writes) /\ <<>> \in Seq(Writes)
      BY <2>1
    <2>4. For(<<Close(id, o)>>, Close(id, o).campaign, done + 1)
      BY <2>2, ForOne
    <2> QED  BY <2>2, <2>3, <2>4, ForNone
  <1>9. b \in Seq(Writes) /\ For(b, r.campaign, done + 1)
    <2>1. Count(r) \in Writes
      BY Written
    <2>2. /\ Count(r).do # "ask" /\ Count(r).campaign = r.campaign
          /\ Count(r).number <= done + 1
      BY DEF Count, Statement
    <2>3. <<Count(r)>> \in Seq(Writes) /\ <<>> \in Seq(Writes)
      BY <2>1
    <2>4. For(<<Count(r)>>, Count(r).campaign, done + 1)
      BY <2>2, ForOne
    <2> QED  BY <2>2, <2>3, <2>4, ForNone
  <1>10. /\ recovers <=> again /\ o \in Unentered
         /\ again => o # "evacuated"
         /\ o \in Unentered \ {"evacuated"} => again
    BY <1>5
  <1>11. Ask(recovering) \in Writes /\ Ask(recovering).do = "ask"
         /\ Ask(recovering).campaign = r.campaign
    BY <1>7, Written, AskIs
  <1>12. o = "complete" => Counts(o)
    BY DEF Counts
  <1> HIDE DEF row, id, k, n, m, next, recovering, again, recovers, a
  <1>13. /\ (before \o a) \o b \in Seq(Writes)
         /\ For((before \o a) \o b, r.campaign, done + 1)
    <2>1. before \o a \in Seq(Writes) /\ For(before \o a, r.campaign, done + 1)
      BY <1>8, ForBoth
    <2> HIDE DEF b
    <2> QED  BY <1>9, <2>1, ForBoth
  <1> DEFINE body == (before \o a) \o b
  <1>14. Counts(o) => Counted(queue')
    <2> SUFFICES ASSUME Counts(o) PROVE Counted(queue')
      OBVIOUS
    <2>1. b = <<Count(r)>> /\ Count(r).do = "count"
      BY DEF Count, Statement
    <2>2. c \in Seq(Writes)
      BY <1>11
    <2>3. before \o a \in Seq(Writes)
      BY <1>8, ForBoth
    <2> DEFINE p == before \o a
    <2> HIDE DEF b, c, p
    <2>4. p \in Seq(Writes) /\ b \in Seq(Writes) /\ Len(b) = 1 /\ b[1] = Count(r)
      BY <1>9, <2>1, <2>3 DEF p
    <2>5. /\ p \o b \in Seq(Writes) /\ Len(p \o b) = Len(p) + 1
          /\ (p \o b)[Len(p) + 1] = Count(r) /\ Len(p) \in Nat
      <3>1. Len(p) \in Nat
        BY <2>4, LenProperties
      <3>2. /\ p \o b \in Seq(Writes) /\ Len(p \o b) = Len(p) + Len(b)
            /\ \A i \in 1 .. Len(p) + Len(b) :
                  (p \o b)[i] = IF i <= Len(p) THEN p[i] ELSE b[i - Len(p)]
        BY <2>4, ConcatProperties
      <3> DEFINE l == Len(p)
                 x == p \o b
      <3>3. l \in Nat /\ Len(b) = 1 /\ b[1] = Count(r) /\ Len(x) = l + 1
            /\ \A i \in 1 .. l + 1 : x[i] = IF i <= l THEN p[i] ELSE b[i - l]
        BY <2>4, <3>1, <3>2
      <3> HIDE DEF l, x
      <3>4. x[l + 1] = b[(l + 1) - l] /\ (l + 1) - l = 1
        BY <3>3
      <3> QED  BY <3>1, <3>2, <3>3, <3>4 DEF l, x
    <2> DEFINE s == p \o b
    <2> HIDE DEF s
    <2>6. /\ s \o c \in Seq(Writes) /\ Len(s \o c) = Len(s) + Len(c)
          /\ \A i \in 1 .. Len(s) + Len(c) :
                (s \o c)[i] = IF i <= Len(s) THEN s[i] ELSE c[i - Len(s)]
      BY <2>2, <2>5, ConcatProperties DEF s
    <2>7. Len(c) \in Nat /\ DOMAIN (s \o c) = 1 .. Len(s \o c)
      BY <2>2, <2>6, LenProperties
    <2>8. Len(p) + 1 \in DOMAIN (s \o c) /\ (s \o c)[Len(p) + 1] = Count(r)
      BY <2>5, <2>6, <2>7 DEF s
    <2>9. queue' = s \o c
      BY <1>1 DEF s, p
    <2> QED  BY <2>1, <2>8, <2>9 DEF Counted
  <1>15. run'.number <= done + 1 + Once(Counted(queue'))
    <2>1. Once(Counted(queue')) \in {0, 1} /\ (Counted(queue') => Once(Counted(queue')) = 1)
      BY Flags, OnceIs
    <2>2. IdleRun.number = 0
      BY DEF IdleRun
    <2>3. run'.number \in {n, 0}
      BY <1>1, <1>6, <1>7, <2>2
    <2> QED  BY <1>2, <1>5, <1>12, <1>14, <2>1, <2>3
  <1>16. hearth'.number <= done + 1
    BY <1>2 DEF NoEpisode, IdleRun
  <1>17. CampaignKnown'
    <2>1. 0 \notin owed'
      BY <1>1, <1>2
    <2>2. run'.phase # "Idle" => run'.campaign # 0
      <3>1. run'.phase # "Idle" => again /\ run'.campaign = r.campaign
        BY <1>1, <1>6, <1>7, <1>10, AtRest
      <3> QED  BY <1>10, <3>1
    <2> QED  BY <2>1, <2>2 DEF RInv, CampaignKnown, NoEpisode, IdleRun
  <1>18. WaitsItsTurn'
    <2>1. CASE recovers
      BY <1>1, <1>7, <2>1 DEF WaitsItsTurn, Fresh
    <2>2. CASE ~ recovers /\ again
      <3>1. run' = next /\ o \notin Unentered
        BY <1>1, <1>10, <2>2
      <3>2. r.campaign \notin owed'
        BY <1>1, <3>1
      <3> QED  BY <1>6, <3>1, <3>2 DEF WaitsItsTurn
    <2>3. CASE ~ again
      <3>1. run'.phase = "Idle"
        BY <1>1, <1>10, <2>3, AtRest
      <3> QED  BY <3>1 DEF WaitsItsTurn, Fresh
    <2> QED  BY <2>1, <2>2, <2>3
  <1>19. CASE recovers
    <2>1. queue' = body \o <<Ask(recovering)>>
      BY <1>1, <1>19
    <2> HIDE DEF b, body
    <2>2. body \in Seq(Writes) /\ For(body, Ask(recovering).campaign, done + 1)
      BY <1>11, <1>13 DEF body
    <2>3. /\ AskIsLast(queue') /\ Asked(queue', r.campaign)
          /\ \A d : d # r.campaign => ~ Touches(queue', d)
          /\ \A i \in DOMAIN queue' :
                queue'[i].do # "ask" => queue'[i].number <= done + 1
      BY <1>11, <2>1, <2>2, AskedAtTheEnd
    <2>4. Numbers(queue)'
      BY <1>2, <2>3 DEF Numbers
    <2>5. \A d \in owed' : Asked(queue', d) \/ (d \in owed /\ ~ Touches(queue', d))
      BY <1>1, <2>3
    <2> QED  BY <1>15, <1>16, <1>17, <1>18, <2>3, <2>4, <2>5, PollOwes
  <1>20. CASE ~ recovers
    <2>1. queue' = body \o <<>>
      BY <1>1, <1>20
    <2> HIDE DEF b, body
    <2>2. For(queue', r.campaign, done + 1)
      <3>1. <<>> \in Seq(Writes)
        OBVIOUS
      <3>2. body \in Seq(Writes) /\ For(body, r.campaign, done + 1)
        BY <1>13 DEF body
      <3> QED  BY <2>1, <3>1, <3>2, ForNone, ForBoth
    <2>3. o \notin Unentered \ {"evacuated"}
      BY <1>10, <1>20
    <2>4. /\ AskIsLast(queue') /\ \A d : d # r.campaign => ~ Touches(queue', d)
          /\ \A i \in DOMAIN queue' : queue'[i].number <= done + 1
      BY <2>2, NotAsked
    <2>5. Numbers(queue)'
      BY <1>2, <2>4 DEF Numbers
    <2>6. \A d \in owed' : d \in owed /\ ~ Touches(queue', d)
      BY <1>1, <2>3, <2>4
    <2> QED  BY <1>15, <1>16, <1>17, <1>18, <2>4, <2>5, <2>6, PollOwes
  <1> QED  BY <1>19, <1>20

LEMMA RecordFor ==
    ASSUME NEW r, NEW o, NEW n, r.number <= n
    PROVE  For(<<Record(r, o)>>, r.campaign, n)
  <1>1. Record(r, o).do # "ask" /\ Record(r, o).number <= n /\ Record(r, o).campaign = r.campaign
    BY DEF Record, Statement
  <1>2. For(<<Record(r, o)>>, Record(r, o).campaign, n)
    BY <1>1, ForOne
  <1> QED  BY <1>1, <1>2

LEMMA StampFor ==
    ASSUME NEW r, NEW n, r.number <= n
    PROVE  For(<<Stamp(r)>>, r.campaign, n)
  <1>1. Stamp(r).do # "ask" /\ Stamp(r).number <= n /\ Stamp(r).campaign = r.campaign
    BY StampIs
  <1>2. For(<<Stamp(r)>>, Stamp(r).campaign, n)
    BY <1>1, ForOne
  <1> QED  BY <1>1, <1>2

LEMMA FailsOwe ==
    ASSUME IInv, RInv, \/ PollResetFails \/ PollStagingFails \/ PollFindsNobody \/ PollSplits
    PROVE  RInv'
  <1>1. /\ queue = <<>> /\ UNCHANGED <<rows, asks, done, hearth>>
        /\ run.phase \in {"Resetting", "Gathering", "Barrier", "StagedInside", "Clearing"}
        /\ job /\ done < Wanted
    BY DEF PollResetFails, PollStagingFails, PollFindsNobody, PollSplits, Live, Phase, Poll,
           database
  <1>2. /\ run \in RunStates /\ run.number <= done + 1 /\ Types
    BY <1>1, FreshQueue, UnderWay DEF IInv
  <1>3. run.campaign # 0
    BY <1>1, UnderWay DEF RInv, CampaignKnown
  <1>4. /\ Stamped \in RunStates /\ Stamps \in Seq(Writes)
        /\ Stamped.number = run.number /\ Stamped.campaign = run.campaign
        /\ For(Stamps, run.campaign, done + 1) /\ RowOf(Stamped) \in Nat
    BY <1>2, StampsFor, StampedGives
  <1>5. {"reset_failed", "staging_failed", "emptied", "wipe", "split_failed"} \subseteq Outcomes
    BY DEF Outcomes, Unentered, Entered
  <1>6. \A r \in RunStates : <<Stamp(r)>> \in Seq(Writes)
    BY <1>5, Written
  <1>7. \A o \in Outcomes : <<Record(run, o)>> \in Seq(Writes)
    BY <1>2, Written
  <1>8. CASE PollResetFails
    <2>1. EndRun(run, "reset_failed", TRUE, FALSE, <<Record(run, "reset_failed")>>)
      BY <1>8 DEF PollResetFails
    <2>2. <<Record(run, "reset_failed")>> \in Seq(Writes)
          /\ For(<<Record(run, "reset_failed")>>, run.campaign, done + 1)
      BY <1>2, <1>5, <1>7, RecordFor
    <2> QED  BY <1>1, <1>2, <1>3, <1>5, <2>1, <2>2, EndRunOwes
  <1>9. CASE PollStagingFails
    <2> DEFINE s == [run EXCEPT !.row = RowOf(run)]
               w(b) == IF ~ b THEN <<>>
                       ELSE IF RowOf(run) # 0 THEN <<Stamp(s)>>
                       ELSE <<Record(run, "staging_failed")>>
    <2>1. PICK b \in BOOLEAN : EndRun(run, "staging_failed", TRUE, FALSE, w(b))
      BY <1>9 DEF PollStagingFails
    <2>2. RowOf(run) \in Nat
      BY <1>2, Reads DEF RowOf, RunStates
    <2>3. s \in RunStates /\ s.number = run.number /\ s.campaign = run.campaign
      BY <1>2, <2>2 DEF RunStates
    <2> HIDE DEF s
    <2>4. <<Stamp(s)>> \in Seq(Writes) /\ For(<<Stamp(s)>>, run.campaign, done + 1)
      <3>1. For(<<Stamp(s)>>, s.campaign, done + 1)
        BY <1>2, <2>3, StampFor
      <3> QED  BY <1>6, <2>3, <3>1
    <2>5. /\ <<Record(run, "staging_failed")>> \in Seq(Writes)
          /\ For(<<Record(run, "staging_failed")>>, run.campaign, done + 1)
      BY <1>2, <1>5, <1>7, RecordFor
    <2>6. <<>> \in Seq(Writes) /\ For(<<>>, run.campaign, done + 1)
      BY ForNone
    <2>7. w(b) \in Seq(Writes) /\ For(w(b), run.campaign, done + 1)
      BY <2>4, <2>5, <2>6
    <2> HIDE DEF w
    <2> QED  BY <1>1, <1>2, <1>3, <1>5, <2>1, <2>7, EndRunOwes
  <1>10. CASE PollFindsNobody
    <2>1. PICK o \in {"emptied", "wipe"}, second \in BOOLEAN :
              EndRun(Stamped, o, job, second, Stamps)
      BY <1>10 DEF PollFindsNobody
    <2>2. o \in Outcomes /\ o \notin Unentered
      BY <1>5 DEF Unentered
    <2> QED  BY <1>1, <1>2, <1>3, <1>4, <2>1, <2>2, EndRunOwes
  <1>11. CASE PollSplits
    <2> DEFINE w == IF RowOf(Stamped) # 0 THEN <<Stamp(Stamped)>>
                    ELSE <<Record(run, "split_failed")>>
    <2>1. EndRun(Stamped, "split_failed", job, FALSE, Stamps \o w)
      BY <1>11 DEF PollSplits
    <2>2. <<Stamp(Stamped)>> \in Seq(Writes) /\ For(<<Stamp(Stamped)>>, run.campaign, done + 1)
      <3>1. For(<<Stamp(Stamped)>>, Stamped.campaign, done + 1)
        BY <1>2, <1>4, StampFor
      <3> QED  BY <1>4, <1>6, <3>1
    <2>3. /\ <<Record(run, "split_failed")>> \in Seq(Writes)
          /\ For(<<Record(run, "split_failed")>>, run.campaign, done + 1)
      BY <1>2, <1>5, <1>7, RecordFor
    <2>4. w \in Seq(Writes) /\ For(w, run.campaign, done + 1)
      BY <2>2, <2>3
    <2> HIDE DEF w
    <2>5. Stamps \o w \in Seq(Writes) /\ For(Stamps \o w, run.campaign, done + 1)
      BY <1>4, <2>4, ForBoth
    <2> QED  BY <1>1, <1>2, <1>3, <1>4, <1>5, <2>1, <2>5, EndRunOwes
  <1> QED  BY <1>8, <1>9, <1>10, <1>11

LEMMA ExitIsEntered ==
    ASSUME NEW r \in RunStates
    PROVE  ExitOutcome(r) \notin Unentered \ {"evacuated"}
  BY DEF ExitOutcome, Unentered, RunStates, Verdicts

LEMMA ExitsOwe == ASSUME IInv, RInv, PollFinalizes \/ PollExits PROVE RInv'
  <1>1. queue = <<>> /\ UNCHANGED <<rows, asks, done>>
    BY DEF PollFinalizes, PollExits, Phase, Poll, database
  <1>2. /\ run \in RunStates /\ hearth \in RunStates
        /\ run.number <= done + 1 /\ hearth.number <= done + 1
    BY <1>1, FreshQueue, TypesGive DEF IInv
  <1>3. <<>> \in Seq(Writes) /\ \A c : For(<<>>, c, done + 1)
    BY ForNone
  <1>4. CASE PollFinalizes
    <2>1. /\ hearth # NoEpisode /\ hearth' = NoEpisode
          /\ EndRun(hearth, ExitOutcome(hearth), job, FALSE, <<>>)
      BY <1>4 DEF PollFinalizes
    <2>2. /\ ExitOutcome(hearth) \in Outcomes
          /\ ExitOutcome(hearth) = "evacuated" <=> hearth.verdict = "evacuated"
          /\ ExitOutcome(hearth) \notin Unentered \ {"evacuated"}
      BY <1>2, Exits, ExitIsEntered
    <2>3. ExitOutcome(hearth) # "evacuated" => hearth.campaign # 0
      BY <2>1, <2>2 DEF RInv, CampaignKnown
    <2> QED  BY <1>1, <1>2, <1>3, <2>1, <2>2, <2>3, EndRunOwes
  <1>5. CASE PollExits
    <2>1. /\ run.phase # "Idle" /\ hearth' = hearth
          /\ EndRun(run, ExitOutcome(run), job, FALSE, <<>>)
      BY <1>5 DEF PollExits, Phase
    <2>2. /\ ExitOutcome(run) \in Outcomes
          /\ ExitOutcome(run) = "evacuated" <=> run.verdict = "evacuated"
          /\ ExitOutcome(run) \notin Unentered \ {"evacuated"}
      BY <1>2, Exits, ExitIsEntered
    <2>3. ExitOutcome(run) # "evacuated" => run.campaign # 0
      BY <2>1, <2>2 DEF RInv, CampaignKnown
    <2> QED  BY <1>1, <1>2, <1>3, <2>1, <2>2, <2>3, EndRunOwes
  <1> QED  BY <1>4, <1>5

LEMMA ExitFailsOwes == ASSUME IInv, RInv, PollExitFails PROVE RInv'
  <1>1. /\ queue = <<>> /\ run.phase = "Exiting" /\ run' = IdleRun /\ queue' = <<>>
        /\ hearth' = [run EXCEPT !.row = RowOf(run)] \/ hearth' = NoEpisode
        /\ UNCHANGED <<rows, asks, done, owed>>
    BY DEF PollExitFails, Phase, Poll, database
  <1>2. /\ run \in RunStates /\ run.number <= done + 1 /\ done \in Nat /\ 0 \notin owed
    BY <1>1, FreshQueue, TypesGive DEF IInv
  <1>3. CASE hearth' = NoEpisode
    <2>1. For(queue', 0, done + 1)
      BY <1>1, ForNone
    <2>2. run' \in RunStates /\ run'.phase = "Idle" /\ run'.number = 0
      BY <1>1, AtRest DEF IdleRun
    <2>3. WaitsItsTurn'
      BY <2>2 DEF WaitsItsTurn, Fresh
    <2> QED  BY <1>1, <1>2, <1>3, <2>1, <2>2, <2>3, QuietOwes
  <1>4. CASE hearth' = [run EXCEPT !.row = RowOf(run)]
    <2>1. /\ hearth'.number = run.number /\ hearth'.campaign = run.campaign
          /\ hearth'.verdict = run.verdict
      BY <1>2, <1>4 DEF RunStates
    <2>2. run'.phase = "Idle" /\ run'.number = 0
      BY <1>1 DEF IdleRun
    <2>3. WaitsItsTurn'
      BY <2>2 DEF WaitsItsTurn, Fresh
    <2>4. CampaignKnown'
      BY <1>1, <1>2, <2>1, <2>2 DEF RInv, CampaignKnown
    <2>5. run'.number <= done + 1 + Once(Counted(queue'))
      <3>1. Once(Counted(queue')) \in Nat
        BY Flags, OnceIs
      <3> QED  BY <1>2, <2>2, <3>1
    <2>6. Numbers(queue)' /\ AskIsLast(queue') /\ \A c : ~ Touches(queue', c)
      BY <1>1 DEF Numbers, AskIsLast, Touches
    <2> QED  BY <1>1, <1>2, <2>1, <2>3, <2>4, <2>5, <2>6, PollOwes
  <1> QED  BY <1>1, <1>3, <1>4

LEMMA AdoptedFor ==
    ASSUME IInv, RInv, queue = <<>>, NEW p \in Phases, NEW new \in Nat
    PROVE  /\ Adopted(p, new) \in RunStates /\ Adopted(p, new).number <= done + 1
           /\ new # 0 => Adopted(p, new).campaign # 0
           /\ For(StampOf(Adopted(p, new)), Adopted(p, new).campaign, done + 1)
  <1> DEFINE i == ActiveRow
             c == IF i = 0 THEN 0 ELSE rows[i].campaign
             n == IF i = 0 THEN 0 ELSE rows[i].number
             r == Adopted(p, new)
  <1>1. /\ done \in Nat /\ Types
        /\ \A j \in DOMAIN rows : rows[j].number <= done + 1
    BY FreshQueue DEF IInv
  <1>2. i # 0 => i \in DOMAIN rows
    <2> DEFINE S == {j \in DOMAIN rows : rows[j].outcome = "active"}
    <2>1. S \in SUBSET (1 .. Len(rows))
      BY <1>1, RowIs
    <2>2. LastOf(S) # 0 => LastOf(S) \in S
      BY <1>1, <2>1, RowIs, LastOfIs
    <2> QED  BY <2>2 DEF ActiveRow
  <1>3. n \in Nat /\ n <= done + 1
    BY <1>1, <1>2, RowIs
  <1>4. r = [IdleRun EXCEPT !.phase = p, !.row = i, !.number = OrElse(n, done + 1),
                            !.campaign = OrElse(c, OrElse(InProgress, new))]
    BY DEF Adopted
  <1>5. r \in RunStates
    BY <1>1, AdoptedGives
  <1> HIDE DEF i, c, n
  <1>6. r.number = OrElse(n, done + 1) /\ r.campaign = OrElse(c, OrElse(InProgress, new))
    BY <1>4 DEF IdleRun
  <1> HIDE DEF r
  <1>7. r.number <= done + 1
    BY <1>1, <1>3, <1>6 DEF OrElse
  <1>8. new # 0 => r.campaign # 0
    BY <1>6 DEF OrElse
  <1>9. For(StampOf(r), r.campaign, done + 1)
    BY <1>7, StampOfFor
  <1> QED  BY <1>5, <1>7, <1>8, <1>9 DEF r

LEMMA EvacuatesOwes == ASSUME IInv, RInv, PollEvacuates PROVE RInv'
  <1> DEFINE a == Adopted("Idle", 0)
             r == IF run.phase = "Idle" THEN a ELSE run
  <1>1. /\ queue = <<>>
        /\ run' = [r EXCEPT !.phase = "Exiting", !.verdict = "evacuated"]
        /\ queue' = IF run.phase = "Idle" THEN StampOf(r) ELSE <<>>
        /\ UNCHANGED <<rows, asks, done, hearth>>
        /\ owed' = IF run.phase = "Idle" THEN owed \ {r.campaign} ELSE owed
    BY DEF PollEvacuates, Poll, database
  <1>2. /\ run \in RunStates /\ run.number <= done + 1 /\ 0 \notin owed
    BY <1>1, FreshQueue, TypesGive DEF IInv
  <1>3. /\ a \in RunStates /\ a.number <= done + 1
        /\ For(StampOf(a), a.campaign, done + 1)
    BY <1>1, AdoptedFor DEF Phases
  <1>4. r \in RunStates /\ r.number <= done + 1
    BY <1>2, <1>3
  <1>5. CASE run.phase = "Idle"
    <2>1. r = a
      BY <1>5
    <2> HIDE DEF r, a
    <2>2. /\ run' \in RunStates /\ run'.number <= done + 1 /\ run'.verdict = "evacuated"
          /\ run'.phase = "Exiting"
      BY <1>1, <1>4 DEF RunStates, Phases, Verdicts
    <2>3. WaitsItsTurn'
      BY <2>2 DEF WaitsItsTurn, Fresh
    <2>4. /\ owed' \subseteq owed /\ a.campaign \notin owed'
          /\ For(queue', a.campaign, done + 1)
      BY <1>1, <1>3, <1>5, <2>1
    <2> QED  BY <1>1, <2>2, <2>3, <2>4, QuietOwes
  <1>6. CASE run.phase # "Idle"
    <2>1. queue' = <<>> /\ owed' = owed
      BY <1>1, <1>6
    <2> HIDE DEF r, a
    <2>2. /\ run' \in RunStates /\ run'.number <= done + 1 /\ run'.verdict = "evacuated"
          /\ run'.phase = "Exiting"
      BY <1>1, <1>4 DEF RunStates, Phases, Verdicts
    <2>3. WaitsItsTurn'
      BY <2>2 DEF WaitsItsTurn, Fresh
    <2>4. For(queue', 0, done + 1)
      BY <2>1, ForNone
    <2> QED  BY <1>1, <1>2, <2>1, <2>2, <2>3, <2>4, QuietOwes
  <1> QED  BY <1>5, <1>6

LEMMA AdoptsOwes == ASSUME IInv, RInv, PollAdopts PROVE RInv'
  <1>1. queue = <<>> /\ hearth' = NoEpisode /\ UNCHANGED <<rows, asks, done>>
    BY DEF PollAdopts, Phase, Poll, database
  <1>2. \E mark \in Marks \cup {over}, v \in {"complete", "stalled", "none"} :
          LET r == Adopted(AdoptAt(mark), NewCampaign)
          IN  /\ run' = [r EXCEPT !.verdict = v]
              /\ queue' = StampOf(r)
              /\ owed' = owed \ {r.campaign}
    BY DEF PollAdopts, Marks
  <1>3. PICK mark \in Marks \cup {over}, v \in {"complete", "stalled", "none"} :
          LET r == Adopted(AdoptAt(mark), NewCampaign)
          IN  /\ run' = [r EXCEPT !.verdict = v]
              /\ queue' = StampOf(r)
              /\ owed' = owed \ {r.campaign}
    BY <1>2
  <1> DEFINE r == Adopted(AdoptAt(mark), NewCampaign)
  <1>4. /\ run' = [r EXCEPT !.verdict = v]
        /\ queue' = StampOf(r)
        /\ owed' = owed \ {r.campaign}
    BY <1>3
  <1>5. AdoptAt(mark) \in Phases
    BY DEF AdoptAt, Phases, Fresh
  <1>6. NewCampaign \in Nat /\ NewCampaign # 0
    BY Reads DEF IInv
  <1>7. /\ r \in RunStates /\ r.number <= done + 1 /\ r.campaign # 0
        /\ For(StampOf(r), r.campaign, done + 1)
    BY <1>1, <1>5, <1>6, AdoptedFor
  <1> HIDE DEF r
  <1>8. /\ run' \in RunStates /\ run'.number <= done + 1 /\ run'.campaign = r.campaign
    BY <1>4, <1>7 DEF RunStates, Verdicts
  <1>9. owed' \subseteq owed /\ r.campaign \notin owed'
    BY <1>4
  <1>10. WaitsItsTurn'
    BY <1>8, <1>9 DEF WaitsItsTurn
  <1> QED  BY <1>1, <1>4, <1>7, <1>8, <1>9, <1>10, QuietOwes

LEMMA ChoosesOwes == ASSUME IInv, RInv, PollChooses PROVE RInv'
  <1>1. /\ queue = <<>> /\ run.phase = "Recovering"
        /\ run' \in {IdleRun, Repair(run, run.number), [run EXCEPT !.chosen = TRUE]}
        /\ queue' = <<Apply(run)>> /\ owed' = owed \ {run.campaign}
        /\ UNCHANGED <<rows, asks, done, hearth>>
    BY DEF PollChooses, Live, Phase, Poll, database
  <1>2. /\ run \in RunStates /\ run.number <= done + 1 /\ run.number \in Nat
        /\ run.campaign # 0 /\ 0 <= done + 1
    <2>1. run \in RunStates /\ run.campaign # 0
      BY <1>1, UnderWay DEF RInv, CampaignKnown
    <2> QED  BY <1>1, <2>1, FreshQueue DEF IInv
  <1>3. /\ run' \in RunStates /\ run'.number <= done + 1
        /\ run'.phase # "Idle" => run'.campaign = run.campaign
    <2>1. CASE run' = IdleRun
      BY <1>2, <2>1, AtRest DEF IdleRun
    <2>2. CASE run' = Repair(run, run.number)
      BY <1>2, <2>2, Repairs
    <2>3. CASE run' = [run EXCEPT !.chosen = TRUE]
      BY <1>2, <2>3 DEF RunStates
    <2> QED  BY <1>1, <2>1, <2>2, <2>3
  <1>4. For(queue', run.campaign, done + 1)
    <2>1. Apply(run).do # "ask" /\ Apply(run).campaign = run.campaign
          /\ Apply(run).number <= done + 1
      BY <1>2 DEF Apply, Statement
    <2>2. For(<<Apply(run)>>, Apply(run).campaign, done + 1)
      BY <2>1, ForOne
    <2> QED  BY <1>1, <2>1, <2>2
  <1>5. owed' \subseteq owed /\ run.campaign \notin owed'
    BY <1>1
  <1>6. WaitsItsTurn'
    BY <1>3, <1>5 DEF WaitsItsTurn, Fresh
  <1> QED  BY <1>1, <1>2, <1>3, <1>4, <1>5, <1>6, QuietOwes

\* A campaign that is owed a recovery is found in its request, and recovers.
LEMMA StartsOwes ==
    ASSUME IInv, RInv, PollStarts
    PROVE  RInv' /\ (run'.phase = "Resetting" => run'.campaign \notin owed)
  <1> DEFINE c == NextCampaign
             r == [IdleRun EXCEPT !.campaign = c, !.number = done + 1]
  <1>1. /\ queue = <<>> /\ hearth = NoEpisode
        /\ IF Resumed(c)
           THEN run' = Recover(r, asks[NewestAsk(c)].attempt) /\ queue' = <<>>
           ELSE IF Trailing(c) > 0 /\ ~AppliedFor(c, Trailing(c))
           THEN /\ run' = Recover(r, Trailing(c))
                /\ queue' = <<Ask(run')>>
           ELSE run' = [r EXCEPT !.phase = "Resetting"] /\ queue' = <<>>
        /\ UNCHANGED <<rows, asks, done, hearth, owed>>
    BY DEF PollStarts, Phase, Poll, database
  <1>2. /\ done \in Nat /\ Types /\ hearth.number <= done + 1 /\ 0 \notin owed
        /\ \A d \in owed : Awaits(asks, rows, d)
    BY <1>1, FreshQueue DEF IInv
  <1>3. c \in Nat /\ c # 0
    BY <1>2, Reads DEF NextCampaign, OrElse
  <1>4. r \in RunStates /\ r.campaign = c /\ r.number = done + 1
    <2>1. done + 1 \in Nat
      BY <1>2
    <2> QED  BY <1>3, <2>1, AtRest DEF RunStates, IdleRun
  <1>5. Trailing(c) \in Nat
    BY <1>2, Reads
  <1>6. Resumed(c) => asks[NewestAsk(c)].attempt \in Nat
    <2>1. Resumed(c) => NewestAsk(c) # 0
      BY DEF Resumed
    <2>2. NewestAsk(c) # 0 => NewestAsk(c) \in DOMAIN asks
      BY <1>2, Reads
    <2> QED  BY <1>2, <2>1, <2>2, RowIs
  <1>7. ~ Resumed(c) => c \notin owed
    BY <1>2, ResumesWhatAwaits
  <1> HIDE DEF c, r
  <1>8. \A n : Recover(r, n).number = r.number
    BY <1>4 DEF Recover, RunStates
  <1>9. CASE Resumed(c)
    <2>1. run' = Recover(r, asks[NewestAsk(c)].attempt) /\ queue' = <<>>
      BY <1>1, <1>9
    <2>2. /\ run' \in RunStates /\ run'.phase = "Recovering" /\ ~ run'.chosen
          /\ run'.campaign = c /\ run'.number = done + 1
      BY <1>4, <1>6, <1>8, <1>9, <2>1, Recovers
    <2>3. WaitsItsTurn'
      BY <2>2 DEF WaitsItsTurn, Fresh
    <2>4. For(queue', 0, done + 1)
      BY <2>1, ForNone
    <2>5. run'.number <= done + 1
      BY <1>2, <2>2
    <2>6. RInv'
      BY <1>1, <1>2, <1>3, <2>2, <2>3, <2>4, <2>5, QuietOwes
    <2> QED  BY <2>2, <2>6
  <1>10. CASE ~ Resumed(c) /\ Trailing(c) > 0 /\ ~ AppliedFor(c, Trailing(c))
    <2>1. run' = Recover(r, Trailing(c)) /\ queue' = <<Ask(run')>>
      BY <1>1, <1>10
    <2>2. /\ run' \in RunStates /\ run'.phase = "Recovering" /\ ~ run'.chosen
          /\ run'.campaign = c /\ run'.number = done + 1
      BY <1>4, <1>5, <1>8, <2>1, Recovers
    <2>3. WaitsItsTurn'
      BY <2>2 DEF WaitsItsTurn, Fresh
    <2>4. CampaignKnown'
      BY <1>1, <1>2, <1>3, <2>2 DEF CampaignKnown, NoEpisode, IdleRun
    <2>5. Ask(run').do = "ask"
      BY AskIs
    <2> DEFINE w == Ask(run')
    <2> HIDE DEF w
    <2>6. w.do = "ask" /\ queue' = <<w>>
      BY <2>1, <2>5 DEF w
    <2>7. Numbers(queue)' /\ AskIsLast(queue') /\ \A d : ~ Touches(queue', d)
      BY <2>6 DEF Numbers, AskIsLast, Touches
    <2>8. run'.number <= done + 1 + Once(Counted(queue'))
      <3>1. Once(Counted(queue')) \in Nat
        BY Flags, OnceIs
      <3> QED  BY <1>2, <2>2, <3>1
    <2>9. RInv'
      BY <1>1, <1>2, <2>3, <2>4, <2>7, <2>8, PollOwes
    <2> QED  BY <2>2, <2>9
  <1>11. CASE ~ Resumed(c) /\ ~ (Trailing(c) > 0 /\ ~ AppliedFor(c, Trailing(c)))
    <2>1. run' = [r EXCEPT !.phase = "Resetting"] /\ queue' = <<>>
      BY <1>1, <1>11
    <2>2. /\ run' \in RunStates /\ run'.campaign = c /\ run'.number = done + 1
      BY <1>4, <2>1 DEF RunStates, Phases, Fresh
    <2>3. run'.campaign \notin owed /\ run'.campaign \notin owed'
      BY <1>1, <1>7, <1>11, <2>2
    <2>4. WaitsItsTurn'
      BY <2>3 DEF WaitsItsTurn
    <2>5. For(queue', 0, done + 1)
      BY <2>1, ForNone
    <2>6. run'.number <= done + 1
      BY <1>2, <2>2
    <2>7. RInv'
      BY <1>1, <1>2, <1>3, <2>2, <2>4, <2>5, <2>6, QuietOwes
    <2> QED  BY <2>3, <2>7
  <1> QED  BY <1>9, <1>10, <1>11

LEMMA CoordinatorOwes == ASSUME IInv, RInv, CoordinatorPoll PROVE RInv'
  BY GoesOwes, InsideOwes, FailsOwe, ExitsOwe, ExitFailsOwes, EvacuatesOwes, AdoptsOwes,
     ChoosesOwes, StartsOwes
     DEF CoordinatorPoll, PollIdle, PollOutside, PollInside, PollLeaves, PollRecovery

(***************************************************************************)
(* The world, and the server's restart.                                    *)
(***************************************************************************)
LEMMA WorldOwes ==
    ASSUME RInv, UNCHANGED <<run, hearth, asks, done, queue, owed>>,
           \A i \in DOMAIN rows' : rows'[i].number <= done + 1,
           \A c \in owed : \A i \in DOMAIN rows' :
               rows'[i].campaign = c => i \in DOMAIN rows /\ rows[i].campaign = c
    PROVE  RInv'
  <1>1. Numbered'
    BY DEF RInv, Numbered, Numbers, Once, Counted
  <1>2. CampaignKnown' /\ WaitsItsTurn' /\ AskIsLast(queue')
    BY DEF RInv, CampaignKnown, WaitsItsTurn, AskIsLast, NoEpisode, IdleRun
  <1>3. \A c \in owed : Awaits(asks, rows, c) => Awaits(asks', rows', c)
    BY DEF Awaits
  <1>4. Kept'
    BY <1>3 DEF RInv, Kept, Asked, Touches, Awaits
  <1> QED  BY <1>1, <1>2, <1>4 DEF RInv, AskIsLast

LEMMA ElsewhereOwes ==
    ASSUME RInv, UNCHANGED <<run, hearth, rows, asks, done, queue, owed>>
    PROVE  RInv'
  <1>1. \A i \in DOMAIN rows' : rows'[i].number <= done + 1
    BY DEF RInv, Numbered
  <1> QED  BY <1>1, WorldOwes

LEMMA HappensOwes ==
    ASSUME RInv,
           \/ Walks \/ (\E m \in Members : Dies(m) \/ RunsBackIn(m))
           \/ LastBossDies \/ BagsFill \/ BagsEmpty \/ JobGoes \/ JobComes
           \/ UNCHANGED vars
    PROVE  RInv'
  <1>1. UNCHANGED <<run, hearth, rows, asks, done, queue, owed>>
    BY DEF Walks, WalksIn, WalksOut, Rises, Dies, RunsBackIn, LastBossDies, BagsFill,
           BagsEmpty, JobGoes, JobComes, Elsewhere, vars, coordinator, database
  <1> QED  BY <1>1, ElsewhereOwes

LEMMA RowsOwe == ASSUME IInv, RInv, OpensRow \/ ClosesCold PROVE RInv'
  <1>1. /\ queue = <<>> /\ UNCHANGED <<run, hearth, asks, done, queue, owed>>
    BY DEF OpensRow, ClosesCold, coordinator
  <1>2. /\ done \in Nat /\ 0 \notin owed /\ Types
        /\ \A i \in DOMAIN rows : rows[i].number <= done + 1
    BY <1>1, FreshQueue DEF IInv
  <1>3. CASE OpensRow
    <2> DEFINE x == [campaign |-> 0, number |-> 0, outcome |-> "active"]
    <2>1. rows' = Append(rows, x)
      BY <1>3 DEF OpensRow
    <2>2. x.campaign = 0 /\ x.number = 0
      OBVIOUS
    <2> HIDE DEF x
    <2>3. rows \in Seq(Rows) /\ Len(rows) \in Nat /\ DOMAIN rows = 1 .. Len(rows)
      BY <1>2, TypesGive, RowIs
    <2>4. DOMAIN Append(rows, x) = 1 .. Len(rows) + 1
          /\ \A j \in 1 .. Len(rows) : Append(rows, x)[j] = rows[j]
          /\ Append(rows, x)[Len(rows) + 1] = x
      BY <2>3
    <2>5. \A i \in DOMAIN rows' :
              \/ i \in DOMAIN rows /\ rows'[i] = rows[i]
              \/ rows'[i] = x
      BY <2>1, <2>3, <2>4
    <2>6. \A i \in DOMAIN rows' : rows'[i].number <= done + 1
      BY <1>2, <2>2, <2>5
    <2>7. \A c \in owed : \A i \in DOMAIN rows' :
              rows'[i].campaign = c => i \in DOMAIN rows /\ rows[i].campaign = c
      BY <1>2, <2>2, <2>5
    <2> QED  BY <1>1, <2>6, <2>7, WorldOwes
  <1>4. CASE ClosesCold
    <2>1. rows' = [rows EXCEPT ![ActiveRow].outcome = "emptied"]
      BY <1>4 DEF ClosesCold
    <2>2. \A i \in DOMAIN rows' :
              /\ i \in DOMAIN rows
              /\ rows'[i].campaign = rows[i].campaign /\ rows'[i].number = rows[i].number
      <3>1. SUFFICES ASSUME NEW i \in DOMAIN rows'
                     PROVE  /\ i \in DOMAIN rows
                            /\ rows'[i].campaign = rows[i].campaign
                            /\ rows'[i].number = rows[i].number
        OBVIOUS
      <3>2. i \in DOMAIN rows /\ rows \in Seq(Rows) /\ rows[i] \in Rows
        BY <1>2, <2>1, RowIs, TypesGive
      <3>3. CASE i = ActiveRow
        <4>1. rows'[i] = [rows[i] EXCEPT !.outcome = "emptied"]
          BY <2>1, <3>2, <3>3
        <4> QED  BY <3>2, <4>1 DEF Rows
      <3>4. CASE i # ActiveRow
        BY <2>1, <3>2, <3>4
      <3> QED  BY <3>3, <3>4
    <2> QED  BY <1>1, <1>2, <2>2, WorldOwes
  <1> QED  BY <1>3, <1>4

\* A request that a restart loses unwritten is owed no more.
LEMMA RestartOwes == ASSUME IInv, RInv, Restart PROVE RInv'
  <1>1. /\ run' = IdleRun /\ hearth' = NoEpisode /\ queue' = <<>>
        /\ UNCHANGED <<rows, asks, done>>
        /\ owed' = {c \in owed : ~ Asked(queue, c)}
    BY DEF Restart, database, Asked
  <1>2. done \in Nat
    BY TypesGive DEF IInv
  <1>3. Numbered'
    <2>1. Once(Counted(queue')) \in Nat
      BY Flags, OnceIs
    <2>2. run'.number = 0 /\ hearth'.number = 0
      BY <1>1 DEF IdleRun, NoEpisode
    <2>3. run'.number <= done' + 1 + Once(Counted(queue')) /\ hearth'.number <= done' + 1
      BY <1>1, <1>2, <2>1, <2>2
    <2>4. Numbers(queue)'
      BY <1>1 DEF Numbers
    <2> QED  BY <1>1, <2>3, <2>4 DEF RInv, Numbered, Once, Counted
  <1>4. CampaignKnown' /\ WaitsItsTurn'
    <2>1. run'.phase = "Idle" /\ NoEpisode' = NoEpisode
      BY <1>1 DEF IdleRun, NoEpisode
    <2> QED  BY <1>1, <2>1 DEF RInv, CampaignKnown, WaitsItsTurn, Fresh
  <1>5. Kept'
    BY <1>1 DEF RInv, Kept, Asked, Touches, Awaits
  <1> QED  BY <1>1, <1>3, <1>4, <1>5 DEF RInv, AskIsLast

LEMMA NextOwes == ASSUME IInv, RInv, [Next]_vars PROVE RInv'
  BY CoordinatorOwes, WorkerOwes, HappensOwes, RowsOwe, RestartOwes DEF Next

LEMMA InitOwes == Init => RInv
  <1> SUFFICES ASSUME Init PROVE RInv
    OBVIOUS
  <1>1. /\ run = IdleRun /\ hearth = NoEpisode /\ rows = <<>> /\ queue = <<>>
        /\ done = 0 /\ owed = {}
    BY DEF Init
  <1>2. Numbered
    <2>1. Once(Counted(queue)) \in Nat
      BY Flags, OnceIs
    <2>2. run.number = 0 /\ hearth.number = 0
      BY <1>1 DEF IdleRun, NoEpisode
    <2> QED  BY <1>1, <2>1, <2>2 DEF Numbered, Numbers
  <1>3. CampaignKnown /\ WaitsItsTurn
    BY <1>1 DEF CampaignKnown, WaitsItsTurn, IdleRun
  <1> QED  BY <1>1, <1>2, <1>3 DEF RInv, AskIsLast, Kept

LEMMA NoAttemptAtTheEnd ==
    ASSUME \/ PollFinalizes \/ PollExits \/ PollResetFails \/ PollStagingFails
           \/ PollFindsNobody \/ PollSplits
    PROVE  run'.phase # "Resetting"
  <1>1. ASSUME NEW r, NEW o, NEW wanted, NEW wiped, NEW before,
               EndRun(r, o, wanted, wiped, before)
        PROVE  run'.phase # "Resetting"
    <2>1. \E k, n, m : run' = IdleRun \/ run' = Repair(k, n) \/ run' = Recover(Repair(k, n), m)
      BY <1>1, Zenon DEF EndRun
    <2>2. PICK k, n, m :
              run' = IdleRun \/ run' = Repair(k, n) \/ run' = Recover(Repair(k, n), m)
      BY <2>1
    <2>3. /\ IdleRun.phase = "Idle" /\ Repair(k, n).phase = "Repairing"
          /\ Recover(Repair(k, n), m).phase = "Recovering"
      BY DEF IdleRun, Repair, Recover
    <2> QED  BY <2>2, <2>3
  <1>2. \E r, o, wanted, wiped, before : EndRun(r, o, wanted, wiped, before)
    BY Zenon DEF PollFinalizes, PollExits, PollResetFails, PollStagingFails, PollFindsNobody, PollSplits
  <1> QED  BY <1>1, <1>2

LEMMA NoAttemptUnderWay ==
    ASSUME IInv,
           \/ PollHoldsOut \/ PollStandsDown \/ PollLeaderInside \/ PollResets
           \/ PollGathers \/ PollRegathers \/ PollOpens \/ PollEntersAll
           \/ PollEnterGivesUp \/ PollGivesUp \/ PollRecovered \/ PollChooses
           \/ PollExitFails
    PROVE  run'.phase # "Resetting"
  <1>1. \/ run' = IdleRun \/ run' = Repair(run, run.number)
        \/ run' = [run EXCEPT !.chosen = TRUE] /\ run.phase = "Recovering"
        \/ \E p \in {"Gathering", "Barrier", "Enter", "StagedInside", "Exiting"},
             v \in {run.verdict, "stalled", "client_lost"} :
               run' = [run EXCEPT !.phase = p]
               \/ run' = [run EXCEPT !.phase = p, !.verdict = v]
    BY DEF PollHoldsOut, PollStandsDown, PollLeaderInside, PollResets, PollGathers,
           PollRegathers, PollOpens, PollEntersAll, PollEnterGivesUp, PollGivesUp,
           PollRecovered, PollChooses, PollExitFails, Goes, Live, Phase
  <1>2. run \in RunStates
    BY TypesGive DEF IInv
  <1>3. IdleRun.phase = "Idle" /\ Repair(run, run.number).phase = "Repairing"
    BY DEF IdleRun, Repair
  <1> QED  BY <1>1, <1>2, <1>3 DEF RunStates

LEMMA NoAttemptInside ==
    ASSUME IInv, PollClears \/ PollReassembles \/ PollProves \/ PollEvacuates \/ PollAdopts
    PROVE  run'.phase # "Resetting"
  <1>1. Types /\ run \in RunStates /\ Stamped \in RunStates
    BY TypesGive, StampedGives DEF IInv
  <1>2. CASE PollClears \/ PollReassembles \/ PollProves
    <2>1. \/ \E p \in {"StagedInside", "Clearing"} : run' = [Stamped EXCEPT !.phase = p]
          \/ run' = [Stamped EXCEPT !.phase = "Exiting", !.verdict = "complete"]
      BY <1>2 DEF PollClears, PollReassembles, PollProves, GoesInside
    <2> QED  BY <1>1, <2>1 DEF RunStates
  <1>3. CASE PollEvacuates
    <2>1. Adopted("Idle", 0) \in RunStates
      BY <1>1, AdoptedGives DEF Phases
    <2>2. \E r \in {Adopted("Idle", 0), run} :
              run' = [r EXCEPT !.phase = "Exiting", !.verdict = "evacuated"]
      BY <1>3 DEF PollEvacuates
    <2> QED  BY <1>1, <2>1, <2>2 DEF RunStates
  <1>4. CASE PollAdopts
    <2>1. PICK mark, v : run' = [Adopted(AdoptAt(mark), NewCampaign) EXCEPT !.verdict = v]
      BY <1>4 DEF PollAdopts
    <2>2. AdoptAt(mark) \in Phases /\ AdoptAt(mark) # "Resetting" /\ NewCampaign \in Nat
      BY <1>1, Reads DEF AdoptAt, Phases, Fresh
    <2> DEFINE r == Adopted(AdoptAt(mark), NewCampaign)
    <2>3. r \in RunStates /\ r.phase # "Resetting"
      BY <1>1, <2>2, AdoptedGives
    <2> HIDE DEF r
    <2>4. run' = [r EXCEPT !.verdict = v]
      BY <2>1 DEF r
    <2> QED  BY <2>3, <2>4 DEF RunStates
  <1> QED  BY <1>2, <1>3, <1>4

\* An attempt begins from Idle, or with the repairs of a campaign under way.
LEMMA AttemptsWait ==
    ASSUME IInv, RInv, [Next]_vars, Attempts
    PROVE  run'.campaign \notin owed
  <1>1. run'.phase = "Resetting" /\ run.phase # "Resetting"
    BY DEF Attempts
  <1>2. PollStarts \/ PollRepairs
    <2>1. ~ (UNCHANGED run)
      BY <1>1
    <2>2. CoordinatorPoll \/ Restart
      BY <2>1 DEF Next, vars, coordinator, ApplyWrite, Walks, WalksIn, WalksOut, Rises, Dies,
                  RunsBackIn, LastBossDies, BagsFill, BagsEmpty, JobGoes, JobComes, Elsewhere,
                  OpensRow, ClosesCold
    <2>3. /\ ~ (PollFinalizes \/ PollExits \/ PollResetFails \/ PollStagingFails
                \/ PollFindsNobody \/ PollSplits)
          /\ ~ Restart
      BY <1>1, NoAttemptAtTheEnd DEF Restart, IdleRun
    <2>4. ~ (\/ PollHoldsOut \/ PollStandsDown \/ PollLeaderInside \/ PollResets
             \/ PollGathers \/ PollRegathers \/ PollOpens \/ PollEntersAll
             \/ PollEnterGivesUp \/ PollGivesUp \/ PollRecovered \/ PollChooses
             \/ PollExitFails)
      BY <1>1, NoAttemptUnderWay
    <2>5. ~ (PollClears \/ PollReassembles \/ PollProves \/ PollEvacuates \/ PollAdopts)
      BY <1>1, NoAttemptInside
    <2> QED  BY <2>2, <2>3, <2>4, <2>5
             DEF CoordinatorPoll, PollIdle, PollOutside, PollInside, PollLeaves, PollRecovery
  <1>3. CASE PollStarts
    BY <1>1, <1>3, StartsOwes
  <1>4. CASE PollRepairs
    <2>1. run.phase = "Repairing" /\ run' = [run EXCEPT !.phase = "Resetting"]
      BY <1>4 DEF PollRepairs, Live, Phase, Goes
    <2>2. run' = [run EXCEPT !.phase = "Resetting"] /\ run \in RunStates
      BY <2>1, UnderWay
    <2>3. run'.campaign = run.campaign
      BY <2>2 DEF RunStates
    <2>4. run.campaign \notin owed
      BY <2>1 DEF RInv, WaitsItsTurn
    <2> QED  BY <2>3, <2>4
  <1> QED  BY <1>2, <1>3, <1>4

(***************************************************************************)
(* What a queue holds, as a set of statements.                             *)
(***************************************************************************)
Sent(q) == {q[i] : i \in DOMAIN q}

Recorded(q) == \E w \in Sent(q) : w.do = "record"
Closing(q) == \E w \in Sent(q) : w.do = "close"

OneRecord(q) == \A i, j \in DOMAIN q : q[i].do = "record" /\ q[j].do = "record" => i = j

LEMMA CountedIs == \A q : Counted(q) <=> \E w \in Sent(q) : w.do = "count"
  BY DEF Counted, Sent

LEMMA SentNone == Sent(<<>>) = {}
  BY DEF Sent

LEMMA SentOne == \A w : Sent(<<w>>) = {w}
  BY DEF Sent

LEMMA SentBoth ==
    ASSUME NEW p \in Seq(Writes), NEW q \in Seq(Writes)
    PROVE  /\ Sent(p \o q) = Sent(p) \cup Sent(q)
           /\ OneRecord(p) /\ OneRecord(q) /\ ~ (Recorded(p) /\ Recorded(q))
                => OneRecord(p \o q)
  <1> DEFINE s == p \o q
  <1>0. p \o q = s
    OBVIOUS
  <1>1. /\ s \in Seq(Writes) /\ Len(s) = Len(p) + Len(q)
        /\ \A i \in 1 .. Len(p) + Len(q) : s[i] = IF i <= Len(p) THEN p[i] ELSE q[i - Len(p)]
    BY ConcatProperties
  <1>2. /\ Len(p) \in Nat /\ Len(q) \in Nat /\ DOMAIN p = 1 .. Len(p) /\ DOMAIN q = 1 .. Len(q)
    BY LenProperties
  <1> HIDE DEF s
  <1>3. DOMAIN s = 1 .. Len(p) + Len(q)
    BY <1>1, LenProperties
  <1>4. ASSUME NEW i \in DOMAIN s
        PROVE  \/ i \in DOMAIN p /\ s[i] = p[i]
               \/ i - Len(p) \in DOMAIN q /\ s[i] = q[i - Len(p)] /\ i \in Nat
    <2>1. CASE i <= Len(p)
      BY <1>1, <1>2, <1>3, <2>1
    <2>2. CASE ~ (i <= Len(p))
      <3>1. s[i] = q[i - Len(p)]
        BY <1>1, <1>3, <2>2
      <3>2. i - Len(p) \in 1 .. Len(q) /\ i \in Nat
        BY <1>2, <1>3, <2>2
      <3> QED  BY <1>2, <3>1, <3>2
    <2> QED  BY <2>1, <2>2
  <1>5. \A i \in DOMAIN p : i \in DOMAIN s /\ s[i] = p[i]
    <2>1. \A i \in 1 .. Len(p) : i \in 1 .. Len(p) + Len(q) /\ i <= Len(p)
      BY <1>2
    <2> QED  BY <1>1, <1>2, <1>3, <2>1
  <1>6. \A i \in DOMAIN q : Len(p) + i \in DOMAIN s /\ s[Len(p) + i] = q[i]
    <2>1. \A i \in 1 .. Len(q) : /\ Len(p) + i \in 1 .. Len(p) + Len(q)
                                 /\ ~ (Len(p) + i <= Len(p)) /\ (Len(p) + i) - Len(p) = i
      BY <1>2
    <2> QED  BY <1>1, <1>2, <1>3, <2>1
  <1>7. Sent(s) = Sent(p) \cup Sent(q)
    <2>1. Sent(s) \subseteq Sent(p) \cup Sent(q)
      BY <1>4 DEF Sent
    <2>2. Sent(p) \cup Sent(q) \subseteq Sent(s)
      BY <1>5, <1>6 DEF Sent
    <2> QED  BY <2>1, <2>2
  <1>8. ASSUME OneRecord(p), OneRecord(q), ~ (Recorded(p) /\ Recorded(q)),
               NEW i \in DOMAIN s, NEW j \in DOMAIN s, s[i].do = "record", s[j].do = "record"
        PROVE  i = j
    <2>1. CASE i \in DOMAIN p /\ j \in DOMAIN p /\ s[i] = p[i] /\ s[j] = p[j]
      BY <1>8, <2>1 DEF OneRecord
    <2>2. CASE /\ i - Len(p) \in DOMAIN q /\ s[i] = q[i - Len(p)] /\ i \in Nat
               /\ j - Len(p) \in DOMAIN q /\ s[j] = q[j - Len(p)] /\ j \in Nat
      <3>1. i - Len(p) = j - Len(p)
        BY <1>8, <2>2 DEF OneRecord
      <3> QED  BY <1>2, <2>2, <3>1
    <2>3. CASE i \in DOMAIN p /\ s[i] = p[i] /\ j - Len(p) \in DOMAIN q /\ s[j] = q[j - Len(p)]
      BY <1>8, <2>3 DEF Recorded, Sent
    <2>4. CASE j \in DOMAIN p /\ s[j] = p[j] /\ i - Len(p) \in DOMAIN q /\ s[i] = q[i - Len(p)]
      BY <1>8, <2>4 DEF Recorded, Sent
    <2> QED  BY <1>4, <2>1, <2>2, <2>3, <2>4
  <1> HIDE DEF OneRecord
  <1>9. OneRecord(p) /\ OneRecord(q) /\ ~ (Recorded(p) /\ Recorded(q)) => OneRecord(s)
    BY <1>8 DEF OneRecord
  <1> QED  BY <1>0, <1>7, <1>9

LEMMA OneAtMost ==
    /\ OneRecord(<<>>) /\ ~ Recorded(<<>>) /\ ~ Closing(<<>>) /\ ~ Counted(<<>>)
    /\ \A w : OneRecord(<<w>>)
  BY SentNone, CountedIs DEF OneRecord, Recorded, Closing

LEMMA NoRecordIsOne ==
    ASSUME NEW q, ~ Recorded(q)
    PROVE  OneRecord(q)
  BY DEF OneRecord, Recorded, Sent

(***************************************************************************)
(* Every row and every clear is paid for: by a run that is done, by a      *)
(* mishap or a ghost that runs back in, which cost two at most, or it is   *)
(* the one the run under way has coming.                                   *)
(***************************************************************************)
Paid == done + Once(Counted(queue)) + 2 * (mishaps + returns) + 1

\* The run may yet be stood down or held outside, with no mishap more.
Doubt == Once(~ job \/ full)

\* Somebody is inside; the copy is cleared.
Within == Once(inside # {})
Credited == Once(cleared)

\* The arming drive may open a row for those who are inside.
Vacant(w, q) == Once(w = 1 /\ (ActiveRow = 0 \/ Closing(q)))

\* The rows that the run under way has coming, the one of Vacant apart.
Coming(r, w, d) ==
    IF r.phase = "Exiting" THEN IF r.verdict = "complete" THEN 0 ELSE 1
    ELSE IF r.phase \in {"Enter", "StagedInside", "Clearing"} THEN (1 - w) + d
    ELSE IF r.phase \in {"Gathering", "Barrier"} THEN 1 + w ELSE 1

\* The clears that the run under way, or one that adopts the party, has coming.
ToClear(r, w, c, d) ==
    IF r.phase = "Exiting" THEN IF r.verdict = "complete" THEN 0 ELSE 1
    ELSE IF r.phase \in {"Enter", "StagedInside", "Clearing"}
         THEN IF c = 0 THEN 1 + d ELSE IF w = 1 THEN d ELSE 1
    ELSE IF w = 1 /\ c = 0 THEN 1 + d ELSE 1

RowsPaid ==
    Len(rows) + Once(Recorded(queue)) + Vacant(Within, queue)
        + Coming(run, Within, Doubt) <= Paid

ClearsPaid == clears + ToClear(run, Within, Credited, Doubt) <= Paid

AllPaid == OneRecord(queue) /\ RowsPaid /\ ClearsPaid

LEMMA Numbers01 ==
    /\ Doubt \in {0, 1} /\ Doubt' \in {0, 1} /\ Within \in {0, 1} /\ Within' \in {0, 1}
    /\ Credited \in {0, 1} /\ Credited' \in {0, 1}
    /\ \A w, q : Vacant(w, q) \in {0, 1}
    /\ \A r : \A w, d \in {0, 1} : Coming(r, w, d) \in {0, 1, 2}
    /\ \A r : \A w, c, d \in {0, 1} : ToClear(r, w, c, d) \in {0, 1, 2}
    /\ \A b : Once(b) \in {0, 1}
  BY DEF Doubt, Within, Credited, Vacant, Coming, ToClear, Once

\* What EndRunAndDecide queues.
LEMMA EndRunWrites ==
    ASSUME Types, NEW r \in RunStates, NEW o \in Outcomes, NEW wanted, NEW wiped,
           NEW before \in Seq(Writes), OneRecord(before),
           EndRun(r, o, wanted, wiped, before)
    PROVE  /\ OneRecord(queue')
           /\ Recorded(queue') => Recorded(before)
           /\ Closing(queue') =>
                  Closing(before) \/ (o # "reset_failed" /\ RowOf(r) # 0)
           /\ o = "complete" => Counted(queue')
           /\ run'.phase \in {"Idle", "Repairing", "Recovering"}
  <1> DEFINE row == IF o = "reset_failed" THEN 0 ELSE RowOf(r)
             id == [r EXCEPT !.row = row]
             k == [r EXCEPT !.streak = 0]
             n == DoneAfter(r, o) + 1
             next == Repair(k, n)
             again == /\ o # "evacuated" /\ wanted
                      /\ DoneAfter(r, o) < Wanted /\ ~ wiped
             m == MaxOf(r.streak + 1, Trailing(r.campaign))
             recovering == Recover(next, m)
             recovers == again /\ o \in Unentered
             a == IF id.row # 0 THEN <<Close(id, o)>> ELSE <<>>
             b == IF Counts(o) THEN <<Count(r)>> ELSE <<>>
             c == IF recovers THEN <<Ask(recovering)>> ELSE <<>>
  <1>1. queue' = ((before \o a) \o b) \o c
    BY Zenon DEF EndRun
  <1>2. row \in Nat /\ r.streak \in Nat /\ r.number \in Nat
    BY Reads DEF RowOf, RunStates
  <1>3. id \in RunStates /\ k \in RunStates /\ id.row = row
    BY <1>2 DEF RunStates
  <1>4. n \in Nat /\ m \in Nat
    <2>1. Trailing(r.campaign) \in Nat
      BY Reads
    <2>2. r.streak + 1 \in Nat
      BY <1>2
    <2>3. DoneAfter(r, o) \in Nat
      BY <1>2 DEF DoneAfter
    <2> QED  BY <2>1, <2>2, <2>3 DEF MaxOf
  <1>5. recovering \in RunStates
    <2>1. next \in RunStates
      BY <1>3, <1>4, Repairs
    <2> QED  BY <1>4, <2>1, Recovers
  <1>6. Close(id, o).do = "close" /\ Count(r).do = "count" /\ Ask(recovering).do = "ask"
        /\ Close(id, o) \in Writes /\ Count(r) \in Writes /\ Ask(recovering) \in Writes
    BY <1>3, <1>5, Written
  <1>7. row # 0 => o # "reset_failed" /\ RowOf(r) # 0
    OBVIOUS
  <1>8. Counts(o) <=> o = "complete"
    BY DEF Counts
  <1> HIDE DEF row, id, k, n, m, next, recovering, again, recovers
  <1>9. /\ a \in Seq(Writes) /\ ~ Recorded(a) /\ OneRecord(a)
        /\ Closing(a) => o # "reset_failed" /\ RowOf(r) # 0
    BY <1>3, <1>6, <1>7, SentOne, OneAtMost, NoneQueued DEF Recorded, Closing
  <1>10. /\ b \in Seq(Writes) /\ ~ Recorded(b) /\ OneRecord(b) /\ ~ Closing(b)
         /\ o = "complete" => \E w \in Sent(b) : w.do = "count"
    BY <1>6, <1>8, SentOne, OneAtMost, NoneQueued DEF Recorded, Closing
  <1>11. c \in Seq(Writes) /\ ~ Recorded(c) /\ OneRecord(c) /\ ~ Closing(c)
    BY <1>6, SentOne, OneAtMost, NoneQueued DEF Recorded, Closing
  <1> HIDE DEF a, b, c
  <1>12. /\ before \o a \in Seq(Writes) /\ Sent(before \o a) = Sent(before) \cup Sent(a)
         /\ OneRecord(before \o a)
    BY <1>9, SentBoth, ConcatProperties
  <1>13. ~ (Recorded(before \o a) /\ Recorded(b))
    BY <1>10
  <1>14. /\ (before \o a) \o b \in Seq(Writes)
         /\ Sent((before \o a) \o b) = Sent(before) \cup Sent(a) \cup Sent(b)
         /\ OneRecord((before \o a) \o b)
    BY <1>10, <1>12, <1>13, SentBoth, ConcatProperties
  <1>15. /\ Sent(queue') = Sent(before) \cup Sent(a) \cup Sent(b) \cup Sent(c)
         /\ OneRecord(queue')
    BY <1>1, <1>11, <1>14, SentBoth
  <1>16. Recorded(queue') => Recorded(before)
    BY <1>9, <1>10, <1>11, <1>15 DEF Recorded
  <1>17. Closing(queue') => Closing(before) \/ (o # "reset_failed" /\ RowOf(r) # 0)
    BY <1>9, <1>10, <1>11, <1>15 DEF Closing
  <1>18. o = "complete" => Counted(queue')
    BY <1>10, <1>15, CountedIs
  <1> QED  BY <1>15, <1>16, <1>17, <1>18, EndRunRests

\* A poll that finds the queue empty, and the party and the tables as they are.
LEMMA PollPays ==
    ASSUME IInv, AllPaid, queue = <<>>,
           UNCHANGED <<inside, full, job, clears, returns, rows, done>>,
           NEW n \in {0, 1}, mishaps' = mishaps + n, OneRecord(queue'),
           Once(Recorded(queue')) + Vacant(Within, queue') + Coming(run', Within, Doubt)
               <= Vacant(Within, <<>>) + Coming(run, Within, Doubt)
                    + Once(Counted(queue')) + 2 * n,
           ToClear(run', Within, Credited', Doubt)
               <= ToClear(run, Within, Credited, Doubt) + Once(Counted(queue')) + 2 * n
    PROVE  AllPaid'
  <1>1. /\ done \in Nat /\ clears \in Nat /\ mishaps \in Nat /\ returns \in Nat
        /\ Len(rows) \in Nat
    <2>1. mishaps \in 0 .. MaxMishaps /\ returns \in 0 .. MaxReturns
          /\ MaxMishaps \in Nat /\ MaxReturns \in Nat
      BY TypesGive, Constants DEF IInv
    <2> QED  BY <2>1, TypesGive, RowIs DEF IInv
  <1>2. Doubt' = Doubt /\ Within' = Within /\ Doubt \in {0, 1} /\ Within \in {0, 1}
    BY Numbers01 DEF Doubt, Within
  <1>3. Vacant(Within, queue)' = Vacant(Within, queue')
    BY <1>2 DEF Vacant, ActiveRow
  <1> DEFINE v == Vacant(Within, <<>>)
             w == Vacant(Within, queue')
             a == Coming(run, Within, Doubt)
             b == Coming(run', Within, Doubt)
             e == ToClear(run, Within, Credited, Doubt)
             f == ToClear(run', Within, Credited', Doubt)
             c == Once(Counted(queue'))
             p == Once(Recorded(queue'))
  <1>4. /\ v \in Nat /\ w \in Nat /\ a \in Nat /\ b \in Nat /\ e \in Nat /\ f \in Nat
        /\ c \in Nat /\ p \in Nat
    <2>1. v \in Nat /\ w \in Nat /\ c \in Nat /\ p \in Nat
      BY Numbers01
    <2>2. a \in {0, 1, 2} /\ b \in {0, 1, 2}
      BY Numbers01
    <2>3. e \in {0, 1, 2} /\ f \in {0, 1, 2}
      BY Numbers01
    <2> HIDE DEF v, w, a, b, c, e, f, p
    <2> QED  BY <2>1, <2>2, <2>3
  <1>5. Once(Counted(queue)) = 0 /\ Once(Recorded(queue)) = 0
    BY OneAtMost DEF Once
  <1>6. /\ Len(rows) + v + a <= done + 2 * (mishaps + returns) + 1
        /\ clears + e <= done + 2 * (mishaps + returns) + 1
    <2>1. /\ Len(rows) + Once(Recorded(queue)) + v + a
               <= done + Once(Counted(queue)) + 2 * (mishaps + returns) + 1
          /\ clears + e <= done + Once(Counted(queue)) + 2 * (mishaps + returns) + 1
      BY DEF AllPaid, RowsPaid, ClearsPaid, Paid
    <2> HIDE DEF v, a, e
    <2> QED  BY <2>1, <1>1, <1>4, <1>5
  <1>7. p + w + b <= v + a + c + 2 * n /\ f <= e + c + 2 * n
    OBVIOUS
  <1> HIDE DEF v, w, a, b, c, e, f, p
  <1>8. /\ Len(rows) + p + w + b <= done + c + 2 * ((mishaps + n) + returns) + 1
        /\ clears + f <= done + c + 2 * ((mishaps + n) + returns) + 1
    BY <1>1, <1>4, <1>6, <1>7
  <1>9. RowsPaid'
    <2>1. RowsPaid' <=> Len(rows) + p + w + b <= done + c + 2 * ((mishaps + n) + returns) + 1
      BY <1>2, <1>3 DEF RowsPaid, Paid, p, w, b, c, Coming, Once, Recorded, Counted, Sent
    <2> QED  BY <1>8, <2>1
  <1>10. ClearsPaid'
    <2>1. ClearsPaid' <=> clears + f <= done + c + 2 * ((mishaps + n) + returns) + 1
      BY <1>2 DEF ClearsPaid, Paid, f, c, ToClear, Once, Counted
    <2> QED  BY <1>8, <2>1
  <1> QED  BY <1>9, <1>10 DEF AllPaid, OneRecord

\* What the run has coming, by its phase.
LEMMA ComingIs ==
    ASSUME NEW r, NEW w \in {0, 1}, NEW c \in {0, 1}, NEW d \in {0, 1}
    PROVE  /\ r.phase \in {"Idle", "Resetting", "Repairing", "Recovering"}
                => Coming(r, w, d) = 1
           /\ r.phase \in {"Gathering", "Barrier"}
                => Coming(r, w, d) = 1 + w
           /\ r.phase \in {"Enter", "StagedInside", "Clearing"}
                => Coming(r, w, d) = (1 - w) + d
           /\ r.phase = "Exiting"
                => /\ Coming(r, w, d) = IF r.verdict = "complete" THEN 0 ELSE 1
                   /\ ToClear(r, w, c, d) = IF r.verdict = "complete" THEN 0 ELSE 1
           /\ r.phase \in {"Idle", "Resetting", "Repairing", "Recovering", "Gathering", "Barrier"}
                => ToClear(r, w, c, d) = IF w = 1 /\ c = 0 THEN 1 + d ELSE 1
           /\ r.phase \in {"Enter", "StagedInside", "Clearing"}
                => ToClear(r, w, c, d) = IF c = 0 THEN 1 + d ELSE IF w = 1 THEN d ELSE 1
  BY DEF Coming, ToClear

LEMMA PhaseIs ==
    ASSUME IInv
    PROVE  /\ run \in RunStates /\ run.phase \in Phases
           /\ Within \in {0, 1} /\ (inside = {} <=> Within = 0)
           /\ Credited \in {0, 1} /\ (cleared <=> Credited = 1)
           /\ full => Doubt = 1
           /\ ~ job => Doubt = 1
           /\ job /\ ~ full => Doubt = 0
           /\ Doubt \in {0, 1}
  BY TypesGive DEF IInv, Doubt, Within, Credited, Once, RunStates, Types, PartyTypes

LEMMA StampOfIsQuiet ==
    ASSUME NEW r \in RunStates
    PROVE  ~ Recorded(StampOf(r)) /\ ~ Closing(StampOf(r))
  <1>1. Stamp(r).do = "stamp"
    BY DEF Stamp, Statement
  <1> QED  BY <1>1, SentOne, SentNone DEF StampOf, Recorded, Closing

LEMMA StampsAreQuiet ==
    ASSUME Types
    PROVE  ~ Recorded(Stamps) /\ ~ Closing(Stamps)
  BY StampedGives, StampOfIsQuiet, OneAtMost DEF Stamps

\* A poll that records and closes nothing.
LEMMA QuietPays ==
    ASSUME IInv, AllPaid, queue = <<>>,
           UNCHANGED <<inside, full, job, clears, returns, rows, done>>,
           NEW n \in {0, 1}, mishaps' = mishaps + n,
           ~ Recorded(queue'), ~ Closing(queue'),
           Coming(run', Within, Doubt)
               <= Coming(run, Within, Doubt) + Once(Counted(queue')) + 2 * n,
           ToClear(run', Within, Credited', Doubt)
               <= ToClear(run, Within, Credited, Doubt) + Once(Counted(queue')) + 2 * n
    PROVE  AllPaid'
  <1>1. OneRecord(queue')
    BY NoRecordIsOne
  <1>2. Vacant(Within, queue') = Vacant(Within, <<>>)
    BY OneAtMost DEF Vacant
  <1>3. /\ Vacant(Within, <<>>) \in Nat /\ Once(Recorded(queue')) = 0
        /\ Coming(run, Within, Doubt) \in Nat /\ Coming(run', Within, Doubt) \in Nat
        /\ Once(Counted(queue')) \in Nat
    BY Numbers01 DEF Once
  <1>4. Once(Recorded(queue')) + Vacant(Within, queue') + Coming(run', Within, Doubt)
          <= Vacant(Within, <<>>) + Coming(run, Within, Doubt)
               + Once(Counted(queue')) + 2 * n
    BY <1>2, <1>3
  <1> QED  BY <1>1, <1>4, PollPays

\* One that costs no mishap, and counts nothing.
LEMMA IdlyPays ==
    ASSUME IInv, AllPaid, queue = <<>>,
           UNCHANGED <<inside, full, job, clears, returns, rows, done, mishaps>>,
           ~ Recorded(queue'), ~ Closing(queue'),
           Coming(run', Within, Doubt) <= Coming(run, Within, Doubt),
           ToClear(run', Within, Credited', Doubt)
               <= ToClear(run, Within, Credited, Doubt)
    PROVE  AllPaid'
  <1>1. mishaps' = mishaps + 0 /\ Once(Counted(queue')) \in Nat
    BY TypesGive, Constants, Numbers01 DEF IInv
  <1>2. /\ Coming(run, Within, Doubt) \in Nat /\ Coming(run', Within, Doubt) \in Nat
        /\ ToClear(run, Within, Credited, Doubt) \in Nat
        /\ ToClear(run', Within, Credited', Doubt) \in Nat
    BY Numbers01
  <1>3. /\ Coming(run', Within, Doubt)
               <= Coming(run, Within, Doubt) + Once(Counted(queue')) + 2 * 0
        /\ ToClear(run', Within, Credited', Doubt)
               <= ToClear(run, Within, Credited, Doubt) + Once(Counted(queue')) + 2 * 0
    BY <1>1, <1>2
  <1> QED  BY <1>1, <1>3, QuietPays

\* A mishap pays for whatever the next run may have coming.
LEMMA MishapPays ==
    ASSUME IInv, AllPaid, queue = <<>>,
           UNCHANGED <<inside, full, job, clears, returns, rows, done>>,
           Mishap, ~ Recorded(queue'), ~ Closing(queue')
    PROVE  AllPaid'
  <1>1. mishaps' = mishaps + 1
    BY DEF Mishap
  <1>2. /\ Coming(run', Within, Doubt)
               <= Coming(run, Within, Doubt) + Once(Counted(queue')) + 2 * 1
        /\ ToClear(run', Within, Credited', Doubt)
               <= ToClear(run, Within, Credited, Doubt) + Once(Counted(queue')) + 2 * 1
    <2>1. /\ Coming(run, Within, Doubt) \in Nat /\ Coming(run', Within, Doubt) \in {0, 1, 2}
          /\ ToClear(run, Within, Credited, Doubt) \in Nat
          /\ ToClear(run', Within, Credited', Doubt) \in {0, 1, 2}
          /\ Once(Counted(queue')) \in Nat
      BY Numbers01
    <2> QED  BY <2>1
  <1> QED  BY <1>1, <1>2, QuietPays

\* The two sides of a poll.
LEMMA ComingBefore ==
    ASSUME IInv
    PROVE  /\ run.phase \in {"Idle", "Resetting", "Repairing", "Recovering"}
                => Coming(run, Within, Doubt) = 1
           /\ run.phase \in {"Gathering", "Barrier"}
                => Coming(run, Within, Doubt) = 1 + Within
           /\ run.phase \in {"Enter", "StagedInside", "Clearing"}
                => Coming(run, Within, Doubt) = (1 - Within) + Doubt
           /\ run.phase = "Exiting"
                => /\ Coming(run, Within, Doubt)
                         = IF run.verdict = "complete" THEN 0 ELSE 1
                   /\ ToClear(run, Within, Credited, Doubt)
                         = IF run.verdict = "complete" THEN 0 ELSE 1
           /\ run.phase \in {"Idle", "Resetting", "Repairing", "Recovering",
                             "Gathering", "Barrier"}
                => ToClear(run, Within, Credited, Doubt)
                     = IF Within = 1 /\ Credited = 0 THEN 1 + Doubt ELSE 1
           /\ run.phase \in {"Enter", "StagedInside", "Clearing"}
                => ToClear(run, Within, Credited, Doubt)
                     = IF Credited = 0 THEN 1 + Doubt ELSE IF Within = 1 THEN Doubt ELSE 1
  <1>1. Within \in {0, 1} /\ Credited \in {0, 1} /\ Doubt \in {0, 1}
    BY Numbers01
  <1> QED  BY <1>1, ComingIs

LEMMA ComingAfter ==
    /\ run'.phase \in {"Idle", "Resetting", "Repairing", "Recovering"}
         => Coming(run', Within, Doubt) = 1
    /\ run'.phase \in {"Gathering", "Barrier"}
         => Coming(run', Within, Doubt) = 1 + Within
    /\ run'.phase \in {"Enter", "StagedInside", "Clearing"}
         => Coming(run', Within, Doubt) = (1 - Within) + Doubt
    /\ run'.phase = "Exiting"
         => /\ Coming(run', Within, Doubt)
                  = IF run'.verdict = "complete" THEN 0 ELSE 1
            /\ ToClear(run', Within, Credited', Doubt)
                  = IF run'.verdict = "complete" THEN 0 ELSE 1
    /\ run'.phase \in {"Idle", "Resetting", "Repairing", "Recovering", "Gathering", "Barrier"}
         => ToClear(run', Within, Credited', Doubt)
              = IF Within = 1 /\ Credited' = 0 THEN 1 + Doubt ELSE 1
    /\ run'.phase \in {"Enter", "StagedInside", "Clearing"}
         => ToClear(run', Within, Credited', Doubt)
              = IF Credited' = 0 THEN 1 + Doubt ELSE IF Within = 1 THEN Doubt ELSE 1
  <1>1. Within \in {0, 1} /\ Credited' \in {0, 1} /\ Doubt \in {0, 1}
    BY Numbers01
  <1> QED  BY <1>1, ComingIs

LEMMA CreditedSame == cleared' = cleared => Credited' = Credited
  BY DEF Credited

-----------------------------------------------------------------------------
LEMMA HoldsOutPays == ASSUME IInv, AllPaid, PollHoldsOut PROVE AllPaid'
  <1>1. /\ queue = <<>> /\ run' = IdleRun /\ queue' = <<>> /\ inside = {} /\ full
        /\ run.phase # "Exiting"
        /\ UNCHANGED <<inside, full, job, clears, returns, rows, done, mishaps, cleared>>
    BY DEF PollHoldsOut, Poll, HeldOut, world, party, database
  <1>2. run'.phase = "Idle"
    BY <1>1, AtRest
  <1>3. /\ Coming(run', Within, Doubt) <= Coming(run, Within, Doubt)
        /\ ToClear(run', Within, Credited', Doubt) <= ToClear(run, Within, Credited, Doubt)
    BY <1>1, <1>2, PhaseIs, ComingBefore, ComingAfter, CreditedSame DEF Phases, Fresh
  <1> QED  BY <1>1, <1>3, OneAtMost, IdlyPays

LEMMA StandsDownPays == ASSUME IInv, RunsWanted, AllPaid, PollStandsDown PROVE AllPaid'
  <1>1. /\ queue = <<>> /\ queue' = <<>> /\ run.phase \notin {"Idle", "Exiting"}
        /\ run' = IF run.phase \in {"StagedInside", "Clearing"}
                  THEN [run EXCEPT !.phase = "Exiting"] ELSE IdleRun
        /\ ~ job \/ done >= Wanted
        /\ UNCHANGED <<inside, full, job, clears, returns, rows, done, mishaps, cleared>>
    BY DEF PollStandsDown, Poll, HeldOut, world, party, database
  <1>2. run.verdict = "none" /\ run \in RunStates
    BY <1>1, UnderWay
  <1>3. run.phase \in Fresh => Doubt = 1
    <2>1. done \in Nat /\ Wanted \in Nat
      BY TypesGive, Constants DEF IInv
    <2>2. run.phase \in Fresh => ~ job
      BY <1>1, <2>1 DEF RunsWanted
    <2> QED  BY <2>2, PhaseIs
  <1>4. CASE run.phase \in {"StagedInside", "Clearing"}
    <2>1. run'.phase = "Exiting" /\ run'.verdict = "none"
      BY <1>1, <1>2, <1>4 DEF RunStates
    <2>2. /\ Coming(run', Within, Doubt) <= Coming(run, Within, Doubt)
          /\ ToClear(run', Within, Credited', Doubt) <= ToClear(run, Within, Credited, Doubt)
      BY <1>1, <1>3, <1>4, <2>1, PhaseIs, ComingBefore, ComingAfter, CreditedSame DEF Fresh
    <2> QED  BY <1>1, <2>2, OneAtMost, IdlyPays
  <1>5. CASE run.phase \notin {"StagedInside", "Clearing"}
    <2>1. run'.phase = "Idle"
      BY <1>1, <1>5, AtRest
    <2>2. /\ Coming(run', Within, Doubt) <= Coming(run, Within, Doubt)
          /\ ToClear(run', Within, Credited', Doubt) <= ToClear(run, Within, Credited, Doubt)
      BY <1>1, <1>3, <1>5, <2>1, PhaseIs, ComingBefore, ComingAfter, CreditedSame DEF Phases, Fresh
    <2> QED  BY <1>1, <2>2, OneAtMost, IdlyPays
  <1> QED  BY <1>4, <1>5

\* The polls that end no run, and record and close nothing.
LEMMA GoesOnPays ==
    ASSUME IInv, AllPaid,
           \/ PollLeaderInside \/ PollGathers \/ PollEntersAll \/ PollRecovered
           \/ PollRepairs /\ inside = {}
    PROVE  AllPaid'
  <1>1. /\ queue = <<>> /\ queue' = <<>>
        /\ UNCHANGED <<inside, full, job, clears, returns, rows, done, mishaps, cleared>>
    BY DEF PollLeaderInside, PollGathers, PollEntersAll, PollRecovered, PollRepairs, Goes,
           Live, Phase, Poll, NoMishap, world, party, database
  <1>2. run \in RunStates
    BY PhaseIs
  <1>3. \/ run.phase \in {"Resetting", "Gathering", "Barrier"} /\ run'.phase = "Idle"
        \/ run.phase = "Gathering" /\ run'.phase = "Barrier"
        \/ run.phase = "Enter" /\ run'.phase = "StagedInside"
        \/ run.phase = "Recovering" /\ run'.phase = "Repairing"
        \/ run.phase = "Repairing" /\ run'.phase = "Resetting"
    <2>1. CASE PollLeaderInside
      BY <2>1, AtRest DEF PollLeaderInside, Goes, Phase
    <2>2. CASE PollGathers \/ PollEntersAll \/ PollRepairs
      BY <1>2, <2>2 DEF PollGathers, PollEntersAll, PollRepairs, Goes, Live, Phase, RunStates
    <2>3. CASE PollRecovered
      BY <2>3 DEF PollRecovered, Goes, Live, Phase, Repair, IdleRun
    <2>4. \/ PollLeaderInside \/ PollGathers \/ PollEntersAll \/ PollRecovered
          \/ PollRepairs
      OBVIOUS
    <2> QED  BY <2>1, <2>2, <2>3, <2>4
  <1>4. /\ Coming(run', Within, Doubt) <= Coming(run, Within, Doubt)
        /\ ToClear(run', Within, Credited', Doubt) <= ToClear(run, Within, Credited, Doubt)
    BY <1>1, <1>3, PhaseIs, ComingBefore, ComingAfter, CreditedSame
  <1> QED  BY <1>1, <1>4, OneAtMost, IdlyPays

LEMMA ResetsPays == ASSUME IInv, AllPaid, PollResets PROVE AllPaid'
  <1>1. /\ queue = <<>> /\ queue' = <<>> /\ inside = {}
        /\ run.phase = "Resetting" /\ run' = [run EXCEPT !.phase = "Gathering"]
        /\ UNCHANGED <<inside, full, job, clears, returns, rows, done, mishaps>>
    BY DEF PollResets, Goes, Live, Phase, Poll, party, database
  <1>2. run'.phase = "Gathering"
    BY <1>1, PhaseIs DEF RunStates
  <1>3. /\ Coming(run', Within, Doubt) <= Coming(run, Within, Doubt)
        /\ ToClear(run', Within, Credited', Doubt) <= ToClear(run, Within, Credited, Doubt)
    BY <1>1, <1>2, PhaseIs, ComingBefore, ComingAfter
  <1> QED  BY <1>1, <1>3, OneAtMost, IdlyPays

LEMMA OpensPays == ASSUME IInv, AllPaid, PollOpens PROVE AllPaid'
  <1>1. /\ queue = <<>> /\ queue' = <<>> /\ inside = {} /\ job /\ ~ full
        /\ run.phase = "Barrier" /\ run' = [run EXCEPT !.phase = "Enter"]
        /\ UNCHANGED <<inside, full, job, clears, returns, rows, done, mishaps, cleared>>
    BY DEF PollOpens, Goes, Live, Phase, HeldOut, Poll, world, party, database
  <1>2. run'.phase = "Enter" /\ ~ cleared
    BY <1>1, PhaseIs DEF RunStates, IInv, Phased, FreshCopy
  <1>3. /\ Coming(run', Within, Doubt) <= Coming(run, Within, Doubt)
        /\ ToClear(run', Within, Credited', Doubt) <= ToClear(run, Within, Credited, Doubt)
    BY <1>1, <1>2, PhaseIs, ComingBefore, ComingAfter, CreditedSame
  <1> QED  BY <1>1, <1>3, OneAtMost, IdlyPays

LEMMA GoesInsidePays ==
    ASSUME IInv, AllPaid, PollClears \/ PollReassembles \/ PollProves
    PROVE  AllPaid'
  <1>1. /\ queue = <<>> /\ queue' = Stamps /\ run.phase \in {"StagedInside", "Clearing"}
        /\ UNCHANGED <<inside, full, job, clears, returns, rows, done, mishaps, cleared>>
    BY DEF PollClears, PollReassembles, PollProves, GoesInside, Live, Phase, Poll, world,
           party, database
  <1>2. Stamped \in RunStates
    BY StampedGives DEF IInv
  <1>3. \/ run'.phase \in {"StagedInside", "Clearing"}
        \/ run'.phase = "Exiting" /\ run'.verdict = "complete"
    BY <1>2 DEF PollClears, PollReassembles, PollProves, GoesInside, RunStates
  <1>4. /\ Coming(run', Within, Doubt) <= Coming(run, Within, Doubt)
        /\ ToClear(run', Within, Credited', Doubt) <= ToClear(run, Within, Credited, Doubt)
    BY <1>1, <1>3, PhaseIs, ComingBefore, ComingAfter, CreditedSame
  <1>5. ~ Recorded(queue') /\ ~ Closing(queue')
    BY <1>1, StampsAreQuiet DEF IInv
  <1> QED  BY <1>1, <1>4, <1>5, IdlyPays

LEMMA EvacuatesPays == ASSUME IInv, AllPaid, PollEvacuates PROVE AllPaid'
  <1> DEFINE r == IF run.phase = "Idle" THEN Adopted("Idle", 0) ELSE run
  <1>1. /\ queue = <<>> /\ full /\ inside # {} /\ run.phase # "Exiting"
        /\ run' = [r EXCEPT !.phase = "Exiting", !.verdict = "evacuated"]
        /\ queue' = IF run.phase = "Idle" THEN StampOf(r) ELSE <<>>
        /\ UNCHANGED <<inside, full, job, clears, returns, rows, done, mishaps, cleared>>
    BY DEF PollEvacuates, Poll, world, party, database
  <1>2. r \in RunStates
    <2>1. "Idle" \in Phases /\ 0 \in Nat
      BY DEF Phases
    <2>2. Adopted("Idle", 0) \in RunStates
      BY <2>1, AdoptedGives DEF IInv
    <2> QED  BY <2>2, PhaseIs
  <1> HIDE DEF r
  <1>3. run'.phase = "Exiting" /\ run'.verdict = "evacuated"
    BY <1>1, <1>2 DEF RunStates
  <1>4. /\ Coming(run', Within, Doubt) <= Coming(run, Within, Doubt)
        /\ ToClear(run', Within, Credited', Doubt) <= ToClear(run, Within, Credited, Doubt)
    BY <1>1, <1>3, PhaseIs, ComingBefore, ComingAfter, CreditedSame DEF Phases, Fresh
  <1>5. ~ Recorded(queue') /\ ~ Closing(queue')
    BY <1>1, <1>2, StampOfIsQuiet, OneAtMost
  <1> QED  BY <1>1, <1>4, <1>5, IdlyPays

LEMMA ChoosesPays == ASSUME IInv, AllPaid, PollChooses PROVE AllPaid'
  <1>1. /\ queue = <<>> /\ queue' = <<Apply(run)>> /\ run.phase = "Recovering"
        /\ run' \in {IdleRun, Repair(run, run.number), [run EXCEPT !.chosen = TRUE]}
        /\ UNCHANGED <<inside, full, job, clears, returns, rows, done, mishaps, cleared>>
    BY DEF PollChooses, Live, Phase, Poll, world, party, database
  <1>2. run'.phase \in {"Idle", "Repairing", "Recovering"}
    <2>1. [run EXCEPT !.chosen = TRUE].phase = "Recovering"
      BY <1>1, PhaseIs DEF RunStates
    <2>2. Repair(run, run.number).phase = "Repairing"
      BY DEF Repair, IdleRun
    <2> QED  BY <1>1, <2>1, <2>2, AtRest
  <1>3. /\ Coming(run', Within, Doubt) <= Coming(run, Within, Doubt)
        /\ ToClear(run', Within, Credited', Doubt) <= ToClear(run, Within, Credited, Doubt)
    BY <1>1, <1>2, PhaseIs, ComingBefore, ComingAfter, CreditedSame
  <1>4. ~ Recorded(queue') /\ ~ Closing(queue')
    <2>1. Apply(run).do = "apply"
      BY DEF Apply, Statement
    <2> QED  BY <1>1, <2>1, SentOne DEF Recorded, Closing
  <1> QED  BY <1>1, <1>3, <1>4, IdlyPays

LEMMA AdoptsPays == ASSUME IInv, AllPaid, PollAdopts PROVE AllPaid'
  <1>1. /\ queue = <<>> /\ run.phase = "Idle" /\ inside # {}
        /\ UNCHANGED <<inside, full, job, clears, returns, rows, done, mishaps, cleared>>
    BY DEF PollAdopts, Phase, Poll, world, party, database
  <1>2. PICK mark, verdict :
            LET r == Adopted(AdoptAt(mark), NewCampaign)
            IN  run' = [r EXCEPT !.verdict = verdict] /\ queue' = StampOf(r)
    BY Zenon DEF PollAdopts
  <1> DEFINE r == Adopted(AdoptAt(mark), NewCampaign)
  <1>3. AdoptAt(mark) \in {"Exiting", "StagedInside", "Clearing"}
    BY DEF AdoptAt
  <1>4. r \in RunStates /\ r.phase = AdoptAt(mark)
    <2>1. AdoptAt(mark) \in Phases /\ NewCampaign \in Nat
      BY <1>3, Reads DEF Phases, Fresh, IInv
    <2> QED  BY <2>1, AdoptedGives DEF IInv
  <1>5. run' = [r EXCEPT !.verdict = verdict] /\ queue' = StampOf(r)
    BY <1>2
  <1> HIDE DEF r
  <1>6. run'.phase \in {"Exiting", "StagedInside", "Clearing"}
    BY <1>3, <1>4, <1>5 DEF RunStates
  <1>7. /\ Coming(run', Within, Doubt) <= Coming(run, Within, Doubt)
        /\ ToClear(run', Within, Credited', Doubt) <= ToClear(run, Within, Credited, Doubt)
    BY <1>1, <1>6, PhaseIs, ComingBefore, ComingAfter, CreditedSame
  <1>8. ~ Recorded(queue') /\ ~ Closing(queue')
    BY <1>4, <1>5, StampOfIsQuiet
  <1> QED  BY <1>1, <1>7, <1>8, IdlyPays

LEMMA StartsPays == ASSUME IInv, AllPaid, PollStarts PROVE AllPaid'
  <1> DEFINE c == NextCampaign
             r == [IdleRun EXCEPT !.campaign = c, !.number = done + 1]
  <1>1. /\ queue = <<>> /\ run.phase = "Idle" /\ inside = {}
        /\ UNCHANGED <<inside, full, job, clears, returns, rows, done, mishaps, cleared>>
    BY DEF PollStarts, Phase, Poll, world, party, database
  <1>2. \/ run' = Recover(r, asks[NewestAsk(c)].attempt) /\ queue' = <<>>
        \/ run' = Recover(r, Trailing(c)) /\ queue' = <<Ask(run')>>
        \/ run' = [r EXCEPT !.phase = "Resetting"] /\ queue' = <<>>
    BY Zenon DEF PollStarts
  <1>3. run'.phase \in {"Recovering", "Resetting"}
    <2>1. \A n : Recover(r, n).phase = "Recovering"
      BY DEF Recover, IdleRun
    <2>2. [r EXCEPT !.phase = "Resetting"].phase = "Resetting"
      BY DEF IdleRun
    <2> QED  BY <1>2, <2>1, <2>2
  <1>4. /\ Coming(run', Within, Doubt) <= Coming(run, Within, Doubt)
        /\ ToClear(run', Within, Credited', Doubt) <= ToClear(run, Within, Credited, Doubt)
    BY <1>1, <1>3, PhaseIs, ComingBefore, ComingAfter, CreditedSame
  <1>5. ~ Recorded(queue') /\ ~ Closing(queue')
    BY <1>2, AskIs, SentOne, OneAtMost DEF Recorded, Closing
  <1> QED  BY <1>1, <1>4, <1>5, IdlyPays

\* The polls that are a mishap, and record and close nothing.
LEMMA GivesUpPays ==
    ASSUME IInv, AllPaid,
           \/ PollRegathers \/ PollEnterGivesUp \/ PollGivesUp \/ PollExitFails
           \/ PollRepairs /\ inside # {}
    PROVE  AllPaid'
  <1>1. /\ queue = <<>> /\ queue' = <<>> /\ Mishap
        /\ UNCHANGED <<inside, full, job, clears, returns, rows, done>>
    BY DEF PollRegathers, PollEnterGivesUp, PollGivesUp, PollExitFails, PollRepairs, Goes,
           Live, Phase, Poll, world, party, database
  <1> QED  BY <1>1, OneAtMost, MishapPays

\* The end of a run records or closes one row, never both.
LEMMA EndRunPays ==
    ASSUME IInv, UNCHANGED <<inside, full, job, cleared>>,
           NEW r \in RunStates, NEW o \in Outcomes, NEW wanted, NEW wiped,
           NEW before \in Seq(Writes), OneRecord(before), ~ Closing(before),
           Recorded(before) => o = "reset_failed" \/ RowOf(r) = 0,
           EndRun(r, o, wanted, wiped, before)
    PROVE  /\ OneRecord(queue')
           /\ Coming(run', Within, Doubt) = 1
           /\ ToClear(run', Within, Credited', Doubt)
                = IF Within = 1 /\ Credited = 0 THEN 1 + Doubt ELSE 1
           /\ Once(Recorded(queue')) + Vacant(Within, queue') <= Vacant(Within, <<>>) + 1
           /\ inside = {} => Vacant(Within, queue') = 0 /\ Vacant(Within, <<>>) = 0
           /\ ~ Recorded(before) => Once(Recorded(queue')) = 0
           /\ o = "complete" => Once(Counted(queue')) = 1
  <1>1. /\ OneRecord(queue') /\ (Recorded(queue') => Recorded(before))
        /\ Closing(queue') => o # "reset_failed" /\ RowOf(r) # 0
        /\ o = "complete" => Counted(queue')
        /\ run'.phase \in {"Idle", "Repairing", "Recovering"}
    BY EndRunWrites DEF IInv
  <1>2. /\ Coming(run', Within, Doubt) = 1
        /\ ToClear(run', Within, Credited', Doubt)
             = IF Within = 1 /\ Credited = 0 THEN 1 + Doubt ELSE 1
    BY <1>1, ComingAfter, CreditedSame
  <1>3. Once(Recorded(queue')) + Vacant(Within, queue') <= Vacant(Within, <<>>) + 1
    <2>1. CASE Recorded(queue')
      <3>1. ~ Closing(queue')
        BY <1>1, <2>1
      <3>2. Vacant(Within, queue') = Vacant(Within, <<>>) /\ Once(Recorded(queue')) = 1
        BY <2>1, <3>1, OneAtMost DEF Vacant, Once
      <3>3. Vacant(Within, <<>>) \in {0, 1}
        BY Numbers01
      <3> QED  BY <3>2, <3>3
    <2>2. CASE ~ Recorded(queue')
      <3>1. Once(Recorded(queue')) = 0
        BY <2>2 DEF Once
      <3>2. Vacant(Within, <<>>) \in {0, 1} /\ Vacant(Within, queue') \in {0, 1}
        BY Numbers01
      <3> QED  BY <3>1, <3>2
    <2> QED  BY <2>1, <2>2
  <1>4. inside = {} => Vacant(Within, queue') = 0 /\ Vacant(Within, <<>>) = 0
    <2>1. inside = {} => Within = 0
      BY PhaseIs
    <2> QED  BY <2>1 DEF Vacant, Once
  <1>5. /\ ~ Recorded(before) => Once(Recorded(queue')) = 0
        /\ o = "complete" => Once(Counted(queue')) = 1
    BY <1>1 DEF Once
  <1> QED  BY <1>1, <1>2, <1>3, <1>4, <1>5

LEMMA FinalizesPays == ASSUME IInv, AllPaid, PollFinalizes PROVE AllPaid'
  <1>1. /\ queue = <<>> /\ run.phase = "Idle" /\ inside = {}
        /\ EndRun(hearth, ExitOutcome(hearth), job, FALSE, <<>>)
        /\ UNCHANGED <<inside, full, job, cleared, clears, returns, rows, done, mishaps>>
    BY DEF PollFinalizes, Phase, Poll, world, party, database
  <1>2. hearth \in RunStates /\ ExitOutcome(hearth) \in Outcomes /\ <<>> \in Seq(Writes)
    BY TypesGive, Exits, NoneQueued DEF IInv
  <1>3. /\ OneRecord(queue') /\ Coming(run', Within, Doubt) = 1
        /\ ToClear(run', Within, Credited', Doubt)
             = IF Within = 1 /\ Credited = 0 THEN 1 + Doubt ELSE 1
        /\ Vacant(Within, queue') = 0 /\ Vacant(Within, <<>>) = 0
        /\ Once(Recorded(queue')) = 0
    BY <1>1, <1>2, EndRunPays, OneAtMost
  <1>4. mishaps' = mishaps + 0 /\ Once(Counted(queue')) \in Nat
    BY <1>1, TypesGive, Constants, Numbers01 DEF IInv
  <1>5. /\ Once(Recorded(queue')) + Vacant(Within, queue') + Coming(run', Within, Doubt)
             <= Vacant(Within, <<>>) + Coming(run, Within, Doubt)
                  + Once(Counted(queue')) + 2 * 0
        /\ ToClear(run', Within, Credited', Doubt)
             <= ToClear(run, Within, Credited, Doubt) + Once(Counted(queue')) + 2 * 0
    BY <1>1, <1>3, <1>4, PhaseIs, ComingBefore
  <1> QED  BY <1>1, <1>3, <1>4, <1>5, PollPays

LEMMA ExitsPays == ASSUME IInv, AllPaid, PollExits PROVE AllPaid'
  <1>1. /\ queue = <<>> /\ run.phase = "Exiting" /\ inside = {}
        /\ EndRun(run, ExitOutcome(run), job, FALSE, <<>>)
        /\ UNCHANGED <<inside, full, job, cleared, clears, returns, rows, done, mishaps>>
    BY DEF PollExits, Phase, Poll, world, party, database
  <1>2. run \in RunStates /\ ExitOutcome(run) \in Outcomes /\ <<>> \in Seq(Writes)
        /\ (ExitOutcome(run) = "complete" <=> run.verdict = "complete")
    BY TypesGive, Exits, NoneQueued DEF IInv
  <1>3. /\ OneRecord(queue') /\ Coming(run', Within, Doubt) = 1
        /\ ToClear(run', Within, Credited', Doubt)
             = IF Within = 1 /\ Credited = 0 THEN 1 + Doubt ELSE 1
        /\ Vacant(Within, queue') = 0 /\ Vacant(Within, <<>>) = 0
        /\ Once(Recorded(queue')) = 0
        /\ run.verdict = "complete" => Once(Counted(queue')) = 1
    BY <1>1, <1>2, EndRunPays, OneAtMost
  <1>4. mishaps' = mishaps + 0 /\ Once(Counted(queue')) \in Nat
    BY <1>1, TypesGive, Constants, Numbers01 DEF IInv
  <1>5. /\ Once(Recorded(queue')) + Vacant(Within, queue') + Coming(run', Within, Doubt)
             <= Vacant(Within, <<>>) + Coming(run, Within, Doubt)
                  + Once(Counted(queue')) + 2 * 0
        /\ ToClear(run', Within, Credited', Doubt)
             <= ToClear(run, Within, Credited, Doubt) + Once(Counted(queue')) + 2 * 0
    BY <1>1, <1>3, <1>4, PhaseIs, ComingBefore
  <1> QED  BY <1>1, <1>3, <1>4, <1>5, PollPays

LEMMA FindsNobodyPays == ASSUME IInv, AllPaid, PollFindsNobody PROVE AllPaid'
  <1>1. /\ queue = <<>> /\ run.phase \in {"StagedInside", "Clearing"} /\ inside = {}
        /\ job /\ ~ full
        /\ UNCHANGED <<inside, full, job, cleared, clears, returns, rows, done, mishaps>>
    BY DEF PollFindsNobody, Live, Phase, HeldOut, Poll, world, party, database
  <1>2. PICK o \in {"emptied", "wipe"}, wiped \in BOOLEAN :
            EndRun(Stamped, o, job, wiped, Stamps)
    BY DEF PollFindsNobody
  <1>3. Stamped \in RunStates /\ Stamps \in Seq(Writes) /\ o \in Outcomes
    BY StampedGives DEF IInv, Outcomes, Entered
  <1>4. ~ Recorded(Stamps) /\ ~ Closing(Stamps) /\ OneRecord(Stamps)
    BY StampsAreQuiet, NoRecordIsOne DEF IInv
  <1>5. /\ OneRecord(queue') /\ Coming(run', Within, Doubt) = 1
        /\ ToClear(run', Within, Credited', Doubt)
             = IF Within = 1 /\ Credited = 0 THEN 1 + Doubt ELSE 1
        /\ Vacant(Within, queue') = 0 /\ Vacant(Within, <<>>) = 0
        /\ Once(Recorded(queue')) = 0
    BY <1>1, <1>2, <1>3, <1>4, EndRunPays
  <1>6. mishaps' = mishaps + 0 /\ Once(Counted(queue')) \in Nat
    BY <1>1, TypesGive, Constants, Numbers01 DEF IInv
  <1>7. /\ Once(Recorded(queue')) + Vacant(Within, queue') + Coming(run', Within, Doubt)
             <= Vacant(Within, <<>>) + Coming(run, Within, Doubt)
                  + Once(Counted(queue')) + 2 * 0
        /\ ToClear(run', Within, Credited', Doubt)
             <= ToClear(run, Within, Credited, Doubt) + Once(Counted(queue')) + 2 * 0
    BY <1>1, <1>5, <1>6, PhaseIs, ComingBefore
  <1> QED  BY <1>1, <1>5, <1>6, <1>7, PollPays

LEMMA OneRecords ==
    ASSUME NEW r \in RunStates, NEW o \in Outcomes
    PROVE  /\ <<Record(r, o)>> \in Seq(Writes) /\ OneRecord(<<Record(r, o)>>)
           /\ ~ Closing(<<Record(r, o)>>)
           /\ <<Stamp(r)>> \in Seq(Writes) /\ ~ Recorded(<<Stamp(r)>>)
           /\ ~ Closing(<<Stamp(r)>>)
  BY Written, OneQueued, OneAtMost, SentOne DEF Recorded, Closing

\* A mishap pays for the row the end of a run records or leaves to open.
LEMMA FailurePays ==
    ASSUME IInv, AllPaid, queue = <<>>, Mishap,
           UNCHANGED <<inside, full, job, cleared, clears, returns, rows, done>>,
           NEW r \in RunStates, NEW o \in Outcomes, NEW wanted, NEW wiped,
           NEW before \in Seq(Writes), OneRecord(before), ~ Closing(before),
           Recorded(before) => o = "reset_failed" \/ RowOf(r) = 0,
           EndRun(r, o, wanted, wiped, before)
    PROVE  AllPaid'
  <1>1. /\ OneRecord(queue') /\ Coming(run', Within, Doubt) = 1
        /\ Once(Recorded(queue')) + Vacant(Within, queue') <= Vacant(Within, <<>>) + 1
    BY EndRunPays
  <1>2. /\ mishaps' = mishaps + 1 /\ Once(Counted(queue')) \in Nat
        /\ Coming(run, Within, Doubt) \in Nat /\ Vacant(Within, <<>>) \in Nat
        /\ Vacant(Within, queue') \in Nat /\ Once(Recorded(queue')) \in Nat
        /\ ToClear(run, Within, Credited, Doubt) \in Nat
        /\ ToClear(run', Within, Credited', Doubt) \in {0, 1, 2}
    <2>1. /\ Once(Counted(queue')) \in {0, 1} /\ Vacant(Within, <<>>) \in {0, 1}
          /\ Vacant(Within, queue') \in {0, 1} /\ Once(Recorded(queue')) \in {0, 1}
      BY Numbers01
    <2>2. Coming(run, Within, Doubt) \in {0, 1, 2}
      BY Numbers01
    <2>3. /\ ToClear(run, Within, Credited, Doubt) \in {0, 1, 2}
          /\ ToClear(run', Within, Credited', Doubt) \in {0, 1, 2}
      BY Numbers01
    <2> QED  BY <2>1, <2>2, <2>3 DEF Mishap
  <1>3. /\ Once(Recorded(queue')) + Vacant(Within, queue') + Coming(run', Within, Doubt)
             <= Vacant(Within, <<>>) + Coming(run, Within, Doubt)
                  + Once(Counted(queue')) + 2 * 1
        /\ ToClear(run', Within, Credited', Doubt)
             <= ToClear(run, Within, Credited, Doubt) + Once(Counted(queue')) + 2 * 1
    <2> DEFINE p == Once(Recorded(queue'))
               w == Vacant(Within, queue')
               v == Vacant(Within, <<>>)
               a == Coming(run, Within, Doubt)
               e == ToClear(run, Within, Credited, Doubt)
               f == ToClear(run', Within, Credited', Doubt)
               c == Once(Counted(queue'))
    <2>1. /\ p + w <= v + 1 /\ p \in Nat /\ w \in Nat /\ v \in Nat /\ a \in Nat
          /\ e \in Nat /\ f \in {0, 1, 2} /\ c \in Nat
      BY <1>1, <1>2
    <2> HIDE DEF p, w, v, a, e, f, c
    <2>2. p + w + 1 <= v + a + c + 2 * 1 /\ f <= e + c + 2 * 1
      BY <2>1
    <2> QED  BY <1>1, <2>2 DEF p, w, v, a, e, f, c
  <1> QED  BY <1>1, <1>2, <1>3, PollPays

LEMMA ResetFailsPays == ASSUME IInv, AllPaid, PollResetFails PROVE AllPaid'
  <1>1. /\ queue = <<>> /\ Mishap
        /\ EndRun(run, "reset_failed", TRUE, FALSE, <<Record(run, "reset_failed")>>)
        /\ UNCHANGED <<inside, full, job, cleared, clears, returns, rows, done>>
    BY DEF PollResetFails, Live, Phase, Poll, world, party, database
  <1>2. run \in RunStates /\ "reset_failed" \in Outcomes
    BY TypesGive DEF IInv, Outcomes, Unentered
  <1> QED  BY <1>1, <1>2, OneRecords, FailurePays

LEMMA SplitsPays == ASSUME IInv, AllPaid, PollSplits PROVE AllPaid'
  <1> DEFINE last == IF RowOf(Stamped) # 0 THEN <<Stamp(Stamped)>>
                     ELSE <<Record(run, "split_failed")>>
  <1>1. /\ queue = <<>> /\ Mishap
        /\ EndRun(Stamped, "split_failed", job, FALSE, Stamps \o last)
        /\ UNCHANGED <<inside, full, job, cleared, clears, returns, rows, done>>
    BY DEF PollSplits, Live, Phase, Poll, world, party, database
  <1>2. /\ run \in RunStates /\ Stamped \in RunStates /\ "split_failed" \in Outcomes
        /\ Stamps \in Seq(Writes)
    BY TypesGive, StampedGives DEF IInv, Outcomes, Unentered
  <1>3. /\ last \in Seq(Writes) /\ OneRecord(last) /\ ~ Closing(last)
        /\ Recorded(last) => RowOf(Stamped) = 0
    BY <1>2, OneRecords, NoRecordIsOne
  <1>4. ~ Recorded(Stamps) /\ ~ Closing(Stamps) /\ OneRecord(Stamps)
    BY StampsAreQuiet, NoRecordIsOne DEF IInv
  <1> HIDE DEF last
  <1>5. /\ Stamps \o last \in Seq(Writes) /\ OneRecord(Stamps \o last)
        /\ Sent(Stamps \o last) = Sent(Stamps) \cup Sent(last)
    BY <1>2, <1>3, <1>4, SentBoth, ConcatProperties
  <1>6. ~ Closing(Stamps \o last) /\ (Recorded(Stamps \o last) => RowOf(Stamped) = 0)
    BY <1>3, <1>4, <1>5 DEF Closing, Recorded
  <1> QED  BY <1>1, <1>2, <1>5, <1>6, FailurePays

LEMMA StagingFailsPays == ASSUME IInv, AllPaid, PollStagingFails PROVE AllPaid'
  <1>1. /\ queue = <<>> /\ run.phase \in {"Gathering", "Barrier"}
        /\ IF inside = {} THEN Mishap ELSE NoMishap
        /\ UNCHANGED <<inside, full, job, cleared, clears, returns, rows, done>>
    BY DEF PollStagingFails, Live, Phase, Poll, world, party, database
  <1> DEFINE s == [run EXCEPT !.row = RowOf(run)]
             sent(written) == IF ~ written THEN <<>>
                              ELSE IF RowOf(run) # 0 THEN <<Stamp(s)>>
                              ELSE <<Record(run, "staging_failed")>>
  <1>2. PICK written \in BOOLEAN : EndRun(run, "staging_failed", TRUE, FALSE, sent(written))
    BY Zenon DEF PollStagingFails
  <1>3. run \in RunStates /\ "staging_failed" \in Outcomes /\ s \in RunStates
    <2>1. run \in RunStates /\ ActiveRow \in Nat
      BY TypesGive, Reads DEF IInv
    <2> QED  BY <2>1 DEF RunStates, RowOf, Outcomes, Unentered
  <1> DEFINE before == sent(written)
  <1>4. /\ before \in Seq(Writes) /\ OneRecord(before) /\ ~ Closing(before)
        /\ Recorded(before) => RowOf(run) = 0
    <2> HIDE DEF s
    <2> QED  BY <1>3, OneRecords, NoRecordIsOne, NoneQueued, OneAtMost
  <1>5. EndRun(run, "staging_failed", TRUE, FALSE, before)
    BY <1>2
  <1> HIDE DEF before, s
  <1>6. CASE inside = {}
    BY <1>1, <1>3, <1>4, <1>5, <1>6, FailurePays
  <1>7. CASE inside # {}
    <2>1. /\ OneRecord(queue') /\ Coming(run', Within, Doubt) = 1
          /\ ToClear(run', Within, Credited', Doubt)
               = IF Within = 1 /\ Credited = 0 THEN 1 + Doubt ELSE 1
          /\ Once(Recorded(queue')) + Vacant(Within, queue') <= Vacant(Within, <<>>) + 1
      BY <1>1, <1>3, <1>4, <1>5, EndRunPays
    <2>2. mishaps' = mishaps + 0 /\ Once(Counted(queue')) \in Nat
      BY <1>1, <1>7, TypesGive, Constants, Numbers01 DEF IInv, NoMishap
    <2>3. /\ Coming(run, Within, Doubt) = 2
          /\ ToClear(run, Within, Credited, Doubt)
               = IF Within = 1 /\ Credited = 0 THEN 1 + Doubt ELSE 1
      BY <1>1, <1>7, PhaseIs, ComingBefore
    <2>4. /\ Vacant(Within, <<>>) \in Nat /\ Vacant(Within, queue') \in Nat
          /\ Once(Recorded(queue')) \in Nat /\ Doubt \in Nat
      BY Numbers01
    <2>5. /\ Once(Recorded(queue')) + Vacant(Within, queue') + Coming(run', Within, Doubt)
               <= Vacant(Within, <<>>) + Coming(run, Within, Doubt)
                    + Once(Counted(queue')) + 2 * 0
          /\ ToClear(run', Within, Credited', Doubt)
               <= ToClear(run, Within, Credited, Doubt) + Once(Counted(queue')) + 2 * 0
      BY <2>1, <2>2, <2>3, <2>4
    <2> QED  BY <1>1, <2>1, <2>2, <2>5, PollPays
  <1> QED  BY <1>6, <1>7

LEMMA CoordinatorPays ==
    ASSUME IInv, RunsWanted, AllPaid, CoordinatorPoll
    PROVE  AllPaid'
  BY HoldsOutPays, StandsDownPays, GoesOnPays, ResetsPays, OpensPays, GoesInsidePays,
     EvacuatesPays, ChoosesPays, AdoptsPays, StartsPays, GivesUpPays, FinalizesPays,
     ExitsPays, FindsNobodyPays, ResetFailsPays, SplitsPays, StagingFailsPays
  DEF CoordinatorPoll, PollIdle, PollOutside, PollInside, PollLeaves, PollRecovery

(***************************************************************************)
(* The world and the worker.                                               *)
(***************************************************************************)
LEMMA Balanced ==
    ASSUME NEW x \in Nat, NEW c \in Nat, NEW d \in Nat, NEW m \in Nat,
           NEW x1 \in Nat, NEW c1 \in Nat, NEW d1 \in Nat, NEW k \in Nat,
           x <= d + c + 2 * m + 1,
           x1 + d + c <= x + 2 * k + d1 + c1
    PROVE  x1 <= d1 + c1 + 2 * (m + k) + 1
  OBVIOUS

LEMMA StepPays ==
    ASSUME IInv, IInv', AllPaid, OneRecord(queue'),
           NEW k \in {0, 1}, mishaps' + returns' = mishaps + returns + k,
           Len(rows') + Once(Recorded(queue')) + Vacant(Within, queue)'
               + Coming(run', Within', Doubt') + done + Once(Counted(queue))
             <= Len(rows) + Once(Recorded(queue)) + Vacant(Within, queue)
                  + Coming(run, Within, Doubt) + 2 * k + done' + Once(Counted(queue')),
           clears' + ToClear(run', Within', Credited', Doubt') + done + Once(Counted(queue))
             <= clears + ToClear(run, Within, Credited, Doubt) + 2 * k
                  + done' + Once(Counted(queue'))
    PROVE  AllPaid'
  <1>1. /\ done \in Nat /\ clears \in Nat /\ mishaps \in Nat /\ returns \in Nat
        /\ Len(rows) \in Nat
    <2>1. mishaps \in 0 .. MaxMishaps /\ returns \in 0 .. MaxReturns
          /\ MaxMishaps \in Nat /\ MaxReturns \in Nat
      BY TypesGive, Constants DEF IInv
    <2> QED  BY <2>1, TypesGive, RowIs DEF IInv
  <1>2. /\ done' \in Nat /\ clears' \in Nat /\ mishaps' \in Nat /\ returns' \in Nat
        /\ Len(rows') \in Nat
    <2>1. mishaps' \in 0 .. MaxMishaps /\ returns' \in 0 .. MaxReturns
          /\ MaxMishaps \in Nat /\ MaxReturns \in Nat
      BY Constants DEF IInv, Types, PartyTypes
    <2>2. done' \in Nat /\ clears' \in Nat /\ rows' \in Seq(Rows)
      BY DEF IInv, Types, PartyTypes, TableTypes
    <2> QED  BY <2>1, <2>2, LenProperties
  <1> DEFINE p == Once(Recorded(queue))
             v == Vacant(Within, queue)
             a == Coming(run, Within, Doubt)
             g == ToClear(run, Within, Credited, Doubt)
             c == Once(Counted(queue))
             p1 == Once(Recorded(queue'))
             v1 == Vacant(Within, queue)'
             a1 == Coming(run', Within', Doubt')
             g1 == ToClear(run', Within', Credited', Doubt')
             c1 == Once(Counted(queue'))
  <1>3. /\ p \in Nat /\ v \in Nat /\ a \in Nat /\ g \in Nat /\ c \in Nat
        /\ p1 \in Nat /\ v1 \in Nat /\ a1 \in Nat /\ g1 \in Nat /\ c1 \in Nat
    <2>1. p \in {0, 1} /\ v \in {0, 1} /\ c \in {0, 1} /\ p1 \in {0, 1} /\ c1 \in {0, 1}
      BY Numbers01
    <2>2. a \in {0, 1, 2} /\ g \in {0, 1, 2}
      BY Numbers01 DEF a, g
    <2>3. v1 \in {0, 1}
      BY DEF Vacant, Once
    <2>4. a1 \in {0, 1, 2} /\ g1 \in {0, 1, 2}
      BY Numbers01 DEF a1, g1
    <2> HIDE DEF p, v, a, g, c, p1, v1, a1, g1, c1
    <2> QED  BY <2>1, <2>2, <2>3, <2>4
  <1>4. /\ Len(rows) + p + v + a <= done + c + 2 * (mishaps + returns) + 1
        /\ clears + g <= done + c + 2 * (mishaps + returns) + 1
    BY DEF AllPaid, RowsPaid, ClearsPaid, Paid
  <1>5. /\ Len(rows') + p1 + v1 + a1 + done + c <= Len(rows) + p + v + a + 2 * k + done' + c1
        /\ clears' + g1 + done + c <= clears + g + 2 * k + done' + c1
    OBVIOUS
  <1>6. /\ RowsPaid' <=> Len(rows') + p1 + v1 + a1
                           <= done' + c1 + 2 * (mishaps' + returns') + 1
        /\ ClearsPaid' <=> clears' + g1 <= done' + c1 + 2 * (mishaps' + returns') + 1
    BY DEF RowsPaid, ClearsPaid, Paid, Once, Recorded, Counted, Sent
  <1> HIDE DEF p, v, a, g, c, p1, v1, a1, g1, c1
  <1>7. /\ Len(rows') + p1 + v1 + a1 <= done' + c1 + 2 * (mishaps' + returns') + 1
        /\ clears' + g1 <= done' + c1 + 2 * (mishaps' + returns') + 1
    <2> DEFINE m == mishaps + returns
               m1 == mishaps' + returns'
    <2>1. m \in Nat /\ m1 = m + k
      BY <1>1
    <2>2. Len(rows) + p + v + a <= done + c + 2 * m + 1 /\ clears + g <= done + c + 2 * m + 1
      BY <1>4
    <2> HIDE DEF m, m1
    <2> DEFINE x == Len(rows) + p + v + a
               x1 == Len(rows') + p1 + v1 + a1
               y == clears + g
               y1 == clears' + g1
    <2>3. /\ x \in Nat /\ x1 \in Nat /\ y \in Nat /\ y1 \in Nat /\ k \in Nat
      <3>1. x \in Nat
        BY <1>1, <1>3
      <3>2. x1 \in Nat
        BY <1>2, <1>3
      <3>3. y \in Nat
        BY <1>1, <1>3
      <3>4. y1 \in Nat
        <4> DEFINE u == clears'
        <4>1. u \in Nat /\ g1 \in Nat
          BY <1>2, <1>3
        <4> HIDE DEF u
        <4>2. u + g1 \in Nat
          BY <4>1
        <4> QED  BY <4>2 DEF u
      <3>5. k \in Nat
        OBVIOUS
      <3> QED  BY <3>1, <3>2, <3>3, <3>4, <3>5
    <2>4. /\ x <= done + c + 2 * m + 1 /\ x1 + done + c <= x + 2 * k + done' + c1
          /\ y <= done + c + 2 * m + 1 /\ y1 + done + c <= y + 2 * k + done' + c1
      BY <1>5, <2>2
    <2> HIDE DEF x, x1, y, y1
    <2>5. done \in Nat /\ done' \in Nat /\ c \in Nat /\ c1 \in Nat /\ m \in Nat
      BY <1>1, <1>2, <1>3, <2>1
    <2> DEFINE d1 == done'
    <2>8. /\ d1 \in Nat /\ x1 + done + c <= x + 2 * k + d1 + c1
          /\ y1 + done + c <= y + 2 * k + d1 + c1
      BY <2>4, <2>5
    <2> HIDE DEF d1
    <2>6. x1 <= d1 + c1 + 2 * (m + k) + 1
      BY ONLY <2>3, <2>4, <2>5, <2>8, Balanced
    <2>7. y1 <= d1 + c1 + 2 * (m + k) + 1
      BY ONLY <2>3, <2>4, <2>5, <2>8, Balanced
    <2> QED  BY <2>1, <2>6, <2>7 DEF d1, m1, x1, y1
  <1> QED  BY <1>6, <1>7 DEF AllPaid, OneRecord

LEMMA ElsewherePays ==
    ASSUME IInv, IInv', AllPaid, UNCHANGED <<run, queue, done>>,
           NEW k \in {0, 1}, mishaps' + returns' = mishaps + returns + k,
           NEW l \in {0, 1}, Len(rows') = Len(rows) + l,
           NEW n \in {0, 1}, clears' = clears + n,
           l + Vacant(Within, queue)' + Coming(run, Within', Doubt')
             <= Vacant(Within, queue) + Coming(run, Within, Doubt) + 2 * k,
           n + ToClear(run, Within', Credited', Doubt')
             <= ToClear(run, Within, Credited, Doubt) + 2 * k
    PROVE  AllPaid'
  <1> DEFINE p == Once(Recorded(queue))
             v == Vacant(Within, queue)
             a == Coming(run, Within, Doubt)
             g == ToClear(run, Within, Credited, Doubt)
             c == Once(Counted(queue))
             v1 == Vacant(Within, queue)'
             a1 == Coming(run, Within', Doubt')
             g1 == ToClear(run, Within', Credited', Doubt')
             x == Len(rows)
             y == clears
             d == done
  <1>1. /\ p \in Nat /\ v \in Nat /\ c \in Nat /\ v1 \in Nat
    <2>1. p \in {0, 1} /\ v \in {0, 1} /\ c \in {0, 1}
      BY Numbers01
    <2>2. v1 \in {0, 1}
      BY DEF Vacant, Once
    <2> HIDE DEF p, v, c, v1
    <2> QED  BY <2>1, <2>2
  <1>2. a \in Nat /\ g \in Nat /\ a1 \in Nat /\ g1 \in Nat
    <2>1. a \in {0, 1, 2} /\ g \in {0, 1, 2}
      BY Numbers01 DEF a, g
    <2>2. a1 \in {0, 1, 2} /\ g1 \in {0, 1, 2}
      BY Numbers01 DEF a1, g1
    <2> HIDE DEF a, g, a1, g1
    <2> QED  BY <2>1, <2>2
  <1>3. x \in Nat /\ y \in Nat /\ d \in Nat
    BY TypesGive, RowIs DEF IInv
  <1>4. l + v1 + a1 <= v + a + 2 * k /\ n + g1 <= g + 2 * k
    OBVIOUS
  <1> HIDE DEF p, v, a, g, c, v1, a1, g1, x, y, d
  <1>5. (x + l) + p + v1 + a1 + d + c <= x + p + v + a + 2 * k + d + c
    BY <1>1, <1>2, <1>3, <1>4
  <1>6. (y + n) + g1 + d + c <= y + g + 2 * k + d + c
    BY <1>1, <1>2, <1>3, <1>4
  <1>7. OneRecord(queue')
    BY DEF AllPaid
  <1> QED  BY <1>5, <1>6, <1>7, StepPays DEF p, v, a, g, c, v1, a1, g1, x, y, d

LEMMA VacantThere ==
    ASSUME queue' = queue
    PROVE  /\ Vacant(Within, queue) \in {0, 1} /\ Vacant(Within, queue)' \in {0, 1}
           /\ Within' = 0 => Vacant(Within, queue)' = 0
           /\ Within = 0 => Vacant(Within, queue) = 0
           /\ rows' = rows /\ Within' = Within => Vacant(Within, queue)' = Vacant(Within, queue)
  BY DEF Vacant, Once, ActiveRow, Closing, Sent

LEMMA ComingThere ==
    ASSUME IInv
    PROVE  /\ Within' \in {0, 1} /\ Credited' \in {0, 1} /\ Doubt' \in {0, 1}
           /\ run.phase \in {"Idle", "Resetting", "Repairing", "Recovering"}
                => Coming(run, Within', Doubt') = 1
           /\ run.phase \in {"Gathering", "Barrier"}
                => Coming(run, Within', Doubt') = 1 + Within'
           /\ run.phase \in {"Enter", "StagedInside", "Clearing"}
                => Coming(run, Within', Doubt') = (1 - Within') + Doubt'
           /\ run.phase = "Exiting"
                => /\ Coming(run, Within', Doubt')
                         = IF run.verdict = "complete" THEN 0 ELSE 1
                   /\ ToClear(run, Within', Credited', Doubt')
                         = IF run.verdict = "complete" THEN 0 ELSE 1
           /\ run.phase \in {"Idle", "Resetting", "Repairing", "Recovering",
                             "Gathering", "Barrier"}
                => ToClear(run, Within', Credited', Doubt')
                     = IF Within' = 1 /\ Credited' = 0 THEN 1 + Doubt' ELSE 1
           /\ run.phase \in {"Enter", "StagedInside", "Clearing"}
                => ToClear(run, Within', Credited', Doubt')
                     = IF Credited' = 0 THEN 1 + Doubt' ELSE IF Within' = 1 THEN Doubt' ELSE 1
           /\ inside' = {} <=> Within' = 0
           /\ inside' = inside => Within' = Within
           /\ cleared' = cleared => Credited' = Credited
           /\ UNCHANGED <<job, full>> => Doubt' = Doubt
  <1>1. Within' \in {0, 1} /\ Credited' \in {0, 1} /\ Doubt' \in {0, 1}
    BY Numbers01
  <1>2. /\ inside' = {} <=> Within' = 0
        /\ inside' = inside => Within' = Within
        /\ cleared' = cleared => Credited' = Credited
        /\ UNCHANGED <<job, full>> => Doubt' = Doubt
    BY DEF Within, Credited, Doubt, Once
  <1> QED  BY <1>1, <1>2, ComingIs

\* No mishap, and no row opened.
LEMMA EasyPays ==
    ASSUME IInv, IInv', AllPaid,
           UNCHANGED <<run, queue, done, mishaps, returns, rows, clears>>,
           Vacant(Within, queue)' + Coming(run, Within', Doubt')
             <= Vacant(Within, queue) + Coming(run, Within, Doubt),
           ToClear(run, Within', Credited', Doubt')
             <= ToClear(run, Within, Credited, Doubt)
    PROVE  AllPaid'
  <1>1. /\ mishaps \in Nat /\ returns \in Nat /\ Len(rows) \in Nat /\ clears \in Nat
    <2>1. mishaps \in 0 .. MaxMishaps /\ returns \in 0 .. MaxReturns
          /\ MaxMishaps \in Nat /\ MaxReturns \in Nat
      BY TypesGive, Constants DEF IInv
    <2> QED  BY <2>1, TypesGive, RowIs DEF IInv
  <1>2. /\ mishaps' + returns' = mishaps + returns + 0 /\ Len(rows') = Len(rows) + 0
        /\ clears' = clears + 0
    BY <1>1
  <1> DEFINE v == Vacant(Within, queue)
             a == Coming(run, Within, Doubt)
             g == ToClear(run, Within, Credited, Doubt)
             v1 == Vacant(Within, queue)'
             a1 == Coming(run, Within', Doubt')
             g1 == ToClear(run, Within', Credited', Doubt')
  <1>3. v \in {0, 1} /\ v1 \in {0, 1} /\ a \in {0, 1, 2} /\ g \in {0, 1, 2}
        /\ a1 \in {0, 1, 2} /\ g1 \in {0, 1, 2}
    <2>1. v \in {0, 1} /\ v1 \in {0, 1}
      BY VacantThere
    <2>2. a \in {0, 1, 2} /\ g \in {0, 1, 2}
      BY Numbers01 DEF a, g
    <2>3. a1 \in {0, 1, 2} /\ g1 \in {0, 1, 2}
      BY Numbers01 DEF a1, g1
    <2> QED  BY <2>1, <2>2, <2>3
  <1>4. v1 + a1 <= v + a /\ g1 <= g
    OBVIOUS
  <1> HIDE DEF v, a, g, v1, a1, g1
  <1>5. 0 + v1 + a1 <= v + a + 2 * 0 /\ 0 + g1 <= g + 2 * 0
    BY <1>3, <1>4
  <1> QED  BY <1>2, <1>5, ElsewherePays DEF v, a, g, v1, a1, g1

\* A mishap, or a ghost that runs back in.
LEMMA CostlyPays ==
    ASSUME IInv, IInv', AllPaid, UNCHANGED <<run, queue, done, rows, clears>>,
           \/ mishaps' = mishaps + 1 /\ returns' = returns
           \/ returns' = returns + 1 /\ mishaps' = mishaps,
           Vacant(Within, queue)' + Coming(run, Within', Doubt')
             <= Vacant(Within, queue) + Coming(run, Within, Doubt) + 2
    PROVE  AllPaid'
  <1>1. /\ mishaps \in Nat /\ returns \in Nat /\ Len(rows) \in Nat /\ clears \in Nat
    <2>1. mishaps \in 0 .. MaxMishaps /\ returns \in 0 .. MaxReturns
          /\ MaxMishaps \in Nat /\ MaxReturns \in Nat
      BY TypesGive, Constants DEF IInv
    <2> QED  BY <2>1, TypesGive, RowIs DEF IInv
  <1>2. /\ mishaps' + returns' = mishaps + returns + 1 /\ Len(rows') = Len(rows) + 0
        /\ clears' = clears + 0
    BY <1>1
  <1> DEFINE v == Vacant(Within, queue)
             a == Coming(run, Within, Doubt)
             g == ToClear(run, Within, Credited, Doubt)
             v1 == Vacant(Within, queue)'
             a1 == Coming(run, Within', Doubt')
             g1 == ToClear(run, Within', Credited', Doubt')
  <1>3. v \in {0, 1} /\ v1 \in {0, 1} /\ a \in {0, 1, 2} /\ g \in {0, 1, 2}
        /\ a1 \in {0, 1, 2} /\ g1 \in {0, 1, 2}
    <2>1. v \in {0, 1} /\ v1 \in {0, 1}
      BY VacantThere
    <2>2. a \in {0, 1, 2} /\ g \in {0, 1, 2}
      BY Numbers01 DEF a, g
    <2>3. a1 \in {0, 1, 2} /\ g1 \in {0, 1, 2}
      BY Numbers01 DEF a1, g1
    <2> QED  BY <2>1, <2>2, <2>3
  <1>4. v1 + a1 <= v + a + 2
    OBVIOUS
  <1> HIDE DEF v, a, g, v1, a1, g1
  <1>5. 0 + v1 + a1 <= v + a + 2 * 1 /\ 0 + g1 <= g + 2 * 1
    BY <1>3, <1>4
  <1> QED  BY <1>2, <1>5, ElsewherePays DEF v, a, g, v1, a1, g1

LEMMA WalksPay == ASSUME IInv, IInv', AllPaid, Walks PROVE AllPaid'
  <1>1. PICK m \in Members : WalksIn(m) \/ WalksOut(m) \/ Rises(m)
    BY DEF Walks
  <1>2. UNCHANGED <<run, queue, done, mishaps, returns, rows, clears, cleared, job, full>>
    BY <1>1 DEF WalksIn, WalksOut, Rises, Elsewhere, coordinator, database, spent
  <1>3. CASE WalksIn(m)
    <2>1. run.phase \in {"Enter", "StagedInside"} /\ inside' # {}
      BY <1>3 DEF WalksIn
    <2>2. /\ Vacant(Within, queue)' + Coming(run, Within', Doubt')
               <= Vacant(Within, queue) + Coming(run, Within, Doubt)
          /\ ToClear(run, Within', Credited', Doubt') <= ToClear(run, Within, Credited, Doubt)
      BY <1>2, <2>1, PhaseIs, VacantThere, ComingBefore, ComingThere
    <2> QED  BY <1>2, <2>2, EasyPays
  <1>4. CASE WalksOut(m)
    <2>1. run.phase \in {"Exiting", "Repairing", "Resetting", "Idle"} /\ inside # {}
      BY <1>4 DEF WalksOut
    <2>2. /\ Vacant(Within, queue)' + Coming(run, Within', Doubt')
               <= Vacant(Within, queue) + Coming(run, Within, Doubt)
          /\ ToClear(run, Within', Credited', Doubt') <= ToClear(run, Within, Credited, Doubt)
      BY <1>2, <2>1, PhaseIs, VacantThere, ComingBefore, ComingThere
    <2> QED  BY <1>2, <2>2, EasyPays
  <1>5. CASE Rises(m)
    <2>1. inside' = inside
      BY <1>5 DEF Rises
    <2>2. /\ Vacant(Within, queue)' + Coming(run, Within', Doubt')
               <= Vacant(Within, queue) + Coming(run, Within, Doubt)
          /\ ToClear(run, Within', Credited', Doubt') <= ToClear(run, Within, Credited, Doubt)
      BY <1>2, <2>1, PhaseIs, VacantThere, ComingBefore, ComingThere DEF Phases, Fresh
    <2> QED  BY <1>2, <2>2, EasyPays
  <1> QED  BY <1>1, <1>3, <1>4, <1>5

LEMMA MishapsPay ==
    ASSUME IInv, IInv', AllPaid,
           \/ \E m \in Members : Dies(m) \/ RunsBackIn(m)
           \/ BagsFill \/ JobGoes
    PROVE  AllPaid'
  <1>1. /\ UNCHANGED <<run, queue, done, rows, clears>>
        /\ \/ mishaps' = mishaps + 1 /\ returns' = returns
           \/ returns' = returns + 1 /\ mishaps' = mishaps
    BY DEF Dies, RunsBackIn, BagsFill, JobGoes, Elsewhere, Mishap, coordinator, database, world
  <1>2. \/ inside' = inside
        \/ inside # {} /\ UNCHANGED <<job, full>>
        \/ inside' # {} /\ UNCHANGED <<job, full>>
    BY DEF Dies, RunsBackIn, BagsFill, JobGoes, Elsewhere, party, world
  <1>3. Vacant(Within, queue)' + Coming(run, Within', Doubt')
           <= Vacant(Within, queue) + Coming(run, Within, Doubt) + 2
    BY <1>1, <1>2, PhaseIs, VacantThere, ComingBefore, ComingThere DEF Phases, Fresh
  <1> QED  BY <1>1, <1>3, CostlyPays

LEMMA ReliefPays == ASSUME IInv, IInv', AllPaid, BagsEmpty \/ JobComes PROVE AllPaid'
  <1>1. UNCHANGED <<run, queue, done, mishaps, returns, rows, clears, cleared, inside>>
    BY DEF BagsEmpty, JobComes, Elsewhere, coordinator, database, spent, party, world
  <1>2. Doubt' <= Doubt
    <2>1. ~ job' \/ full' => ~ job \/ full
      BY DEF BagsEmpty, JobComes, Elsewhere, world
    <2> QED  BY <2>1 DEF Doubt, Once
  <1>3. /\ Vacant(Within, queue)' + Coming(run, Within', Doubt')
             <= Vacant(Within, queue) + Coming(run, Within, Doubt)
        /\ ToClear(run, Within', Credited', Doubt') <= ToClear(run, Within, Credited, Doubt)
    BY <1>1, <1>2, PhaseIs, VacantThere, ComingBefore, ComingThere DEF Phases, Fresh
  <1> QED  BY <1>1, <1>3, EasyPays

LEMMA BossPays == ASSUME IInv, IInv', AllPaid, LastBossDies PROVE AllPaid'
  <1>1. /\ UNCHANGED <<run, queue, done, mishaps, returns, rows, inside, job, full>>
        /\ run.phase \in {"StagedInside", "Clearing"} /\ inside # {}
        /\ ~ cleared /\ cleared' /\ clears' = clears + 1
    BY DEF LastBossDies, Elsewhere, coordinator, database, spent, party, world
  <1>2. Credited' = 1
    BY <1>1 DEF Credited, Once
  <1>3. /\ mishaps \in Nat /\ returns \in Nat /\ Len(rows) \in Nat
    <2>1. mishaps \in 0 .. MaxMishaps /\ returns \in 0 .. MaxReturns
          /\ MaxMishaps \in Nat /\ MaxReturns \in Nat
      BY TypesGive, Constants DEF IInv
    <2> QED  BY <2>1, RowIs DEF IInv
  <1>4. /\ mishaps' + returns' = mishaps + returns + 0 /\ Len(rows') = Len(rows) + 0
    BY <1>1, <1>3
  <1>5. /\ 0 + Vacant(Within, queue)' + Coming(run, Within', Doubt')
             <= Vacant(Within, queue) + Coming(run, Within, Doubt) + 2 * 0
        /\ 1 + ToClear(run, Within', Credited', Doubt')
             <= ToClear(run, Within, Credited, Doubt) + 2 * 0
    BY <1>1, <1>2, PhaseIs, VacantThere, ComingBefore, ComingThere
  <1> QED  BY <1>1, <1>4, <1>5, ElsewherePays

(***************************************************************************)
(* The worker, the rows that open and close by themselves, the restart.    *)
(***************************************************************************)
LEMMA ActiveIs ==
    ASSUME NEW t \in Seq(Rows)
    PROVE  LastOf({i \in DOMAIN t : t[i].outcome = "active"}) = 0
             <=> \A i \in DOMAIN t : t[i].outcome # "active"
  <1> DEFINE S == {i \in DOMAIN t : t[i].outcome = "active"}
  <1>1. S \in SUBSET (1 .. Len(t)) /\ Len(t) \in Nat
    BY LenProperties
  <1>2. (S = {} => LastOf(S) = 0) /\ (S # {} => LastOf(S) # 0)
    BY <1>1, LastOfIs
  <1>3. S = {} <=> \A i \in DOMAIN t : t[i].outcome # "active"
    OBVIOUS
  <1> HIDE DEF S
  <1>4. LastOf(S) = 0 <=> \A i \in DOMAIN t : t[i].outcome # "active"
    BY <1>2, <1>3
  <1> QED  BY <1>4 DEF S

\* What a statement does to the rows: one recorded is a row more, and only one
\* that closes may leave none active.
LEMMA RowsAfterHold ==
    ASSUME Types, NEW w \in Writes
    PROVE  /\ RowsAfter(w) \in Seq(Rows)
           /\ Len(RowsAfter(w)) = IF w.do = "record" THEN Len(rows) + 1 ELSE Len(rows)
           /\ w.do # "close" =>
                  \A i \in DOMAIN rows : /\ i \in DOMAIN RowsAfter(w)
                                         /\ RowsAfter(w)[i].outcome = rows[i].outcome
  <1>1. /\ rows \in Seq(Rows) /\ DOMAIN rows = 1 .. Len(rows) /\ Len(rows) \in Nat
        /\ \A j \in DOMAIN rows : rows[j] \in Rows
    BY TypesGive, RowIs
  <1>2. RowsAfter(w) \in Seq(Rows)
    BY TablesAfter
  <1>3. CASE w.do = "stamp" /\ w.row \in DOMAIN rows /\ rows[w.row].campaign = 0
    <2>1. RowsAfter(w) = [rows EXCEPT ![w.row].campaign = w.campaign, ![w.row].number = w.number]
      BY <1>3 DEF RowsAfter
    <2>2. DOMAIN RowsAfter(w) = DOMAIN rows
      BY <1>1, <2>1
    <2>3. Len(RowsAfter(w)) = Len(rows)
      BY <1>1, <1>2, <2>2, LenProperties
    <2>4. ASSUME NEW i \in DOMAIN rows PROVE RowsAfter(w)[i].outcome = rows[i].outcome
      <3>1. CASE i = w.row
        <4>1. RowsAfter(w)[i] = [[rows[i] EXCEPT !.campaign = w.campaign] EXCEPT !.number = w.number]
          BY <1>1, <2>1, <3>1
        <4> QED  BY <1>1, <4>1 DEF Rows
      <3>2. CASE i # w.row
        BY <1>1, <2>1, <3>2
      <3> QED  BY <3>1, <3>2
    <2> QED  BY <1>2, <1>3, <2>2, <2>3, <2>4
  <1>4. CASE w.do = "close" /\ Active(w.row)
    <2>1. RowsAfter(w) = [rows EXCEPT ![w.row].outcome = w.outcome]
      BY <1>4 DEF RowsAfter
    <2>2. DOMAIN RowsAfter(w) = DOMAIN rows
      BY <1>1, <2>1
    <2> QED  BY <1>1, <1>2, <1>4, <2>2, LenProperties
  <1>5. CASE w.do = "record"
    <2> DEFINE x == [campaign |-> w.campaign, number |-> w.number, outcome |-> w.outcome]
    <2>1. RowsAfter(w) = Append(rows, x)
      BY <1>5 DEF RowsAfter
    <2>2. x \in Rows
      BY <1>5 DEF Rows, Writes
    <2> HIDE DEF x
    <2>3. /\ Len(Append(rows, x)) = Len(rows) + 1
          /\ \A i \in 1 .. Len(rows) : Append(rows, x)[i] = rows[i]
      BY <1>1, <2>2, AppendProperties
    <2>4. DOMAIN RowsAfter(w) = 1 .. Len(rows) + 1
      BY <1>2, <2>1, <2>3, LenProperties
    <2>5. \A i \in 1 .. Len(rows) : i \in 1 .. Len(rows) + 1
      BY <1>1
    <2> QED  BY <1>1, <1>2, <1>5, <2>1, <2>3, <2>4, <2>5
  <1>6. CASE /\ ~ (w.do = "stamp" /\ w.row \in DOMAIN rows /\ rows[w.row].campaign = 0)
             /\ ~ (w.do = "close" /\ Active(w.row))
             /\ w.do # "record"
    BY <1>1, <1>6 DEF RowsAfter
  <1> QED  BY <1>3, <1>4, <1>5, <1>6

\* The worker takes the first statement off.
LEMMA TailSent ==
    ASSUME NEW q \in Seq(Writes), q # <<>>
    PROVE  /\ Sent(q) = {Head(q)} \cup Sent(Tail(q))
           /\ OneRecord(q) => /\ OneRecord(Tail(q))
                              /\ Head(q).do = "record" => ~ Recorded(Tail(q))
  <1> DEFINE t == Tail(q)
  <1>1. /\ t \in Seq(Writes) /\ Len(t) = Len(q) - 1
        /\ \A i \in 1 .. Len(t) : t[i] = q[i + 1]
        /\ Len(q) \in Nat \ {0} /\ DOMAIN q = 1 .. Len(q) /\ DOMAIN t = 1 .. Len(t)
    BY HeadTailProperties, LenProperties, EmptySeq
  <1>2. Head(q) = q[1] /\ 1 \in DOMAIN q
    BY <1>1
  <1> HIDE DEF t
  <1>3. \A i \in DOMAIN t : i + 1 \in DOMAIN q /\ t[i] = q[i + 1] /\ i + 1 # 1 /\ i \in Nat
    BY <1>1
  <1>4. \A i \in DOMAIN q : i # 1 => i - 1 \in DOMAIN t /\ q[i] = t[i - 1]
    <2>1. \A i \in 1 .. Len(q) : i # 1 => i - 1 \in 1 .. Len(t) /\ (i - 1) + 1 = i
      BY <1>1
    <2> QED  BY <1>1, <2>1
  <1>5. Sent(q) = {Head(q)} \cup Sent(t)
    <2>1. Sent(q) \subseteq {Head(q)} \cup Sent(t)
      BY <1>2, <1>4 DEF Sent
    <2>2. {Head(q)} \cup Sent(t) \subseteq Sent(q)
      BY <1>2, <1>3 DEF Sent
    <2> QED  BY <2>1, <2>2
  <1>6. ASSUME OneRecord(q) PROVE OneRecord(t) /\ (Head(q).do = "record" => ~ Recorded(t))
    <2>1. ASSUME NEW i \in DOMAIN t, NEW j \in DOMAIN t,
                 t[i].do = "record", t[j].do = "record"
          PROVE  i = j
      <3>1. i + 1 = j + 1
        BY <1>3, <1>6, <2>1 DEF OneRecord
      <3> QED  BY <1>3, <3>1
    <2>2. ASSUME Head(q).do = "record", NEW i \in DOMAIN t, t[i].do = "record" PROVE FALSE
      BY <1>2, <1>3, <1>6, <2>2 DEF OneRecord
    <2> QED  BY <2>1, <2>2 DEF OneRecord, Recorded, Sent
  <1> QED  BY <1>5, <1>6 DEF t

LEMMA WorkerPays == ASSUME IInv, IInv', AllPaid, ApplyWrite PROVE AllPaid'
  <1> DEFINE w == Head(queue)
  <1>1. /\ queue # <<>> /\ queue' = Tail(queue) /\ rows' = RowsAfter(w)
        /\ done' = IF w.do = "count" THEN done + 1 ELSE done
        /\ UNCHANGED <<run, inside, cleared, full, job, clears, mishaps, returns>>
    BY DEF ApplyWrite, world, party, coordinator, spent
  <1>2. /\ queue \in Seq(Writes) /\ OneCount(queue) /\ Types /\ rows \in Seq(Rows)
        /\ done \in Nat /\ clears \in Nat /\ mishaps \in Nat /\ returns \in Nat
        /\ Len(rows) \in Nat
    <2>1. mishaps \in 0 .. MaxMishaps /\ returns \in 0 .. MaxReturns
          /\ MaxMishaps \in Nat /\ MaxReturns \in Nat
      BY TypesGive, Constants DEF IInv
    <2> QED  BY <2>1, TypesGive, RowIs DEF IInv
  <1>3. /\ w \in Writes
        /\ w.do = "count" => Counted(queue) /\ ~ Counted(queue')
        /\ w.do # "count" => (Counted(queue') <=> Counted(queue))
    <2>1. Sent(queue) = {w} \cup Sent(queue')
      BY <1>1, <1>2, TailSent
    <2> QED  BY <1>1, <1>2, <2>1, WorkerCounts, CountedIs
  <1>4. /\ OneRecord(queue')
        /\ w.do = "record" => Recorded(queue) /\ ~ Recorded(queue')
        /\ w.do # "record" => (Recorded(queue') <=> Recorded(queue))
        /\ w.do = "close" => Closing(queue)
        /\ Closing(queue') => Closing(queue)
    <2>1. Sent(queue) = {w} \cup Sent(queue')
      BY <1>1, <1>2, TailSent
    <2>2. OneRecord(queue)
      BY DEF AllPaid
    <2> QED  BY <1>1, <1>2, <2>1, <2>2, TailSent DEF Recorded, Closing
  <1>5. /\ rows' \in Seq(Rows)
        /\ Len(rows') = IF w.do = "record" THEN Len(rows) + 1 ELSE Len(rows)
        /\ w.do # "close" =>
               \A i \in DOMAIN rows : i \in DOMAIN rows' /\ rows'[i].outcome = rows[i].outcome
    BY <1>1, <1>2, <1>3, RowsAfterHold
  <1> HIDE DEF w
  <1>6. ActiveRow' = 0 /\ w.do # "close" => ActiveRow = 0
    <2>1. /\ ActiveRow = 0 <=> \A i \in DOMAIN rows : rows[i].outcome # "active"
          /\ ActiveRow' = 0 <=> \A i \in DOMAIN rows' : rows'[i].outcome # "active"
      BY <1>2, <1>5, ActiveIs DEF ActiveRow
    <2> QED  BY <1>5, <2>1
  <1>7. Within' = Within /\ Credited' = Credited /\ Doubt' = Doubt
    BY <1>1 DEF Within, Credited, Doubt
  <1>8. Vacant(Within, queue)' <= Vacant(Within, queue)
    <2>1. Within' = 1 /\ (ActiveRow' = 0 \/ Closing(queue'))
            => Within = 1 /\ (ActiveRow = 0 \/ Closing(queue))
      BY <1>4, <1>6, <1>7
    <2>2. Vacant(Within, queue)' = IF Within' = 1 /\ (ActiveRow' = 0 \/ Closing(queue'))
                                   THEN 1 ELSE 0
      BY DEF Vacant, Once, Closing, Sent
    <2>3. Vacant(Within, queue) = IF Within = 1 /\ (ActiveRow = 0 \/ Closing(queue))
                                  THEN 1 ELSE 0
      BY DEF Vacant, Once
    <2> QED  BY <2>1, <2>2, <2>3
  <1> DEFINE p == Once(Recorded(queue))
             p1 == Once(Recorded(queue'))
             c == Once(Counted(queue))
             c1 == Once(Counted(queue'))
             v == Vacant(Within, queue)
             v1 == Vacant(Within, queue)'
             a == Coming(run, Within, Doubt)
             a1 == Coming(run', Within', Doubt')
             g == ToClear(run, Within, Credited, Doubt)
             g1 == ToClear(run', Within', Credited', Doubt')
             x == Len(rows)
             x1 == Len(rows')
             d1 == done'
             y1 == clears'
  <1>9. /\ x1 + p1 = x + p /\ d1 + c1 = done + c /\ y1 = clears
    <2>1. w.do = "record" => p = 1 /\ p1 = 0
      BY <1>4 DEF Once
    <2>2. w.do # "record" => p1 = p
      BY <1>4 DEF Once
    <2>3. w.do = "count" => c = 1 /\ c1 = 0
      BY <1>3 DEF Once
    <2>4. w.do # "count" => c1 = c
      BY <1>3 DEF Once
    <2>5. p \in {0, 1} /\ c \in {0, 1}
      BY Numbers01
    <2> HIDE DEF p, p1, c, c1
    <2>6. x1 + p1 = x + p
      <3>1. x \in Nat /\ x1 = IF w.do = "record" THEN x + 1 ELSE x
        BY <1>2, <1>5
      <3> HIDE DEF x, x1
      <3> QED  BY <2>1, <2>2, <2>5, <3>1
    <2>7. d1 + c1 = done + c
      <3>1. done \in Nat /\ d1 = IF w.do = "count" THEN done + 1 ELSE done
        BY <1>1, <1>2
      <3> HIDE DEF d1
      <3> QED  BY <2>3, <2>4, <2>5, <3>1
    <2> QED  BY <1>1, <2>6, <2>7
  <1>10. a1 = a /\ g1 = g
    BY <1>1, <1>7
  <1>11. /\ p \in Nat /\ p1 \in Nat /\ c \in Nat /\ c1 \in Nat /\ v \in Nat /\ v1 \in Nat
         /\ a \in Nat /\ g \in Nat
    <2>1. /\ p \in {0, 1} /\ p1 \in {0, 1} /\ c \in {0, 1} /\ c1 \in {0, 1} /\ v \in {0, 1}
      BY Numbers01
    <2>2. v1 \in {0, 1}
      BY DEF Vacant, Once
    <2>3. a \in {0, 1, 2} /\ g \in {0, 1, 2}
      BY Numbers01 DEF a, g
    <2> HIDE DEF p, p1, c, c1, v, v1, a, g
    <2> QED  BY <2>1, <2>2, <2>3
  <1>12. x \in Nat /\ x1 \in Nat /\ d1 \in Nat
    BY <1>1, <1>2, <1>5
  <1>13. v1 <= v
    BY <1>8
  <1> HIDE DEF p, p1, c, c1, v, v1, a, a1, g, g1, x, x1, d1, y1
  <1>14. x1 + p1 + v1 + a1 + done + c <= x + p + v + a + 2 * 0 + d1 + c1
    BY ONLY <1>2, <1>9, <1>10, <1>11, <1>12, <1>13
  <1>15. y1 + g1 + done + c <= clears + g + 2 * 0 + d1 + c1
    BY ONLY <1>2, <1>9, <1>10, <1>11, <1>12
  <1>16. mishaps' + returns' = mishaps + returns + 0
    BY <1>1, <1>2
  <1> QED  BY <1>4, <1>14, <1>15, <1>16, StepPays
           DEF p, p1, c, c1, v, v1, a, a1, g, g1, x, x1, d1, y1

LEMMA RowsPay == ASSUME IInv, IInv', AllPaid, OpensRow \/ ClosesCold PROVE AllPaid'
  <1>1. /\ queue = <<>>
        /\ UNCHANGED <<run, queue, done, mishaps, returns, clears, inside, cleared, job, full>>
    BY DEF OpensRow, ClosesCold, world, party, coordinator, spent
  <1>2. /\ Types /\ rows \in Seq(Rows) /\ rows' \in Seq(Rows)
        /\ mishaps \in Nat /\ returns \in Nat /\ clears \in Nat /\ Len(rows) \in Nat
    <2>1. mishaps \in 0 .. MaxMishaps /\ returns \in 0 .. MaxReturns
          /\ MaxMishaps \in Nat /\ MaxReturns \in Nat
      BY TypesGive, Constants DEF IInv
    <2>2. rows' \in Seq(Rows)
      BY DEF IInv, Types, TableTypes
    <2> QED  BY <2>1, <2>2, TypesGive, RowIs DEF IInv
  <1>3. /\ mishaps' + returns' = mishaps + returns + 0 /\ clears' = clears + 0
    BY <1>1, <1>2
  <1>4. /\ Coming(run, Within', Doubt') = Coming(run, Within, Doubt)
        /\ ToClear(run, Within', Credited', Doubt') = ToClear(run, Within, Credited, Doubt)
        /\ Within' = Within
        /\ Coming(run, Within, Doubt) \in {0, 1, 2}
        /\ ToClear(run, Within, Credited, Doubt) \in {0, 1, 2}
    <2>1. Within' = Within /\ Credited' = Credited /\ Doubt' = Doubt
      BY <1>1 DEF Within, Credited, Doubt
    <2>2. Coming(run, Within, Doubt) \in {0, 1, 2}
      BY Numbers01
    <2>3. ToClear(run, Within, Credited, Doubt) \in {0, 1, 2}
      BY Numbers01
    <2> QED  BY <2>1, <2>2, <2>3
  <1>5. 0 + ToClear(run, Within', Credited', Doubt')
          <= ToClear(run, Within, Credited, Doubt) + 2 * 0
    BY <1>4
  <1>6. CASE OpensRow
    <2> DEFINE x == [campaign |-> 0, number |-> 0, outcome |-> "active"]
    <2>1. inside # {} /\ ActiveRow = 0 /\ rows' = Append(rows, x)
      BY <1>6 DEF OpensRow
    <2>2. x \in Rows
      BY DEF Rows
    <2> HIDE DEF x
    <2>3. /\ Len(rows') = Len(rows) + 1 /\ rows'[Len(rows) + 1] = x
      BY <1>2, <2>1, <2>2, AppendProperties
    <2>4. ActiveRow' # 0
      <3>1. Len(rows) + 1 \in DOMAIN rows'
        BY <1>2, <2>3, LenProperties
      <3>2. rows'[Len(rows) + 1].outcome = "active"
        BY <2>3 DEF x
      <3>3. ActiveRow' = 0 <=> \A i \in DOMAIN rows' : rows'[i].outcome # "active"
        BY <1>2, ActiveIs DEF ActiveRow
      <3> QED  BY <3>1, <3>2, <3>3
    <2>5. Vacant(Within, queue) = 1 /\ Vacant(Within, queue)' = 0
      <3>1. Within = 1 /\ ~ Closing(queue)
        BY <1>1, <2>1, PhaseIs, OneAtMost
      <3>2. ~ Closing(queue')
        BY <1>1, <3>1
      <3>3. Vacant(Within, queue)' = IF Within' = 1 /\ (ActiveRow' = 0 \/ Closing(queue'))
                                     THEN 1 ELSE 0
        BY DEF Vacant, Once, Closing, Sent
      <3>4. Vacant(Within, queue) = 1
        BY <2>1, <3>1 DEF Vacant, Once
      <3> QED  BY <2>4, <3>2, <3>3, <3>4
    <2>6. 1 + Vacant(Within, queue)' + Coming(run, Within', Doubt')
            <= Vacant(Within, queue) + Coming(run, Within, Doubt) + 2 * 0
      BY <1>4, <2>5
    <2> QED  BY <1>1, <1>3, <1>5, <2>3, <2>6, ElsewherePays
  <1>7. CASE ClosesCold
    <2>1. inside = {} /\ rows' = [rows EXCEPT ![ActiveRow].outcome = "emptied"]
      BY <1>7 DEF ClosesCold
    <2>2. Len(rows') = Len(rows) + 0
      <3>1. DOMAIN rows' = DOMAIN rows
        BY <1>2, <2>1
      <3> QED  BY <1>2, <3>1, LenProperties
    <2>3. Vacant(Within, queue) = 0 /\ Vacant(Within, queue)' = 0
      <3>1. Within = 0 /\ Within' = 0
        BY <1>4, <2>1, PhaseIs
      <3> QED  BY <1>1, <3>1, VacantThere
    <2>4. 0 + Vacant(Within, queue)' + Coming(run, Within', Doubt')
            <= Vacant(Within, queue) + Coming(run, Within, Doubt) + 2 * 0
      BY <1>4, <2>3
    <2> QED  BY <1>1, <1>3, <1>5, <2>2, <2>4, ElsewherePays
  <1> QED  BY <1>6, <1>7

\* A restart loses what was queued, a count at most, and is a mishap.
LEMMA RestartPays == ASSUME IInv, IInv', AllPaid, Restart PROVE AllPaid'
  <1>1. /\ run' = IdleRun /\ queue' = <<>> /\ mishaps' = mishaps + 1
        /\ UNCHANGED <<inside, cleared, full, job, rows, done, clears, returns>>
    BY DEF Restart, Mishap, world, party, database
  <1>2. /\ done \in Nat /\ clears \in Nat /\ mishaps \in Nat /\ returns \in Nat
        /\ Len(rows) \in Nat
    <2>1. mishaps \in 0 .. MaxMishaps /\ returns \in 0 .. MaxReturns
          /\ MaxMishaps \in Nat /\ MaxReturns \in Nat
      BY TypesGive, Constants DEF IInv
    <2> QED  BY <2>1, TypesGive, RowIs DEF IInv
  <1>3. /\ OneRecord(queue') /\ ~ Recorded(queue') /\ ~ Closing(queue') /\ ~ Counted(queue')
    BY <1>1, OneAtMost
  <1>4. Within' = Within /\ Credited' = Credited /\ Doubt' = Doubt
    BY <1>1 DEF Within, Credited, Doubt
  <1> DEFINE p == Once(Recorded(queue))
             p1 == Once(Recorded(queue'))
             c == Once(Counted(queue))
             c1 == Once(Counted(queue'))
             v == Vacant(Within, queue)
             v1 == Vacant(Within, queue)'
             a == Coming(run, Within, Doubt)
             a1 == Coming(run', Within', Doubt')
             g == ToClear(run, Within, Credited, Doubt)
             g1 == ToClear(run', Within', Credited', Doubt')
             x == Len(rows)
             x1 == Len(rows')
             d1 == done'
             y1 == clears'
  <1>5. p1 = 0 /\ c1 = 0
    BY <1>3 DEF Once
  <1>6. v1 <= v /\ v \in Nat /\ v1 \in Nat
    <2>1. ActiveRow' = ActiveRow
      BY <1>1 DEF ActiveRow
    <2>2. v1 = IF Within' = 1 /\ (ActiveRow' = 0 \/ Closing(queue')) THEN 1 ELSE 0
      BY DEF Vacant, Once, Closing, Sent
    <2>3. v = IF Within = 1 /\ (ActiveRow = 0 \/ Closing(queue)) THEN 1 ELSE 0
      BY DEF Vacant, Once
    <2> HIDE DEF v, v1
    <2> QED  BY <1>3, <1>4, <2>1, <2>2, <2>3
  <1>7. run'.phase = "Idle"
    BY <1>1, AtRest
  <1>8. a1 = 1 /\ a \in {0, 1, 2} /\ g \in {0, 1, 2} /\ g1 \in {0, 1, 2}
    <2>1. a1 = 1
      BY <1>4, <1>7, ComingAfter
    <2>2. a \in {0, 1, 2}
      BY Numbers01
    <2>3. g \in {0, 1, 2} /\ g1 \in {0, 1, 2}
      BY Numbers01 DEF g, g1
    <2> HIDE DEF a, a1, g, g1
    <2> QED  BY <2>1, <2>2, <2>3
  <1>9. c = 1 => g1 = g
    <2>1. ASSUME Counted(queue) PROVE g1 = g
      <3>1. run.phase \in {"Idle", "Repairing", "Recovering"}
        BY <2>1, PhaseIs DEF IInv, Phased, CountRests, Phases
      <3>2. g = IF Within = 1 /\ Credited = 0 THEN 1 + Doubt ELSE 1
        BY <3>1, ComingBefore
      <3>3. g1 = IF Within = 1 /\ Credited' = 0 THEN 1 + Doubt ELSE 1
        BY <1>4, <1>7, ComingAfter
      <3> QED  BY <1>4, <3>2, <3>3
    <2>2. ~ Counted(queue) => c = 0
      BY DEF Once
    <2> HIDE DEF c, g, g1
    <2> QED  BY <2>1, <2>2
  <1>10. c \in {0, 1} /\ p \in {0, 1}
    BY Numbers01
  <1>11. x1 = x /\ d1 = done /\ y1 = clears /\ x \in Nat
    BY <1>1, <1>2
  <1> HIDE DEF p, p1, c, c1, v, v1, a, a1, g, g1, x, x1, d1, y1
  <1>12. x1 + p1 + v1 + a1 + done + c <= x + p + v + a + 2 * 1 + d1 + c1
    BY ONLY <1>2, <1>5, <1>6, <1>8, <1>10, <1>11
  <1>13. y1 + g1 + done + c <= clears + g + 2 * 1 + d1 + c1
    BY ONLY <1>2, <1>5, <1>8, <1>9, <1>10, <1>11
  <1>14. mishaps' + returns' = mishaps + returns + 1
    BY <1>1, <1>2
  <1> QED  BY <1>3, <1>12, <1>13, <1>14, StepPays
           DEF p, p1, c, c1, v, v1, a, a1, g, g1, x, x1, d1, y1

LEMMA StandingPays == ASSUME AllPaid, UNCHANGED vars PROVE AllPaid'
  BY DEF AllPaid, RowsPaid, ClearsPaid, Paid, Vacant, Coming, ToClear, Within, Credited,
         Doubt, ActiveRow, Once, Recorded, Closing, Counted, Sent, OneRecord,
         vars, world, party, coordinator, database, spent

LEMMA NextPays ==
    ASSUME IInv, RunsWanted, AllPaid, [Next]_vars
    PROVE  AllPaid'
  <1>1. IInv'
    BY NextKeeps
  <1>2. \/ CoordinatorPoll \/ ApplyWrite \/ Walks
        \/ \E m \in Members : Dies(m) \/ RunsBackIn(m)
        \/ LastBossDies \/ BagsFill \/ BagsEmpty \/ JobGoes \/ JobComes
        \/ OpensRow \/ ClosesCold \/ Restart \/ UNCHANGED vars
    BY DEF Next
  <1> QED  BY <1>1, <1>2, CoordinatorPays, WorkerPays, WalksPay, MishapsPay, ReliefPays,
              BossPays, RowsPay, RestartPays, StandingPays

LEMMA InitPays == Init => AllPaid
  <1> SUFFICES ASSUME Init PROVE AllPaid
    OBVIOUS
  <1>1. /\ inside = {} /\ ~ cleared /\ queue = <<>> /\ rows = <<>> /\ run = IdleRun
        /\ done = 0 /\ clears = 0 /\ mishaps = 0 /\ returns = 0
    BY DEF Init
  <1>2. Within = 0 /\ Once(Recorded(queue)) = 0 /\ Once(Counted(queue)) = 0 /\ OneRecord(queue)
    BY <1>1, OneAtMost DEF Within, Once
  <1>3. Vacant(Within, queue) = 0
    BY <1>2 DEF Vacant, Once
  <1>4. Coming(run, Within, Doubt) = 1 /\ ToClear(run, Within, Credited, Doubt) = 1
    BY <1>1, <1>2, AtRest DEF Coming, ToClear
  <1>5. Len(rows) = 0
    BY <1>1
  <1> QED  BY <1>1, <1>2, <1>3, <1>4, <1>5 DEF AllPaid, RowsPaid, ClearsPaid, Paid

(***************************************************************************)
(* How far the names and the streaks go: a campaign is named after the     *)
(* rows that have one, and a streak is a row, a mishap or a ghost's way    *)
(* back each.                                                              *)
(***************************************************************************)
Campaigned(t) == Cardinality({i \in DOMAIN t : t[i].campaign # 0})

\* A staging that is given up with somebody inside is nobody's mishap, but
\* whoever stands there at that time ran back in.
Astray == Once(run.phase \in {"Gathering", "Barrier"} /\ inside # {})

Tries == Len(rows) + mishaps + returns - Astray

RunInBounds(r, n, k, b) == r.row <= n /\ r.campaign <= k + 1 /\ r.streak <= b

WriteInBounds(w, k, b) ==
    w.campaign <= k + 1 /\ w.attempt <= b /\ (w.do = "ask" => 1 <= w.attempt)

AskInBounds(a, n, k, b) ==
    a.campaign <= k + 1 /\ 1 <= a.attempt /\ a.attempt <= b /\ a.after <= n

Bounds ==
    /\ RunInBounds(run, Len(rows), Campaigned(rows), Tries)
    /\ RunInBounds(hearth, Len(rows), Campaigned(rows), Tries)
    /\ \A i \in DOMAIN rows : rows[i].campaign <= Campaigned(rows)
    /\ \A i \in DOMAIN asks : AskInBounds(asks[i], Len(rows), Campaigned(rows), Tries)
    /\ \A w \in Sent(queue) : WriteInBounds(w, Campaigned(rows), Tries)
    /\ \A c \in owed : c <= Campaigned(rows) + 1

LEMMA CampaignedIs ==
    ASSUME NEW t \in Seq(Rows)
    PROVE  /\ Campaigned(t) \in Nat /\ Campaigned(t) <= Len(t)
           /\ IsFiniteSet({i \in DOMAIN t : t[i].campaign # 0})
  <1> DEFINE S == {i \in DOMAIN t : t[i].campaign # 0}
  <1>1. Len(t) \in Nat /\ S \in SUBSET (1 .. Len(t))
    BY LenProperties
  <1>2. IsFiniteSet(1 .. Len(t)) /\ Cardinality(1 .. Len(t)) = Len(t)
    <2>1. 1 \in Int /\ Len(t) \in Int /\ (Len(t) \in Nat)
      BY <1>1
    <2>2. /\ IsFiniteSet(1 .. Len(t))
          /\ Cardinality(1 .. Len(t)) = IF 1 > Len(t) THEN 0 ELSE Len(t) - 1 + 1
      BY <2>1, FS_Interval
    <2> QED  BY <2>1, <2>2
  <1> HIDE DEF S
  <1>3. IsFiniteSet(S) /\ Cardinality(S) <= Len(t)
    BY <1>1, <1>2, FS_Subset
  <1>4. Cardinality(S) \in Nat
    BY <1>3, FS_CardinalityType
  <1> QED  BY <1>3, <1>4 DEF S, Campaigned

\* A campaign is never taken off a row; one more is one more.
LEMMA CampaignedGrows ==
    ASSUME NEW s \in Seq(Rows), NEW t \in Seq(Rows),
           \A i \in DOMAIN s : i \in DOMAIN t /\ (s[i].campaign # 0 => t[i].campaign # 0)
    PROVE  /\ Campaigned(s) <= Campaigned(t)
           /\ \A j \in DOMAIN t :
                 t[j].campaign # 0 /\ (j \in DOMAIN s => s[j].campaign = 0)
                   => Campaigned(s) + 1 <= Campaigned(t)
  <1> DEFINE S == {i \in DOMAIN s : s[i].campaign # 0}
             T == {i \in DOMAIN t : t[i].campaign # 0}
  <1>1. S \subseteq T
    OBVIOUS
  <1>2. IsFiniteSet(S) /\ IsFiniteSet(T) /\ Cardinality(S) \in Nat
    BY CampaignedIs, FS_CardinalityType
  <1>3. \A j \in DOMAIN t :
           t[j].campaign # 0 /\ (j \in DOMAIN s => s[j].campaign = 0) => j \in T \ S
    OBVIOUS
  <1>4. Campaigned(s) = Cardinality(S) /\ Campaigned(t) = Cardinality(T)
    BY DEF Campaigned
  <1> HIDE DEF S, T
  <1>5. Cardinality(S) <= Cardinality(T)
    BY <1>1, <1>2, FS_Subset
  <1>6. ASSUME NEW j \in T \ S PROVE Cardinality(S) + 1 <= Cardinality(T)
    <2>1. Cardinality(S \cup {j}) = Cardinality(S) + 1
      BY <1>2, <1>6, FS_AddElement
    <2>2. S \cup {j} \subseteq T
      BY <1>1, <1>6
    <2> QED  BY <1>2, <2>1, <2>2, FS_Subset
  <1> QED  BY <1>3, <1>4, <1>5, <1>6

\* What the coordinator reads lies within the tables.
LEMMA ReadsInBounds ==
    ASSUME Types, Bounds
    PROVE  /\ ActiveRow \in Nat /\ ActiveRow <= Len(rows)
           /\ InProgress <= Campaigned(rows) /\ Unstarted <= Campaigned(rows)
           /\ NewCampaign <= Campaigned(rows) + 1
           /\ \A c : Trailing(c) \in Nat /\ Trailing(c) <= Len(rows)
           /\ ActiveRow # 0 => /\ ActiveRow \in DOMAIN rows
                               /\ rows[ActiveRow].campaign <= Campaigned(rows)
  <1> DEFINE K == Campaigned(rows)
  <1>1. K \in Nat /\ rows \in Seq(Rows)
    BY CampaignedIs, TypesGive
  <1>2. \A i \in DOMAIN rows : rows[i].campaign <= K
    BY DEF Bounds
  <1> HIDE DEF K
  <1>3. /\ ActiveRow \in Nat /\ ActiveRow <= Len(rows)
        /\ ActiveRow # 0 => ActiveRow \in DOMAIN rows
    <2> DEFINE S == {i \in DOMAIN rows : rows[i].outcome = "active"}
    <2>1. S \in SUBSET (1 .. Len(rows)) /\ Len(rows) \in Nat /\ DOMAIN rows = 1 .. Len(rows)
      BY RowIs
    <2>2. /\ LastOf(S) \in Nat /\ (S = {} => LastOf(S) = 0)
          /\ (S # {} => LastOf(S) \in S)
      BY <2>1, LastOfIs
    <2>3. ActiveRow = LastOf(S)
      BY DEF ActiveRow
    <2> HIDE DEF S
    <2>4. S = {} => ActiveRow = 0
      BY <2>2, <2>3
    <2>5. S # {} => ActiveRow \in 1 .. Len(rows)
      BY <2>1, <2>2, <2>3
    <2> QED  BY <2>1, <2>4, <2>5
  <1>4. InProgress <= K
    <2> DEFINE S == {j \in DOMAIN rows : rows[j].campaign # 0}
    <2>1. S \in SUBSET (1 .. Len(rows))
      BY RowIs
    <2>2. LastOf(S) \in Nat /\ (LastOf(S) # 0 => LastOf(S) \in DOMAIN rows)
      BY <2>1, RowIs, LastOfIs
    <2>3. InProgress = IF LastOf(S) = 0 THEN 0 ELSE rows[LastOf(S)].campaign
      BY DEF InProgress
    <2> HIDE DEF S
    <2> QED  BY <1>1, <1>2, <2>2, <2>3
  <1>5. Unstarted <= K
    <2>1. rows # <<>> => Len(rows) \in DOMAIN rows
      BY RowIs, TypesGive, EmptySeq
    <2>2. rows # <<>> => rows[Len(rows)].campaign <= K
      BY <1>2, <2>1
    <2>3. 0 <= K
      BY <1>1
    <2> QED  BY <2>2, <2>3 DEF Unstarted
  <1>6. NewCampaign <= K + 1
    <2>1. CASE rows = <<>>
      <3>1. NewCampaign = 1
        BY <2>1 DEF NewCampaign
      <3> QED  BY <1>1, <3>1
    <2>2. CASE rows # <<>>
      <3>1. PICK i \in DOMAIN rows : NewCampaign = 1 + rows[i].campaign
        BY <2>2, NewCampaignIs
      <3>2. rows[i].campaign \in Nat /\ rows[i].campaign <= K
        BY <1>2, RowIs
      <3> QED  BY <1>1, <3>1, <3>2
    <2> QED  BY <2>1, <2>2
  <1>7. ASSUME NEW c PROVE Trailing(c) \in Nat /\ Trailing(c) <= Len(rows)
    <2> DEFINE S == {i \in RowsOf(c) :
                       \A j \in RowsOf(c) : j >= i => rows[j].outcome \in Unentered}
    <2>1. S \in SUBSET (1 .. Len(rows)) /\ Len(rows) \in Nat
      BY RowIs DEF RowsOf
    <2>2. Trailing(c) = Cardinality(S)
      BY DEF Trailing
    <2> HIDE DEF S
    <2>3. IsFiniteSet(1 .. Len(rows)) /\ Cardinality(1 .. Len(rows)) = Len(rows)
      <3>1. 1 \in Int /\ Len(rows) \in Int
        BY <2>1
      <3>2. /\ IsFiniteSet(1 .. Len(rows))
            /\ Cardinality(1 .. Len(rows)) = IF 1 > Len(rows) THEN 0 ELSE Len(rows) - 1 + 1
        BY <3>1, FS_Interval
      <3> QED  BY <2>1, <3>2
    <2>4. IsFiniteSet(S) /\ Cardinality(S) <= Len(rows)
      BY <2>1, <2>3, FS_Subset
    <2>5. Cardinality(S) \in Nat
      BY <2>4, FS_CardinalityType
    <2> QED  BY <2>2, <2>4, <2>5
  <1> QED  BY <1>2, <1>3, <1>4, <1>5, <1>6, <1>7 DEF K

LEMMA RunGrows ==
    ASSUME NEW r \in RunStates, NEW n \in Nat, NEW k \in Nat, NEW b \in Int,
           NEW n1 \in Nat, NEW k1 \in Nat, NEW b1 \in Int, n <= n1, k <= k1, b <= b1,
           RunInBounds(r, n, k, b)
    PROVE  RunInBounds(r, n1, k1, b1)
  <1>1. r.row \in Nat /\ r.campaign \in Nat /\ r.streak \in Nat
    BY DEF RunStates
  <1> QED  BY <1>1 DEF RunInBounds

LEMMA WriteGrows ==
    ASSUME NEW w \in Writes, NEW k \in Nat, NEW b \in Int,
           NEW k1 \in Nat, NEW b1 \in Int, k <= k1, b <= b1, WriteInBounds(w, k, b)
    PROVE  WriteInBounds(w, k1, b1)
  <1>1. w.campaign \in Nat /\ w.attempt \in Nat
    BY DEF Writes
  <1> QED  BY <1>1 DEF WriteInBounds

LEMMA AskGrows ==
    ASSUME NEW a \in Asks, NEW n \in Nat, NEW k \in Nat, NEW b \in Int,
           NEW n1 \in Nat, NEW k1 \in Nat, NEW b1 \in Int, n <= n1, k <= k1, b <= b1,
           AskInBounds(a, n, k, b)
    PROVE  AskInBounds(a, n1, k1, b1)
  <1>1. a.campaign \in Nat /\ a.attempt \in Nat /\ a.after \in Nat
    BY DEF Asks
  <1> QED  BY <1>1 DEF AskInBounds

LEMMA TriesIs ==
    ASSUME IInv
    PROVE  /\ Tries \in Int /\ Len(rows) \in Nat /\ Campaigned(rows) \in Nat
           /\ mishaps \in Nat /\ returns \in Nat /\ Astray \in {0, 1} /\ Astray' \in {0, 1}
           /\ \A w \in Sent(queue) : w \in Writes
           /\ owed \subseteq Nat /\ run \in RunStates /\ hearth \in RunStates
  <1>1. mishaps \in 0 .. MaxMishaps /\ returns \in 0 .. MaxReturns
        /\ MaxMishaps \in Nat /\ MaxReturns \in Nat
    BY TypesGive, Constants DEF IInv
  <1>2. Len(rows) \in Nat /\ Campaigned(rows) \in Nat /\ owed \subseteq Nat
        /\ run \in RunStates /\ hearth \in RunStates
    BY RowIs, TypesGive, CampaignedIs DEF IInv
  <1>3. Astray \in {0, 1} /\ Astray' \in {0, 1}
    BY DEF Astray, Once
  <1>4. Tries \in Int
    <2>1. /\ mishaps \in Int /\ returns \in Int /\ Len(rows) \in Int /\ Astray \in Int
      BY <1>1, <1>2, <1>3
    <2> QED  BY <2>1 DEF Tries
  <1>5. \A w \in Sent(queue) : w \in Writes
    <2>1. queue \in Seq(Writes)
      BY TypesGive DEF IInv
    <2> QED  BY <2>1 DEF Sent
  <1> QED  BY <1>1, <1>2, <1>3, <1>4, <1>5

\* What stays, stays within bounds that do not shrink.
LEMMA BoundsKeep ==
    ASSUME IInv, Bounds, NEW n \in Nat, NEW k \in Nat, NEW b \in Int,
           Len(rows) <= n, Campaigned(rows) <= k, Tries <= b,
           Len(rows') = n, Campaigned(rows') = k, Tries' = b,
           run' = run \/ RunInBounds(run', n, k, b),
           hearth' = hearth \/ RunInBounds(hearth', n, k, b),
           \A i \in DOMAIN rows' : rows'[i].campaign <= k,
           asks' = asks \/ \A i \in DOMAIN asks' : AskInBounds(asks'[i], n, k, b),
           \A w \in Sent(queue') : w \in Sent(queue) \/ WriteInBounds(w, k, b),
           \A c \in owed' : c \in owed \/ c <= k + 1
    PROVE  Bounds'
  <1> DEFINE n0 == Len(rows)
             k0 == Campaigned(rows)
             b0 == Tries
  <1>1. n0 \in Nat /\ k0 \in Nat /\ b0 \in Int /\ run \in RunStates /\ hearth \in RunStates
        /\ owed \subseteq Nat
    BY TriesIs
  <1>2. n0 <= n /\ k0 <= k /\ b0 <= b
    OBVIOUS
  <1>3. /\ RunInBounds(run, n0, k0, b0) /\ RunInBounds(hearth, n0, k0, b0)
        /\ \A i \in DOMAIN asks : AskInBounds(asks[i], n0, k0, b0)
        /\ \A w \in Sent(queue) : WriteInBounds(w, k0, b0)
        /\ \A c \in owed : c <= k0 + 1
    BY DEF Bounds
  <1>4. /\ \A w \in Sent(queue) : w \in Writes
        /\ \A i \in DOMAIN asks : asks[i] \in Asks
    BY TriesIs, RowIs DEF IInv
  <1> HIDE DEF n0, k0, b0
  <1>5. RunInBounds(run', n, k, b)
    <2>1. RunInBounds(run, n, k, b)
      BY <1>1, <1>2, <1>3, RunGrows
    <2> QED  BY <2>1
  <1>6. RunInBounds(hearth', n, k, b)
    <2>1. RunInBounds(hearth, n, k, b)
      BY <1>1, <1>2, <1>3, RunGrows
    <2> QED  BY <2>1
  <1>7. \A i \in DOMAIN asks' : AskInBounds(asks'[i], n, k, b)
    <2>1. \A i \in DOMAIN asks : AskInBounds(asks[i], n, k, b)
      BY <1>1, <1>2, <1>3, <1>4, AskGrows
    <2> QED  BY <2>1
  <1>8. \A w \in Sent(queue') : WriteInBounds(w, k, b)
    <2>1. \A w \in Sent(queue) : WriteInBounds(w, k, b)
      BY <1>1, <1>2, <1>3, <1>4, WriteGrows
    <2> QED  BY <2>1
  <1>9. \A c \in owed' : c <= k + 1
    <2>1. ASSUME NEW c \in owed PROVE c <= k + 1
      <3>1. c \in Nat /\ c <= k0 + 1
        BY <1>1, <1>3
      <3> QED  BY <1>1, <1>2, <3>1
    <2> QED  BY <2>1
  <1>10. \A i \in DOMAIN rows' : rows'[i].campaign <= k
    OBVIOUS
  <1> QED  BY <1>5, <1>6, <1>7, <1>8, <1>9, <1>10 DEF Bounds, Sent

\* A poll leaves the tables alone.
LEMMA PollBounds ==
    ASSUME IInv, Bounds, queue = <<>>, UNCHANGED <<rows, asks>>, Tries' \in Int,
           Tries <= Tries',
           RunInBounds(run', Len(rows), Campaigned(rows), Tries'),
           hearth' = hearth \/ RunInBounds(hearth', Len(rows), Campaigned(rows), Tries'),
           \A w \in Sent(queue') : WriteInBounds(w, Campaigned(rows), Tries'),
           \A c \in owed' : c \in owed \/ c <= Campaigned(rows) + 1
    PROVE  Bounds'
  <1> DEFINE n == Len(rows)
             k == Campaigned(rows)
             b == Tries'
  <1>1. n \in Nat /\ k \in Nat /\ b \in Int /\ Tries <= b
    BY TriesIs
  <1>2. n <= n /\ k <= k
    BY <1>1
  <1>3. Len(rows') = n /\ Campaigned(rows') = k
    OBVIOUS
  <1>4. \A i \in DOMAIN rows' : rows'[i].campaign <= k
    BY DEF Bounds
  <1>5. /\ RunInBounds(run', n, k, b)
        /\ hearth' = hearth \/ RunInBounds(hearth', n, k, b)
        /\ \A w \in Sent(queue') : WriteInBounds(w, k, b)
        /\ \A c \in owed' : c \in owed \/ c <= k + 1
    OBVIOUS
  <1>6. Len(rows) <= n /\ Campaigned(rows) <= k /\ Tries' = b /\ asks' = asks
    BY <1>2
  <1> HIDE DEF n, k, b
  <1> QED  BY <1>1, <1>3, <1>4, <1>5, <1>6, BoundsKeep

\* Whoever stands inside before the party has entered, stood there before.
LEMMA PollAstray ==
    ASSUME IInv, CoordinatorPoll
    PROVE  /\ run'.phase \in {"Gathering", "Barrier"} /\ inside # {}
                => run.phase \in {"Gathering", "Barrier"}
           /\ inside' = inside /\ returns' = returns /\ queue = <<>>
           /\ UNCHANGED <<rows, asks, done>>
           /\ mishaps' = mishaps \/ mishaps' = mishaps + 1
  <1>1. run \in RunStates /\ Types /\ Stamped \in RunStates
    BY TypesGive, StampedGives DEF IInv
  <1>2. /\ inside' = inside /\ returns' = returns /\ queue = <<>>
        /\ UNCHANGED <<rows, asks, done>>
        /\ mishaps' = mishaps \/ mishaps' = mishaps + 1
    BY DEF CoordinatorPoll, PollIdle, PollOutside, PollInside, PollLeaves,
           PollRecovery, PollHoldsOut, PollStandsDown, PollFinalizes, PollAdopts, PollStarts,
           PollRepairs, PollResets, PollResetFails, PollGathers, PollRegathers,
           PollStagingFails, PollOpens, PollLeaderInside, PollEntersAll, PollEnterGivesUp,
           PollFindsNobody, PollClears, PollSplits, PollReassembles, PollProves, PollGivesUp,
           PollExits, PollExitFails, PollEvacuates, PollChooses, PollRecovered,
           Live, Phase, Poll, database, world, party, Mishap, NoMishap
  <1>3. ASSUME run'.phase \in {"Gathering", "Barrier"}, inside # {}
        PROVE  run.phase \in {"Gathering", "Barrier"}
    <2>1. CASE PollHoldsOut \/ PollExitFails \/ PollLeaderInside \/ PollEnterGivesUp
      BY <1>3, <2>1, AtRest
         DEF PollHoldsOut, PollExitFails, PollLeaderInside, PollEnterGivesUp, Goes
    <2>2. CASE PollStandsDown
      BY <1>1, <1>3, <2>2, AtRest DEF PollStandsDown, RunStates
    <2>3. CASE \/ PollFinalizes \/ PollExits \/ PollResetFails \/ PollStagingFails
               \/ PollFindsNobody \/ PollSplits
      <3>1. \E r, o, wanted, wiped, before : EndRun(r, o, wanted, wiped, before)
        BY <2>3 DEF PollFinalizes, PollExits, PollResetFails, PollStagingFails,
                    PollFindsNobody, PollSplits
      <3> QED  BY <1>3, <3>1, EndRunRests
    <2>4. CASE PollAdopts
      <3>1. PICK mark, v : run' = [Adopted(AdoptAt(mark), NewCampaign) EXCEPT !.verdict = v]
        BY <2>4 DEF PollAdopts
      <3>2. AdoptAt(mark) \in {"Exiting", "Clearing", "StagedInside"}
        BY DEF AdoptAt
      <3>3. AdoptAt(mark) \in Phases /\ NewCampaign \in Nat
        BY <1>1, <3>2, Reads DEF Phases, Fresh
      <3>4. Adopted(AdoptAt(mark), NewCampaign) \in RunStates
            /\ Adopted(AdoptAt(mark), NewCampaign).phase = AdoptAt(mark)
        BY <1>1, <3>3, AdoptedGives
      <3>5. run'.phase = AdoptAt(mark)
        BY <3>1, <3>4 DEF RunStates
      <3> QED  BY <1>3, <3>2, <3>5
    <2>5. CASE PollStarts
      BY <1>3, <2>5 DEF PollStarts
    <2>6. CASE PollEvacuates
      <3> DEFINE r == IF run.phase = "Idle" THEN Adopted("Idle", 0) ELSE run
      <3>1. run' = [r EXCEPT !.phase = "Exiting", !.verdict = "evacuated"]
        BY <2>6 DEF PollEvacuates
      <3>2. r \in RunStates
        BY <1>1, AdoptedGives DEF Phases
      <3> HIDE DEF r
      <3>3. run'.phase = "Exiting"
        BY <3>1, <3>2 DEF RunStates
      <3> QED  BY <1>3, <3>3
    <2>7. CASE PollChooses \/ PollRecovered
      <3>1. run'.phase \in {"Idle", "Repairing", "Recovering"}
        <4>1. [run EXCEPT !.chosen = TRUE].phase = run.phase
          BY <1>1 DEF RunStates
        <4>2. Repair(run, run.number).phase = "Repairing"
          BY DEF Repair, IdleRun
        <4> QED  BY <2>7, <4>1, <4>2, AtRest
                 DEF PollChooses, PollRecovered, Goes, Live, Phase
      <3> QED  BY <1>3, <3>1
    <2>8. CASE PollRepairs \/ PollOpens \/ PollEntersAll \/ PollGivesUp
      BY <1>1, <1>3, <2>8
         DEF PollRepairs, PollOpens, PollEntersAll, PollGivesUp, Goes, RunStates
    <2>9. CASE PollResets \/ PollGathers \/ PollRegathers
      BY <1>3, <2>9 DEF PollResets, PollGathers, PollRegathers, Live, Phase
    <2>10. CASE PollClears \/ PollReassembles \/ PollProves
      BY <1>1, <1>3, <2>10 DEF PollClears, PollReassembles, PollProves, GoesInside, RunStates
    <2> QED
      BY <2>1, <2>2, <2>3, <2>4, <2>5, <2>6, <2>7, <2>8, <2>9, <2>10
         DEF CoordinatorPoll, PollIdle, PollOutside, PollInside, PollLeaves, PollRecovery
  <1> QED  BY <1>2, <1>3

LEMMA PollTries ==
    ASSUME IInv, CoordinatorPoll
    PROVE  /\ Tries' \in Int /\ Tries <= Tries'
           /\ Mishap => Tries + 1 <= Tries'
           /\ Astray = 1 /\ run'.phase \notin {"Gathering", "Barrier"} => Tries + 1 <= Tries'
           /\ run'.phase \notin {"Gathering", "Barrier"} => Len(rows) <= Tries'
  <1>1. /\ Len(rows) \in Nat /\ mishaps \in Nat /\ returns \in Nat
        /\ Astray \in {0, 1} /\ Astray' \in {0, 1}
    BY TriesIs
  <1>2. /\ rows' = rows /\ returns' = returns
        /\ mishaps' = mishaps \/ mishaps' = mishaps + 1
    BY PollAstray
  <1>3. Astray' <= Astray
    <2>1. inside' = inside
      BY PollAstray
    <2>2. run'.phase \in {"Gathering", "Barrier"} /\ inside' # {}
            => run.phase \in {"Gathering", "Barrier"} /\ inside # {}
      BY <2>1, PollAstray
    <2> QED  BY <2>2 DEF Astray, Once
  <1>4. run'.phase \notin {"Gathering", "Barrier"} => Astray' = 0
    BY DEF Astray, Once
  <1> DEFINE n == Len(rows)
             m == mishaps
             q == returns
             a == Astray
             m1 == mishaps'
             a1 == Astray'
             x == Tries
             x1 == Tries'
  <1>5. x = n + m + q - a /\ x1 = n + m1 + q - a1
    BY <1>2 DEF Tries
  <1>6. Mishap => m1 = m + 1
    BY DEF Mishap
  <1>7. /\ n \in Nat /\ m \in Nat /\ q \in Nat /\ a \in {0, 1} /\ a1 \in {0, 1}
        /\ a1 <= a /\ (m1 = m \/ m1 = m + 1)
    BY <1>1, <1>2, <1>3
  <1>8. run'.phase \notin {"Gathering", "Barrier"} => a1 = 0
    BY <1>4
  <1> HIDE DEF n, m, q, a, m1, a1, x, x1
  <1>9. x1 \in Int /\ x <= x1
    BY ONLY <1>5, <1>7
  <1>10. m1 = m + 1 => x + 1 <= x1
    BY ONLY <1>5, <1>7
  <1>11. a = 1 /\ a1 = 0 => x + 1 <= x1
    BY ONLY <1>5, <1>7
  <1>12. a1 = 0 => n <= x1
    BY ONLY <1>5, <1>7
  <1>13. /\ Mishap => x + 1 <= x1
         /\ a = 1 /\ run'.phase \notin {"Gathering", "Barrier"} => x + 1 <= x1
         /\ run'.phase \notin {"Gathering", "Barrier"} => n <= x1
    BY <1>6, <1>8, <1>10, <1>11, <1>12
  <1> QED  BY <1>9, <1>13 DEF n, a, x, x1

\* The coordinator's run goes on, is dropped or begins its repairs.
SameRun(s, r) ==
    /\ s.row \in {0, r.row, ActiveRow}
    /\ s.campaign \in {0, r.campaign} /\ s.streak \in {0, r.streak}

LEMMA SameInBounds ==
    ASSUME IInv, Bounds, NEW r \in RunStates, NEW s, NEW b \in Int,
           RunInBounds(r, Len(rows), Campaigned(rows), b), SameRun(s, r)
    PROVE  RunInBounds(s, Len(rows), Campaigned(rows), b)
  <1>1. /\ Len(rows) \in Nat /\ Campaigned(rows) \in Nat /\ ActiveRow <= Len(rows)
    BY TriesIs, ReadsInBounds DEF IInv
  <1>2. r.row \in Nat /\ r.campaign \in Nat /\ r.streak \in Nat
    BY DEF RunStates
  <1>3. r.row <= Len(rows) /\ r.campaign <= Campaigned(rows) + 1 /\ r.streak <= b
    BY DEF RunInBounds
  <1>4. s.row <= Len(rows)
    BY <1>1, <1>3 DEF SameRun
  <1>5. s.campaign <= Campaigned(rows) + 1
    BY <1>1, <1>3 DEF SameRun
  <1>6. s.streak <= b
    BY <1>2, <1>3 DEF SameRun
  <1> QED  BY <1>4, <1>5, <1>6 DEF RunInBounds

\* What a statement says of the run it is made from.
LEMMA StatementIs ==
    ASSUME NEW r, NEW o
    PROVE  /\ \A w \in {Stamp(r), Close(r, o), Record(r, o), Count(r), Ask(r), Apply(r)} :
                 w.campaign = r.campaign /\ w.attempt = r.streak
           /\ \A w \in {Stamp(r), Close(r, o), Record(r, o), Count(r), Apply(r)} : w.do # "ask"
  BY DEF Stamp, Close, Record, Count, Ask, Apply, Statement

LEMMA StatementInBounds ==
    ASSUME NEW r, NEW s, NEW o, NEW n, NEW k, NEW b, RunInBounds(r, n, k, b),
           s.campaign = r.campaign, s.streak = r.streak,
           NEW w \in {Stamp(s), Close(s, o), Record(s, o), Count(s), Apply(s)}
    PROVE  WriteInBounds(w, k, b)
  BY StatementIs DEF RunInBounds, WriteInBounds

LEMMA GoesBounds ==
    ASSUME IInv, Bounds,
           \/ PollHoldsOut \/ PollStandsDown \/ PollLeaderInside \/ PollRepairs
           \/ PollResets \/ PollGathers \/ PollRegathers \/ PollOpens \/ PollEntersAll
           \/ PollEnterGivesUp \/ PollGivesUp \/ PollRecovered \/ PollChooses
           \/ PollClears \/ PollReassembles \/ PollProves \/ PollExitFails
    PROVE  Bounds'
  <1>1. CoordinatorPoll
    BY DEF CoordinatorPoll, PollIdle, PollOutside, PollInside, PollLeaves, PollRecovery
  <1>2. /\ queue = <<>> /\ UNCHANGED <<rows, asks>> /\ Tries' \in Int /\ Tries <= Tries'
    BY <1>1, PollAstray, PollTries
  <1>3. /\ run \in RunStates /\ Types /\ Len(rows) \in Nat /\ Campaigned(rows) \in Nat
        /\ Tries \in Int
    BY TriesIs DEF IInv
  <1>4. RunInBounds(run, Len(rows), Campaigned(rows), Tries')
    <2>1. /\ RunInBounds(run, Len(rows), Campaigned(rows), Tries)
          /\ Len(rows) <= Len(rows) /\ Campaigned(rows) <= Campaigned(rows)
      BY <1>3 DEF Bounds
    <2> QED  BY <1>2, <1>3, <2>1, RunGrows
  <1>5. /\ SameRun(run, run) /\ SameRun(IdleRun, run) /\ SameRun(NoEpisode, run)
        /\ \A n : SameRun(Repair(run, n), run)
    BY DEF SameRun, IdleRun, NoEpisode, Repair
  <1>6. /\ \A p : SameRun([run EXCEPT !.phase = p], run)
        /\ \A p, v : SameRun([run EXCEPT !.phase = p, !.verdict = v], run)
        /\ SameRun([run EXCEPT !.chosen = TRUE], run)
        /\ SameRun([run EXCEPT !.row = RowOf(run)], run)
    BY <1>3 DEF SameRun, RunStates, RowOf
  <1>7. /\ Stamped \in RunStates /\ Stamped.row \in {run.row, ActiveRow}
        /\ Stamped.campaign = run.campaign /\ Stamped.streak = run.streak
    BY <1>3, StampedGives DEF Stamped, RunStates
  <1>8. /\ \A p : SameRun([Stamped EXCEPT !.phase = p], run)
        /\ \A p, v : SameRun([Stamped EXCEPT !.phase = p, !.verdict = v], run)
    BY <1>7 DEF SameRun, RunStates
  <1>9. SameRun(run', run)
    <2>1. CASE PollHoldsOut \/ PollLeaderInside \/ PollEnterGivesUp \/ PollExitFails
      BY <1>5, <2>1 DEF PollHoldsOut, PollLeaderInside, PollEnterGivesUp, PollExitFails, Goes
    <2>2. CASE PollStandsDown
      BY <1>5, <1>6, <2>2 DEF PollStandsDown
    <2>3. CASE \/ PollRepairs \/ PollResets \/ PollGathers \/ PollRegathers \/ PollOpens
               \/ PollEntersAll
      <3>1. \E p : run' = [run EXCEPT !.phase = p]
        BY <2>3, Zenon DEF PollRepairs, PollResets, PollGathers, PollRegathers, PollOpens,
                           PollEntersAll, Goes
      <3> QED  BY <1>6, <3>1, Zenon
    <2>4. CASE PollGivesUp
      <3>1. PICK v : run' = [run EXCEPT !.phase = "Exiting", !.verdict = v]
        BY <2>4, Zenon DEF PollGivesUp, Goes
      <3>2. SameRun([run EXCEPT !.phase = "Exiting", !.verdict = v], run)
        BY <1>3 DEF SameRun, RunStates
      <3> QED  BY <3>1, <3>2
    <2>5. CASE PollRecovered \/ PollChooses
      BY <1>5, <1>6, <2>5 DEF PollRecovered, PollChooses, Goes
    <2>6. CASE PollClears \/ PollReassembles
      <3>1. \E p : run' = [Stamped EXCEPT !.phase = p]
        BY <2>6, Zenon DEF PollClears, PollReassembles, GoesInside
      <3> QED  BY <1>8, <3>1, Zenon
    <2>7. CASE PollProves
      <3>1. run' = [Stamped EXCEPT !.phase = "Exiting", !.verdict = "complete"]
        BY <2>7, Zenon DEF PollProves, GoesInside
      <3> QED  BY <1>8, <3>1, Zenon
    <2> QED  BY <2>1, <2>2, <2>3, <2>4, <2>5, <2>6, <2>7
  <1>10. RunInBounds(run', Len(rows), Campaigned(rows), Tries')
    BY <1>2, <1>3, <1>4, <1>9, SameInBounds
  <1>11. hearth' = hearth \/ RunInBounds(hearth', Len(rows), Campaigned(rows), Tries')
    <2>1. CASE PollExitFails
      <3>1. SameRun(hearth', run)
        BY <1>5, <1>6, <2>1 DEF PollExitFails
      <3> QED  BY <1>2, <1>3, <1>4, <3>1, SameInBounds
    <2>2. CASE ~ PollExitFails
      BY <2>2 DEF PollHoldsOut, PollStandsDown, PollLeaderInside, PollRepairs,
                  PollResets, PollGathers, PollRegathers, PollOpens, PollEntersAll,
                  PollEnterGivesUp, PollGivesUp, PollRecovered, PollChooses, PollClears,
                  PollReassembles, PollProves, Live
    <2> QED  BY <2>1, <2>2
  <1>12. owed' \subseteq owed
    BY DEF PollHoldsOut, PollStandsDown, PollLeaderInside, PollRepairs,
           PollResets, PollGathers, PollRegathers, PollOpens, PollEntersAll,
           PollEnterGivesUp, PollGivesUp, PollRecovered, PollChooses, PollClears,
           PollReassembles, PollProves, PollExitFails, Goes, GoesInside
  <1>13. \A w \in Sent(queue') : WriteInBounds(w, Campaigned(rows), Tries')
    <2>1. queue' \in {<<>>, <<Apply(run)>>, <<Stamp(Stamped)>>}
      BY <1>2 DEF PollHoldsOut, PollStandsDown, PollLeaderInside, PollRepairs,
           PollResets, PollGathers, PollRegathers, PollOpens, PollEntersAll,
           PollEnterGivesUp, PollGivesUp, PollRecovered, PollChooses, PollClears,
           PollReassembles, PollProves, PollExitFails, Goes, GoesInside, Stamps, StampOf
    <2>2. Sent(queue') \subseteq {Apply(run), Stamp(Stamped)}
      BY <2>1, SentNone, SentOne
    <2>3. /\ WriteInBounds(Apply(run), Campaigned(rows), Tries')
          /\ WriteInBounds(Stamp(Stamped), Campaigned(rows), Tries')
      BY <1>4, <1>7, StatementInBounds
    <2> QED  BY <2>2, <2>3
  <1> QED  BY <1>2, <1>10, <1>11, <1>12, <1>13, PollBounds

LEMMA AdoptedInBounds ==
    ASSUME IInv, Bounds, NEW p \in Phases, NEW new \in Nat, new <= Campaigned(rows) + 1,
           NEW b \in Int, Tries <= b
    PROVE  RunInBounds(Adopted(p, new), Len(rows), Campaigned(rows), b)
  <1>1. /\ ActiveRow \in Nat /\ ActiveRow <= Len(rows) /\ InProgress <= Campaigned(rows)
        /\ Campaigned(rows) \in Nat /\ InProgress \in Nat
        /\ ActiveRow # 0 => rows[ActiveRow].campaign <= Campaigned(rows)
        /\ ActiveRow # 0 => rows[ActiveRow].campaign \in Nat
    BY TriesIs, ReadsInBounds, Reads, RowIs DEF IInv
  <1>2. 0 <= b
    <2>1. run.streak \in Nat /\ run.streak <= Tries /\ Tries \in Int
      BY TriesIs DEF Bounds, RunInBounds, RunStates
    <2> QED  BY <2>1
  <1> DEFINE c == IF ActiveRow = 0 THEN 0 ELSE rows[ActiveRow].campaign
             r == Adopted(p, new)
  <1>3. /\ r.row = ActiveRow /\ r.campaign = OrElse(c, OrElse(InProgress, new))
        /\ r.streak = 0
    BY DEF Adopted, IdleRun
  <1>4. c \in Nat /\ c <= Campaigned(rows) + 1
    BY <1>1
  <1> HIDE DEF c, r
  <1>5. r.campaign <= Campaigned(rows) + 1
    BY <1>1, <1>3, <1>4 DEF OrElse
  <1>6. RunInBounds(r, Len(rows), Campaigned(rows), b)
    BY <1>1, <1>2, <1>3, <1>5 DEF RunInBounds
  <1> QED  BY <1>6 DEF r

LEMMA StampOfInBounds ==
    ASSUME NEW r, NEW n, NEW k, NEW b, RunInBounds(r, n, k, b)
    PROVE  \A w \in Sent(StampOf(r)) : WriteInBounds(w, k, b)
  <1>1. WriteInBounds(Stamp(r), k, b)
    BY StatementInBounds
  <1>2. Sent(StampOf(r)) \subseteq {Stamp(r)}
    BY SentNone, SentOne DEF StampOf
  <1> QED  BY <1>1, <1>2

LEMMA EvacuatesBounds == ASSUME IInv, Bounds, PollEvacuates PROVE Bounds'
  <1> DEFINE r == IF run.phase = "Idle" THEN Adopted("Idle", 0) ELSE run
  <1>1. CoordinatorPoll
    BY DEF CoordinatorPoll, PollLeaves
  <1>2. /\ queue = <<>> /\ UNCHANGED <<rows, asks>> /\ Tries' \in Int /\ Tries <= Tries'
    BY <1>1, PollAstray, PollTries
  <1>3. /\ run' = [r EXCEPT !.phase = "Exiting", !.verdict = "evacuated"]
        /\ queue' = IF run.phase = "Idle" THEN StampOf(r) ELSE <<>>
        /\ owed' \subseteq owed /\ hearth' = hearth
    BY DEF PollEvacuates
  <1>4. Tries \in Int /\ Len(rows) \in Nat /\ Campaigned(rows) \in Nat /\ run \in RunStates
    BY TriesIs
  <1>5. r \in RunStates /\ RunInBounds(r, Len(rows), Campaigned(rows), Tries')
    <2>1. "Idle" \in Phases /\ 0 \in Nat /\ 0 <= Campaigned(rows) + 1
      BY <1>4 DEF Phases
    <2>2. Adopted("Idle", 0) \in RunStates
      BY <2>1, AdoptedGives DEF IInv
    <2>3. RunInBounds(Adopted("Idle", 0), Len(rows), Campaigned(rows), Tries')
      BY <1>2, <2>1, AdoptedInBounds
    <2>4. RunInBounds(run, Len(rows), Campaigned(rows), Tries')
      <3>1. /\ RunInBounds(run, Len(rows), Campaigned(rows), Tries)
            /\ Len(rows) <= Len(rows) /\ Campaigned(rows) <= Campaigned(rows)
        BY <1>4 DEF Bounds
      <3> QED  BY <1>2, <1>4, <3>1, RunGrows
    <2> QED  BY <1>4, <2>2, <2>3, <2>4
  <1> HIDE DEF r
  <1>6. SameRun(run', r)
    BY <1>3, <1>5 DEF SameRun, RunStates
  <1>7. RunInBounds(run', Len(rows), Campaigned(rows), Tries')
    BY <1>2, <1>5, <1>6, SameInBounds
  <1>8. \A w \in Sent(queue') : WriteInBounds(w, Campaigned(rows), Tries')
    BY <1>3, <1>5, StampOfInBounds, SentNone
  <1> QED  BY <1>2, <1>3, <1>7, <1>8, PollBounds

LEMMA AdoptsBounds == ASSUME IInv, Bounds, PollAdopts PROVE Bounds'
  <1>1. CoordinatorPoll
    BY DEF CoordinatorPoll, PollIdle
  <1>2. /\ queue = <<>> /\ UNCHANGED <<rows, asks>> /\ Tries' \in Int /\ Tries <= Tries'
    BY <1>1, PollAstray, PollTries
  <1>3. PICK mark, v :
            LET r == Adopted(AdoptAt(mark), NewCampaign)
            IN  run' = [r EXCEPT !.verdict = v] /\ queue' = StampOf(r)
                /\ owed' = owed \ {r.campaign}
    BY Zenon DEF PollAdopts
  <1> DEFINE r == Adopted(AdoptAt(mark), NewCampaign)
  <1>4. run' = [r EXCEPT !.verdict = v] /\ queue' = StampOf(r) /\ owed' \subseteq owed
    BY <1>3
  <1>5. hearth' = NoEpisode
    BY DEF PollAdopts
  <1>6. /\ AdoptAt(mark) \in Phases /\ NewCampaign \in Nat
        /\ NewCampaign <= Campaigned(rows) + 1
    BY Reads, ReadsInBounds DEF AdoptAt, Phases, Fresh, IInv
  <1>7. r \in RunStates /\ RunInBounds(r, Len(rows), Campaigned(rows), Tries')
    BY <1>2, <1>6, AdoptedGives, AdoptedInBounds DEF IInv
  <1> HIDE DEF r
  <1>8. SameRun(run', r) /\ SameRun(hearth', r)
    BY <1>4, <1>5, <1>7 DEF SameRun, RunStates, NoEpisode, IdleRun
  <1>9. /\ RunInBounds(run', Len(rows), Campaigned(rows), Tries')
        /\ RunInBounds(hearth', Len(rows), Campaigned(rows), Tries')
    BY <1>2, <1>7, <1>8, SameInBounds
  <1>10. \A w \in Sent(queue') : WriteInBounds(w, Campaigned(rows), Tries')
    BY <1>4, <1>7, StampOfInBounds
  <1> QED  BY <1>2, <1>4, <1>9, <1>10, PollBounds

LEMMA StartsBounds == ASSUME IInv, Bounds, PollStarts PROVE Bounds'
  <1> DEFINE c == NextCampaign
             r == [IdleRun EXCEPT !.campaign = c, !.number = done + 1]
  <1>1. CoordinatorPoll
    BY DEF CoordinatorPoll, PollIdle
  <1>2. /\ queue = <<>> /\ UNCHANGED <<rows, asks>> /\ Tries' \in Int /\ Tries <= Tries'
    BY <1>1, PollAstray, PollTries
  <1>3. hearth' = hearth /\ owed' = owed
    BY DEF PollStarts
  <1>4. \/ Resumed(c) /\ run' = Recover(r, asks[NewestAsk(c)].attempt) /\ queue' = <<>>
        \/ Trailing(c) > 0 /\ run' = Recover(r, Trailing(c)) /\ queue' = <<Ask(run')>>
        \/ run' = [r EXCEPT !.phase = "Resetting"] /\ queue' = <<>>
    BY Zenon DEF PollStarts
  <1>5. /\ Len(rows) \in Nat /\ Campaigned(rows) \in Nat /\ Tries \in Int
        /\ InProgress <= Campaigned(rows) /\ Unstarted <= Campaigned(rows)
        /\ InProgress \in Nat /\ Unstarted \in Nat /\ NewCampaign \in Nat
        /\ NewCampaign <= Campaigned(rows) + 1
        /\ Trailing(c) \in Nat /\ Trailing(c) <= Len(rows)
    BY TriesIs, Reads, ReadsInBounds DEF IInv
  <1>6. c \in Nat /\ c <= Campaigned(rows) + 1
    <2> DEFINE m == IF done = 0 THEN Unstarted ELSE InProgress
    <2>1. m \in Nat /\ m <= Campaigned(rows) + 1
      BY <1>5
    <2>2. c = OrElse(m, NewCampaign)
      BY DEF NextCampaign
    <2> HIDE DEF m, c
    <2> QED  BY <1>5, <2>1, <2>2 DEF OrElse
  <1>7. Resumed(c) => asks[NewestAsk(c)].attempt <= Tries
    <2>1. Resumed(c) => NewestAsk(c) # 0
      BY DEF Resumed
    <2>2. NewestAsk(c) # 0 => NewestAsk(c) \in DOMAIN asks
      BY Reads DEF IInv
    <2> QED  BY <2>1, <2>2 DEF Bounds, AskInBounds
  <1>8. Resumed(c) => asks[NewestAsk(c)].attempt \in Nat
    <2>1. Resumed(c) => NewestAsk(c) # 0
      BY DEF Resumed
    <2>2. NewestAsk(c) # 0 => NewestAsk(c) \in DOMAIN asks
      BY Reads DEF IInv
    <2> QED  BY <2>1, <2>2, RowIs DEF IInv
  <1>9. run'.phase \in {"Recovering", "Resetting"}
    <2>1. \A n : Recover(r, n).phase = "Recovering"
      BY DEF Recover, IdleRun
    <2>2. [r EXCEPT !.phase = "Resetting"].phase = "Resetting"
      BY DEF IdleRun
    <2> QED  BY <1>4, <2>1, <2>2
  <1>10. Len(rows) <= Tries'
    BY <1>1, <1>9, PollTries
  <1>11. /\ \A n : /\ Recover(r, n).row = 0 /\ Recover(r, n).campaign = c
                   /\ Recover(r, n).streak = n
         /\ LET s == [r EXCEPT !.phase = "Resetting"]
            IN  s.row = 0 /\ s.campaign = c /\ s.streak = 0
    BY DEF Recover, IdleRun
  <1> HIDE DEF c, r
  <1>12. RunInBounds(run', Len(rows), Campaigned(rows), Tries')
    <2>1. run'.row = 0 /\ run'.campaign = c
      BY <1>4, <1>11
    <2>2. run'.streak <= Tries'
      <3>1. CASE Resumed(c) /\ run' = Recover(r, asks[NewestAsk(c)].attempt)
        <4>1. run'.streak = asks[NewestAsk(c)].attempt
          BY <1>11, <3>1
        <4> DEFINE n == asks[NewestAsk(c)].attempt
        <4>2. n \in Nat /\ n <= Tries
          BY <1>7, <1>8, <3>1
        <4> HIDE DEF n
        <4>3. n <= Tries'
          BY <1>2, <1>5, <4>2
        <4> QED  BY <4>1, <4>3 DEF n
      <3>2. CASE run' = Recover(r, Trailing(c))
        <4>1. run'.streak = Trailing(c)
          BY <1>11, <3>2
        <4> QED  BY <1>2, <1>5, <1>10, <4>1
      <3>3. CASE run' = [r EXCEPT !.phase = "Resetting"]
        <4>1. run'.streak = 0
          BY <1>11, <3>3
        <4> QED  BY <1>2, <1>5, <1>10, <4>1
      <3> QED  BY <1>4, <3>1, <3>2, <3>3
    <2> QED  BY <1>5, <1>6, <2>1, <2>2 DEF RunInBounds
  <1>13. \A w \in Sent(queue') : WriteInBounds(w, Campaigned(rows), Tries')
    <2>1. CASE queue' = <<>>
      BY <2>1, SentNone
    <2>2. CASE Trailing(c) > 0 /\ run' = Recover(r, Trailing(c)) /\ queue' = <<Ask(run')>>
      <3>1. 1 <= run'.streak
        <4>1. run'.streak = Trailing(c)
          BY <1>11, <2>2
        <4> QED  BY <1>5, <2>2, <4>1
      <3>2. /\ Ask(run').campaign = run'.campaign /\ Ask(run').attempt = run'.streak
        BY StatementIs
      <3>3. WriteInBounds(Ask(run'), Campaigned(rows), Tries')
        BY <1>12, <3>1, <3>2 DEF WriteInBounds, RunInBounds
      <3> QED  BY <2>2, <3>3, SentOne
    <2> QED  BY <1>4, <2>1, <2>2
  <1> QED  BY <1>2, <1>3, <1>12, <1>13, PollBounds

\* What the end of a run sends, and the run it leaves.
LEMMA EndRunSends ==
    ASSUME Types, NEW r \in RunStates, NEW o \in Outcomes, NEW wanted, NEW wiped,
           NEW before \in Seq(Writes), EndRun(r, o, wanted, wiped, before)
    PROVE  \E id, next, recovering \in RunStates :
              /\ SameRun(id, r) /\ SameRun(next, r) /\ id.campaign = r.campaign
              /\ id.streak = r.streak
              /\ recovering.row = 0 /\ recovering.campaign = r.campaign
              /\ recovering.streak = MaxOf(r.streak + 1, Trailing(r.campaign))
              /\ \/ /\ run' \in {IdleRun, next}
                    /\ Sent(queue') \subseteq Sent(before) \cup {Close(id, o), Count(r)}
                 \/ /\ o \in Unentered \ {"evacuated"} /\ run' = recovering
                    /\ Sent(queue') \subseteq
                           Sent(before) \cup {Close(id, o), Count(r), Ask(recovering)}
  <1> DEFINE row == IF o = "reset_failed" THEN 0 ELSE RowOf(r)
             id == [r EXCEPT !.row = row]
             k == [r EXCEPT !.streak = 0]
             n == DoneAfter(r, o) + 1
             next == Repair(k, n)
             again == /\ o # "evacuated" /\ wanted
                      /\ DoneAfter(r, o) < Wanted /\ ~ wiped
             m == MaxOf(r.streak + 1, Trailing(r.campaign))
             recovering == Recover(next, m)
             recovers == again /\ o \in Unentered
             a == IF id.row # 0 THEN <<Close(id, o)>> ELSE <<>>
             b == IF Counts(o) THEN <<Count(r)>> ELSE <<>>
             c == IF recovers THEN <<Ask(recovering)>> ELSE <<>>
  <1>1. /\ queue' = ((before \o a) \o b) \o c
        /\ run' = IF recovers THEN recovering ELSE IF again THEN next ELSE IdleRun
    BY Zenon DEF EndRun
  <1>2. /\ row \in Nat /\ r.streak \in Nat /\ r.number \in Nat /\ r.campaign \in Nat
        /\ row \in {0, r.row, ActiveRow}
    BY Reads DEF RowOf, RunStates
  <1>3. /\ id \in RunStates /\ k \in RunStates /\ id.row = row
        /\ id.campaign = r.campaign /\ id.streak = r.streak
        /\ k.campaign = r.campaign /\ k.streak = 0
    BY <1>2 DEF RunStates
  <1>4. n \in Nat /\ m \in Nat
    <2>1. Trailing(r.campaign) \in Nat
      BY Reads
    <2>2. r.streak + 1 \in Nat
      BY <1>2
    <2>3. DoneAfter(r, o) \in Nat
      BY <1>2 DEF DoneAfter
    <2> QED  BY <2>1, <2>2, <2>3 DEF MaxOf
  <1>5. /\ next \in RunStates /\ recovering \in RunStates
        /\ next.row = 0 /\ next.campaign = r.campaign /\ next.streak = 0
        /\ recovering.row = 0 /\ recovering.campaign = r.campaign /\ recovering.streak = m
    <2> HIDE DEF k, n
    <2>1. next \in RunStates /\ next.campaign = r.campaign
      BY <1>3, <1>4, Repairs
    <2>2. next.row = 0 /\ next.streak = 0
      BY <1>3 DEF Repair, IdleRun
    <2> HIDE DEF next
    <2>3. /\ recovering \in RunStates /\ recovering.streak = m
          /\ recovering.campaign = next.campaign
      BY <1>4, <2>1, Recovers
    <2>4. recovering.row = next.row
      BY <2>1 DEF Recover, RunStates
    <2> QED  BY <2>1, <2>2, <2>3, <2>4
  <1>6. /\ Close(id, o) \in Writes /\ Count(r) \in Writes /\ Ask(recovering) \in Writes
    BY <1>3, <1>5, Written
  <1>7. SameRun(id, r) /\ SameRun(next, r)
    BY <1>2, <1>3, <1>5 DEF SameRun
  <1>8. recovers => o \in Unentered \ {"evacuated"}
    OBVIOUS
  <1>9. m = MaxOf(r.streak + 1, Trailing(r.campaign))
    OBVIOUS
  <1> HIDE DEF row, id, k, n, m, next, recovering, again, recovers
  <1>10. /\ a \in Seq(Writes) /\ Sent(a) \subseteq {Close(id, o)}
         /\ b \in Seq(Writes) /\ Sent(b) \subseteq {Count(r)}
         /\ c \in Seq(Writes) /\ Sent(c) \subseteq {Ask(recovering)}
         /\ ~ recovers => Sent(c) = {}
    BY <1>6, SentOne, SentNone, OneQueued, NoneQueued
  <1> HIDE DEF a, b, c
  <1>11. before \o a \in Seq(Writes) /\ Sent(before \o a) = Sent(before) \cup Sent(a)
    BY <1>10, SentBoth, ConcatProperties
  <1>12. /\ (before \o a) \o b \in Seq(Writes)
         /\ Sent((before \o a) \o b) = Sent(before) \cup Sent(a) \cup Sent(b)
    BY <1>10, <1>11, SentBoth, ConcatProperties
  <1>13. Sent(queue') = Sent(before) \cup Sent(a) \cup Sent(b) \cup Sent(c)
    BY <1>1, <1>10, <1>12, SentBoth
  <1>14. \/ /\ run' \in {IdleRun, next}
            /\ Sent(queue') \subseteq Sent(before) \cup {Close(id, o), Count(r)}
         \/ /\ o \in Unentered \ {"evacuated"} /\ run' = recovering
            /\ Sent(queue') \subseteq
                   Sent(before) \cup {Close(id, o), Count(r), Ask(recovering)}
    <2>1. CASE recovers
      BY <1>1, <1>8, <1>10, <1>13, <2>1
    <2>2. CASE ~ recovers
      BY <1>1, <1>10, <1>13, <2>2
    <2> QED  BY <2>1, <2>2
  <1> QED  BY <1>3, <1>5, <1>7, <1>9, <1>14, Zenon

\* The end of a run keeps the bounds: an attempt that failed has a row or a
\* mishap of its own.
LEMMA EndRunBounds ==
    ASSUME IInv, Bounds, NEW r \in RunStates, NEW o \in Outcomes, NEW wanted, NEW wiped,
           NEW before \in Seq(Writes), NEW b \in Int, Len(rows) <= b,
           RunInBounds(r, Len(rows), Campaigned(rows), b),
           o \in Unentered \ {"evacuated"} => r.streak + 1 <= b,
           \A w \in Sent(before) : WriteInBounds(w, Campaigned(rows), b),
           EndRun(r, o, wanted, wiped, before)
    PROVE  /\ RunInBounds(run', Len(rows), Campaigned(rows), b)
           /\ \A w \in Sent(queue') : WriteInBounds(w, Campaigned(rows), b)
           /\ \A c \in owed' : c \in owed \/ c <= Campaigned(rows) + 1
  <1>1. PICK id, next, recovering \in RunStates :
              /\ SameRun(id, r) /\ SameRun(next, r) /\ id.campaign = r.campaign
              /\ id.streak = r.streak
              /\ recovering.row = 0 /\ recovering.campaign = r.campaign
              /\ recovering.streak = MaxOf(r.streak + 1, Trailing(r.campaign))
              /\ \/ /\ run' \in {IdleRun, next}
                    /\ Sent(queue') \subseteq Sent(before) \cup {Close(id, o), Count(r)}
                 \/ /\ o \in Unentered \ {"evacuated"} /\ run' = recovering
                    /\ Sent(queue') \subseteq
                           Sent(before) \cup {Close(id, o), Count(r), Ask(recovering)}
    BY EndRunSends, Zenon DEF IInv
  <1> DEFINE n == Len(rows)
             k == Campaigned(rows)
  <1>2. n \in Nat /\ k \in Nat /\ Trailing(r.campaign) \in Nat /\ Trailing(r.campaign) <= n
    BY TriesIs, ReadsInBounds DEF IInv
  <1>3. r.streak \in Nat /\ r.campaign <= k + 1
    BY DEF RunInBounds, RunStates
  <1>4. SameRun(IdleRun, r)
    BY DEF SameRun, IdleRun
  <1>5. RunInBounds(IdleRun, n, k, b) /\ RunInBounds(next, n, k, b)
    BY <1>1, <1>4, SameInBounds
  <1>6. WriteInBounds(Close(id, o), k, b) /\ WriteInBounds(Count(r), k, b)
    BY <1>1, StatementInBounds
  <1>7. ASSUME o \in Unentered \ {"evacuated"}
        PROVE  RunInBounds(recovering, n, k, b) /\ WriteInBounds(Ask(recovering), k, b)
    <2>1. r.streak + 1 <= b /\ Trailing(r.campaign) <= b
      BY <1>2, <1>7
    <2>2. recovering.streak <= b /\ 1 <= recovering.streak
      BY <1>1, <1>2, <1>3, <2>1 DEF MaxOf
    <2>3. RunInBounds(recovering, n, k, b)
      BY <1>1, <1>2, <1>3, <2>2 DEF RunInBounds
    <2> QED  BY <1>1, <1>3, <2>2, <2>3, StatementIs DEF WriteInBounds
  <1>8. RunInBounds(run', n, k, b)
    BY <1>1, <1>5, <1>7
  <1>9. \A w \in Sent(queue') : WriteInBounds(w, k, b)
    BY <1>1, <1>6, <1>7
  <1>10. owed' \subseteq owed \cup {r.campaign}
    BY Zenon DEF EndRun
  <1>11. \A c \in owed' : c \in owed \/ c <= k + 1
    BY <1>3, <1>10
  <1> QED  BY <1>8, <1>9, <1>11

\* A poll that ends a run.
LEMMA EndsBounds ==
    ASSUME IInv, Bounds, CoordinatorPoll,
           NEW r \in RunStates, NEW o \in Outcomes, NEW wanted, NEW wiped,
           NEW before \in Seq(Writes),
           RunInBounds(r, Len(rows), Campaigned(rows), Tries),
           o \in Unentered \ {"evacuated"} => Tries + 1 <= Tries',
           \A w \in Sent(before) :
               w \in Writes /\ WriteInBounds(w, Campaigned(rows), Tries),
           hearth' \in {hearth, NoEpisode},
           EndRun(r, o, wanted, wiped, before)
    PROVE  Bounds'
  <1> DEFINE n == Len(rows)
             k == Campaigned(rows)
             x == Tries
             b == Tries'
  <1>1. /\ queue = <<>> /\ UNCHANGED <<rows, asks>> /\ b \in Int /\ x <= b
        /\ run'.phase \notin {"Gathering", "Barrier"} => n <= b
    BY PollAstray, PollTries
  <1>2. n \in Nat /\ k \in Nat /\ x \in Int /\ n <= n /\ k <= k
    BY TriesIs
  <1>3. n <= b
    <2>1. run'.phase \in {"Idle", "Repairing", "Recovering"}
      BY EndRunRests
    <2> QED  BY <1>1, <2>1
  <1>4. /\ RunInBounds(r, n, k, x) /\ \A w \in Sent(before) : WriteInBounds(w, k, x)
        /\ o \in Unentered \ {"evacuated"} => x + 1 <= b
    OBVIOUS
  <1>5. r.streak \in Nat /\ r.streak <= x
    BY DEF RunInBounds, RunStates
  <1> HIDE DEF n, k, x, b
  <1>6. RunInBounds(r, n, k, b)
    BY <1>1, <1>2, <1>4, RunGrows
  <1>7. \A w \in Sent(before) : WriteInBounds(w, k, b)
    BY <1>1, <1>2, <1>4, WriteGrows
  <1>8. o \in Unentered \ {"evacuated"} => r.streak + 1 <= b
    BY <1>1, <1>2, <1>4, <1>5
  <1>9. /\ RunInBounds(run', n, k, b)
        /\ \A w \in Sent(queue') : WriteInBounds(w, k, b)
        /\ \A c \in owed' : c \in owed \/ c <= k + 1
    BY <1>1, <1>3, <1>6, <1>7, <1>8, EndRunBounds DEF n, k
  <1>10. RunInBounds(NoEpisode, n, k, b)
    <2>1. NoEpisode.row = 0 /\ NoEpisode.campaign = 0 /\ NoEpisode.streak = 0
      BY DEF NoEpisode, IdleRun
    <2> QED  BY <1>1, <1>2, <1>3, <2>1 DEF RunInBounds
  <1> QED  BY <1>1, <1>9, <1>10, PollBounds DEF n, k, x, b

LEMMA FinalizesBounds == ASSUME IInv, Bounds, PollFinalizes PROVE Bounds'
  <1>1. CoordinatorPoll
    BY DEF CoordinatorPoll, PollIdle
  <1>2. EndRun(hearth, ExitOutcome(hearth), job, FALSE, <<>>) /\ hearth' = NoEpisode
    BY DEF PollFinalizes
  <1>3. hearth \in RunStates /\ ExitOutcome(hearth) \in Outcomes /\ <<>> \in Seq(Writes)
    BY TypesGive, Exits, NoneQueued DEF IInv
  <1>4. ExitOutcome(hearth) \notin Unentered \ {"evacuated"}
    BY <1>3 DEF ExitOutcome, Unentered, RunStates, Verdicts
  <1>5. RunInBounds(hearth, Len(rows), Campaigned(rows), Tries)
    BY DEF Bounds
  <1> QED  BY <1>1, <1>2, <1>3, <1>4, <1>5, SentNone, EndsBounds

LEMMA ExitsBounds == ASSUME IInv, Bounds, PollExits PROVE Bounds'
  <1>1. CoordinatorPoll
    BY DEF CoordinatorPoll, PollLeaves
  <1>2. EndRun(run, ExitOutcome(run), job, FALSE, <<>>) /\ hearth' = hearth
    BY DEF PollExits
  <1>3. run \in RunStates /\ ExitOutcome(run) \in Outcomes /\ <<>> \in Seq(Writes)
    BY TypesGive, Exits, NoneQueued DEF IInv
  <1>4. ExitOutcome(run) \notin Unentered \ {"evacuated"}
    BY <1>3 DEF ExitOutcome, Unentered, RunStates, Verdicts
  <1>5. RunInBounds(run, Len(rows), Campaigned(rows), Tries)
    BY DEF Bounds
  <1> QED  BY <1>1, <1>2, <1>3, <1>4, <1>5, SentNone, EndsBounds

\* What the coordinator may say of its run.
LEMMA StampedBounds ==
    ASSUME IInv, Bounds
    PROVE  /\ Stamped \in RunStates /\ Stamps \in Seq(Writes)
           /\ RunInBounds(Stamped, Len(rows), Campaigned(rows), Tries)
           /\ RunInBounds(run, Len(rows), Campaigned(rows), Tries) /\ run \in RunStates
           /\ \A w \in Sent(Stamps) :
                 w \in Writes /\ WriteInBounds(w, Campaigned(rows), Tries)
           /\ \A w \in {Stamp(Stamped), Stamp([run EXCEPT !.row = RowOf(run)])} :
                 w \in Writes /\ WriteInBounds(w, Campaigned(rows), Tries)
           /\ \A o \in Outcomes : /\ Record(run, o) \in Writes
                                  /\ WriteInBounds(Record(run, o), Campaigned(rows), Tries)
  <1> DEFINE s == [run EXCEPT !.row = RowOf(run)]
  <1>1. /\ run \in RunStates /\ Tries \in Int /\ ActiveRow \in Nat
        /\ RunInBounds(run, Len(rows), Campaigned(rows), Tries)
    BY TriesIs, Reads DEF IInv, Bounds
  <1>2. Stamped \in RunStates /\ Stamps \in Seq(Writes)
    BY StampedGives DEF IInv
  <1>3. s \in RunStates /\ SameRun(s, run) /\ SameRun(Stamped, run)
    BY <1>1 DEF RunStates, SameRun, RowOf, Stamped
  <1>4. s.campaign = run.campaign /\ s.streak = run.streak
    BY <1>1 DEF RunStates
  <1> HIDE DEF s
  <1>5. RunInBounds(Stamped, Len(rows), Campaigned(rows), Tries)
    BY <1>1, <1>3, SameInBounds
  <1>6. RunInBounds(s, Len(rows), Campaigned(rows), Tries)
    BY <1>1, <1>3, SameInBounds
  <1>7. /\ WriteInBounds(Stamp(Stamped), Campaigned(rows), Tries)
        /\ WriteInBounds(Stamp(s), Campaigned(rows), Tries)
        /\ \A o : WriteInBounds(Record(run, o), Campaigned(rows), Tries)
    BY <1>1, <1>5, <1>6, StatementInBounds
  <1>8. /\ Stamp(Stamped) \in Writes /\ Stamp(s) \in Writes
        /\ \A o \in Outcomes : Record(run, o) \in Writes
    <2>1. "left" \in Outcomes
      BY DEF Outcomes, Entered
    <2> QED  BY <1>1, <1>2, <1>3, <2>1, Written
  <1>9. Sent(Stamps) \subseteq {Stamp(Stamped)}
    BY SentNone, SentOne DEF Stamps, StampOf
  <1> QED  BY <1>1, <1>2, <1>5, <1>7, <1>8, <1>9 DEF s

LEMMA FindsNobodyBounds == ASSUME IInv, Bounds, PollFindsNobody PROVE Bounds'
  <1>1. CoordinatorPoll
    BY DEF CoordinatorPoll, PollInside
  <1>2. PICK o \in {"emptied", "wipe"}, wiped \in BOOLEAN :
            EndRun(Stamped, o, job, wiped, Stamps)
    BY DEF PollFindsNobody
  <1>3. o \in Outcomes /\ o \notin Unentered \ {"evacuated"}
    BY DEF Outcomes, Entered, Unentered
  <1>4. hearth' = hearth
    BY DEF PollFindsNobody, Live
  <1> QED  BY <1>1, <1>2, <1>3, <1>4, StampedBounds, EndsBounds

LEMMA ResetFailsBounds == ASSUME IInv, Bounds, PollResetFails PROVE Bounds'
  <1>1. CoordinatorPoll
    BY DEF CoordinatorPoll, PollOutside
  <1>2. /\ Mishap /\ hearth' = hearth
        /\ EndRun(run, "reset_failed", TRUE, FALSE, <<Record(run, "reset_failed")>>)
    BY DEF PollResetFails, Live
  <1>3. run \in RunStates /\ "reset_failed" \in Outcomes
    BY TypesGive DEF IInv, Outcomes, Unentered
  <1>4. Tries + 1 <= Tries'
    BY <1>1, <1>2, PollTries
  <1>5. <<Record(run, "reset_failed")>> \in Seq(Writes)
    BY <1>3, OneRecords
  <1>6. \A w \in Sent(<<Record(run, "reset_failed")>>) :
            w \in Writes /\ WriteInBounds(w, Campaigned(rows), Tries)
    BY <1>3, SentOne, StampedBounds
  <1>7. RunInBounds(run, Len(rows), Campaigned(rows), Tries)
    BY StampedBounds
  <1> DEFINE before == <<Record(run, "reset_failed")>>
  <1>8. /\ before \in Seq(Writes) /\ EndRun(run, "reset_failed", TRUE, FALSE, before)
        /\ \A w \in Sent(before) : w \in Writes /\ WriteInBounds(w, Campaigned(rows), Tries)
    BY <1>2, <1>5, <1>6
  <1> HIDE DEF before
  <1> QED  BY <1>1, <1>2, <1>3, <1>4, <1>7, <1>8, EndsBounds

LEMMA SplitsBounds == ASSUME IInv, Bounds, PollSplits PROVE Bounds'
  <1> DEFINE last == IF RowOf(Stamped) # 0 THEN <<Stamp(Stamped)>>
                     ELSE <<Record(run, "split_failed")>>
  <1>1. CoordinatorPoll
    BY DEF CoordinatorPoll, PollInside
  <1>2. /\ Mishap /\ hearth' = hearth
        /\ EndRun(Stamped, "split_failed", job, FALSE, Stamps \o last)
    BY DEF PollSplits, Live
  <1>3. run \in RunStates /\ "split_failed" \in Outcomes /\ Stamped \in RunStates
    BY TypesGive, StampedGives DEF IInv, Outcomes, Unentered
  <1>4. Tries + 1 <= Tries'
    BY <1>1, <1>2, PollTries
  <1>5. /\ last \in Seq(Writes)
        /\ Sent(last) \subseteq {Stamp(Stamped), Record(run, "split_failed")}
    BY <1>3, OneRecords, SentOne
  <1> HIDE DEF last
  <1>6. /\ Stamps \o last \in Seq(Writes)
        /\ Sent(Stamps \o last) = Sent(Stamps) \cup Sent(last)
    BY <1>5, SentBoth, StampedBounds, ConcatProperties
  <1>7. \A w \in Sent(Stamps \o last) :
            w \in Writes /\ WriteInBounds(w, Campaigned(rows), Tries)
    BY <1>3, <1>5, <1>6, StampedBounds
  <1> QED  BY <1>1, <1>2, <1>3, <1>4, <1>6, <1>7, StampedBounds, EndsBounds

LEMMA StagingFailsBounds == ASSUME IInv, Bounds, PollStagingFails PROVE Bounds'
  <1> DEFINE s == [run EXCEPT !.row = RowOf(run)]
             sent(written) == IF ~ written THEN <<>>
                              ELSE IF RowOf(run) # 0 THEN <<Stamp(s)>>
                              ELSE <<Record(run, "staging_failed")>>
  <1>1. CoordinatorPoll
    BY DEF CoordinatorPoll, PollOutside
  <1>2. /\ run.phase \in {"Gathering", "Barrier"} /\ hearth' = hearth
        /\ IF inside = {} THEN Mishap ELSE NoMishap
    BY DEF PollStagingFails, Live, Phase
  <1>3. PICK written \in BOOLEAN : EndRun(run, "staging_failed", TRUE, FALSE, sent(written))
    BY Zenon DEF PollStagingFails
  <1>4. run \in RunStates /\ "staging_failed" \in Outcomes /\ s \in RunStates
    <2>1. run \in RunStates /\ ActiveRow \in Nat
      BY TypesGive, Reads DEF IInv
    <2> QED  BY <2>1 DEF RunStates, RowOf, Outcomes, Unentered
  <1> DEFINE before == sent(written)
  <1>5. /\ before \in Seq(Writes)
        /\ Sent(before) \subseteq {Stamp(s), Record(run, "staging_failed")}
    <2> HIDE DEF s
    <2> QED  BY <1>4, OneRecords, NoneQueued, SentOne, SentNone
  <1>6. EndRun(run, "staging_failed", TRUE, FALSE, before)
    BY <1>3
  <1> HIDE DEF before
  <1>7. Tries + 1 <= Tries'
    <2>1. CASE inside = {}
      BY <1>1, <1>2, <2>1, PollTries
    <2>2. CASE inside # {}
      <3>1. run'.phase \in {"Idle", "Repairing", "Recovering"}
        BY <1>6, EndRunRests
      <3>2. Astray = 1
        BY <1>2, <2>2 DEF Astray, Once
      <3> QED  BY <1>1, <3>1, <3>2, PollTries
    <2> QED  BY <2>1, <2>2
  <1>8. \A w \in Sent(before) : w \in Writes /\ WriteInBounds(w, Campaigned(rows), Tries)
    BY <1>4, <1>5, StampedBounds
  <1> HIDE DEF s
  <1> QED  BY <1>1, <1>2, <1>4, <1>5, <1>6, <1>7, <1>8, StampedBounds, EndsBounds

LEMMA CoordinatorBounds == ASSUME IInv, Bounds, CoordinatorPoll PROVE Bounds'
  BY GoesBounds, EvacuatesBounds, AdoptsBounds, StartsBounds, FinalizesBounds, ExitsBounds,
     FindsNobodyBounds, ResetFailsBounds, SplitsBounds, StagingFailsBounds
     DEF CoordinatorPoll, PollIdle, PollOutside, PollInside, PollLeaves, PollRecovery

\* A statement names a row that has no name yet, or one it appends.
LEMMA RowsAfterNames ==
    ASSUME Types, NEW w \in Writes
    PROVE  /\ \A i \in DOMAIN rows :
                 /\ i \in DOMAIN RowsAfter(w)
                 /\ rows[i].campaign # 0 => RowsAfter(w)[i].campaign = rows[i].campaign
           /\ \A i \in DOMAIN RowsAfter(w) :
                 \/ i \in DOMAIN rows /\ RowsAfter(w)[i].campaign = rows[i].campaign
                 \/ /\ RowsAfter(w)[i].campaign = w.campaign
                    /\ i \in DOMAIN rows => rows[i].campaign = 0
  <1>1. /\ rows \in Seq(Rows) /\ DOMAIN rows = 1 .. Len(rows) /\ Len(rows) \in Nat
        /\ \A j \in DOMAIN rows : rows[j] \in Rows
    BY TypesGive, RowIs
  <1>2. RowsAfter(w) \in Seq(Rows)
    BY TablesAfter
  <1>3. CASE w.do = "stamp" /\ w.row \in DOMAIN rows /\ rows[w.row].campaign = 0
    <2>1. RowsAfter(w) = [rows EXCEPT ![w.row].campaign = w.campaign, ![w.row].number = w.number]
      BY <1>3 DEF RowsAfter
    <2>2. DOMAIN RowsAfter(w) = DOMAIN rows
      BY <1>1, <2>1
    <2>3. RowsAfter(w)[w.row].campaign = w.campaign
      <3>1. RowsAfter(w)[w.row] =
               [[rows[w.row] EXCEPT !.campaign = w.campaign] EXCEPT !.number = w.number]
        BY <1>1, <1>3, <2>1
      <3> QED  BY <1>1, <1>3, <3>1 DEF Rows
    <2>4. \A i \in DOMAIN rows : i # w.row => RowsAfter(w)[i] = rows[i]
      BY <1>1, <2>1
    <2> QED  BY <1>3, <2>2, <2>3, <2>4
  <1>4. CASE w.do = "close" /\ Active(w.row)
    <2>1. RowsAfter(w) = [rows EXCEPT ![w.row].outcome = w.outcome]
      BY <1>4 DEF RowsAfter
    <2>2. DOMAIN RowsAfter(w) = DOMAIN rows
      BY <1>1, <2>1
    <2>3. ASSUME NEW i \in DOMAIN rows PROVE RowsAfter(w)[i].campaign = rows[i].campaign
      <3>1. CASE i = w.row
        <4>1. RowsAfter(w)[i] = [rows[i] EXCEPT !.outcome = w.outcome]
          BY <1>1, <2>1, <3>1
        <4> QED  BY <1>1, <4>1 DEF Rows
      <3>2. CASE i # w.row
        BY <1>1, <2>1, <3>2
      <3> QED  BY <3>1, <3>2
    <2> QED  BY <2>2, <2>3
  <1>5. CASE w.do = "record"
    <2> DEFINE x == [campaign |-> w.campaign, number |-> w.number, outcome |-> w.outcome]
    <2>1. RowsAfter(w) = Append(rows, x) /\ x.campaign = w.campaign
      BY <1>5 DEF RowsAfter
    <2>2. x \in Rows
      BY <1>5 DEF Rows, Writes
    <2> HIDE DEF x
    <2>3. /\ Len(Append(rows, x)) = Len(rows) + 1
          /\ \A i \in 1 .. Len(rows) : Append(rows, x)[i] = rows[i]
          /\ Append(rows, x)[Len(rows) + 1] = x
      BY <1>1, <2>2, AppendProperties
    <2>4. DOMAIN RowsAfter(w) = 1 .. Len(rows) + 1
      BY <1>2, <2>1, <2>3, LenProperties
    <2>5. /\ \A i \in 1 .. Len(rows) : i \in 1 .. Len(rows) + 1
          /\ \A i \in 1 .. Len(rows) + 1 : i \in 1 .. Len(rows) \/ i = Len(rows) + 1
          /\ Len(rows) + 1 \notin 1 .. Len(rows)
      BY <1>1
    <2>6. \A i \in DOMAIN rows : i \in DOMAIN RowsAfter(w) /\ RowsAfter(w)[i] = rows[i]
      BY <1>1, <2>1, <2>3, <2>4, <2>5
    <2>7. ASSUME NEW i \in DOMAIN RowsAfter(w), i \notin DOMAIN rows
          PROVE  RowsAfter(w)[i].campaign = w.campaign
      <3>1. i = Len(rows) + 1
        BY <1>1, <2>4, <2>5, <2>7
      <3> QED  BY <2>1, <2>3, <3>1
    <2> QED  BY <2>6, <2>7
  <1>6. CASE /\ ~ (w.do = "stamp" /\ w.row \in DOMAIN rows /\ rows[w.row].campaign = 0)
             /\ ~ (w.do = "close" /\ Active(w.row))
             /\ w.do # "record"
    <2>1. RowsAfter(w) = rows
      BY <1>6 DEF RowsAfter
    <2> QED  BY <2>1
  <1> QED  BY <1>3, <1>4, <1>5, <1>6

LEMMA AsksAfterInBounds ==
    ASSUME Types, NEW w \in Writes, NEW n \in Nat, NEW k \in Nat, NEW b \in Int,
           WriteInBounds(w, k, b), Len(rows) <= n,
           \A i \in DOMAIN asks : AskInBounds(asks[i], n, k, b)
    PROVE  \A i \in DOMAIN AsksAfter(w) : AskInBounds(AsksAfter(w)[i], n, k, b)
  <1>1. /\ asks \in Seq(Asks) /\ DOMAIN asks = 1 .. Len(asks) /\ Len(asks) \in Nat
        /\ \A j \in DOMAIN asks : asks[j] \in Asks
        /\ Len(rows) \in Nat
    BY TypesGive, RowIs
  <1>2. CASE w.do = "ask"
    <2> DEFINE x == [campaign |-> w.campaign, attempt |-> w.attempt,
                     applied |-> FALSE, after |-> Len(rows)]
    <2>1. AsksAfter(w) = Append(asks, x)
      BY <1>2 DEF AsksAfter
    <2>2. x \in Asks
      BY <1>1, <1>2 DEF Asks, Writes
    <2>3. AskInBounds(x, n, k, b)
      BY <1>2 DEF AskInBounds, WriteInBounds
    <2> HIDE DEF x
    <2>4. /\ Append(asks, x) \in Seq(Asks) /\ Len(Append(asks, x)) = Len(asks) + 1
          /\ \A i \in 1 .. Len(asks) : Append(asks, x)[i] = asks[i]
          /\ Append(asks, x)[Len(asks) + 1] = x
      BY <1>1, <2>2, AppendProperties
    <2>5. DOMAIN AsksAfter(w) = 1 .. Len(asks) + 1
      BY <2>1, <2>4, LenProperties
    <2>6. \A i \in 1 .. Len(asks) + 1 : i \in 1 .. Len(asks) \/ i = Len(asks) + 1
      BY <1>1
    <2> QED  BY <1>1, <2>1, <2>3, <2>4, <2>5, <2>6
  <1>3. CASE w.do = "apply"
    <2> DEFINE after(i) == IF asks[i].campaign = w.campaign /\ asks[i].attempt = w.attempt
                           THEN [asks[i] EXCEPT !.applied = TRUE] ELSE asks[i]
    <2>1. AsksAfter(w) = [i \in DOMAIN asks |-> after(i)]
      BY <1>3 DEF AsksAfter
    <2>2. ASSUME NEW i \in DOMAIN asks PROVE AskInBounds(after(i), n, k, b)
      <3>1. asks[i] \in Asks /\ AskInBounds(asks[i], n, k, b)
        BY <1>1
      <3>2. /\ after(i).campaign = asks[i].campaign /\ after(i).attempt = asks[i].attempt
            /\ after(i).after = asks[i].after
        BY <3>1 DEF Asks
      <3> HIDE DEF after
      <3> QED  BY <3>1, <3>2 DEF AskInBounds
    <2> HIDE DEF after
    <2> QED  BY <2>1, <2>2
  <1>4. CASE w.do \notin {"ask", "apply"}
    BY <1>4 DEF AsksAfter
  <1> QED  BY <1>2, <1>3, <1>4

LEMMA WorkerBounds == ASSUME IInv, IInv', Bounds, ApplyWrite PROVE Bounds'
  <1> DEFINE w == Head(queue)
             n == Len(rows)
             k == Campaigned(rows)
             x == Tries
             n1 == Len(rows')
             k1 == Campaigned(rows')
             b == Tries'
  <1>1. /\ queue # <<>> /\ queue' = Tail(queue) /\ rows' = RowsAfter(w)
        /\ asks' = AsksAfter(w)
        /\ UNCHANGED <<run, hearth, inside, mishaps, returns, owed>>
    BY DEF ApplyWrite, world, party, coordinator, spent
  <1>2. /\ queue \in Seq(Writes) /\ rows \in Seq(Rows) /\ Types
        /\ Sent(queue) = {w} \cup Sent(queue') /\ w \in Writes
    <2>1. queue \in Seq(Writes) /\ rows \in Seq(Rows) /\ Types
      BY TypesGive DEF IInv
    <2>2. Sent(queue) = {w} \cup Sent(queue')
      BY <1>1, <2>1, TailSent
    <2>3. w \in Writes
      BY <2>2, TriesIs
    <2> QED  BY <2>1, <2>2, <2>3
  <1>3. WriteInBounds(w, k, x) /\ \A v \in Sent(queue') : v \in Sent(queue)
    BY <1>2 DEF Bounds
  <1> HIDE DEF w
  <1>4. /\ rows' \in Seq(Rows) /\ n <= n1 /\ n \in Nat /\ n1 \in Nat
    <2>1. rows' \in Seq(Rows) /\ Len(rows) \in Nat
          /\ Len(rows') = IF w.do = "record" THEN Len(rows) + 1 ELSE Len(rows)
      BY <1>1, <1>2, RowsAfterHold, TriesIs
    <2> QED  BY <2>1
  <1>5. /\ \A i \in DOMAIN rows :
              i \in DOMAIN rows' /\ (rows[i].campaign # 0 => rows'[i].campaign = rows[i].campaign)
        /\ \A i \in DOMAIN rows' :
              \/ i \in DOMAIN rows /\ rows'[i].campaign = rows[i].campaign
              \/ rows'[i].campaign = w.campaign /\ (i \in DOMAIN rows => rows[i].campaign = 0)
    BY <1>1, <1>2, RowsAfterNames
  <1>6. /\ k \in Nat /\ k1 \in Nat /\ k <= k1
        /\ \A j \in DOMAIN rows' :
              rows'[j].campaign # 0 /\ (j \in DOMAIN rows => rows[j].campaign = 0) => k + 1 <= k1
    <2>1. \A i \in DOMAIN rows :
              i \in DOMAIN rows' /\ (rows[i].campaign # 0 => rows'[i].campaign # 0)
      BY <1>5
    <2> QED  BY <1>2, <1>4, <2>1, CampaignedIs, CampaignedGrows
  <1>7. /\ x \in Int /\ b \in Int /\ x <= b
    <2>1. /\ mishaps \in Nat /\ returns \in Nat /\ Astray \in {0, 1}
      BY TriesIs
    <2>2. /\ x = n + mishaps + returns - Astray /\ b = n1 + mishaps + returns - Astray
      BY <1>1 DEF Tries, Astray
    <2> DEFINE m == mishaps
               q == returns
               a == Astray
    <2>3. m \in Nat /\ q \in Nat /\ a \in {0, 1} /\ x = n + m + q - a /\ b = n1 + m + q - a
      BY <2>1, <2>2
    <2> HIDE DEF n, n1, x, b, m, q, a
    <2> QED  BY ONLY <2>3, <1>4
  <1>8. \A i \in DOMAIN rows' : rows'[i].campaign <= k1
    <2> SUFFICES ASSUME NEW i \in DOMAIN rows' PROVE rows'[i].campaign <= k1
      OBVIOUS
    <2>1. CASE i \in DOMAIN rows /\ rows'[i].campaign = rows[i].campaign
      <3>1. rows[i].campaign <= k /\ rows[i].campaign \in Nat
        BY <2>1, RowIs DEF Bounds, IInv
      <3> HIDE DEF k, k1
      <3> QED  BY <1>6, <2>1, <3>1
    <2>2. CASE rows'[i].campaign = w.campaign /\ (i \in DOMAIN rows => rows[i].campaign = 0)
      <3>1. w.campaign \in Nat /\ w.campaign <= k + 1
        BY <1>2, <1>3 DEF WriteInBounds, Writes
      <3>2. w.campaign # 0 => k + 1 <= k1
        BY <1>6, <2>2
      <3> HIDE DEF k, k1
      <3> QED  BY <1>6, <2>2, <3>1, <3>2
    <2> QED  BY <1>5, <2>1, <2>2
  <1>9. \A i \in DOMAIN asks' : AskInBounds(asks'[i], n1, k1, b)
    <2>1. WriteInBounds(w, k1, b)
      <3> HIDE DEF k, k1, x, b
      <3> QED  BY <1>2, <1>3, <1>6, <1>7, WriteGrows
    <2>2. \A i \in DOMAIN asks : AskInBounds(asks[i], n1, k1, b)
      <3>1. \A i \in DOMAIN asks : asks[i] \in Asks /\ AskInBounds(asks[i], n, k, x)
        BY <1>2, RowIs DEF Bounds
      <3> HIDE DEF n, k, x, n1, k1, b
      <3> QED  BY <1>4, <1>6, <1>7, <3>1, AskGrows
    <2>3. Len(rows) <= n1
      BY <1>4
    <2> HIDE DEF n1, k1, b
    <2> QED  BY <1>1, <1>2, <1>4, <1>6, <1>7, <2>1, <2>2, <2>3, AsksAfterInBounds
  <1>10. Len(rows) <= n1 /\ Campaigned(rows) <= k1 /\ Tries <= b
    BY <1>4, <1>6, <1>7
  <1>11. Len(rows') = n1 /\ Campaigned(rows') = k1 /\ Tries' = b
    OBVIOUS
  <1> HIDE DEF n, k, x, n1, k1, b
  <1> QED  BY <1>1, <1>3, <1>4, <1>6, <1>7, <1>8, <1>9, <1>10, <1>11, BoundsKeep

\* Whoever runs back in has his way back counted.
LEMMA StepTries ==
    ASSUME IInv, IInv', NEW j \in {0, 1}, mishaps' + returns' = mishaps + returns + j,
           Len(rows) <= Len(rows'), Astray' <= Astray + j
    PROVE  Tries' \in Int /\ Tries <= Tries'
  <1> DEFINE n == Len(rows)
             m == mishaps
             q == returns
             a == Astray
             n1 == Len(rows')
             m1 == mishaps'
             q1 == returns'
             a1 == Astray'
             x == Tries
             x1 == Tries'
  <1>1. n \in Nat /\ m \in Nat /\ q \in Nat /\ a \in {0, 1} /\ a1 \in {0, 1}
    BY TriesIs
  <1>2. n1 \in Nat /\ m1 \in Nat /\ q1 \in Nat
    <2>1. mishaps' \in 0 .. MaxMishaps /\ returns' \in 0 .. MaxReturns
          /\ MaxMishaps \in Nat /\ MaxReturns \in Nat
      BY Constants DEF IInv, Types, PartyTypes
    <2>2. rows' \in Seq(Rows)
      BY DEF IInv, Types, TableTypes
    <2> QED  BY <2>1, <2>2, LenProperties
  <1>3. x = n + m + q - a /\ x1 = n1 + m1 + q1 - a1
    BY DEF Tries
  <1>4. n <= n1 /\ m1 + q1 = m + q + j /\ a1 <= a + j
    OBVIOUS
  <1> HIDE DEF n, m, q, a, n1, m1, q1, a1, x, x1
  <1>5. x1 \in Int /\ x <= x1
    BY ONLY <1>1, <1>2, <1>3, <1>4, j \in {0, 1}
  <1> QED  BY <1>5 DEF x, x1

\* What happens outside of the coordinator and the tables.
LEMMA ElsewhereBounds ==
    ASSUME IInv, IInv', Bounds, UNCHANGED <<run, hearth, rows, asks, queue, owed>>,
           NEW j \in {0, 1}, mishaps' + returns' = mishaps + returns + j,
           Astray' <= Astray + j
    PROVE  Bounds'
  <1> DEFINE n == Len(rows)
             k == Campaigned(rows)
             b == Tries'
  <1>1. n \in Nat /\ k \in Nat /\ n <= n /\ k <= k
    BY TriesIs
  <1>2. b \in Int /\ Tries <= b
    BY <1>1, StepTries
  <1>3. \A i \in DOMAIN rows' : rows'[i].campaign <= k
    BY DEF Bounds
  <1>4. Len(rows) <= n /\ Campaigned(rows) <= k /\ Len(rows') = n /\ Campaigned(rows') = k
        /\ Tries' = b
    BY <1>1
  <1> HIDE DEF n, k, b
  <1> QED  BY <1>1, <1>2, <1>3, <1>4, BoundsKeep

LEMMA AstrayIs ==
    ASSUME IInv, IInv'
    PROVE  /\ Astray \in {0, 1} /\ Astray' \in {0, 1}
           /\ mishaps \in Nat /\ returns \in Nat
           /\ run' = run /\ (inside' # {} => inside # {}) => Astray' <= Astray
           /\ run'.phase \notin {"Gathering", "Barrier"} => Astray' = 0
  <1>1. /\ Astray \in {0, 1} /\ Astray' \in {0, 1} /\ mishaps \in Nat /\ returns \in Nat
    BY TriesIs
  <1>2. run' = run /\ (inside' # {} => inside # {}) => Astray' <= Astray
    BY DEF Astray, Once
  <1>3. run'.phase \notin {"Gathering", "Barrier"} => Astray' = 0
    BY DEF Astray, Once
  <1> QED  BY <1>1, <1>2, <1>3

LEMMA WorldBounds ==
    ASSUME IInv, IInv', Bounds,
           \/ Walks \/ LastBossDies \/ BagsFill \/ BagsEmpty \/ JobGoes \/ JobComes
           \/ \E m \in Members : Dies(m) \/ RunsBackIn(m)
    PROVE  Bounds'
  <1>1. UNCHANGED <<run, hearth, rows, asks, queue, owed>>
    BY DEF Walks, WalksIn, WalksOut, Rises, Dies, RunsBackIn, LastBossDies, BagsFill,
           BagsEmpty, JobGoes, JobComes, Elsewhere, coordinator, database
  <1>2. CASE Walks
    <2>1. mishaps' + returns' = mishaps + returns + 0
      <3>1. mishaps' = mishaps /\ returns' = returns
        BY <1>2 DEF Walks, WalksIn, WalksOut, Rises, spent
      <3> QED  BY <3>1, AstrayIs
    <2>2. Astray' <= Astray + 0
      <3>1. PICK m \in Members : WalksIn(m) \/ WalksOut(m) \/ Rises(m)
        BY <1>2 DEF Walks
      <3>2. CASE WalksIn(m)
        <4>1. run'.phase \notin {"Gathering", "Barrier"}
          BY <1>1, <3>2 DEF WalksIn
        <4> QED  BY <4>1, AstrayIs
      <3>3. CASE WalksOut(m) \/ Rises(m)
        <4>1. inside' # {} => inside # {}
          BY <3>3 DEF WalksOut, Rises
        <4> QED  BY <1>1, <4>1, AstrayIs
      <3> QED  BY <3>1, <3>2, <3>3
    <2> QED  BY <1>1, <2>1, <2>2, ElsewhereBounds
  <1>3. CASE \E m \in Members : Dies(m) \/ RunsBackIn(m)
    <2>1. mishaps' + returns' = mishaps + returns + 1
      <3>1. \/ mishaps' = mishaps + 1 /\ returns' = returns
            \/ mishaps' = mishaps /\ returns' = returns + 1
        BY <1>3 DEF Dies, RunsBackIn, Mishap
      <3> QED  BY <3>1, AstrayIs
    <2>2. Astray' <= Astray + 1
      BY AstrayIs
    <2> QED  BY <1>1, <2>1, <2>2, ElsewhereBounds
  <1>4. CASE LastBossDies \/ BagsEmpty \/ JobComes
    <2>1. mishaps' = mishaps /\ returns' = returns /\ inside' = inside
      BY <1>4 DEF LastBossDies, BagsEmpty, JobComes, world, party, spent
    <2>2. mishaps' + returns' = mishaps + returns + 0 /\ Astray' <= Astray + 0
      BY <1>1, <2>1, AstrayIs
    <2> QED  BY <1>1, <2>2, ElsewhereBounds
  <1>5. CASE BagsFill \/ JobGoes
    <2>1. mishaps' = mishaps + 1 /\ returns' = returns
      BY <1>5 DEF BagsFill, JobGoes, Mishap
    <2>2. mishaps' + returns' = mishaps + returns + 1 /\ Astray' <= Astray + 1
      BY <2>1, AstrayIs
    <2> QED  BY <1>1, <2>2, ElsewhereBounds
  <1> QED  BY <1>2, <1>3, <1>4, <1>5

LEMMA RowsBounds == ASSUME IInv, IInv', Bounds, OpensRow \/ ClosesCold PROVE Bounds'
  <1> DEFINE n == Len(rows)
             k == Campaigned(rows)
             n1 == Len(rows')
             k1 == Campaigned(rows')
             b == Tries'
  <1>1. /\ UNCHANGED <<run, hearth, inside, mishaps, returns, asks, queue, owed>>
    BY DEF OpensRow, ClosesCold, world, party, coordinator, spent
  <1>2. /\ rows \in Seq(Rows) /\ DOMAIN rows = 1 .. Len(rows) /\ n \in Nat
        /\ \A i \in DOMAIN rows : rows[i] \in Rows
    BY TypesGive, RowIs DEF IInv
  <1>3. rows' \in Seq(Rows)
    BY DEF IInv, Types, TableTypes
  <1>4. /\ \A i \in DOMAIN rows : i \in DOMAIN rows' /\ rows'[i].campaign = rows[i].campaign
        /\ \A i \in DOMAIN rows' : i \notin DOMAIN rows => rows'[i].campaign = 0
        /\ n1 \in {n, n + 1}
    <2>1. CASE OpensRow
      <3> DEFINE x == [campaign |-> 0, number |-> 0, outcome |-> "active"]
      <3>1. rows' = Append(rows, x) /\ x.campaign = 0 /\ x \in Rows
        BY <2>1 DEF OpensRow, Rows
      <3> HIDE DEF x
      <3>2. /\ Len(Append(rows, x)) = n + 1
            /\ \A i \in 1 .. n : Append(rows, x)[i] = rows[i]
            /\ Append(rows, x)[n + 1] = x
        BY <1>2, <3>1, AppendProperties
      <3>3. DOMAIN rows' = 1 .. n + 1
        BY <1>3, <3>1, <3>2, LenProperties
      <3> HIDE DEF n
      <3>4. /\ \A i \in 1 .. n : i \in 1 .. n + 1
            /\ \A i \in 1 .. n + 1 : i \in 1 .. n \/ i = n + 1
        BY <1>2
      <3> QED  BY <1>2, <3>1, <3>2, <3>3, <3>4 DEF n
    <2>2. CASE ClosesCold
      <3>1. rows' = [rows EXCEPT ![ActiveRow].outcome = "emptied"]
        BY <2>2 DEF ClosesCold
      <3>2. DOMAIN rows' = DOMAIN rows /\ n1 = n
        BY <1>2, <1>3, <3>1, LenProperties
      <3>3. ASSUME NEW i \in DOMAIN rows PROVE rows'[i].campaign = rows[i].campaign
        <4>1. CASE i = ActiveRow
          <5>1. rows'[i] = [rows[i] EXCEPT !.outcome = "emptied"]
            BY <1>2, <3>1, <4>1
          <5> QED  BY <1>2, <5>1 DEF Rows
        <4>2. CASE i # ActiveRow
          BY <1>2, <3>1, <4>2
        <4> QED  BY <4>1, <4>2
      <3> QED  BY <3>2, <3>3
    <2> QED  BY <2>1, <2>2
  <1>5. n1 \in Nat /\ n <= n1
    BY <1>2, <1>4
  <1>6. k \in Nat /\ k1 \in Nat /\ k <= k1
    <2>1. \A i \in DOMAIN rows :
              i \in DOMAIN rows' /\ (rows[i].campaign # 0 => rows'[i].campaign # 0)
      BY <1>4
    <2> QED  BY <1>2, <1>3, <2>1, CampaignedIs, CampaignedGrows
  <1>7. b \in Int /\ Tries <= b
    <2>1. mishaps' + returns' = mishaps + returns + 0 /\ Astray' <= Astray + 0
      BY <1>1, AstrayIs
    <2>2. Len(rows) <= Len(rows')
      BY <1>5
    <2> QED  BY <2>1, <2>2, StepTries
  <1>8. \A i \in DOMAIN rows' : rows'[i].campaign <= k1
    <2> SUFFICES ASSUME NEW i \in DOMAIN rows' PROVE rows'[i].campaign <= k1
      OBVIOUS
    <2>1. CASE i \in DOMAIN rows
      <3>1. /\ rows[i].campaign <= k /\ rows[i].campaign \in Nat
            /\ rows'[i].campaign = rows[i].campaign
        BY <1>4, <2>1, RowIs DEF Bounds, IInv
      <3> HIDE DEF k, k1
      <3> QED  BY <1>6, <3>1
    <2>2. CASE i \notin DOMAIN rows
      BY <1>4, <1>6, <2>2
    <2> QED  BY <2>1, <2>2
  <1>9. Len(rows) <= n1 /\ Campaigned(rows) <= k1 /\ Tries <= b
    BY <1>5, <1>6, <1>7
  <1>10. Len(rows') = n1 /\ Campaigned(rows') = k1 /\ Tries' = b
    OBVIOUS
  <1> HIDE DEF n, k, n1, k1, b
  <1> QED  BY <1>1, <1>5, <1>6, <1>7, <1>8, <1>9, <1>10, BoundsKeep

LEMMA RestartBounds == ASSUME IInv, IInv', Bounds, Restart PROVE Bounds'
  <1> DEFINE n == Len(rows)
             k == Campaigned(rows)
             x == Tries
             b == Tries'
  <1>1. /\ run' = IdleRun /\ hearth' = NoEpisode /\ queue' = <<>> /\ Mishap
        /\ UNCHANGED <<inside, rows, asks, done, returns>>
    BY DEF Restart, world, party, database
  <1>2. owed' \subseteq owed
    BY DEF Restart
  <1>3. /\ n \in Nat /\ k \in Nat /\ n <= n /\ k <= k /\ x \in Int
    BY TriesIs
  <1>4. b \in Int /\ x <= b
    <2>1. mishaps' + returns' = mishaps + returns + 1
      BY <1>1, AstrayIs DEF Mishap
    <2>2. Astray' <= Astray + 1 /\ Len(rows) <= Len(rows')
      BY <1>1, <1>3, AstrayIs
    <2> QED  BY <2>1, <2>2, StepTries
  <1>5. 0 <= b
    <2>1. run.streak \in Nat /\ run.streak <= x
      BY TriesIs DEF Bounds, RunInBounds, RunStates
    <2> HIDE DEF x, b
    <2> QED  BY <1>3, <1>4, <2>1
  <1>6. \A i \in DOMAIN rows' : rows'[i].campaign <= k
    BY <1>1 DEF Bounds
  <1>7. Len(rows) <= n /\ Campaigned(rows) <= k /\ Tries <= b
        /\ Len(rows') = n /\ Campaigned(rows') = k /\ Tries' = b
    BY <1>1, <1>3, <1>4
  <1> HIDE DEF n, k, x, b
  <1>8. RunInBounds(run', n, k, b) /\ RunInBounds(hearth', n, k, b)
    BY <1>1, <1>3, <1>4, <1>5 DEF RunInBounds, NoEpisode, IdleRun
  <1>9. \A w \in Sent(queue') : w \in Sent(queue) \/ WriteInBounds(w, k, b)
    BY <1>1, SentNone
  <1> QED  BY <1>1, <1>2, <1>3, <1>4, <1>6, <1>7, <1>8, <1>9, BoundsKeep

LEMMA StandingBounds == ASSUME Bounds, UNCHANGED vars PROVE Bounds'
  BY DEF Bounds, vars, world, party, coordinator, database, spent, Tries, Astray, Once,
         Campaigned, Sent, RunInBounds, WriteInBounds, AskInBounds

LEMMA NextBounds ==
    ASSUME IInv, RunsWanted, Bounds, [Next]_vars
    PROVE  Bounds'
  <1>1. IInv'
    BY NextKeeps
  <1>2. \/ CoordinatorPoll \/ ApplyWrite \/ Walks
        \/ \E m \in Members : Dies(m) \/ RunsBackIn(m)
        \/ LastBossDies \/ BagsFill \/ BagsEmpty \/ JobGoes \/ JobComes
        \/ OpensRow \/ ClosesCold \/ Restart \/ UNCHANGED vars
    BY DEF Next
  <1> QED  BY <1>1, <1>2, CoordinatorBounds, WorkerBounds, WorldBounds, RowsBounds,
              RestartBounds, StandingBounds

LEMMA InitBounds == Init => Bounds
  <1> SUFFICES ASSUME Init PROVE Bounds
    OBVIOUS
  <1>1. /\ inside = {} /\ queue = <<>> /\ rows = <<>> /\ asks = <<>> /\ owed = {}
        /\ run = IdleRun /\ hearth = NoEpisode /\ mishaps = 0 /\ returns = 0
    BY DEF Init
  <1>2. Campaigned(rows) \in Nat
    <2>1. rows \in Seq(Rows)
      BY <1>1, EmptySeq
    <2> QED  BY <2>1, CampaignedIs
  <1>3. Len(rows) = 0 /\ Astray = 0
    BY <1>1 DEF Astray, Once
  <1>4. Tries = 0
    BY <1>1, <1>3 DEF Tries
  <1>5. /\ IdleRun.row = 0 /\ IdleRun.campaign = 0 /\ IdleRun.streak = 0
        /\ NoEpisode.row = 0 /\ NoEpisode.campaign = 0 /\ NoEpisode.streak = 0
    BY DEF IdleRun, NoEpisode
  <1>6. RunInBounds(run, Len(rows), Campaigned(rows), Tries)
        /\ RunInBounds(hearth, Len(rows), Campaigned(rows), Tries)
    BY <1>1, <1>2, <1>3, <1>4, <1>5 DEF RunInBounds
  <1> QED  BY <1>1, <1>6, SentNone DEF Bounds

(***************************************************************************)
(* Together: everything the campaign keeps, by what it is given.           *)
(***************************************************************************)
AllInv == IInv /\ RunsWanted /\ AllPaid /\ RInv /\ Bounds

LEMMA AllHolds == Spec => []AllInv
  <1>1. Init => AllInv
    BY InitKeeps, InitWants, InitPays, InitOwes, InitBounds DEF AllInv
  <1>2. AllInv /\ [Next]_vars => AllInv'
    BY NextKeeps, NextWants, NextPays, NextOwes, NextBounds DEF AllInv
  <1> QED  BY <1>1, <1>2, PTL DEF Spec

\* The sums, with what is spent at its most.
LEMMA TheMost ==
    ASSUME AllInv
    PROVE  /\ MaxDone \in Nat /\ MaxRows \in Nat /\ MaxCampaign \in Nat /\ MaxStreak \in Nat
           /\ done + Once(Counted(queue)) <= MaxDone /\ done \in Nat
           /\ Once(Counted(queue)) \in Nat /\ clears \in Nat
           /\ Len(rows) <= MaxRows /\ clears <= MaxRows
           /\ Campaigned(rows) \in Nat /\ Campaigned(rows) <= MaxRows
           /\ MaxCampaign = MaxRows + 1 /\ Tries <= MaxStreak
           /\ Len(rows) \in Nat /\ Tries \in Int
  <1> DEFINE n == Len(rows)
             d == done
             c == Once(Counted(queue))
             m == mishaps
             q == returns
             a == Astray
             p == Once(Recorded(queue)) + Vacant(Within, queue) + Coming(run, Within, Doubt)
             t == ToClear(run, Within, Credited, Doubt)
             e == Once(Pending)
             k == Campaigned(rows)
             l == clears
  <1>1. /\ n \in Nat /\ d \in Nat /\ m \in 0 .. MaxMishaps /\ q \in 0 .. MaxReturns
        /\ l \in Nat /\ a \in {0, 1} /\ k \in Nat /\ k <= n
        /\ Wanted \in Nat /\ MaxMishaps \in Nat /\ MaxReturns \in Nat
    BY TriesIs, TypesGive, CampaignedIs, Constants DEF AllInv, IInv
  <1>2. c \in {0, 1} /\ e \in {0, 1}
    BY Numbers01
  <1>3. p \in Nat
    <2>1. Once(Recorded(queue)) \in {0, 1}
      BY Numbers01
    <2>2. Vacant(Within, queue) \in {0, 1}
      BY Numbers01
    <2>3. Coming(run, Within, Doubt) \in {0, 1, 2}
      BY Numbers01
    <2> QED  BY <2>1, <2>2, <2>3
  <1>4. t \in {0, 1, 2}
    BY Numbers01
  <1>5. d + c + e <= Wanted + q
    BY DEF AllInv, IInv, Budget
  <1>6. n + p <= d + c + 2 * (m + q) + 1
    <2>1. /\ Once(Recorded(queue)) \in Nat /\ Vacant(Within, queue) \in Nat
          /\ Coming(run, Within, Doubt) \in Nat
      <3>1. Once(Recorded(queue)) \in {0, 1} /\ Vacant(Within, queue) \in {0, 1}
        BY Numbers01
      <3>2. Coming(run, Within, Doubt) \in {0, 1, 2}
        BY Numbers01
      <3> QED  BY <3>1, <3>2
    <2>2. /\ n + Once(Recorded(queue)) + Vacant(Within, queue) + Coming(run, Within, Doubt)
               <= d + c + 2 * (m + q) + 1
      BY DEF AllInv, AllPaid, RowsPaid, Paid
    <2> DEFINE x == Once(Recorded(queue))
               y == Vacant(Within, queue)
               z == Coming(run, Within, Doubt)
    <2>3. x \in Nat /\ y \in Nat /\ z \in Nat /\ n + x + y + z <= d + c + 2 * (m + q) + 1
          /\ p = x + y + z
      BY <2>1, <2>2
    <2> HIDE DEF n, d, c, m, q, p, x, y, z
    <2> QED  BY ONLY <1>1, <1>2, <1>3, <2>3
  <1>7. l + t <= d + c + 2 * (m + q) + 1
    BY DEF AllInv, AllPaid, ClearsPaid, Paid
  <1>8. Tries = n + m + q - a
    BY DEF Tries
  <1> DEFINE x == Tries
  <1>9. x = n + m + q - a
    BY <1>8
  <1> HIDE DEF n, d, c, m, q, a, p, t, e, k, l, x
  <1>10. d + c <= MaxDone /\ MaxDone \in Nat
    BY ONLY <1>1, <1>2, <1>5 DEF MaxDone
  <1>11. d + c <= Wanted + MaxReturns
    BY ONLY <1>1, <1>2, <1>5
  <1>12. 2 * (m + q) <= 2 * (MaxMishaps + MaxReturns)
    BY ONLY <1>1
  <1>13. n <= MaxRows /\ l <= MaxRows /\ MaxRows \in Nat
    BY ONLY <1>1, <1>2, <1>3, <1>4, <1>6, <1>7, <1>11, <1>12 DEF MaxRows, MaxDone
  <1>14. x <= MaxStreak /\ MaxStreak \in Nat /\ x \in Int
    BY ONLY <1>1, <1>9, <1>13 DEF MaxStreak
  <1>15. k <= MaxRows /\ MaxCampaign = MaxRows + 1 /\ MaxCampaign \in Nat /\ c \in Nat
    BY ONLY <1>1, <1>2, <1>13 DEF MaxCampaign
  <1> QED  BY <1>1, <1>10, <1>13, <1>14, <1>15 DEF n, d, c, k, l, x

LEMMA InvariantTypes == AllInv => TypeOK
  <1> SUFFICES ASSUME AllInv PROVE TypeOK
    OBVIOUS
  <1>1. /\ MaxDone \in Nat /\ MaxRows \in Nat /\ MaxCampaign \in Nat /\ MaxStreak \in Nat
        /\ done + Once(Counted(queue)) <= MaxDone /\ done \in Nat
        /\ Once(Counted(queue)) \in Nat /\ clears \in Nat
        /\ Len(rows) <= MaxRows /\ clears <= MaxRows
        /\ Campaigned(rows) \in Nat /\ Campaigned(rows) <= MaxRows
        /\ MaxCampaign = MaxRows + 1 /\ Tries <= MaxStreak
        /\ Len(rows) \in Nat /\ Tries \in Int
    BY TheMost
  <1>2. Types /\ IInv /\ Bounds /\ Numbered /\ 0 \notin owed
    BY DEF AllInv, IInv, RInv, CampaignKnown
  <1>3. done <= MaxDone /\ done + 1 <= MaxDone + 1
        /\ done + 1 + Once(Counted(queue)) <= MaxDone + 1
    BY <1>1
  <1>4. \A r \in {run, hearth} :
            /\ r \in RunStates /\ RunInBounds(r, Len(rows), Campaigned(rows), Tries)
            /\ r.number <= MaxDone + 1
    <2>1. run.number \in Nat /\ hearth.number \in Nat
      BY <1>2, TypesGive DEF RunStates
    <2>2. run.number <= MaxDone + 1
      <3>1. run.number <= done + 1 + Once(Counted(queue))
        BY <1>2 DEF Numbered
      <3> QED  BY <1>1, <1>3, <2>1, <3>1
    <2>3. hearth.number <= MaxDone + 1
      <3>1. hearth.number <= done + 1
        BY <1>2 DEF Numbered
      <3> QED  BY <1>1, <1>3, <2>1, <3>1
    <2> QED  BY <1>2, <2>2, <2>3, TypesGive DEF Bounds
  <1>5. ASSUME NEW r \in {run, hearth}
        PROVE  r \in [phase : Phases, row : 0 .. MaxRows, campaign : 0 .. MaxCampaign,
                      number : 0 .. MaxDone + 1, verdict : Verdicts, streak : 0 .. MaxStreak,
                      chosen : BOOLEAN]
    <2>1. /\ r.row \in Nat /\ r.campaign \in Nat /\ r.number \in Nat /\ r.streak \in Nat
          /\ r \in RunStates
      BY <1>4 DEF RunStates
    <2>2. /\ r.row <= Len(rows) /\ r.campaign <= Campaigned(rows) + 1 /\ r.streak <= Tries
          /\ r.number <= MaxDone + 1
      BY <1>4 DEF RunInBounds
    <2>3. /\ r.row \in 0 .. MaxRows /\ r.campaign \in 0 .. MaxCampaign
          /\ r.number \in 0 .. MaxDone + 1 /\ r.streak \in 0 .. MaxStreak
      <3> DEFINE i == r.row
                 c == r.campaign
                 m == r.number
                 s == r.streak
                 n == Len(rows)
                 k == Campaigned(rows)
                 x == Tries
      <3>1. /\ i \in Nat /\ c \in Nat /\ m \in Nat /\ s \in Nat
            /\ i <= n /\ c <= k + 1 /\ s <= x /\ m <= MaxDone + 1
        BY <2>1, <2>2
      <3>2. /\ n \in Nat /\ k \in Nat /\ x \in Int /\ n <= MaxRows /\ k <= MaxRows
            /\ x <= MaxStreak /\ MaxCampaign = MaxRows + 1
            /\ MaxDone \in Nat /\ MaxRows \in Nat /\ MaxStreak \in Nat
        BY <1>1
      <3> HIDE DEF i, c, m, s, n, k, x
      <3>3. /\ i \in 0 .. MaxRows /\ c \in 0 .. MaxCampaign
            /\ m \in 0 .. MaxDone + 1 /\ s \in 0 .. MaxStreak
        BY ONLY <3>1, <3>2
      <3> QED  BY <3>3 DEF i, c, m, s
    <2> QED  BY <2>1, <2>3 DEF RunStates
  <1>6. ASSUME NEW i \in DOMAIN rows
        PROVE  rows[i] \in [campaign : 0 .. MaxRows, number : 0 .. MaxDone + 1,
                            outcome : Unentered \cup Entered \cup {"active"}]
    <2>1. /\ rows[i] \in Rows /\ rows[i].campaign \in Nat /\ rows[i].number \in Nat
      BY <1>2, RowIs
    <2>2. rows[i].campaign <= Campaigned(rows) /\ rows[i].number <= done + 1
      BY <1>2 DEF Bounds, Numbered
    <2>3. rows[i].campaign \in 0 .. MaxRows /\ rows[i].number \in 0 .. MaxDone + 1
      BY <1>1, <1>3, <2>1, <2>2
    <2> QED  BY <2>1, <2>3 DEF Rows, Outcomes
  <1>7. ASSUME NEW i \in DOMAIN asks
        PROVE  asks[i] \in [campaign : 0 .. MaxCampaign, attempt : 1 .. MaxStreak,
                            applied : BOOLEAN, after : 0 .. MaxRows]
    <2>1. /\ asks[i] \in Asks /\ AskInBounds(asks[i], Len(rows), Campaigned(rows), Tries)
      BY <1>2, RowIs DEF Bounds
    <2>2. /\ asks[i].campaign \in Nat /\ asks[i].attempt \in Nat /\ asks[i].after \in Nat
      BY <2>1 DEF Asks
    <2>3. /\ asks[i].campaign <= Campaigned(rows) + 1 /\ 1 <= asks[i].attempt
          /\ asks[i].attempt <= Tries /\ asks[i].after <= Len(rows)
      BY <2>1 DEF AskInBounds
    <2>4. /\ asks[i].campaign \in 0 .. MaxCampaign /\ asks[i].attempt \in 1 .. MaxStreak
          /\ asks[i].after \in 0 .. MaxRows
      BY <1>1, <2>2, <2>3
    <2> QED  BY <2>1, <2>4 DEF Asks
  <1>8. owed \subseteq 1 .. MaxCampaign
    <2> SUFFICES ASSUME NEW c \in owed PROVE c \in 1 .. MaxCampaign
      OBVIOUS
    <2>1. c \in Nat /\ c # 0 /\ c <= Campaigned(rows) + 1
      BY <1>2, TypesGive DEF Bounds
    <2> QED  BY <1>1, <2>1
  <1>9. done \in 0 .. MaxDone /\ clears \in 0 .. MaxRows
    BY <1>1, <1>3
  <1> QED  BY <1>1, <1>2, <1>5, <1>6, <1>7, <1>8, <1>9
           DEF TypeOK, Types, PartyTypes, CoordinatorTypes, Marks

(***************************************************************************)
(* The theorems.                                                           *)
(***************************************************************************)

\* DriveDungeonRunFor and the worker keep every variable's type, however long
\* the campaign: every statement queued is one the worker knows, and a read of
\* the tables is a number.
THEOREM CampaignTypes == Spec => []Types
  <1>1. IInv => Types
    BY DEF IInv
  <1> QED  BY RunInv, <1>1, PTL

\* Whatever goes wrong, the tables stay within what a campaign is given: for
\* any party, every row, every clear and every run done is a wanted run's, a
\* mishap's or a ghost's way back, no run's number is beyond the next one, and
\* a campaign's name and a streak of failures are no more than the rows and the
\* mishaps behind them.
THEOREM CampaignIsBounded == Spec => []TypeOK
  BY AllHolds, InvariantTypes, PTL

\* EndRunAndDecide counts what was cleared: for any party, any number of
\* wanted runs and of mishaps, no clear fills two of the wanted runs, and only
\* a ghost that runs back in can make one more of a counted copy.
THEOREM ClearsFillOneRun == Spec => []ClearCountedOnce
  BY RunInv, InvariantCounts, PTL

\* The recovery ladder of the coordinator is never skipped: for any party, any
\* number of mishaps and of campaigns begun, the attempt after one that failed
\* at the reset, the staging or the door waits until its campaign's recovery is
\* chosen, whatever cancels the job or drops the run in between; a restart is
\* no exception once the request is written.
THEOREM FailuresRecoverFirst == Spec => RecoveryComesFirst
  <1>1. IInv /\ RInv /\ [Next]_vars => RInv'
    BY NextOwes
  <1>2. IInv /\ RInv /\ [Next]_vars => [Attempts => run'.campaign \notin owed]_vars
    BY AttemptsWait
  <1> QED  BY <1>1, <1>2, RunInv, InitOwes, PTL DEF Spec, RecoveryComesFirst

=============================================================================
