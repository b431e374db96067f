--------------------------- MODULE FamilyProofs ---------------------------
(***************************************************************************)
(* Proofs about the two books kept for one family's leader: who may move   *)
(* him (LeaderIntent) and what his errands are (FamilyErrands).            *)
(*                                                                         *)
(* Of the intent book, for every set of rules and targets and every limit: *)
(* the types, that the run waits for nobody, that a holder keeps his dwell *)
(* and that a cooldown holds.  BookMove lists what a step may do to the    *)
(* book; the facts about each of its operators then carry every invariant. *)
(* Two facts have to be added to the types: a waived dwell means that a    *)
(* fight was seen in this tenure (WaiverIsEarned), and only kinds that can *)
(* be given up early cool (OnlyTheseCool), so that the errands, which      *)
(* share an owner and may change kind under it, never do.                  *)
(*                                                                         *)
(* Of the errands, for every family and every number of learn tries: the   *)
(* types, and that an open training stop runs down.  What is added to the  *)
(* types is LegsFit: a leg is walked only in an open stop, and for one     *)
(* member.  A drive of a stop has four outcomes (DrivenCases), and each    *)
(* gives nobody a leg back (AllSpend).                                     *)
(***************************************************************************)
EXTENDS LeaderIntent, FamilyErrands, FiniteSetTheorems, TLAPS

Places == Targets \cup {NoTarget}
Ends == {"Completed", "Failed", "Abandoned"}
Flappers == {"Regroup", "FetchMember", "DungeonRun"}

LEMMA QuietIsANumber ==
    ASSUME IntentAssumption
    PROVE  Quiet \in Nat
BY DEF IntentAssumption, Quiet

-----------------------------------------------------------------------------
(* The rules, by their kind and owner words.                                *)

HomeErrand == [kind |-> "Hearth", owner |-> "home errand"]
RespecWalk == [kind |-> "Respec", owner |-> "respec"]
TrainingWalk == [kind |-> "TrainingStop", owner |-> "training stop"]
TownTrip == [kind |-> "TownErrand", owner |-> "town trip"]

Says(r, k, o) == r.kind = k /\ r.owner = o

LEMMA Words ==
    /\ Says(Column("EconomyErrand"), "EconomyErrand", "travel column")
    /\ Says(Column("TownErrand"), "TownErrand", "travel column")
    /\ Says(QuestDriver, "QuestDrive", "quest drive")
    /\ Says(Regrouper, "Regroup", "regroup")
    /\ Says(Fetcher, "FetchMember", "fetch")
    /\ Says(Operator, "OperatorOrder", "operator")
    /\ Says(Runner, "DungeonRun", "dungeon run")
    /\ Says(HomeErrand, "Hearth", "home errand")
    /\ Says(RespecWalk, "Respec", "respec")
    /\ Says(TrainingWalk, "TrainingStop", "training stop")
    /\ Says(TownTrip, "TownErrand", "town trip")
BY DEF Says, Column, QuestDriver, Regrouper, Fetcher, Operator, Runner, HomeErrand,
       RespecWalk, TrainingWalk, TownTrip

LEMMA RuleTable ==
    /\ Rules = {QuestDriver, Regrouper, Fetcher, Operator, Runner, HomeErrand, RespecWalk,
                TrainingWalk, TownTrip, Column("EconomyErrand"), Column("TownErrand")}
    /\ Claimants = {Runner, HomeErrand, RespecWalk, TrainingWalk, TownTrip}
BY DEF Rules, Claimants, ColumnErrands, HomeErrand, RespecWalk, TrainingWalk, TownTrip

LEMMA RuleKinds ==
    /\ \A r \in Rules : r.kind \in Kinds
    /\ {QuestDriver, Regrouper, Fetcher, Runner, Operator} \subseteq Rules
    /\ Claimants \subseteq Rules /\ ColumnErrands \subseteq Rules
BY RuleTable, Words DEF Says, Kinds, ColumnErrands

\* One owner word stands for one rule, but for the errands of the column.
LEMMA OwnersAreRules ==
    ASSUME NEW r \in Rules, NEW q \in Rules, r.owner = q.owner, r # q
    PROVE  r.kind \notin Flappers /\ q.kind \notin Flappers
<1>1. ASSUME NEW p \in Rules
      PROVE  /\ p.owner = "regroup" => p = Regrouper
             /\ p.owner = "fetch" => p = Fetcher
             /\ p.owner = "dungeon run" => p = Runner
  BY RuleTable, Words DEF Says
<1>2. ASSUME NEW p \in Rules
      PROVE  /\ p.kind = "Regroup" => p = Regrouper
             /\ p.kind = "FetchMember" => p = Fetcher
             /\ p.kind = "DungeonRun" => p = Runner
  BY RuleTable, Words DEF Says
<1>3. ASSUME NEW p \in Rules, NEW o \in Rules, p.owner = o.owner, p.kind \in Flappers
      PROVE  p = o
  <2>1. CASE p.kind = "Regroup"
    BY <1>1, <1>2, <1>3, <2>1, Words DEF Says
  <2>2. CASE p.kind = "FetchMember"
    BY <1>1, <1>2, <1>3, <2>2, Words DEF Says
  <2>3. CASE p.kind = "DungeonRun"
    BY <1>1, <1>2, <1>3, <2>3, Words DEF Says
  <2>4. QED
    BY <1>3, <2>1, <2>2, <2>3 DEF Flappers
<1>4. QED
  BY <1>3

-----------------------------------------------------------------------------
(* The book's operators keep its type.                                      *)

\* One field of a book is written at a time.
LEMMA FieldType ==
    ASSUME IntentAssumption, NEW b \in Books
    PROVE  /\ \A h \in Holders : [b EXCEPT !.holder = h] \in Books
           /\ \A t \in Places : [b EXCEPT !.target = t] \in Books
           /\ [b EXCEPT !.ran = 0] \in Books
           /\ [b EXCEPT !.quiet = 0] \in Books
           /\ \A w \in BOOLEAN : [b EXCEPT !.waived = w] \in Books
           /\ \A r \in Rules : [b EXCEPT !.asked[r] = 0] \in Books
           /\ \A k \in Kinds : [b EXCEPT !.cooling[k] = Dwell] \in Books
<1>1. \A h \in Holders : [b EXCEPT !.holder = h] \in Books
  BY DEF Books
<1>2. \A t \in Places : [b EXCEPT !.target = t] \in Books
  BY DEF Books, Places
<1>3. [b EXCEPT !.ran = 0] \in Books /\ [b EXCEPT !.quiet = 0] \in Books
  BY QuietIsANumber DEF Books, IntentAssumption
<1>4. \A w \in BOOLEAN : [b EXCEPT !.waived = w] \in Books
  BY DEF Books
<1>5. \A r \in Rules : [b EXCEPT !.asked[r] = 0] \in Books
  BY DEF Books, IntentAssumption
<1>6. \A k \in Kinds : [b EXCEPT !.cooling[k] = Dwell] \in Books
  BY DEF Books, IntentAssumption
<1>7. QED
  BY <1>1, <1>2, <1>3, <1>4, <1>5, <1>6

\* A grant to nobody is a cleared book.
LEMMA GrantType ==
    ASSUME IntentAssumption, NEW b \in Books, NEW h \in Holders, NEW t \in Places
    PROVE  Grant(b, h, t) \in Books
<1> DEFINE b1 == [b EXCEPT !.holder = h]
           b2 == [b1 EXCEPT !.target = t]
           b3 == [b2 EXCEPT !.ran = 0]
           b4 == [b3 EXCEPT !.quiet = 0]
<1>1. b1 \in Books
  BY FieldType
<1>2. b2 \in Books
  BY <1>1, FieldType
<1>3. b3 \in Books
  BY <1>2, FieldType
<1>4. b4 \in Books
  BY <1>3, FieldType
<1>5. [b4 EXCEPT !.waived = FALSE] \in Books
  BY <1>4, FieldType
<1>6. QED
  BY <1>5 DEF Grant

LEMMA ClearedType ==
    ASSUME IntentAssumption, NEW b \in Books
    PROVE  Cleared(b) \in Books
<1>1. Nobody \in Holders /\ NoTarget \in Places
  BY DEF Holders, Places
<1>2. Cleared(b) = Grant(b, Nobody, NoTarget)
  BY DEF Cleared, Grant
<1>3. QED
  BY <1>1, <1>2, GrantType

LEMMA WaiveType ==
    ASSUME IntentAssumption, NEW b \in Books
    PROVE  Waive(b) \in Books
BY FieldType DEF Waive

LEMMA EndType ==
    ASSUME IntentAssumption, NEW b \in Books, NEW r \in Rules, NEW how \in Ends
    PROVE  EndLeaderIntent(b, r, how) \in Books
<1> DEFINE c == [b EXCEPT !.cooling[r.kind] =
                     IF Flaps(r.kind, how) /\ b.ran < Dwell THEN Dwell ELSE @]
<1>1. c \in Books
  BY RuleKinds DEF Books, IntentAssumption
<1>2. Cleared(c) \in Books
  BY <1>1, ClearedType
<1>3. QED
  BY <1>2 DEF EndLeaderIntent

LEMMA AskType ==
    ASSUME IntentAssumption, NEW b \in Books, NEW r \in Rules, NEW t \in Places
    PROVE  AskLeaderIntent(b, r, t).book \in Books
<1> DEFINE told == [b EXCEPT !.asked[r] = 0]
           free == IF Live(told) THEN told ELSE Cleared(told)
<1>1. told \in Books
  BY FieldType
<1>2. free \in Books
  BY <1>1, ClearedType
<1> HIDE DEF free
<1> DEFINE f1 == [free EXCEPT !.holder = r]
           f2 == [f1 EXCEPT !.target = t]
<1>3. r \in Holders
  BY DEF Holders
<1>4. f1 \in Books
  BY <1>2, <1>3, FieldType
<1>5. f2 \in Books
  BY <1>4, FieldType
<1>6. [f2 EXCEPT !.quiet = 0] \in Books
  BY <1>5, FieldType
<1>7. Grant(free, r, t) \in Books
  BY <1>2, <1>3, GrantType
<1>8. QED
  BY <1>2, <1>6, <1>7 DEF AskLeaderIntent, free

LEMMA OlderType ==
    ASSUME IntentAssumption, NEW b \in Books
    PROVE  Older(b) \in Books
<1> DEFINE b1 == [b EXCEPT !.ran = IF b.holder = Nobody THEN 0 ELSE LeastOf(@ + 1, Dwell)]
           b2 == [b1 EXCEPT !.quiet = IF b.holder = Nobody THEN 0
                                      ELSE LeastOf(@ + 1, Quiet + 1)]
           b3 == [b2 EXCEPT !.cooling = [k \in Kinds |-> IF @[k] > 0 THEN @[k] - 1 ELSE 0]]
<1>1. b1 \in Books
  BY DEF Books, IntentAssumption, LeastOf
<1>2. b2 \in Books
  <2> HIDE DEF b1
  <2>1. QED
    BY <1>1, QuietIsANumber DEF Books, LeastOf
<1>3. b3 \in Books
  <2> HIDE DEF b2
  <2>1. QED
    BY <1>2 DEF Books, IntentAssumption
<1>4. [b3 EXCEPT !.asked = [r \in Rules |-> LeastOf(@[r] + 1, Stale + 1)]] \in Books
  <2> HIDE DEF b3
  <2>1. QED
    BY <1>3 DEF Books, IntentAssumption, LeastOf
<1>5. QED
  BY <1>4 DEF Older

LEMMA EmptyType ==
    ASSUME IntentAssumption
    PROVE  EmptyBook \in Books
BY QuietIsANumber DEF EmptyBook, Books, IntentAssumption, Holders

-----------------------------------------------------------------------------
(* What the operators do to the fields.                                     *)

LEMMA ClearedFields ==
    ASSUME IntentAssumption, NEW b \in Books
    PROVE  /\ Cleared(b).holder = Nobody /\ Cleared(b).waived = FALSE
           /\ Cleared(b).cooling = b.cooling
BY DEF Cleared, Books

Asked(b, r, t) == AskLeaderIntent(b, r, t).book
Answer(b, r, t) == AskLeaderIntent(b, r, t).answer

Keeps(b, r, t) == /\ Answer(b, r, t) = "Kept" /\ SameOwner(b, r)
                  /\ Asked(b, r, t).quiet = 0
                  /\ Asked(b, r, t).holder = r /\ Asked(b, r, t).waived = b.waived
Defers(b, r, t) == /\ Answer(b, r, t) = "Deferred"
                   /\ ~ SameOwner(b, r) /\ MustWait(b, r, t)
                   /\ \/ /\ Asked(b, r, t).holder = b.holder
                         /\ Asked(b, r, t).waived = b.waived
                      \/ Asked(b, r, t).holder = Nobody
Grants(b, r, t) == /\ Answer(b, r, t) = "Granted" /\ ~ MustWait(b, r, t)
                   /\ Asked(b, r, t).holder = r /\ Asked(b, r, t).target = t
                   /\ Asked(b, r, t).waived = FALSE /\ Asked(b, r, t).quiet = 0

LEMMA AskCases ==
    ASSUME IntentAssumption, NEW b \in Books, NEW r \in Rules, NEW t \in Places
    PROVE  /\ Asked(b, r, t) \in Books
           /\ Asked(b, r, t).cooling = b.cooling
           /\ Keeps(b, r, t) \/ Defers(b, r, t) \/ Grants(b, r, t)
<1> DEFINE told == [b EXCEPT !.asked[r] = 0]
           free == IF Live(told) THEN told ELSE Cleared(told)
           kept == [free EXCEPT !.holder = r, !.target = t, !.quiet = 0]
<1>0. Asked(b, r, t) \in Books
  BY AskType DEF Asked
<1>1. /\ told \in Books /\ told.cooling = b.cooling
      /\ told.holder = b.holder /\ told.waived = b.waived /\ told.quiet = b.quiet
  BY FieldType DEF Books
<1>2. free \in Books /\ free.cooling = b.cooling
  BY <1>1, ClearedType, ClearedFields
<1>3. Live(told) = Live(b)
  BY <1>1 DEF Live
<1>4. \/ free.holder = b.holder /\ free.waived = b.waived
      \/ ~ Live(b) /\ free.holder = Nobody
  BY <1>1, <1>3, ClearedFields
<1> HIDE DEF free
<1>5. /\ kept.holder = r /\ kept.waived = free.waived /\ kept.cooling = free.cooling
      /\ kept.quiet = 0
  BY <1>2 DEF Books
<1>6. CASE SameOwner(b, r)
  <2>1. Live(b) /\ free.waived = b.waived
    BY <1>1, <1>3, <1>6 DEF SameOwner, free
  <2>2. AskLeaderIntent(b, r, t) = [book |-> kept, answer |-> "Kept"]
    BY <1>6 DEF AskLeaderIntent, free
  <2>3. /\ AskLeaderIntent(b, r, t).book = kept
        /\ AskLeaderIntent(b, r, t).answer = "Kept"
    BY <2>2
  <2> HIDE DEF kept
  <2>4. QED
    BY <1>0, <1>2, <1>5, <1>6, <2>1, <2>3 DEF Keeps, Asked, Answer
<1>7. CASE ~ SameOwner(b, r) /\ MustWait(b, r, t)
  <2>1. AskLeaderIntent(b, r, t) = [book |-> free, answer |-> "Deferred"]
    BY <1>7 DEF AskLeaderIntent, free
  <2>2. /\ AskLeaderIntent(b, r, t).book = free
        /\ AskLeaderIntent(b, r, t).answer = "Deferred"
    BY <2>1
  <2>3. QED
    BY <1>0, <1>2, <1>4, <1>7, <2>2 DEF Defers, Asked, Answer
<1>8. CASE ~ SameOwner(b, r) /\ ~ MustWait(b, r, t)
  <2>1. AskLeaderIntent(b, r, t) = [book |-> Grant(free, r, t), answer |-> "Granted"]
    BY <1>8 DEF AskLeaderIntent, free
  <2>2. r \in Holders
    BY DEF Holders
  <2>3. /\ AskLeaderIntent(b, r, t).book = Grant(free, r, t)
        /\ AskLeaderIntent(b, r, t).answer = "Granted"
    BY <2>1
  <2>4. /\ Grant(free, r, t).holder = r /\ Grant(free, r, t).target = t
        /\ Grant(free, r, t).waived = FALSE /\ Grant(free, r, t).cooling = free.cooling
        /\ Grant(free, r, t).quiet = 0
    BY <1>2 DEF Grant, Books
  <2>5. QED
    BY <1>0, <1>2, <1>8, <2>3, <2>4 DEF Grants, Asked, Answer
<1>9. QED
  BY <1>6, <1>7, <1>8

\* Regroup and fetch may be abandoned; every other rule completes or fails.
Endable(r, how) == r \in {Regrouper, Fetcher} \/ how # "Abandoned"

LEMMA EndCases ==
    ASSUME IntentAssumption, NEW b \in Books, NEW r \in Rules, NEW how \in Ends,
           Endable(r, how)
    PROVE  LET e == EndLeaderIntent(b, r, how)
           IN  \/ e = b
               \/ /\ e.holder = Nobody
                  /\ \A k \in Kinds \ Flappers : e.cooling[k] = b.cooling[k]
<1> DEFINE c == [b EXCEPT !.cooling[r.kind] =
                     IF Flaps(r.kind, how) /\ b.ran < Dwell THEN Dwell ELSE @]
<1>1. CASE b.holder # r
  BY <1>1 DEF EndLeaderIntent
<1>2. CASE b.holder = r
  <2>1. c \in Books
    BY RuleKinds DEF Books, IntentAssumption
  <2>2. EndLeaderIntent(b, r, how) = Cleared(c)
    BY <1>2 DEF EndLeaderIntent
  <2>3. Flaps(r.kind, how) => r.kind \in Flappers
    BY Words DEF Endable, Flaps, Says, Flappers, Ends
  <2>4. \A k \in Kinds \ Flappers : c.cooling[k] = b.cooling[k]
    BY <2>3, RuleKinds DEF Books
  <2>5. QED
    BY <2>1, <2>2, <2>4, ClearedFields
<1>3. QED
  BY <1>1, <1>2

-----------------------------------------------------------------------------
(* What a step may do to the book.                                          *)

EndsBoth(b) == EndLeaderIntent(EndLeaderIntent(b, Regrouper, "Abandoned"),
                               Fetcher, "Abandoned")

BookMove ==
    \/ book' \in {book, EmptyBook, Older(book), EndsBoth(book)} /\ fought' = fought
    \/ book' = Waive(book) /\ fought' = TRUE
    \/ \E r \in Rules, how \in Ends :
         /\ Endable(r, how)
         /\ book' = EndLeaderIntent(book, r, how) /\ fought' = fought
    \/ \E r \in Rules, t \in Places :
         \/ /\ book' = Asked(book, r, t)
            /\ fought' = (fought /\ Answer(book, r, t) # "Granted")
         \/ book' = Waive(Asked(book, r, t)) /\ fought' = TRUE
    \/ \E t \in Places :
         /\ book' = EndLeaderIntent(Asked(book, Regrouper, t), Regrouper, "Abandoned")
         /\ fought' = fought

LEMMA AskMoves ==
    ASSUME TypeOK, NEW r \in Rules, NEW t \in Places, AskForLeader(r, t)
    PROVE  BookMove
BY DEF AskForLeader, BookMove, Asked, Answer, TypeOK

LEMMA EndMoves ==
    ASSUME NEW r \in Rules, NEW how \in Ends, Endable(r, how), EndForLeader(r, how)
    PROVE  BookMove
BY DEF EndForLeader, BookMove

LEMMA StartPollMoves ==
    ASSUME StartPoll
    PROVE  BookMove
<1>1. Endable(Regrouper, "Abandoned") /\ Endable(Fetcher, "Abandoned")
  BY DEF Endable
<1>2. Regrouper \in Rules /\ Fetcher \in Rules /\ "Abandoned" \in Ends
  BY RuleKinds DEF Ends
<1>3. /\ fought' = fought
      /\ \/ book' \in {book, EmptyBook, EndsBoth(book)}
         \/ book' = EndLeaderIntent(book, Regrouper, "Abandoned")
         \/ book' = EndLeaderIntent(book, Fetcher, "Abandoned")
  BY DEF StartPoll, EndsBoth
<1>4. QED
  BY <1>1, <1>2, <1>3 DEF BookMove

LEMMA FamilyPollMoves ==
    ASSUME IntentAssumption, TypeOK, FamilyPoll
    PROVE  BookMove
<1>1. Targets \subseteq Places /\ NoTarget \in Places /\ fetch \in Places
  BY DEF Places, TypeOK
<1>2. CASE StartPoll
  BY <1>2, StartPollMoves
<1>3. CASE PollSkipsParty \/ QuestDriveRests
  BY <1>3 DEF PollSkipsParty, QuestDriveRests, BookMove
<1>4. CASE WaiveInAFight
  BY <1>4 DEF WaiveInAFight, BookMove
<1>5. CASE QuestDriveAsks
  BY <1>1, <1>5, RuleKinds, AskMoves DEF QuestDriveAsks
<1>6. CASE DriveFetch
  <2>1. CASE \E how \in {"Completed", "Failed"} : EndForLeader(Fetcher, how)
    BY <2>1, RuleKinds, EndMoves DEF Ends, Endable
  <2>2. CASE \E t \in Places : AskForLeader(Fetcher, t)
    BY <2>2, RuleKinds, AskMoves
  <2>3. CASE UNCHANGED <<book, fought>>
    BY <2>3 DEF BookMove
  <2>4. QED
    BY <1>1, <1>6, <2>1, <2>2, <2>3 DEF DriveFetch, ContinueFetch, StartFetch
<1>7. CASE KeepTheFamilyTogether
  <2>1. CASE \E how \in Ends : EndForLeader(Regrouper, how)
    BY <2>1, RuleKinds, EndMoves DEF Endable
  <2>2. CASE \E t \in Places : AskForLeader(Regrouper, t)
    BY <2>2, RuleKinds, AskMoves
  <2>3. CASE UNCHANGED <<book, fought>>
    BY <2>3 DEF BookMove
  <2>4. CASE \E t \in Places :
               /\ book' = EndLeaderIntent(AskLeaderIntent(book, Regrouper, t).book,
                                          Regrouper, "Abandoned")
               /\ fought' = fought
    BY <2>4 DEF BookMove, Asked
  <2>5. QED
    BY <1>1, <1>7, <2>1, <2>2, <2>3, <2>4
       DEF KeepTheFamilyTogether, EndTheRegroupWait, Ends
<1>8. QED
  BY <1>2, <1>3, <1>4, <1>5, <1>6, <1>7 DEF FamilyPoll

LEMMA BookMoves ==
    ASSUME IntentAssumption, TypeOK, [Next]_vars
    PROVE  BookMove
<1>1. Targets \subseteq Places /\ NoTarget \in Places
  BY DEF Places
<1>2. CASE FamilyPoll
  BY <1>2, FamilyPollMoves
<1>3. CASE TravelDrive
  BY <1>1, <1>3, RuleKinds, AskMoves DEF TravelDrive, BookMove, Asked
<1>4. CASE ClaimColumn
  BY <1>1, <1>4, RuleKinds, AskMoves DEF ClaimColumn
<1>5. CASE ColumnReleased
  <2>1. book.holder \in Rules
    BY <1>5 DEF ColumnReleased, Live, TypeOK, Books, Holders
  <2>2. QED
    BY <1>5, <2>1, EndMoves DEF ColumnReleased, Ends, Endable
<1>6. CASE OperatorOrders
  <2>1. "Completed" \in Ends /\ Endable(Operator, "Completed")
    BY DEF Ends, Endable
  <2>2. QED
    BY <1>1, <1>6, <2>1, RuleKinds, AskMoves, EndMoves DEF OperatorOrders
<1>7. CASE FetchRoadClosed
  BY <1>7, RuleKinds, EndMoves DEF FetchRoadClosed, Ends, Endable
<1>8. CASE Forget \/ Tick \/ UNCHANGED vars
  BY <1>8 DEF Forget, Tick, vars, BookMove
<1>9. QED
  BY <1>2, <1>3, <1>4, <1>5, <1>6, <1>7, <1>8 DEF Next

-----------------------------------------------------------------------------
(* The invariant.                                                           *)

\* What waives a holder's dwell was seen while he held the leader.
WaiverIsEarned == book.holder # Nobody /\ book.waived => fought

\* Kinds that complete or fail, but are never given up early, do not cool.
OnlyTheseCool == \A k \in Kinds \ Flappers : book.cooling[k] = 0

IntentInv == TypeOK /\ WaiverIsEarned /\ OnlyTheseCool

LEMMA NoPickType ==
    ASSUME IntentAssumption
    PROVE  NoPick \in [kind : Kinds, target : Targets \cup {NoTarget}, left : 0 .. PickTime]
BY DEF NoPick, Kinds, IntentAssumption

LEMMA InvInit ==
    ASSUME IntentAssumption, Init
    PROVE  IntentInv
<1>1. TypeOK
  <2>1. book \in Books
    BY EmptyType DEF Init
  <2>2. pick \in [kind : Kinds, target : Targets \cup {NoTarget}, left : 0 .. PickTime]
    BY NoPickType DEF Init
  <2>3. unmarked \in 0 .. MarkGrace /\ changes \in 0 .. MaxChanges
    BY DEF Init, IntentAssumption
  <2>4. QED
    BY <2>1, <2>2, <2>3 DEF Init, TypeOK
<1>2. WaiverIsEarned /\ OnlyTheseCool
  BY DEF Init, EmptyBook, WaiverIsEarned, OnlyTheseCool
<1>3. QED
  BY <1>1, <1>2 DEF IntentInv

LEMMA BookTypeNext ==
    ASSUME IntentAssumption, TypeOK, BookMove
    PROVE  book' \in Books /\ fought' \in BOOLEAN
<1>1. book \in Books /\ fought \in BOOLEAN
  BY DEF TypeOK
<1>2. Regrouper \in Rules /\ Fetcher \in Rules /\ "Abandoned" \in Ends
  BY RuleKinds DEF Ends
<1>3. CASE /\ book' \in {book, EmptyBook, Older(book), EndsBoth(book)}
           /\ fought' = fought
  <2>1. EndsBoth(book) \in Books
    BY <1>1, <1>2, EndType DEF EndsBoth
  <2>2. QED
    BY <1>1, <1>3, <2>1, EmptyType, OlderType
<1>4. CASE book' = Waive(book) /\ fought' = TRUE
  BY <1>1, <1>4, WaiveType
<1>5. CASE \E r \in Rules, how \in Ends :
              book' = EndLeaderIntent(book, r, how) /\ fought' = fought
  BY <1>1, <1>5, EndType
<1>6. ASSUME NEW r \in Rules, NEW t \in Places,
             \/ /\ book' = Asked(book, r, t)
                /\ fought' = (fought /\ Answer(book, r, t) # "Granted")
             \/ book' = Waive(Asked(book, r, t)) /\ fought' = TRUE
      PROVE  book' \in Books /\ fought' \in BOOLEAN
  BY <1>1, <1>6, AskCases, WaiveType
<1>7. CASE \E t \in Places :
              /\ book' = EndLeaderIntent(Asked(book, Regrouper, t), Regrouper, "Abandoned")
              /\ fought' = fought
  BY <1>1, <1>2, <1>7, AskCases, EndType
<1>8. QED
  BY <1>3, <1>4, <1>5, <1>6, <1>7 DEF BookMove

LEMMA TypeNext ==
    ASSUME IntentAssumption, TypeOK, [Next]_vars
    PROVE  TypeOK'
<1>1. book' \in Books /\ fought' \in BOOLEAN
  BY BookMoves, BookTypeNext
<1>2. /\ leads' \in BOOLEAN /\ enabled' \in BOOLEAN
      /\ pick' \in [kind : Kinds, target : Targets \cup {NoTarget}, left : 0 .. PickTime]
      /\ stage' \in {"idle", "waive", "quest", "fetch", "regroup"}
      /\ waiting' \in BOOLEAN /\ wanted' \in BOOLEAN
      /\ fetch' \in Targets \cup {NoTarget} /\ unmarked' \in 0 .. MarkGrace
      /\ forgot' \in SUBSET Forgetful
      /\ changes' \in 0 .. MaxChanges
  <2>1. CASE StartPoll
    <3>1. pick' \in [kind : Kinds, target : Targets \cup {NoTarget}, left : 0 .. PickTime]
      <4>1. CASE pick' = NoPick
        BY <4>1, NoPickType
      <4>2. CASE \E k \in PickKinds, n \in 1 .. PickTime, g \in Targets \cup {NoTarget} :
                   pick' = [kind |-> k, target |-> g, left |-> n]
        BY <4>2 DEF IntentAssumption
      <4>3. QED
        BY <2>1, <4>1, <4>2 DEF StartPoll
    <3>2. waiting' \in BOOLEAN /\ wanted' \in BOOLEAN
      BY <2>1 DEF StartPoll
    <3>3. /\ leads' \in BOOLEAN /\ enabled' \in BOOLEAN
          /\ changes' \in 0 .. MaxChanges
      BY <2>1 DEF StartPoll, TypeOK, IntentAssumption
    <3>4. fetch' \in Targets \cup {NoTarget} /\ unmarked' \in 0 .. MarkGrace
      BY <2>1 DEF StartPoll, TypeOK, IntentAssumption
    <3>5. QED
      BY <2>1, <3>1, <3>2, <3>3, <3>4 DEF StartPoll, TypeOK
  <2>2. CASE PollSkipsParty \/ WaiveInAFight \/ QuestDriveAsks \/ QuestDriveRests
    BY <2>2 DEF PollSkipsParty, WaiveInAFight, QuestDriveAsks, QuestDriveRests, TypeOK,
                roster, regroup, fetching
  <2>3. CASE DriveFetch
    BY <2>3 DEF DriveFetch, ContinueFetch, StartFetch, TypeOK, roster, regroup, fetching,
                IntentAssumption
  <2>4. CASE KeepTheFamilyTogether
    BY <2>4 DEF KeepTheFamilyTogether, EndTheRegroupWait, TypeOK, roster, fetching
  <2>5. CASE TravelDrive \/ ClaimColumn \/ ColumnReleased \/ OperatorOrders
    BY <2>5 DEF TravelDrive, ClaimColumn, ColumnReleased, OperatorOrders, TypeOK,
                roster, regroup, fetching
  <2>6. CASE FetchRoadClosed \/ Forget
    BY <2>6 DEF FetchRoadClosed, Forget, TypeOK, roster, regroup, fetching,
                IntentAssumption
  <2>7. CASE Tick
    <3>1. pick' \in [kind : Kinds, target : Targets \cup {NoTarget}, left : 0 .. PickTime]
      <4>1. CASE pick.left <= 1
        BY <2>7, <4>1, NoPickType DEF Tick
      <4>2. CASE ~ (pick.left <= 1)
        BY <2>7, <4>2 DEF Tick, TypeOK, IntentAssumption
      <4>3. QED
        BY <4>1, <4>2
    <3>2. unmarked' \in 0 .. MarkGrace
      BY <2>7 DEF Tick, TypeOK, LeastOf, IntentAssumption
    <3>3. QED
      BY <2>7, <3>1, <3>2 DEF Tick, TypeOK, regroup
  <2>8. CASE UNCHANGED vars
    BY <2>8 DEF vars, TypeOK, roster, regroup, fetching
  <2>9. QED
    BY <2>1, <2>2, <2>3, <2>4, <2>5, <2>6, <2>7, <2>8 DEF Next, FamilyPoll
<1>3. QED
  BY <1>1, <1>2 DEF TypeOK

LEMMA WaiveFields ==
    ASSUME IntentAssumption, NEW b \in Books
    PROVE  Waive(b).holder = b.holder /\ Waive(b).cooling = b.cooling
BY DEF Waive, Books

LEMMA OlderFields ==
    ASSUME IntentAssumption, NEW b \in Books
    PROVE  /\ Older(b).holder = b.holder /\ Older(b).waived = b.waived
           /\ \A k \in Kinds : b.cooling[k] = 0 => Older(b).cooling[k] = 0
BY DEF Older, Books, IntentAssumption

\* What a BookMove comes to: the leader is let go, or his holder stays, or asks
\* again under the same owner word, or a rule that need not wait is granted him.
Freed == book'.holder = Nobody
Stays == /\ book'.holder = book.holder
         /\ \/ fought' = TRUE
            \/ book'.waived = book.waived /\ fought' = fought
Renewed == /\ SameOwner(book, book'.holder)
           /\ \/ fought' = TRUE
              \/ book'.waived = book.waived /\ fought' = fought
Granted == \E r \in Rules, t \in Places :
              /\ ~ MustWait(book, r, t)
              /\ book'.holder = r /\ book'.target = t
              /\ book'.waived => fought'

CoolsNoOther == \A k \in Kinds \ Flappers : book.cooling[k] = 0 => book'.cooling[k] = 0

LEMMA WaiveTarget ==
    ASSUME NEW b \in Books
    PROVE  Waive(b).target = b.target
BY DEF Waive, Books

LEMMA AskEffect ==
    ASSUME IntentAssumption, TypeOK, NEW r \in Rules, NEW t \in Places,
           \/ /\ book' = Asked(book, r, t)
              /\ fought' = (fought /\ Answer(book, r, t) # "Granted")
           \/ book' = Waive(Asked(book, r, t)) /\ fought' = TRUE
    PROVE  CoolsNoOther /\ (Freed \/ Stays \/ Renewed \/ Granted)
<1> DEFINE a == Asked(book, r, t)
<1>1. book \in Books /\ a \in Books /\ a.cooling = book.cooling
  BY AskCases DEF TypeOK
<1>2. /\ Waive(a).holder = a.holder /\ Waive(a).target = a.target
      /\ Waive(a).cooling = a.cooling
  BY <1>1, WaiveFields, WaiveTarget
<1>3. /\ book'.holder = a.holder /\ book'.target = a.target
      /\ book'.cooling = book.cooling
      /\ \/ fought' = TRUE
         \/ /\ book'.waived = a.waived
            /\ fought' = (fought /\ Answer(book, r, t) # "Granted")
  BY <1>1, <1>2
<1>4. CoolsNoOther
  BY <1>3 DEF CoolsNoOther
<1>5. CASE Keeps(book, r, t)
  BY <1>3, <1>4, <1>5 DEF Keeps, Renewed, TypeOK
<1>6. CASE Defers(book, r, t)
  BY <1>3, <1>4, <1>6 DEF Defers, Stays, Freed, TypeOK
<1>7. CASE Grants(book, r, t)
  BY <1>3, <1>4, <1>7 DEF Grants, Granted
<1>8. QED
  BY <1>1, <1>5, <1>6, <1>7, AskCases

LEMMA MoveEffect ==
    ASSUME IntentAssumption, TypeOK, BookMove
    PROVE  CoolsNoOther /\ (Freed \/ Stays \/ Renewed \/ Granted)
<1>1. book \in Books /\ fought \in BOOLEAN
  BY DEF TypeOK
<1>2. /\ Regrouper \in Rules /\ Fetcher \in Rules /\ "Abandoned" \in Ends
      /\ Endable(Regrouper, "Abandoned") /\ Endable(Fetcher, "Abandoned")
  BY RuleKinds DEF Ends, Endable
<1>3. CASE book' = book /\ fought' = fought
  BY <1>3 DEF CoolsNoOther, Stays
<1>4. CASE book' = EmptyBook
  BY <1>4 DEF EmptyBook, CoolsNoOther, Freed
<1>5. CASE book' = Older(book) /\ fought' = fought
  BY <1>1, <1>5, OlderFields DEF CoolsNoOther, Stays
<1>6. CASE book' = EndsBoth(book) /\ fought' = fought
  <2> DEFINE e == EndLeaderIntent(book, Regrouper, "Abandoned")
  <2>1. e \in Books
    BY <1>1, <1>2, EndType
  <2>2. e = book \/ (e.holder = Nobody
                    /\ \A k \in Kinds \ Flappers : e.cooling[k] = book.cooling[k])
    BY <1>1, <1>2, EndCases
  <2>3. book' = EndLeaderIntent(e, Fetcher, "Abandoned")
    BY <1>6 DEF EndsBoth
  <2> HIDE DEF e
  <2>4. book' = e \/ (book'.holder = Nobody
                     /\ \A k \in Kinds \ Flappers : book'.cooling[k] = e.cooling[k])
    BY <1>2, <2>1, <2>3, EndCases
  <2>5. QED
    BY <1>6, <2>2, <2>4 DEF CoolsNoOther, Freed, Stays
<1>7. CASE book' = Waive(book) /\ fought' = TRUE
  BY <1>1, <1>7, WaiveFields DEF CoolsNoOther, Stays
<1>8. ASSUME NEW r \in Rules, NEW how \in Ends, Endable(r, how),
             book' = EndLeaderIntent(book, r, how), fought' = fought
      PROVE  CoolsNoOther /\ (Freed \/ Stays \/ Renewed \/ Granted)
  BY <1>1, <1>8, EndCases DEF CoolsNoOther, Freed, Stays
<1>9. ASSUME NEW t \in Places, fought' = fought,
             book' = EndLeaderIntent(Asked(book, Regrouper, t), Regrouper, "Abandoned")
      PROVE  CoolsNoOther /\ (Freed \/ Stays \/ Renewed \/ Granted)
  <2> DEFINE a == Asked(book, Regrouper, t)
  <2>1. a \in Books /\ a.cooling = book.cooling
    BY <1>1, <1>2, AskCases
  <2>2. \/ a.holder \in {Regrouper, Nobody}
        \/ a.holder = book.holder /\ a.waived = book.waived
    <3>1. \/ Keeps(book, Regrouper, t) \/ Defers(book, Regrouper, t)
          \/ Grants(book, Regrouper, t)
      BY <1>1, <1>2, AskCases
    <3>2. QED
      BY <3>1 DEF Keeps, Defers, Grants
  <2>3. CASE a.holder # Regrouper
    <3>1. book' = a
      BY <1>9, <2>3 DEF EndLeaderIntent
    <3>2. QED
      BY <1>9, <2>1, <2>2, <2>3, <3>1 DEF CoolsNoOther, Freed, Stays
  <2>4. CASE a.holder = Regrouper
    <3> DEFINE c == [a EXCEPT !.cooling[Regrouper.kind] =
                        IF Flaps(Regrouper.kind, "Abandoned") /\ a.ran < Dwell
                        THEN Dwell ELSE @]
    <3>1. book' = Cleared(c)
      BY <1>9, <2>4 DEF EndLeaderIntent
    <3>2. c \in Books
      BY <1>2, <2>1, RuleKinds DEF Books, IntentAssumption
    <3>3. \A k \in Kinds \ Flappers : c.cooling[k] = a.cooling[k]
      BY <2>1, Words, RuleKinds DEF Books, Says, Flappers
    <3>4. QED
      BY <2>1, <3>1, <3>2, <3>3, ClearedFields DEF CoolsNoOther, Freed
  <2>5. QED
    BY <2>3, <2>4
<1>10. QED
  BY <1>3, <1>4, <1>5, <1>6, <1>7, <1>8, <1>9, AskEffect DEF BookMove

LEMMA InvNext ==
    ASSUME IntentAssumption, IntentInv, [Next]_vars
    PROVE  IntentInv'
<1>1. TypeOK
  BY DEF IntentInv
<1>2. TypeOK'
  BY <1>1, TypeNext
<1>3. CoolsNoOther /\ (Freed \/ Stays \/ Renewed \/ Granted)
  BY <1>1, BookMoves, MoveEffect
<1>4. OnlyTheseCool'
  BY <1>3 DEF CoolsNoOther, OnlyTheseCool, IntentInv
<1>5. WaiverIsEarned'
  <2>1. CASE Freed
    BY <2>1 DEF Freed, WaiverIsEarned
  <2>2. CASE Stays
    <3>1. book.holder # Nobody /\ book.waived => fought
      BY DEF WaiverIsEarned, IntentInv
    <3>2. /\ book'.holder = book.holder
          /\ fought' = TRUE \/ (book'.waived = book.waived /\ fought' = fought)
      BY <2>2 DEF Stays
    <3>3. QED
      BY <3>1, <3>2 DEF WaiverIsEarned
  <2>3. CASE Renewed
    <3>1. book.holder # Nobody
      BY <2>3 DEF Renewed, SameOwner, Live
    <3>2. book.waived => fought
      BY <3>1 DEF WaiverIsEarned, IntentInv
    <3>3. fought' = TRUE \/ (book'.waived = book.waived /\ fought' = fought)
      BY <2>3 DEF Renewed
    <3>4. QED
      BY <3>2, <3>3 DEF WaiverIsEarned
  <2>4. CASE Granted
    BY <2>4 DEF Granted, WaiverIsEarned
  <2>5. QED
    BY <1>3, <2>1, <2>2, <2>3, <2>4
<1>6. QED
  BY <1>2, <1>4, <1>5 DEF IntentInv

LEMMA InvHolds ==
    ASSUME IntentAssumption
    PROVE  Spec => []IntentInv
<1>1. Init => IntentInv
  BY InvInit
<1>2. IntentInv /\ [Next]_vars => IntentInv'
  BY InvNext
<1>3. QED
  BY <1>1, <1>2, PTL DEF Spec

\* The book, the roster and the poll's own state keep their types: clocks stay
\* inside the limits and every holder is a rule of the system.
THEOREM IntentTypes == Spec => []TypeOK
<1>1. IntentInv => TypeOK
  BY DEF IntentInv
<1>2. QED
  BY <1>1, IntentAssumption, InvHolds, PTL

-----------------------------------------------------------------------------
(* The properties.                                                          *)

LEMMA Ranks ==
    /\ \A t : Rank("DungeonRun", t) = 90
    /\ \A t : \A k \in Kinds : Rank(k, t) \in Nat
    /\ \A t : \A k \in Kinds \ {"DungeonRun", "OperatorOrder"} : Rank(k, t) < 90
<1>1. /\ Order["DungeonRun"] = 90 /\ Order["OperatorOrder"] = 100
      /\ \A k \in Kinds \ {"DungeonRun", "OperatorOrder"} : Order[k] \in 0 .. 80
  BY DEF Order, Kinds
<1>2. QED
  BY <1>1 DEF Rank, Kinds

LEMMA RunWaits ==
    ASSUME IntentAssumption, TypeOK
    PROVE  RunWaitsForNobody
<1> SUFFICES ASSUME NEW t \in Targets, AskLeaderIntent(book, Runner, t).answer = "Deferred",
                    ~ (book.cooling["DungeonRun"] > 0)
             PROVE  HeldBy(book, Operator)
  BY DEF RunWaitsForNobody
<1>1. book \in Books /\ t \in Places /\ Runner \in Rules
  BY RuleKinds DEF TypeOK, Places
<1>2. ~ SameOwner(book, Runner) /\ MustWait(book, Runner, t)
  <2>1. Answer(book, Runner, t) = "Deferred"
    BY DEF Answer
  <2>2. Defers(book, Runner, t)
    BY <1>1, <2>1, AskCases DEF Keeps, Grants
  <2>3. QED
    BY <2>2 DEF Defers
<1>3. Runner.kind = "DungeonRun" /\ NeverWaits(Runner.kind)
  BY Words DEF Says, NeverWaits
<1>4. Live(book) /\ Rank("DungeonRun", t) <= Rank(book.holder.kind, book.target)
  BY <1>2, <1>3 DEF MustWait
<1>5. book.holder \in Rules
  BY <1>1, <1>4 DEF Live, Books, Holders
<1>6. book.holder.kind \in {"DungeonRun", "OperatorOrder"}
  BY <1>4, <1>5, Ranks, RuleKinds
<1>7. book.holder.kind # "DungeonRun"
  BY <1>2, <1>4, <1>5, RuleTable, Words DEF SameOwner, Says
<1>8. book.holder = Operator
  BY <1>5, <1>6, <1>7, RuleTable, Words DEF Says
<1>9. QED
  BY <1>4, <1>8 DEF HeldBy

\* No pick, no dwell and no other rule keeps a leader from the campaign's run:
\* only an operator, or a run of its own that failed a moment ago.
THEOREM RunIsNeverMadeToWait == Spec => []RunWaitsForNobody
<1>1. IntentInv => RunWaitsForNobody
  BY IntentAssumption, RunWaits DEF IntentInv
<1>2. QED
  BY <1>1, IntentAssumption, InvHolds, PTL

LEMMA DwellStep ==
    ASSUME IntentAssumption, IntentInv, [Next]_vars,
           Live(book), book'.holder \notin {book.holder, Nobody},
           book'.holder.owner # book.holder.owner
    PROVE  /\ Rank(book'.holder.kind, book'.target) > Rank(book.holder.kind, book.target)
           /\ NeverWaits(book'.holder.kind) \/ fought \/ book.ran = Dwell
<1>1. TypeOK /\ book \in Books
  BY DEF IntentInv, TypeOK
<1>2. Freed \/ Stays \/ Renewed \/ Granted
  BY <1>1, BookMoves, MoveEffect
<1>3. Granted
  BY <1>2 DEF Freed, Stays, Renewed, SameOwner
<1>4. PICK r \in Rules, t \in Places :
        ~ MustWait(book, r, t) /\ book'.holder = r /\ book'.target = t
  BY <1>3 DEF Granted
<1>5. /\ ~ (Rank(r.kind, t) <= Rank(book.holder.kind, book.target))
      /\ NeverWaits(r.kind) \/ book.waived \/ ~ (book.ran < Dwell)
  BY <1>4 DEF MustWait
<1>6. book.holder \in Rules
  BY <1>1 DEF Live, Books, Holders
<1>7. Rank(r.kind, t) \in Nat /\ Rank(book.holder.kind, book.target) \in Nat
  BY <1>6, Ranks, RuleKinds
<1>8. book.waived => fought
  BY DEF IntentInv, WaiverIsEarned, Live
<1>9. book.ran \in 0 .. Dwell /\ Dwell \in Nat
  BY <1>1 DEF Books, IntentAssumption
<1>10. Rank(r.kind, t) > Rank(book.holder.kind, book.target)
  BY <1>5, <1>7
<1>11. NeverWaits(r.kind) \/ fought \/ book.ran = Dwell
  BY <1>5, <1>8, <1>9
<1>12. QED
  BY <1>4, <1>10, <1>11

\* A live holder loses the leader only to a rule that outranks him, and before
\* his dwell is over only to one that never waits or after a fight in his own
\* tenure.
THEOREM HoldersKeepTheirDwell == Spec => DwellKept
<1>1. IntentInv /\ [Next]_vars =>
        [(/\ Live(book)
          /\ book'.holder \notin {book.holder, Nobody}
          /\ book'.holder.owner # book.holder.owner)
         => /\ Rank(book'.holder.kind, book'.target) > Rank(book.holder.kind, book.target)
            /\ NeverWaits(book'.holder.kind) \/ fought \/ book.ran = Dwell]_vars
  BY IntentAssumption, DwellStep
<1>2. QED
  BY <1>1, IntentAssumption, InvHolds, PTL DEF Spec, DwellKept

LEMMA CooldownStep ==
    ASSUME IntentAssumption, IntentInv, [Next]_vars,
           NEW k \in Kinds \ {"OperatorOrder"}, KindOf(book') = k, KindOf(book) # k
    PROVE  book.cooling[k] = 0
<1>1. TypeOK /\ book \in Books /\ book.cooling[k] \in Nat
  BY DEF IntentInv, TypeOK, Books, IntentAssumption
<1>2. Freed \/ Stays \/ Renewed \/ Granted
  BY <1>1, BookMoves, MoveEffect
<1>3. "None" \notin Kinds
  BY DEF Kinds
<1>4. book'.holder # Nobody /\ book'.holder.kind = k
  BY <1>3 DEF KindOf
<1>5. CASE Stays
  BY <1>4, <1>5 DEF Stays, KindOf
<1>6. CASE Renewed
  <2>1. book' \in Books
    BY <1>1, BookMoves, BookTypeNext
  <2>2. book.holder \in Rules /\ book'.holder \in Rules
    BY <1>1, <1>4, <1>6, <2>1 DEF Renewed, SameOwner, Live, Books, Holders
  <2>3. book.holder # Nobody /\ book.holder.owner = book'.holder.owner
    BY <1>6 DEF Renewed, SameOwner, Live
  <2>4. book.holder # book'.holder
    BY <1>4, <2>3 DEF KindOf
  <2>5. k \notin Flappers
    BY <1>4, <2>2, <2>3, <2>4, OwnersAreRules
  <2>6. QED
    BY <2>5 DEF IntentInv, OnlyTheseCool
<1>7. CASE Granted
  <2>1. PICK r \in Rules, t \in Places : ~ MustWait(book, r, t) /\ book'.holder = r
    BY <1>7 DEF Granted
  <2>2. ~ (book.cooling[k] > 0)
    BY <1>4, <2>1 DEF MustWait
  <2>3. QED
    BY <1>1, <2>2
<1>8. QED
  BY <1>2, <1>4, <1>5, <1>6, <1>7 DEF Freed

\* A kind that was given up early stays out for its whole cooldown, whichever
\* owner asks for it and whatever that owner already holds.
THEOREM CooldownsHold == Spec => CooldownHolds
<1>1. IntentInv /\ [Next]_vars =>
        [\A k \in Kinds \ {"OperatorOrder"} :
            (KindOf(book') = k /\ KindOf(book) # k) => book.cooling[k] = 0]_vars
  BY IntentAssumption, CooldownStep
<1>2. QED
  BY <1>1, IntentAssumption, InvHolds, PTL DEF Spec, CooldownHolds

\* A rule that is not deferred holds the leader.
LEMMA AskHolds ==
    ASSUME IntentAssumption, NEW b \in Books, NEW r \in Rules, NEW t \in Places,
           Answer(b, r, t) # "Deferred"
    PROVE  HeldBy(Asked(b, r, t), r)
<1>1. Keeps(b, r, t) \/ Grants(b, r, t)
  BY AskCases DEF Defers
<1>2. Asked(b, r, t).holder = r /\ Asked(b, r, t).quiet = 0
  BY <1>1 DEF Keeps, Grants
<1>3. r # Nobody /\ 0 <= Stale /\ 0 <= OperatorStale
  BY DEF IntentAssumption
<1>4. QED
  BY <1>2, <1>3 DEF HeldBy, Live

LEMMA MoverHolds ==
    ASSUME IntentAssumption, TypeOK, Applies, NEW r \in Rules, NEW t \in Places,
           MayMove(r, t), AskForLeader(r, t)
    PROVE  HeldBy(book', r)
<1>1. book \in Books /\ Answer(book, r, t) # "Deferred"
  BY DEF TypeOK, MayMove, Answer
<1>2. book' = Asked(book, r, t)
  BY DEF AskForLeader, Asked
<1>3. QED
  BY <1>1, <1>2, AskHolds

LEMMA FetchStep ==
    ASSUME IntentAssumption, TypeOK, [Next]_vars, Applies, stage = "fetch",
           fetch' # NoTarget, ~ UNCHANGED vars
    PROVE  HeldBy(book', Fetcher)
<1>1. Fetcher \in Rules /\ Targets \subseteq Places
  BY RuleKinds DEF Places
<1>2. ContinueFetch \/ StartFetch
  BY DEF Next, FamilyPoll, StartPoll, PollSkipsParty, WaiveInAFight, QuestDriveAsks,
         QuestDriveRests, DriveFetch, KeepTheFamilyTogether, TravelDrive, ClaimColumn,
         ColumnReleased, OperatorOrders, FetchRoadClosed, Forget, Tick
<1>3. \E t \in Places : MayMove(Fetcher, t) /\ AskForLeader(Fetcher, t)
  <2>1. CASE ContinueFetch
    <3>1. fetch \in Places
      BY DEF TypeOK, Places
    <3>2. QED
      BY <2>1, <3>1 DEF ContinueFetch, FetchMayGoOn
  <2>2. CASE StartFetch
    BY <1>1, <2>2 DEF StartFetch, fetching
  <2>3. QED
    BY <1>2, <2>1, <2>2
<1>4. QED
  BY <1>1, <1>3, MoverHolds

LEMMA RegroupStep ==
    ASSUME IntentAssumption, TypeOK, [Next]_vars, Applies, stage = "regroup",
           waiting', ~ UNCHANGED vars
    PROVE  HeldBy(book', Regrouper)
<1>1. Regrouper \in Rules /\ Targets \subseteq Places
  BY RuleKinds DEF Places
<1>2. KeepTheFamilyTogether
  BY DEF Next, FamilyPoll, StartPoll, PollSkipsParty, WaiveInAFight, QuestDriveAsks,
         QuestDriveRests, DriveFetch, TravelDrive, ClaimColumn, ColumnReleased,
         OperatorOrders, FetchRoadClosed, Forget, Tick
<1>3. \E t \in Targets : MayHold(t) /\ AskForLeader(Regrouper, t)
  BY <1>2 DEF KeepTheFamilyTogether, EndTheRegroupWait
<1>4. QED
  BY <1>1, <1>3, MoverHolds DEF MayHold

\* What the poll does to the leader agrees with the book it leaves behind: he
\* walks back only for a fetch that holds him, and is held still only for a
\* regroup that does.
THEOREM PollFollowsTheBook == Spec => ExecutorsFollowTheBook
<1>1. IntentInv /\ [Next]_vars =>
        [Applies =>
          /\ (stage = "fetch" /\ fetch' # NoTarget) => HeldBy(book', Fetcher)
          /\ (stage = "regroup" /\ waiting') => HeldBy(book', Regrouper)]_vars
  BY IntentAssumption, FetchStep, RegroupStep DEF IntentInv
<1>2. QED
  BY <1>1, IntentAssumption, InvHolds, PTL DEF Spec, ExecutorsFollowTheBook

-----------------------------------------------------------------------------
(* The errands: types.  The errands' book of legs says of a leg under way   *)
(* whose it is; the column, the stop and the leg have a lemma each for what *)
(* may be done to them, and Drives is what all three drives of the training *)
(* stop go through.                                                         *)

Columns == [aim : Aims, next : Aims \cup {"same"}, claim : Aims]
TripRecords == [role : {"none", "repair", "vendor"}, leader : Members \cup {"none"},
                settled : SUBSET Members]

LEMMA ClaimedType ==
    ASSUME NEW c \in Columns, NEW a \in Aims
    PROVE  Claimed(c, a) \in Columns
BY DEF Columns, Claimed

LEMMA ReleasedType ==
    ASSUME NEW c \in Columns, NEW m
    PROVE  Released(m, c) \in Columns
<1> DEFINE left == IF c.claim = "none" THEN c.aim \in Counters \/ Learns(m)
                   ELSE c.claim # c.aim
           after == IF c.aim = "none" \/ left THEN c.next ELSE "none"
<1>1. Released(m, c) = [c EXCEPT !.claim = "none", !.next = after]
  BY DEF Released
<1>2. "none" \in Aims /\ after \in Aims \cup {"same"}
  BY DEF Columns, Aims
<1> QED
  BY <1>1, <1>2 DEF Columns

LEMMA LandedType ==
    ASSUME NEW c \in Columns
    PROVE  Landed(c) \in Columns
<1>1. c.next # "same" => c.next \in Aims
  BY DEF Columns
<1> QED
  BY <1>1 DEF Columns, Landed

LEMMA AllLandedType ==
    ASSUME NEW cs \in [Members -> Columns]
    PROVE  AllLanded(cs) \in [Members -> Columns]
BY LandedType DEF AllLanded

LEMMA AllReleasedType ==
    ASSUME NEW cs \in [Members -> Columns]
    PROVE  [m \in Members |-> Released(m, cs[m])] \in [Members -> Columns]
BY ReleasedType

LEMMA AfterPollType ==
    ASSUME column \in [Members -> Columns], NEW parts, NEW a \in Aims, NEW o, NEW g
    PROVE  AfterPoll(parts, a, o, g) \in [Members -> Columns]
<1> DEFINE after(m) ==
        CASE m \in DOMAIN parts /\ parts[m] \in Settling -> Released(m, column[m])
          [] m \in DOMAIN parts /\ parts[m] = "walks"
                /\ MayClaim(column[m], a, o, Learns(m)) /\ (m = lead => g)
               -> Claimed(column[m], a)
          [] OTHER -> column[m]
<1>1. ASSUME NEW m \in Members PROVE after(m) \in Columns
  <2>1. /\ Released(m, column[m]) \in Columns /\ Claimed(column[m], a) \in Columns
        /\ column[m] \in Columns
    BY ReleasedType, ClaimedType
  <2>2. parts[m] = "walks" => parts[m] \notin Settling
    BY DEF Settling
  <2> QED
    BY <2>1, <2>2
<1>2. AfterPoll(parts, a, o, g) = [m \in Members |-> after(m)]
  BY DEF AfterPoll
<1> HIDE DEF after
<1> QED
  BY <1>1, <1>2

LEMMA ClosedType ==
    ASSUME ErrandsAssumption, NEW rests \in BOOLEAN
    PROVE  Closed(rests) \in Stops /\ ~ Closed(rests).open
BY DEF ErrandsAssumption, Closed, Stops

LEMMA CutShortType ==
    ASSUME NEW s \in Stops, NEW m \in Members
    PROVE  CutShort(s, m) \in Stops /\ CutShort(s, m).open = s.open
BY DEF CutShort, Stops

LEMMA NotedType ==
    ASSUME ErrandsAssumption, NEW s \in Stops, NEW l \in Legs, NEW failed \in SUBSET Members
    PROVE  Noted(s, l, failed) \in Stops /\ Noted(s, l, failed).open = s.open
<1> DEFINE tries == [m \in Members |-> IF m \in failed /\ s.tries[m] < LearnTries
                                       THEN s.tries[m] + 1 ELSE s.tries[m]]
           again == {m \in failed : tries[m] < LearnTries}
           owes == (s.owed \ (l.with \ failed)) \cup (failed \ again)
<1>1. Noted(s, l, failed) = [s EXCEPT !.tries = tries, !.walked = @ \ again, !.owed = owes]
  BY DEF Noted, Stops
<1>2. tries \in [Members -> 0 .. LearnTries]
  <2>1. ASSUME NEW m \in Members PROVE tries[m] \in 0 .. LearnTries
    <3>1. s.tries[m] \in 0 .. LearnTries /\ LearnTries \in Nat
      BY DEF Stops, ErrandsAssumption
    <3> QED
      BY <3>1
  <2> QED
    BY <2>1
<1>3. owes \in SUBSET Members
  BY DEF Stops
<1>4. s.walked \ again \in SUBSET Members
  BY DEF Stops
<1> HIDE DEF tries, again, owes
<1>5. [s EXCEPT !.tries = tries, !.walked = s.walked \ again, !.owed = owes] \in Stops
  BY <1>2, <1>3, <1>4 DEF Stops
<1>6. [s EXCEPT !.tries = tries, !.walked = s.walked \ again, !.owed = owes].open = s.open
  BY DEF Stops
<1> QED
  BY <1>1, <1>5, <1>6

-----------------------------------------------------------------------------
(* The training stop: what one drive makes of a stop and its leg.           *)

\* A leg is walked only in an open stop, and for one member.
LegFits(s, l) == l # NoLeg => s.open /\ \E m \in Members : l.for = {m}

\* The family as the drives read it.
FamilyTypes ==
    /\ lead \in Members /\ wants \subseteq Members
    /\ column \in [Members -> Columns]
    /\ stop \in [Members -> Stops] /\ leg \in [Members -> Legs]

LEMMA NoLegType == NoLeg \in Legs /\ NoLeg.for = {}
BY DEF NoLeg, Legs

LEMMA PickWalks ==
    ASSUME NEW s, NEW c, NEW here, NEW near, NEW over, NEW busy,
           Pick(s, c, here, near, over, busy) = "Walk"
    PROVE  (Wanting(s, here) \ s.walked) \cap here \cap near # {}
BY DEF Pick

LEMMA FirstIsOne ==
    ASSUME NEW S, S # {}
    PROVE  First(S) \in S
BY DEF First

\* The stop that the drive picks from: a leg that is no longer walked has been
\* cut short.
Settled(s, l) == IF l = NoLeg THEN s ELSE CutShort(s, CHOOSE m \in l.for : TRUE)

LEMMA SettledType ==
    ASSUME NEW s \in Stops, NEW l \in Legs, LegFits(s, l)
    PROVE  Settled(s, l) \in Stops /\ Settled(s, l).open = s.open
<1>1. CASE l = NoLeg
  BY <1>1 DEF Settled
<1>2. CASE l # NoLeg
  <2>1. (CHOOSE m \in l.for : TRUE) \in Members
    BY <1>2 DEF LegFits
  <2> QED
    BY <1>2, <2>1, CutShortType DEF Settled
<1> QED
  BY <1>1, <1>2

\* The four things a drive may do: leave a leg that is walked, close the stop,
\* send the head for one who is to be taught, or leave the stop without a leg.
Waits(s, l, c, d) == d.stop = s /\ d.leg = l /\ d.column = c
Closes(c, d) == d.stop = Closed(TRUE) /\ d.leg = NoLeg /\ d.column = c
Sends(s, l, c, d) ==
    \E m \in wants \ Settled(s, l).walked, others \in SUBSET wants :
        /\ d.stop = [Settled(s, l) EXCEPT !.open = TRUE, !.walked = @ \cup {m}]
        /\ d.leg = [for |-> {m}, with |-> others]
        /\ d.column = Claimed(c, "trainer")
Idles(s, l, c, d) == d.stop = Settled(s, l) /\ d.leg = NoLeg /\ d.column = c

LEMMA DrivenCases ==
    ASSUME NEW s, NEW l, NEW c, NEW here, NEW near, NEW over, NEW busy, NEW granted,
           NEW d, d = Driven(s, l, c, here, near, over, busy, granted)
    PROVE  Waits(s, l, c, d) \/ Closes(c, d) \/ Sends(s, l, c, d) \/ Idles(s, l, c, d)
<1> DEFINE s1 == Settled(s, l)
           step == Pick(s1, c, here, near, over, busy)
           ask == Wanting(s1, here)
           m == First((ask \ s1.walked) \cap here \cap near)
           sent == step = "Walk" /\ granted /\ MayClaim(c, "trainer", "TrainingStop", Learns(lead))
           after == [s1 EXCEPT !.open = TRUE, !.walked = @ \cup {m}]
<1>1. d = IF StillWalking(l, c) THEN [stop |-> s, leg |-> l, column |-> c, step |-> "Walking"]
          ELSE IF s1.open /\ step \notin {"Walk", "ColumnTaken"}
          THEN [stop |-> Closed(TRUE), leg |-> NoLeg, column |-> c, step |-> step]
          ELSE IF sent
          THEN [stop |-> after,
                leg |-> [for |-> {m}, with |-> ask \cap here],
                column |-> Claimed(c, "trainer"), step |-> step]
          ELSE [stop |-> s1, leg |-> NoLeg, column |-> c, step |-> step]
  BY DEF Driven, Settled
<1>2. ask \subseteq wants
  BY DEF Wanting
<1>3. sent => m \in wants \ s1.walked
  <2>1. sent => (ask \ s1.walked) \cap here \cap near # {}
    BY PickWalks
  <2>2. sent => m \in (ask \ s1.walked) \cap here \cap near
    BY <2>1, FirstIsOne
  <2> QED
    BY <1>2, <2>2
<1>4. ask \cap here \in SUBSET wants
  BY <1>2
<1> HIDE DEF step, ask, m, sent
<1>5. CASE StillWalking(l, c)
  BY <1>1, <1>5 DEF Waits
<1>6. CASE ~ StillWalking(l, c) /\ s1.open /\ step \notin {"Walk", "ColumnTaken"}
  BY <1>1, <1>6 DEF Closes
<1>7. CASE ~ StillWalking(l, c) /\ ~ (s1.open /\ step \notin {"Walk", "ColumnTaken"}) /\ sent
  <2> HIDE DEF after
  <2>1. d = [stop |-> after, leg |-> [for |-> {m}, with |-> ask \cap here],
             column |-> Claimed(c, "trainer"), step |-> step]
    BY <1>1, <1>7, Zenon
  <2>2. /\ d.stop = after /\ d.leg = [for |-> {m}, with |-> ask \cap here]
        /\ d.column = Claimed(c, "trainer")
    BY <2>1
  <2>3. m \in wants \ s1.walked
    BY <1>3, <1>7
  <2> QED
    BY <2>2, <2>3, <1>4, Zenon DEF Sends, after
<1>8. CASE ~ StillWalking(l, c) /\ ~ (s1.open /\ step \notin {"Walk", "ColumnTaken"}) /\ ~ sent
  <2>1. d = [stop |-> s1, leg |-> NoLeg, column |-> c, step |-> step]
    BY <1>1, <1>8, Zenon
  <2> QED
    BY <2>1 DEF Idles
<1> QED
  BY <1>5, <1>6, <1>7, <1>8

LEMMA DrivesCases ==
    ASSUME NEW s, NEW l, NEW c, NEW overs, NEW d \in Drives(s, l, c, overs)
    PROVE  Waits(s, l, c, d) \/ Closes(c, d) \/ Sends(s, l, c, d) \/ Idles(s, l, c, d)
<1>1. CASE d = [stop |-> s, leg |-> l, column |-> c, step |-> "Away"]
  BY <1>1 DEF Waits
<1>2. CASE \E here \in SUBSET wants, near \in SUBSET wants, over \in overs,
              busy \in BOOLEAN, granted \in BOOLEAN :
                d = Driven(s, l, c, here, near, over, busy, granted)
  BY <1>2, DrivenCases
<1> QED
  BY <1>1, <1>2 DEF Drives

LEMMA DrivesType ==
    ASSUME ErrandsAssumption, wants \subseteq Members,
           NEW s \in Stops, NEW l \in Legs, LegFits(s, l), NEW c \in Columns,
           NEW overs, NEW d \in Drives(s, l, c, overs)
    PROVE  d.stop \in Stops /\ d.leg \in Legs /\ d.column \in Columns /\ LegFits(d.stop, d.leg)
<1>1. CASE Waits(s, l, c, d)
  BY <1>1 DEF Waits
<1>2. CASE Closes(c, d)
  BY <1>2, ClosedType, NoLegType DEF Closes, LegFits
<1>3. CASE Sends(s, l, c, d)
  <2>1. PICK m \in wants \ Settled(s, l).walked, others \in SUBSET wants :
            /\ d.stop = [Settled(s, l) EXCEPT !.open = TRUE, !.walked = @ \cup {m}]
            /\ d.leg = [for |-> {m}, with |-> others]
            /\ d.column = Claimed(c, "trainer")
    BY <1>3 DEF Sends
  <2> DEFINE s1 == Settled(s, l)
             w == s1.walked \cup {m}
  <2>a. s1 \in Stops
    BY SettledType
  <2>b. w \in SUBSET Members
    BY <2>a DEF Stops
  <2>c. d.stop = [s1 EXCEPT !.open = TRUE, !.walked = w]
    BY <2>1, Zenon
  <2> HIDE DEF s1, w
  <2>2. d.stop \in Stops /\ d.stop.open
    BY <2>a, <2>b, <2>c DEF Stops
  <2>3. d.leg \in Legs /\ d.leg.for = {m} /\ m \in Members
    BY <2>1 DEF Legs
  <2>4. d.column \in Columns
    BY <2>1, ClaimedType DEF Aims
  <2> QED
    BY <2>2, <2>3, <2>4 DEF LegFits
<1>4. CASE Idles(s, l, c, d)
  BY <1>4, SettledType, NoLegType DEF Idles, LegFits
<1> QED
  BY <1>1, <1>2, <1>3, <1>4, DrivesCases

-----------------------------------------------------------------------------
(* The errands' invariant: the types, LegFits of every head, and that the   *)
(* repair leg keeps nothing when it is over.                                *)

PollTypes ==
    /\ job \in {"campaign", "quest", "other"}
    /\ phase \in {"idle", "repairing", "run"} /\ turn \in {"polls", "run"} \cup Trip
    /\ damaged \subseteq Members /\ full \subseteq Members
    /\ settled \subseteq Members /\ heldSince \in BOOLEAN /\ runHeld \in BOOLEAN
    /\ trip \in TripRecords
    /\ runs \in 0 .. MaxRuns /\ mishaps \in 0 .. MaxMishaps

LegsFit == \A h \in Members : LegFits(stop[h], leg[h])
NothingKept == phase # "repairing" => settled = {} /\ ~ heldSince

ErrandsInv == FamilyTypes /\ PollTypes /\ LegsFit /\ NothingKept

LEMMA ErrandsInvInit ==
    ASSUME ErrandsAssumption, ErrandsInit
    PROVE  ErrandsInv
<1>1. FreeColumn \in Columns /\ Closed(FALSE) \in Stops /\ NoLeg \in Legs
  BY ClosedType, NoLegType DEF FreeColumn, Columns, Aims
<1>2. FamilyTypes
  BY <1>1 DEF ErrandsInit, ErrandsAssumption, FamilyTypes
<1>3. PollTypes
  <2>1. NoTrip \in TripRecords
    BY DEF NoTrip, TripRecords
  <2>2. runs \in 0 .. MaxRuns /\ mishaps \in 0 .. MaxMishaps
    BY DEF ErrandsInit, ErrandsAssumption
  <2> QED
    BY <2>1, <2>2 DEF ErrandsInit, PollTypes
<1>4. LegsFit /\ NothingKept
  BY DEF ErrandsInit, LegsFit, LegFits, NothingKept
<1> QED
  BY <1>2, <1>3, <1>4 DEF ErrandsInv

\* A drive of the training stop, over columns c of this poll.
LEMMA DriveKeeps ==
    ASSUME ErrandsAssumption, ErrandsInv, NEW c \in [Members -> Columns], NEW overs,
           NEW d \in Drives(stop[lead], leg[lead], c[lead], overs),
           stop' = [stop EXCEPT ![lead] = d.stop], leg' = [leg EXCEPT ![lead] = d.leg]
    PROVE  /\ stop' \in [Members -> Stops] /\ leg' \in [Members -> Legs] /\ LegsFit'
           /\ d.column \in Columns
<1>1. lead \in Members /\ wants \subseteq Members /\ stop \in [Members -> Stops]
      /\ leg \in [Members -> Legs] /\ LegsFit
  BY DEF ErrandsInv, FamilyTypes
<1>2. /\ stop[lead] \in Stops /\ leg[lead] \in Legs /\ c[lead] \in Columns
      /\ LegFits(stop[lead], leg[lead])
  BY <1>1 DEF LegsFit
<1>3. d.stop \in Stops /\ d.leg \in Legs /\ d.column \in Columns /\ LegFits(d.stop, d.leg)
  BY <1>1, <1>2, DrivesType
<1>4. LegsFit'
  <2>1. \A h \in Members : LegFits(stop'[h], leg'[h])
    BY <1>1, <1>3 DEF LegsFit
  <2> QED
    BY <2>1 DEF LegsFit, LegFits
<1> QED
  BY <1>1, <1>3, <1>4

LEMMA TrainPollKeeps ==
    ASSUME ErrandsAssumption, ErrandsInv, NEW over \in BOOLEAN, TrainPoll(over)
    PROVE  ErrandsInv'
<1>1. PICK d \in Drives(stop[lead], leg[lead], column[lead], {over}) :
        /\ stop' = [stop EXCEPT ![lead] = d.stop]
        /\ leg' = [leg EXCEPT ![lead] = d.leg]
        /\ column' = [column EXCEPT ![lead] = IF turn' = "polls" THEN Landed(d.column)
                                              ELSE d.column]
  BY DEF TrainPoll
<1>2. column \in [Members -> Columns] /\ lead \in Members
  BY DEF ErrandsInv, FamilyTypes
<1>3. /\ stop' \in [Members -> Stops] /\ leg' \in [Members -> Legs] /\ LegsFit'
      /\ d.column \in Columns
  BY <1>1, <1>2, DriveKeeps
<1>4. column' \in [Members -> Columns]
  BY <1>1, <1>2, <1>3, LandedType
<1>5. FamilyTypes'
  BY <1>3, <1>4 DEF TrainPoll, ErrandsInv, FamilyTypes, needs
<1>6. PollTypes'
  BY DEF TrainPoll, ErrandsInv, PollTypes, needs, holds, bounds
<1>7. NothingKept'
  BY DEF TrainPoll, ErrandsInv, NothingKept, holds
<1> QED
  BY <1>3, <1>5, <1>6, <1>7 DEF ErrandsInv

LEMMA TrainerReachedKeeps ==
    ASSUME ErrandsAssumption, ErrandsInv, NEW h \in Members, TrainerReached(h)
    PROVE  ErrandsInv'
<1>1. PICK failed \in SUBSET leg[h].with, learned \in SUBSET leg[h].with :
        /\ stop' = [stop EXCEPT ![h] = Noted(@, leg[h], failed)]
        /\ wants' = wants \ learned
  BY DEF TrainerReached
<1>2. FamilyTypes /\ LegsFit
  BY DEF ErrandsInv
<1>3. /\ stop[h] \in Stops /\ leg[h] \in Legs /\ column[h] \in Columns
      /\ failed \in SUBSET Members
  BY <1>2 DEF FamilyTypes, Legs
<1>4. Noted(stop[h], leg[h], failed) \in Stops
  BY <1>3, NotedType
<1>5. stop' \in [Members -> Stops] /\ leg' \in [Members -> Legs]
  BY <1>1, <1>2, <1>4, NoLegType DEF FamilyTypes, TrainerReached
<1>6. LegsFit'
  <2>1. ASSUME NEW k \in Members PROVE LegFits(stop'[k], leg'[k])
    <3>1. CASE k = h
      BY <1>2, <3>1 DEF LegFits, TrainerReached, FamilyTypes
    <3>2. CASE k # h
      <4>1. stop'[k] = stop[k] /\ leg'[k] = leg[k]
        BY <1>1, <1>2, <3>2 DEF FamilyTypes, TrainerReached
      <4> QED
        BY <1>2, <4>1 DEF LegsFit
    <3> QED
      BY <3>1, <3>2
  <2> QED
    BY <2>1 DEF LegsFit, LegFits
<1>7. column' \in [Members -> Columns]
  <2>1. Landed(Released(h, column[h])) \in Columns
    BY <1>3, ReleasedType, LandedType
  <2> QED
    BY <1>2, <2>1 DEF TrainerReached, FamilyTypes
<1>8. FamilyTypes'
  BY <1>1, <1>2, <1>5, <1>7 DEF TrainerReached, FamilyTypes, campaign
<1>9. PollTypes' /\ NothingKept'
  BY DEF TrainerReached, ErrandsInv, PollTypes, NothingKept, campaign, holds, bounds
<1> QED
  BY <1>6, <1>8, <1>9 DEF ErrandsInv

LEMMA RestIsOverKeeps ==
    ASSUME ErrandsAssumption, ErrandsInv, NEW h \in Members, RestIsOver(h)
    PROVE  ErrandsInv'
<1>1. FamilyTypes /\ LegsFit
  BY DEF ErrandsInv
<1>2. [stop[h] EXCEPT !.rests = FALSE] \in Stops
      /\ [stop[h] EXCEPT !.rests = FALSE].open = stop[h].open
  <2>1. stop[h] \in Stops
    BY <1>1 DEF FamilyTypes
  <2> QED
    BY <2>1 DEF Stops
<1>3. stop' = [stop EXCEPT ![h] = [stop[h] EXCEPT !.rests = FALSE]] /\ leg' = leg
  BY <1>1 DEF RestIsOver, FamilyTypes
<1>4. stop' \in [Members -> Stops]
  BY <1>1, <1>2, <1>3 DEF FamilyTypes
<1>5. LegsFit'
  <2>1. \A k \in Members : stop'[k].open = stop[k].open
    BY <1>1, <1>2, <1>3 DEF FamilyTypes
  <2> QED
    BY <1>1, <1>3, <2>1 DEF LegsFit, LegFits
<1>6. FamilyTypes'
  BY <1>1, <1>4 DEF RestIsOver, FamilyTypes, campaign, needs
<1>7. PollTypes' /\ NothingKept'
  BY DEF RestIsOver, ErrandsInv, PollTypes, NothingKept, campaign, needs, holds, bounds
<1> QED
  BY <1>5, <1>6, <1>7 DEF ErrandsInv

LEMMA AimEndsKeeps ==
    ASSUME ErrandsAssumption, ErrandsInv, NEW m \in Members, AimEnds(m)
    PROVE  ErrandsInv'
<1>1. FamilyTypes /\ LegsFit
  BY DEF ErrandsInv
<1>2. column' \in [Members -> Columns]
  <2>1. column[m] \in Columns /\ FreeColumn \in Columns
    BY <1>1 DEF FamilyTypes, FreeColumn, Columns, Aims
  <2>2. Landed(Released(m, column[m])) \in Columns
    BY <2>1, ReleasedType, LandedType
  <2> QED
    BY <1>1, <2>1, <2>2 DEF AimEnds, FamilyTypes
<1>3. FamilyTypes' /\ LegsFit'
  BY <1>1, <1>2 DEF AimEnds, FamilyTypes, LegsFit, LegFits, campaign, needs, training
<1>4. PollTypes' /\ NothingKept'
  BY DEF AimEnds, ErrandsInv, PollTypes, NothingKept, campaign, needs, holds, bounds
<1> QED
  BY <1>3, <1>4 DEF ErrandsInv

-----------------------------------------------------------------------------
(* The coordinator's poll.                                                  *)

\* A poll of the coordinator in columns c: what it leaves of them and of holds.
LEMMA LegOverKeeps ==
    ASSUME ErrandsInv, NEW c \in [Members -> Columns], LegOver(c)
    PROVE  /\ column' \in [Members -> Columns]
           /\ phase' = "run" /\ settled' = {} /\ heldSince' = FALSE /\ runHeld' \in BOOLEAN
BY AllReleasedType DEF LegOver, ErrandsInv, PollTypes

\* What a phase's part of the coordinator's poll keeps.
PartKeeps ==
    /\ column' \in [Members -> Columns]
    /\ stop' \in [Members -> Stops] /\ leg' \in [Members -> Legs] /\ LegsFit'
    /\ damaged' \subseteq Members
    /\ phase' \in {"idle", "repairing", "run"}
    /\ settled' \subseteq Members /\ heldSince' \in BOOLEAN /\ runHeld' \in BOOLEAN
    /\ NothingKept'

LEMMA LegFinishesKeeps ==
    ASSUME ErrandsAssumption, ErrandsInv, phase = "repairing",
           NEW c \in [Members -> Columns], NEW over \in BOOLEAN, LegFinishes(c, over),
           damaged' \subseteq Members
    PROVE  PartKeeps
<1>1. PICK d \in Drives(stop[lead], leg[lead], c[lead], BOOLEAN) :
        /\ stop' = [stop EXCEPT ![lead] = d.stop]
        /\ leg' = [leg EXCEPT ![lead] = d.leg]
        /\ LET col == [c EXCEPT ![lead] = d.column] IN
           \/ /\ column' = col /\ settled' = Members /\ heldSince' = TRUE
              /\ UNCHANGED <<phase, runHeld>>
           \/ LegOver(col)
  BY DEF LegFinishes
<1>2. /\ stop' \in [Members -> Stops] /\ leg' \in [Members -> Legs] /\ LegsFit'
      /\ d.column \in Columns
  BY <1>1, DriveKeeps
<1>3. [c EXCEPT ![lead] = d.column] \in [Members -> Columns]
  BY <1>2
<1>4. CASE LegOver([c EXCEPT ![lead] = d.column])
  <2>1. /\ column' \in [Members -> Columns]
        /\ phase' = "run" /\ settled' = {} /\ heldSince' = FALSE /\ runHeld' \in BOOLEAN
    BY <1>3, <1>4, LegOverKeeps
  <2> QED
    BY <1>2, <2>1 DEF PartKeeps, NothingKept
<1>5. CASE /\ column' = [c EXCEPT ![lead] = d.column] /\ settled' = Members
           /\ heldSince' = TRUE /\ UNCHANGED <<phase, runHeld>>
  BY <1>2, <1>3, <1>5 DEF PartKeeps, NothingKept, ErrandsInv, PollTypes
<1> QED
  BY <1>1, <1>4, <1>5

LEMMA RepairPollKeeps ==
    ASSUME ErrandsAssumption, ErrandsInv, phase = "repairing", NEW over \in BOOLEAN,
           RepairPoll(over)
    PROVE  PartKeeps
<1>1. PICK parts \in [Members \ settled -> Parts], granted \in BOOLEAN :
        LET c == AfterPoll(parts, "repair", "Run", granted)
            done == {m \in DOMAIN parts : parts[m] \in Settling}
            served == {m \in DOMAIN parts : parts[m] = "served"}
        IN /\ damaged' = damaged \ served
           /\ \/ LegFinishes(c, over)
              \/ LegOver(c) /\ UNCHANGED training
              \/ /\ column' = c /\ settled' = settled \cup done
                 /\ UNCHANGED <<phase, heldSince, runHeld, training>>
  BY Zenon DEF RepairPoll
<1> DEFINE c == AfterPoll(parts, "repair", "Run", granted)
           done == {m \in DOMAIN parts : parts[m] \in Settling}
<1>2. FamilyTypes /\ PollTypes /\ LegsFit
  BY DEF ErrandsInv
<1>3. c \in [Members -> Columns]
  BY <1>2, AfterPollType DEF FamilyTypes, Aims
<1>4. damaged' \subseteq Members
  BY <1>1, <1>2 DEF PollTypes
<1>5. done \subseteq Members
  OBVIOUS
<1>6. UNCHANGED training =>
        stop' \in [Members -> Stops] /\ leg' \in [Members -> Legs] /\ LegsFit'
  BY <1>2 DEF FamilyTypes, LegsFit, LegFits, training
<1> HIDE DEF c, done
<1>7. \/ LegFinishes(c, over)
      \/ LegOver(c) /\ UNCHANGED training
      \/ /\ column' = c /\ settled' = settled \cup done
         /\ UNCHANGED <<phase, heldSince, runHeld, training>>
  BY <1>1 DEF c, done
<1>8. CASE LegFinishes(c, over)
  BY <1>3, <1>4, <1>8, LegFinishesKeeps
<1>9. CASE LegOver(c) /\ UNCHANGED training
  <2>1. /\ column' \in [Members -> Columns]
        /\ phase' = "run" /\ settled' = {} /\ heldSince' = FALSE /\ runHeld' \in BOOLEAN
    BY <1>3, <1>9, LegOverKeeps
  <2> QED
    BY <1>4, <1>6, <1>9, <2>1 DEF PartKeeps, NothingKept
<1>10. CASE /\ column' = c /\ settled' = settled \cup done
            /\ UNCHANGED <<phase, heldSince, runHeld, training>>
  <2>1. UNCHANGED training
    BY <1>10 DEF training
  <2> QED
    BY <1>2, <1>3, <1>4, <1>5, <1>6, <1>10, <2>1 DEF PartKeeps, NothingKept, PollTypes
<1> QED
  BY <1>7, <1>8, <1>9, <1>10

LEMMA RunStartPollKeeps ==
    ASSUME ErrandsAssumption, ErrandsInv, phase = "idle", NEW over \in BOOLEAN,
           RunStartPoll(over)
    PROVE  PartKeeps
<1>1. PICK d \in Drives(stop[lead], leg[lead], column[lead], BOOLEAN) :
        /\ stop' = [stop EXCEPT ![lead] = d.stop]
        /\ leg' = [leg EXCEPT ![lead] = d.leg]
        /\ column' = [column EXCEPT ![lead] = d.column]
        /\ runHeld' \in BOOLEAN /\ phase' \in {phase, "run"}
        /\ UNCHANGED <<settled, heldSince, damaged>>
  BY DEF RunStartPoll
<1>2. FamilyTypes /\ PollTypes /\ NothingKept
  BY DEF ErrandsInv
<1>3. /\ stop' \in [Members -> Stops] /\ leg' \in [Members -> Legs] /\ LegsFit'
      /\ d.column \in Columns
  BY <1>1, <1>2, DriveKeeps DEF FamilyTypes
<1>4. column' \in [Members -> Columns]
  BY <1>1, <1>2, <1>3 DEF FamilyTypes
<1> QED
  BY <1>1, <1>2, <1>3, <1>4 DEF PartKeeps, NothingKept, PollTypes

LEMMA HoldOutKeeps ==
    ASSUME ErrandsAssumption, ErrandsInv, HoldOut
    PROVE  PartKeeps
<1>1. FamilyTypes /\ PollTypes /\ LegsFit /\ NothingKept
  BY DEF ErrandsInv
<1>2. column' \in [Members -> Columns]
  <2>1. Released(lead, column[lead]) \in Columns
    BY <1>1, ReleasedType DEF FamilyTypes
  <2> QED
    BY <1>1, <2>1 DEF HoldOut, FamilyTypes
<1>3. stop' \in [Members -> Stops] /\ leg' \in [Members -> Legs] /\ LegsFit'
  BY <1>1 DEF HoldOut, FamilyTypes, LegsFit, LegFits, training
<1> QED
  BY <1>1, <1>2, <1>3 DEF HoldOut, PartKeeps, NothingKept, PollTypes, holds

LEMMA CoordinatorPollParts ==
    ASSUME NEW over \in BOOLEAN, CoordinatorPoll(over)
    PROVE  \/ HoldOut
           \/ phase = "repairing" /\ RepairPoll(over)
           \/ phase = "idle" /\ RunStartPoll(over)
           \/ UNCHANGED <<phase, column, damaged, training, holds>>
BY DEF CoordinatorPoll

LEMMA CoordinatorPollKeeps ==
    ASSUME ErrandsAssumption, ErrandsInv, NEW over \in BOOLEAN, CoordinatorPoll(over)
    PROVE  ErrandsInv'
<1>1. FamilyTypes /\ PollTypes /\ LegsFit /\ NothingKept
  BY DEF ErrandsInv
<1>2. PartKeeps
  <2>1. CASE UNCHANGED <<phase, column, damaged, training, holds>>
    <3>1. UNCHANGED <<phase, column, damaged, stop, leg, settled, heldSince, runHeld>>
      BY <2>1 DEF training, holds
    <3> QED
      BY <1>1, <3>1 DEF PartKeeps, FamilyTypes, PollTypes, LegsFit, LegFits, NothingKept
  <2> QED
    BY <2>1, CoordinatorPollParts, HoldOutKeeps, RepairPollKeeps, RunStartPollKeeps
<1>3. FamilyTypes'
  BY <1>1, <1>2 DEF CoordinatorPoll, PartKeeps, FamilyTypes
<1>4. PollTypes'
  <2>1. turn' \in {"polls", "run"} \cup Trip
    BY DEF CoordinatorPoll, Trip
  <2> QED
    BY <1>1, <1>2, <2>1 DEF CoordinatorPoll, PartKeeps, PollTypes, bounds
<1> QED
  BY <1>2, <1>3, <1>4 DEF PartKeeps, ErrandsInv

-----------------------------------------------------------------------------
(* The end of a run, the town trip, the operator and the bridge.            *)

LEMMA RunEndsKeeps ==
    ASSUME ErrandsAssumption, ErrandsInv, RunEnds
    PROVE  ErrandsInv'
<1>1. /\ wants' \subseteq Members /\ damaged' \subseteq Members /\ full' \subseteq Members
      /\ runs' \in 0 .. MaxRuns
  BY DEF RunEnds, ErrandsAssumption, ErrandsInv, FamilyTypes, PollTypes
<1>2. FamilyTypes' /\ LegsFit'
  BY <1>1 DEF RunEnds, ErrandsInv, FamilyTypes, LegsFit, LegFits, training
<1>3. PollTypes' /\ NothingKept'
  BY <1>1 DEF RunEnds, ErrandsInv, PollTypes, NothingKept, holds
<1> QED
  BY <1>2, <1>3 DEF ErrandsInv

\* What a town trip leaves of its book, the columns and what it goes for.
TripKeeps ==
    /\ column' \in [Members -> Columns] /\ trip' \in TripRecords
    /\ wants' = wants /\ damaged' \subseteq Members /\ full' \subseteq Members

LEMMA TripOverKeeps ==
    ASSUME NEW c \in [Members -> Columns], TripOver(c)
    PROVE  column' \in [Members -> Columns] /\ trip' \in TripRecords
<1>1. column' \in [Members -> Columns]
  BY AllReleasedType, AllLandedType DEF TripOver
<1>2. NoTrip \in TripRecords
  BY DEF NoTrip, TripRecords
<1> QED
  BY <1>1, <1>2 DEF TripOver

LEMMA TripGoesOnKeeps ==
    ASSUME ErrandsInv, UNCHANGED wants, NEW t \in TripRecords, t.role \in {"repair", "vendor"},
           NEW over \in BOOLEAN, TripGoesOn(t, over)
    PROVE  TripKeeps
<1>1. PICK parts \in [Members \ t.settled -> Parts], granted \in BOOLEAN, sold \in BOOLEAN :
        LET c == AfterPoll(parts, t.role, "TownTrip", granted)
            done == {m \in DOMAIN parts : parts[m] \in Settling}
            served == {m \in DOMAIN parts : parts[m] = "served" /\ sold}
        IN /\ damaged' = IF t.role = "repair" THEN damaged \ served ELSE damaged
           /\ full' = IF t.role = "vendor" THEN full \ served ELSE full
           /\ \/ TripOver(c)
              \/ column' = AllLanded(c) /\ trip' = [t EXCEPT !.settled = @ \cup done]
  BY Zenon DEF TripGoesOn
<1> DEFINE c == AfterPoll(parts, t.role, "TownTrip", granted)
           done == {m \in DOMAIN parts : parts[m] \in Settling}
<1>2. FamilyTypes /\ PollTypes
  BY DEF ErrandsInv
<1>3. c \in [Members -> Columns]
  BY <1>2, AfterPollType DEF FamilyTypes, Aims
<1>4. damaged' \subseteq Members /\ full' \subseteq Members
  BY <1>1, <1>2 DEF PollTypes
<1>5. t.settled \cup done \in SUBSET Members
  BY DEF TripRecords
<1> HIDE DEF c, done
<1>6. TripOver(c) \/ (column' = AllLanded(c) /\ trip' = [t EXCEPT !.settled = @ \cup done])
  BY <1>1 DEF c, done
<1>7. CASE TripOver(c)
  BY <1>3, <1>4, <1>7, TripOverKeeps DEF TripKeeps
<1>8. CASE column' = AllLanded(c) /\ trip' = [t EXCEPT !.settled = @ \cup done]
  <2>1. [t EXCEPT !.settled = t.settled \cup done] \in TripRecords
    BY <1>5 DEF TripRecords
  <2> QED
    BY <1>3, <1>4, <1>8, <2>1, AllLandedType DEF TripKeeps
<1> QED
  BY <1>6, <1>7, <1>8

LEMMA DriveTownTripKeeps ==
    ASSUME ErrandsAssumption, ErrandsInv, NEW over \in BOOLEAN, DriveTownTrip(over)
    PROVE  ErrandsInv'
<1>1. FamilyTypes /\ PollTypes
  BY DEF ErrandsInv
<1>2. TripKeeps
  <2>1. CASE TripOver(column) /\ UNCHANGED needs
    <3>1. column' \in [Members -> Columns] /\ trip' \in TripRecords
      BY <1>1, <2>1, TripOverKeeps DEF FamilyTypes
    <3> QED
      BY <1>1, <2>1, <3>1 DEF TripKeeps, PollTypes, needs
  <2>2. CASE trip.role # "none" /\ TripGoesOn(trip, over) /\ UNCHANGED wants
    <3>1. trip \in TripRecords /\ trip.role \in {"repair", "vendor"}
      BY <1>1, <2>2 DEF PollTypes, TripRecords
    <3> QED
      BY <2>2, <3>1, TripGoesOnKeeps
  <2>3. CASE /\ \E role \in {"repair", "vendor"} :
                  TripGoesOn([role |-> role, leader |-> lead, settled |-> {}], FALSE)
             /\ UNCHANGED wants
    <3>1. PICK role \in {"repair", "vendor"} :
            TripGoesOn([role |-> role, leader |-> lead, settled |-> {}], FALSE)
      BY <2>3
    <3>2. [role |-> role, leader |-> lead, settled |-> {}] \in TripRecords
      BY <1>1 DEF FamilyTypes, TripRecords
    <3> QED
      BY <2>3, <3>1, <3>2, TripGoesOnKeeps
  <2>4. CASE column' = AllLanded(column) /\ UNCHANGED <<needs, trip>>
    BY <1>1, <2>4, AllLandedType DEF TripKeeps, FamilyTypes, PollTypes, needs
  <2> QED
    BY <2>1, <2>2, <2>3, <2>4 DEF DriveTownTrip
<1>3. FamilyTypes' /\ LegsFit'
  BY <1>2 DEF DriveTownTrip, TripKeeps, ErrandsInv, FamilyTypes, LegsFit, LegFits, training
<1>4. PollTypes' /\ NothingKept'
  BY <1>2 DEF DriveTownTrip, TripKeeps, ErrandsInv, PollTypes, NothingKept, holds, bounds
<1> QED
  BY <1>3, <1>4 DEF ErrandsInv

LEMMA OutsideKeeps ==
    ASSUME ErrandsAssumption, ErrandsInv,
           HeadChanges \/ JobChanges \/ \E m \in Members : BridgeWrites(m)
    PROVE  ErrandsInv'
<1>1. mishaps' \in 0 .. MaxMishaps
  BY DEF HeadChanges, JobChanges, BridgeWrites, Mishap, ErrandsAssumption, ErrandsInv, PollTypes
<1>2. lead' \in Members /\ job' \in {"campaign", "quest", "other"}
  BY DEF HeadChanges, JobChanges, BridgeWrites, campaign, ErrandsInv, FamilyTypes, PollTypes
<1>3. column' \in [Members -> Columns]
  <2>1. CASE HeadChanges \/ JobChanges
    BY <2>1 DEF HeadChanges, JobChanges, ErrandsInv, FamilyTypes
  <2>2. CASE \E m \in Members : BridgeWrites(m)
    <3>1. PICK m \in Members : column' = [column EXCEPT ![m].aim = "auction"]
      BY <2>2 DEF BridgeWrites
    <3>2. column \in [Members -> Columns]
      BY DEF ErrandsInv, FamilyTypes
    <3>3. [column[m] EXCEPT !.aim = "auction"] \in Columns
      BY <3>2 DEF Columns, Aims
    <3> QED
      BY <3>1, <3>2, <3>3
  <2> QED
    BY <2>1, <2>2
<1>4. UNCHANGED <<phase, turn, needs, training, holds, trip, runs>>
  BY DEF HeadChanges, JobChanges, BridgeWrites, campaign
<1>5. FamilyTypes' /\ LegsFit'
  BY <1>2, <1>3, <1>4 DEF ErrandsInv, FamilyTypes, LegsFit, LegFits, needs, training
<1>6. PollTypes' /\ NothingKept'
  BY <1>1, <1>2, <1>4 DEF ErrandsInv, PollTypes, NothingKept, needs, holds
<1> QED
  BY <1>5, <1>6 DEF ErrandsInv

LEMMA ErrandsInvNext ==
    ASSUME ErrandsAssumption, ErrandsInv, [ErrandsNext]_errandsVars
    PROVE  ErrandsInv'
<1>1. CASE UNCHANGED errandsVars
  BY <1>1 DEF ErrandsInv, FamilyTypes, PollTypes, LegsFit, LegFits, NothingKept, errandsVars,
              campaign, needs, training, holds, bounds
<1>2. CASE ErrandsNext
  BY <1>2, TrainPollKeeps, CoordinatorPollKeeps, DriveTownTripKeeps, TrainerReachedKeeps,
     RestIsOverKeeps, AimEndsKeeps, RunEndsKeeps, OutsideKeeps DEF ErrandsNext
<1> QED
  BY <1>1, <1>2

LEMMA ErrandsInvHolds ==
    ErrandsSpec => []ErrandsInv
<1>1. ErrandsInit => ErrandsInv
  BY ErrandsInvInit, ErrandsAssumption
<1>2. ErrandsInv /\ [ErrandsNext]_errandsVars => ErrandsInv'
  BY ErrandsInvNext, ErrandsAssumption
<1> QED
  BY <1>1, <1>2, PTL DEF ErrandsSpec

LEMMA InvGivesErrandsTypes ==
    ASSUME ErrandsInv
    PROVE  ErrandsTypeOK
<1>1. \A h \in Members : leg[h] # NoLeg => stop[h].open /\ Cardinality(leg[h].for) = 1
  BY FS_Singleton DEF ErrandsInv, LegsFit, LegFits
<1> QED
  BY <1>1 DEF ErrandsInv, FamilyTypes, PollTypes, NothingKept, ErrandsTypeOK, Columns,
              TripRecords

\* Columns, stops, legs and the trip keep their types, a leg is walked only in
\* an open stop and for one member, and the coordinator forgets the settled and
\* the hold's clock of a repair leg that is over (DriveTrainingStop,
\* EndRepairLeg).
THEOREM ErrandsKeepTheirTypes == ErrandsSpec => []ErrandsTypeOK
<1>1. ErrandsInv => ErrandsTypeOK
  BY InvGivesErrandsTypes
<1> QED
  BY <1>1, ErrandsInvHolds, PTL

-----------------------------------------------------------------------------
(* A stop runs down.  Spends is what a step may do to the stop of one head  *)
(* and its leg, for one member; nothing but the three drives of the stop    *)
(* and the lesson at the trainer touch an open one.                         *)

Spends(s, l, s2, l2, m) ==
    (s.open /\ s2.open) =>
        /\ Left(s2, m) <= Left(s, m)
        /\ (l2 # l /\ l2.for = {m} /\ s2.retried = s.retried) => Left(s2, m) < Left(s, m)

LEMMA LeftIsANumber ==
    ASSUME ErrandsAssumption, NEW s \in Stops, NEW m \in Members
    PROVE  Left(s, m) \in Int /\ s.tries[m] \in 0 .. LearnTries /\ LearnTries \in Nat
<1>1. s.tries[m] \in 0 .. LearnTries /\ LearnTries \in Nat
  BY DEF ErrandsAssumption, Stops
<1> QED
  BY <1>1 DEF Left

\* A leg cut short: at worst the member's one more walk for the leg he gets back.
LEMMA CutShortSpends ==
    ASSUME ErrandsAssumption, NEW s \in Stops, NEW x \in Members, NEW m \in Members
    PROVE  /\ Left(CutShort(s, x), m) <= Left(s, m)
           /\ CutShort(s, x).retried = s.retried => CutShort(s, x) = s
<1>1. Left(s, m) \in Int /\ s.tries[m] \in 0 .. LearnTries /\ LearnTries \in Nat
  BY LeftIsANumber
<1>2. CASE x \in s.retried
  BY <1>1, <1>2 DEF CutShort
<1>3. CASE x \notin s.retried
  <2> DEFINE s2 == CutShort(s, x)
  <2>1. s2.retried = s.retried \cup {x} /\ s2.walked = s.walked \ {x} /\ s2.tries = s.tries
    BY <1>3 DEF CutShort, Stops
  <2>2. x \in s2.retried
    BY <2>1
  <2> HIDE DEF s2
  <2>3. CASE m = x
    <3>1. Left(s2, m) = 1 + 0 + (LearnTries - s.tries[m])
      BY <2>1, <2>3 DEF Left
    <3>2. Left(s, m) = (IF m \in s.walked THEN 0 ELSE 1) + 1 + (LearnTries - s.tries[m])
      BY <1>3, <2>3 DEF Left
    <3> QED
      BY <1>1, <1>3, <2>2, <3>1, <3>2 DEF s2
  <2>4. CASE m # x
    <3>1. (m \in s2.walked <=> m \in s.walked) /\ (m \in s2.retried <=> m \in s.retried)
      BY <2>1, <2>4
    <3>2. Left(s2, m) = Left(s, m)
      BY <2>1, <3>1 DEF Left
    <3> QED
      BY <1>1, <1>3, <2>2, <3>2 DEF s2
  <2> QED
    BY <2>3, <2>4
<1> QED
  BY <1>2, <1>3

LEMMA SettledSpends ==
    ASSUME ErrandsAssumption, NEW s \in Stops, NEW l \in Legs, LegFits(s, l), NEW m \in Members
    PROVE  /\ Left(Settled(s, l), m) <= Left(s, m)
           /\ Settled(s, l).retried = s.retried => Settled(s, l) = s
<1>1. CASE l = NoLeg
  BY <1>1, LeftIsANumber DEF Settled
<1>2. CASE l # NoLeg
  <2> DEFINE x == CHOOSE x \in l.for : TRUE
  <2>1. x \in Members
    BY <1>2 DEF LegFits
  <2>2. Settled(s, l) = CutShort(s, x)
    BY <1>2 DEF Settled
  <2> HIDE DEF x
  <2> QED
    BY <2>1, <2>2, CutShortSpends
<1> QED
  BY <1>1, <1>2

LEMMA DrivesSpend ==
    ASSUME ErrandsAssumption, wants \subseteq Members,
           NEW s \in Stops, NEW l \in Legs, LegFits(s, l), NEW c,
           NEW overs, NEW d \in Drives(s, l, c, overs), NEW m \in Members
    PROVE  Spends(s, l, d.stop, d.leg, m)
<1> DEFINE s1 == Settled(s, l)
<1>1. s1 \in Stops /\ Left(s1, m) \in Int /\ Left(s, m) \in Int
  BY SettledType, LeftIsANumber
<1>2. Left(s1, m) <= Left(s, m) /\ (s1.retried = s.retried => s1 = s)
  BY SettledSpends
<1>3. CASE Waits(s, l, c, d)
  BY <1>1, <1>3 DEF Waits, Spends
<1>4. CASE Closes(c, d)
  BY <1>4, ClosedType DEF Closes, Spends
<1>5. CASE Sends(s, l, c, d)
  <2>1. PICK x \in wants \ s1.walked, others \in SUBSET wants :
            /\ d.stop = [s1 EXCEPT !.open = TRUE, !.walked = @ \cup {x}]
            /\ d.leg = [for |-> {x}, with |-> others]
    BY <1>5 DEF Sends
  <2> HIDE DEF s1
  <2>2. /\ d.stop.walked = s1.walked \cup {x} /\ d.stop.retried = s1.retried
        /\ d.stop.tries = s1.tries
    BY <1>1, <2>1 DEF Stops
  <2>3. d.leg.for = {x} /\ x \notin s1.walked
    BY <2>1
  <2>4. s1.tries[m] \in 0 .. LearnTries /\ LearnTries \in Nat
    BY <1>1, LeftIsANumber
  <2>5. CASE m = x
    <3>1. Left(d.stop, m) = 0 + (IF m \in s1.retried THEN 0 ELSE 1) + (LearnTries - s1.tries[m])
      BY <2>2, <2>5 DEF Left
    <3>2. Left(s1, m) = 1 + (IF m \in s1.retried THEN 0 ELSE 1) + (LearnTries - s1.tries[m])
      BY <2>3, <2>5 DEF Left
    <3>3. Left(d.stop, m) < Left(s1, m) /\ Left(d.stop, m) \in Int
      BY <2>4, <3>1, <3>2
    <3> QED
      BY <1>1, <1>2, <3>3 DEF Spends
  <2>6. CASE m # x
    <3>1. Left(d.stop, m) = Left(s1, m)
      BY <2>2, <2>6 DEF Left
    <3>2. d.leg.for # {m}
      BY <2>3, <2>6
    <3> QED
      BY <1>1, <1>2, <3>1, <3>2 DEF Spends
  <2> QED
    BY <2>5, <2>6
<1>6. CASE Idles(s, l, c, d)
  <2>1. d.leg.for # {m}
    BY <1>6, NoLegType DEF Idles
  <2> QED
    BY <1>2, <1>6, <2>1 DEF Idles, Spends
<1> QED
  BY <1>3, <1>4, <1>5, <1>6, DrivesCases

\* A lesson: who failed is walked for again at the price of a try.
LEMMA NotedSpends ==
    ASSUME ErrandsAssumption, NEW s \in Stops, NEW l \in Legs, NEW failed \in SUBSET Members,
           NEW m \in Members
    PROVE  Left(Noted(s, l, failed), m) <= Left(s, m)
<1> DEFINE tries == [x \in Members |-> IF x \in failed /\ s.tries[x] < LearnTries
                                       THEN s.tries[x] + 1 ELSE s.tries[x]]
           again == {x \in failed : tries[x] < LearnTries}
           owes == (s.owed \ (l.with \ failed)) \cup (failed \ again)
           s2 == [s EXCEPT !.tries = tries, !.walked = @ \ again, !.owed = owes]
<1>1. Noted(s, l, failed) = s2
  BY DEF Noted, Stops
<1>2. s.tries[m] \in 0 .. LearnTries /\ LearnTries \in Nat
  BY LeftIsANumber
<1>3. tries[m] = IF m \in failed /\ s.tries[m] < LearnTries
                 THEN s.tries[m] + 1 ELSE s.tries[m]
  OBVIOUS
<1>4. m \in again <=> m \in failed /\ tries[m] < LearnTries
  OBVIOUS
<1> HIDE DEF tries, again, owes
<1>5. s2.tries = tries /\ s2.walked = s.walked \ again /\ s2.retried = s.retried
  BY DEF Stops
<1> HIDE DEF s2
<1>6. Left(s2, m) = (IF m \in s.walked \ again THEN 0 ELSE 1)
                      + (IF m \in s.retried THEN 0 ELSE 1) + (LearnTries - tries[m])
  BY <1>5 DEF Left
<1>7. CASE m \in again
  <2>1. tries[m] = s.tries[m] + 1
    BY <1>2, <1>3, <1>4, <1>7
  <2>2. m \notin s.walked \ again
    BY <1>7
  <2>3. Left(s2, m) = 1 + (IF m \in s.retried THEN 0 ELSE 1)
                        + (LearnTries - (s.tries[m] + 1))
    BY <1>6, <2>1, <2>2
  <2> QED
    BY <1>1, <1>2, <2>3 DEF Left
<1>8. CASE m \notin again
  <2>1. tries[m] \in Int /\ tries[m] >= s.tries[m]
    BY <1>2, <1>3
  <2>2. m \in s.walked \ again <=> m \in s.walked
    BY <1>8
  <2>3. Left(s2, m) = (IF m \in s.walked THEN 0 ELSE 1)
                        + (IF m \in s.retried THEN 0 ELSE 1) + (LearnTries - tries[m])
    BY <1>6, <2>2
  <2> QED
    BY <1>1, <1>2, <2>1, <2>3 DEF Left
<1> QED
  BY <1>7, <1>8

AllSpend == \A h, m \in Members : Spends(stop[h], leg[h], stop'[h], leg'[h], m)

\* A step that drives the training stop of the lead, and no other.
LEMMA DriveSpends ==
    ASSUME ErrandsAssumption, ErrandsInv, NEW c, NEW overs,
           NEW d \in Drives(stop[lead], leg[lead], c, overs),
           stop' = [stop EXCEPT ![lead] = d.stop], leg' = [leg EXCEPT ![lead] = d.leg]
    PROVE  AllSpend
<1>1. FamilyTypes /\ LegsFit
  BY DEF ErrandsInv
<1>2. SUFFICES ASSUME NEW h \in Members, NEW m \in Members
               PROVE  Spends(stop[h], leg[h], stop'[h], leg'[h], m)
  BY DEF AllSpend
<1>3. CASE h = lead
  <2>1. stop'[h] = d.stop /\ leg'[h] = d.leg
    BY <1>1, <1>3 DEF FamilyTypes
  <2>2. stop[lead] \in Stops /\ leg[lead] \in Legs /\ LegFits(stop[lead], leg[lead])
    BY <1>1, <1>3 DEF FamilyTypes, LegsFit
  <2>3. Spends(stop[lead], leg[lead], d.stop, d.leg, m)
    BY <1>1, <2>2, DrivesSpend DEF FamilyTypes
  <2> QED
    BY <1>3, <2>1, <2>3
<1>4. CASE h # lead
  <2>1. stop'[h] = stop[h] /\ leg'[h] = leg[h] /\ Left(stop[h], m) \in Int
    BY <1>1, <1>4, LeftIsANumber DEF FamilyTypes
  <2> QED
    BY <2>1 DEF Spends
<1> QED
  BY <1>3, <1>4

LEMMA SameStopsSpend ==
    ASSUME ErrandsAssumption, ErrandsInv, UNCHANGED training
    PROVE  AllSpend
<1>1. ASSUME NEW h \in Members, NEW m \in Members
      PROVE  Spends(stop[h], leg[h], stop'[h], leg'[h], m)
  <2>1. stop'[h] = stop[h] /\ leg'[h] = leg[h] /\ Left(stop[h], m) \in Int
    BY LeftIsANumber DEF ErrandsInv, FamilyTypes, training
  <2> QED
    BY <2>1 DEF Spends
<1> QED
  BY <1>1 DEF AllSpend

LEMMA CoordinatorPollSpends ==
    ASSUME ErrandsAssumption, ErrandsInv, NEW over \in BOOLEAN, CoordinatorPoll(over)
    PROVE  AllSpend
<1>1. CASE HoldOut
  BY <1>1, SameStopsSpend DEF HoldOut
<1>2. CASE phase = "repairing" /\ RepairPoll(over)
  <2>1. (\E c : LegFinishes(c, over)) \/ UNCHANGED training
    BY <1>2, Zenon DEF RepairPoll, training
  <2>2. CASE \E c : LegFinishes(c, over)
    BY <2>2, DriveSpends DEF LegFinishes
  <2> QED
    BY <2>1, <2>2, SameStopsSpend
<1>3. CASE phase = "idle" /\ RunStartPoll(over)
  BY <1>3, DriveSpends DEF RunStartPoll
<1>4. CASE UNCHANGED <<phase, column, damaged, training, holds>>
  BY <1>4, SameStopsSpend
<1> QED
  BY <1>1, <1>2, <1>3, <1>4, CoordinatorPollParts

LEMMA TrainerReachedSpends ==
    ASSUME ErrandsAssumption, ErrandsInv, NEW k \in Members, TrainerReached(k)
    PROVE  AllSpend
<1>1. PICK failed \in SUBSET leg[k].with :
        stop' = [stop EXCEPT ![k] = Noted(stop[k], leg[k], failed)]
  BY DEF TrainerReached, ErrandsInv, FamilyTypes
<1>2. FamilyTypes /\ leg' = [leg EXCEPT ![k] = NoLeg]
  BY DEF TrainerReached, ErrandsInv
<1>3. SUFFICES ASSUME NEW h \in Members, NEW m \in Members
               PROVE  Spends(stop[h], leg[h], stop'[h], leg'[h], m)
  BY DEF AllSpend
<1>4. CASE h = k
  <2>1. stop[k] \in Stops /\ leg[k] \in Legs /\ failed \in SUBSET Members
    BY <1>2 DEF FamilyTypes, Legs
  <2>2. stop'[h] = Noted(stop[k], leg[k], failed) /\ leg'[h] = NoLeg
    BY <1>1, <1>2, <1>4 DEF FamilyTypes
  <2>3. Left(stop'[h], m) <= Left(stop[h], m)
    BY <1>4, <2>1, <2>2, NotedSpends
  <2>4. leg'[h].for # {m}
    BY <2>2, NoLegType
  <2> QED
    BY <2>3, <2>4 DEF Spends
<1>5. CASE h # k
  <2>1. stop'[h] = stop[h] /\ leg'[h] = leg[h] /\ Left(stop[h], m) \in Int
    BY <1>1, <1>2, <1>5, LeftIsANumber DEF FamilyTypes
  <2> QED
    BY <2>1 DEF Spends
<1> QED
  BY <1>4, <1>5

LEMMA RestIsOverSpends ==
    ASSUME ErrandsAssumption, ErrandsInv, NEW k \in Members, RestIsOver(k)
    PROVE  AllSpend
<1>1. ASSUME NEW h \in Members, NEW m \in Members
      PROVE  Spends(stop[h], leg[h], stop'[h], leg'[h], m)
  <2>1. CASE h = k
    BY <2>1 DEF RestIsOver, Spends
  <2>2. CASE h # k
    <3>1. stop'[h] = stop[h] /\ leg'[h] = leg[h] /\ Left(stop[h], m) \in Int
      BY <2>2, LeftIsANumber DEF RestIsOver, ErrandsInv, FamilyTypes
    <3> QED
      BY <3>1 DEF Spends
  <2> QED
    BY <2>1, <2>2
<1> QED
  BY <1>1 DEF AllSpend

LEMMA StopStep ==
    ASSUME ErrandsAssumption, ErrandsInv, [ErrandsNext]_errandsVars
    PROVE  AllSpend
<1>1. CASE UNCHANGED errandsVars
  BY <1>1, SameStopsSpend DEF errandsVars
<1>2. CASE \E over \in BOOLEAN : TrainPoll(over)
  BY <1>2, DriveSpends DEF TrainPoll
<1>3. CASE \E over \in BOOLEAN : CoordinatorPoll(over)
  BY <1>3, CoordinatorPollSpends
<1>4. CASE \E over \in BOOLEAN : DriveTownTrip(over)
  BY <1>4, SameStopsSpend DEF DriveTownTrip
<1>5. CASE \E m \in Members : TrainerReached(m)
  BY <1>5, TrainerReachedSpends
<1>6. CASE \E m \in Members : RestIsOver(m)
  BY <1>6, RestIsOverSpends
<1>7. CASE (\E m \in Members : AimEnds(m) \/ BridgeWrites(m)) \/ RunEnds \/ HeadChanges
             \/ JobChanges
  BY <1>7, SameStopsSpend DEF AimEnds, BridgeWrites, RunEnds, HeadChanges, JobChanges
<1> QED
  BY <1>1, <1>2, <1>3, <1>4, <1>5, <1>6, <1>7 DEF ErrandsNext

\* An open training stop runs down: a leg cut short, a lesson that failed, a
\* trainer that refuses or the legs walked for others give nobody a leg back,
\* and every leg a member is walked for uses one of his up (DriveTrainingStop,
\* NoteTrainingStopLeg).
THEOREM TrainingStopsRunDown == ErrandsSpec => StopRunsDown
<1>1. ErrandsInv /\ [ErrandsNext]_errandsVars =>
        [\A h, m \in Members :
           (stop[h].open /\ stop'[h].open) =>
             /\ Left(stop'[h], m) <= Left(stop[h], m)
             /\ (leg'[h] # leg[h] /\ leg'[h].for = {m}
                 /\ stop'[h].retried = stop[h].retried)
                  => Left(stop'[h], m) < Left(stop[h], m)]_errandsVars
  BY StopStep, ErrandsAssumption DEF AllSpend, Spends
<1> QED
  BY <1>1, ErrandsInvHolds, PTL DEF ErrandsSpec, StopRunsDown

=============================================================================
