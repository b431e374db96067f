---------------------------- MODULE TravelAimProofs ----------------------------
(***************************************************************************)
(* What TLAPS proves of TravelAim: for any aims, owners and limits, and    *)
(* however far the database's worker lags behind the book.                 *)
(***************************************************************************)
EXTENDS TravelAim, SequenceTheorems, TLAPS

(***************************************************************************)
(* Aims and numbers.                                                       *)
(***************************************************************************)
LEMMA Kinds ==
    /\ Empty \notin Aims /\ NoOwner \notin Owners
    /\ Counters \cap Points = {} /\ Counters \cap Guards = {} /\ Counters \cap Named = {}
    /\ Points \cap Guards = {} /\ Points \cap Named = {} /\ Guards \cap Named = {}
    /\ \A g \in Guards : PlaceOf[g] \in Points
    /\ \A o \in Owners : Wants[o] \subseteq Aims \ Guards
    /\ Counters \subseteq Aims /\ Points \subseteq Aims /\ Guards \subseteq Aims
    /\ Named \subseteq Aims
  <1>1. /\ Counters \cap Points = {} /\ Guards \cap Named = {}
        /\ (Counters \cup Points) \cap (Guards \cup Named) = {}
    BY TravelAssumption
  <1>2. \A o \in Owners : Wants[o] \subseteq Aims \ Guards
    BY TravelAssumption
  <1>3. \A g \in Guards : PlaceOf[g] \in Points
    BY TravelAssumption
  <1>4. Empty \notin Aims /\ NoOwner \notin Owners
    BY TravelAssumption
  <1> QED  BY <1>1, <1>2, <1>3, <1>4 DEF Aims
LEMMA Columns ==
    ASSUME TypeOK
    PROVE  /\ column \in Aims \cup {Empty} /\ (column \in Guards => PlaceOf[column] \in Points)
           /\ Target \in (Aims \ Guards) \cup {Empty}
           /\ (column # Empty => Target # Empty)
           /\ (column \notin Guards => Target = column)
  BY Kinds DEF TypeOK, Target

LEMMA LesserBounds ==
    ASSUME NEW m \in Nat, NEW n \in Nat
    PROVE  LesserOf(m, n) \in 0 .. n
  BY DEF LesserOf

(***************************************************************************)
(* The statements on their way.                                            *)
(***************************************************************************)
\* Who may take what stands in the column.
Takers ==
    CASE column \in Guards -> {}
      [] column \in Counters -> {"Exit", "TrainingStop"}
      [] column \in Points -> LiveRun \cup {"TrainingStop"}
      [] column \in Named -> IF learn THEN LiveRun ELSE Owners \cup {NoOwner}

LEMMA StatementType ==
    ASSUME NEW a \in Aims \cup {Empty}, NEW from \in Aims \cup {Empty},
           NEW o \in Owners \cup {NoOwner}
    PROVE  Statement(a, from, o) \in Statements
  BY DEF Statement, Statements, Ours

\* A statement made while another was on its way is marked as overtaken.
LaterAreStale == \A i \in 2 .. Len(writes) : writes[i].stale

\* The next statement was overtaken, or the book had the column when it was
\* made, or whoever made it may still take what stands there now.
HeadIsEntitled ==
    writes # <<>> =>
        \/ Head(writes).stale
        \/ Head(writes).own
        \/ column \in {Empty, Head(writes).aim}
        \/ Head(writes).owner \in Takers

QueueInv ==
    /\ writes \in Seq(Statements) /\ Len(writes) <= MaxQueued
    /\ LaterAreStale /\ HeadIsEntitled

LEMMA Appended ==
    ASSUME QueueInv, RoomToWrite, NEW a \in Aims \cup {Empty}, NEW from \in Aims \cup {Empty},
           NEW o \in Owners \cup {NoOwner}, writes' = Append(writes, Statement(a, from, o)),
           column' \in {column, Empty}, learn' = learn,
           Ours \/ column \in {Empty, a} \/ o \in Takers
    PROVE  QueueInv'
  <1> DEFINE s == Statement(a, from, o)
  <1>1. /\ s \in Statements /\ s.aim = a /\ s.own = Ours /\ s.owner = o
        /\ s.stale = (writes # <<>>)
    BY DEF Statement, Statements, Ours
  <1> HIDE DEF s
  <1>2. writes \in Seq(Statements) /\ Len(writes) \in Nat /\ MaxQueued \in Nat
    BY TravelAssumption DEF QueueInv
  <1>3. /\ writes' \in Seq(Statements) /\ Len(writes') = Len(writes) + 1
        /\ \A i \in 1 .. Len(writes) : writes'[i] = writes[i]
        /\ writes'[Len(writes) + 1] = s
    BY <1>1, <1>2, AppendProperties DEF s
  <1>4. Len(writes') <= MaxQueued
    BY <1>2, <1>3 DEF RoomToWrite
  <1>5. ASSUME NEW i \in 2 .. Len(writes') PROVE writes'[i].stale
    <2>1. CASE i \in 2 .. Len(writes)
      BY <1>2, <1>3, <2>1 DEF QueueInv, LaterAreStale
    <2>2. CASE i = Len(writes) + 1
      <3>1. Len(writes) >= 1
        BY <1>2, <2>2
      <3>2. writes # <<>>
        BY <3>1
      <3> QED  BY <1>1, <1>3, <2>2, <3>2
    <2> QED  BY <1>2, <1>3, <2>1, <2>2
  <1>6. Head(writes') = IF writes = <<>> THEN s ELSE Head(writes)
    BY <1>1, <1>2, HeadTailAppend DEF s
  <1>7. Takers' = Takers \/ column' = Empty
    BY DEF Takers
  <1>8. \/ Head(writes').stale \/ Head(writes').own
        \/ column' \in {Empty, Head(writes').aim} \/ Head(writes').owner \in Takers'
    <2>1. CASE writes = <<>>
      BY <1>1, <1>6, <1>7, <2>1
    <2>2. CASE writes # <<>>
      BY <1>6, <1>7, <2>2 DEF QueueInv, HeadIsEntitled
    <2> QED  BY <2>1, <2>2
  <1> QED  BY <1>3, <1>4, <1>5, <1>8 DEF QueueInv, LaterAreStale, HeadIsEntitled

\* Nothing is written; the module may have emptied the column at once.
LEMMA NotWritten ==
    ASSUME QueueInv, writes' = writes, column' \in {column, Empty}, learn' = learn
    PROVE  QueueInv'
  <1>1. Takers' = Takers \/ column' = Empty
    BY DEF Takers
  <1> QED  BY <1>1 DEF QueueInv, LaterAreStale, HeadIsEntitled

\* A release blanks only what the book may blank.
LEMMA LetGoWrites ==
    ASSUME TypeOK, QueueInv, RoomToWrite, LetGo, column' \in {column, Empty}, learn' = learn
    PROVE  QueueInv'
  <1>1. CASE Fenced \/ column = Empty
    BY <1>1, NotWritten DEF LetGo
  <1>2. CASE ~ Fenced /\ column # Empty
    <2>1. writes' = Append(writes, Statement(Empty, column, NoOwner))
      BY <1>2 DEF LetGo
    <2>2. Ours \/ NoOwner \in Takers
      <3>1. CASE claim # NoClaim
        BY <1>2, <3>1 DEF Fenced
      <3>2. CASE claim = NoClaim
        <4>1. ~ learn /\ column \in Named
          BY <1>2, <3>2, Columns DEF Fenced, Foreign, Aims
        <4> QED  BY <4>1, Kinds DEF Takers
      <3> QED  BY <3>1, <3>2
    <2> QED  BY <2>1, <2>2, Columns, Appended
  <1> QED  BY <1>1, <1>2

\* An owner writes only over what it may take.
LEMMA WritersAreTakers ==
    ASSUME TypeOK, NEW o \in Owners, NEW a \in Aims, MayWrite(o, a)
    PROVE  Ours \/ column \in {Empty, a} \/ o \in Takers
  <1> SUFFICES ASSUME ~ Ours, column # Empty, column # a PROVE o \in Takers
    OBVIOUS
  <1>1. /\ column \notin Guards
        /\ \/ o \in LiveRun /\ (column \notin Counters \/ o = "Exit")
           \/ ~ learn /\ (o = "TrainingStop" \/ ~ Foreign(column))
    BY DEF MayWrite, Outranks
  <1>2. CASE column \in Counters
    BY <1>1, <1>2, Kinds DEF Takers, Foreign
  <1>3. CASE column \in Points
    BY <1>1, <1>3, Kinds DEF Takers, Foreign
  <1>4. CASE column \in Named
    BY <1>1, <1>4, Kinds DEF Takers, Owners
  <1> QED  BY <1>1, <1>2, <1>3, <1>4, Columns DEF Aims

LEMMA HeadIsFirst ==
    ASSUME NEW S, NEW s \in Seq(S), s # <<>>
    PROVE  1 \in 1 .. Len(s) /\ Head(s) = s[1]
  BY EmptySeq

LEMMA OvertakenIsStale ==
    ASSUME QueueInv, writes' = Overtaken
    PROVE  QueueInv' /\ Len(writes') = Len(writes)
  <1>1. writes \in Seq(Statements) /\ Len(writes) \in Nat
    BY DEF QueueInv
  <1>2. \A i \in 1 .. Len(writes) : writes[i] \in Statements
    BY <1>1
  <1>3. \A i \in 1 .. Len(writes) :
            [writes[i] EXCEPT !.stale = TRUE] \in Statements
            /\ [writes[i] EXCEPT !.stale = TRUE].stale
    BY <1>2 DEF Statements
  <1>4. writes' = [i \in 1 .. Len(writes) |-> [writes[i] EXCEPT !.stale = TRUE]]
    BY <1>1 DEF Overtaken
  <1>5. /\ writes' \in Seq(Statements) /\ Len(writes') = Len(writes)
        /\ \A i \in 1 .. Len(writes) : writes'[i].stale
    <2>1. writes' \in [1 .. Len(writes) -> Statements]
      BY <1>3, <1>4
    <2>2. \A i \in 1 .. Len(writes) : writes'[i] = [writes[i] EXCEPT !.stale = TRUE]
      BY <1>4
    <2>3. writes' \in Seq(Statements)
      BY <1>1, <2>1, SeqDef
    <2>4. Len(writes') = Len(writes)
      BY <1>1, <2>1, <2>3, LenProperties
    <2> QED  BY <1>3, <2>2, <2>3, <2>4
  <1>6. writes' # <<>> => Head(writes').stale
    BY <1>5, HeadIsFirst
  <1> QED  BY <1>1, <1>5, <1>6 DEF QueueInv, LaterAreStale, HeadIsEntitled

LEMMA WorkerRuns ==
    ASSUME QueueInv, writes # <<>>, writes' = Tail(writes)
    PROVE  QueueInv'
  <1>1. writes \in Seq(Statements) /\ Len(writes) \in Nat /\ MaxQueued \in Nat
    BY TravelAssumption DEF QueueInv
  <1>2. /\ writes' \in Seq(Statements) /\ Len(writes') = Len(writes) - 1
        /\ \A i \in 1 .. Len(writes') : writes'[i] = writes[i + 1]
    BY <1>1, HeadTailProperties
  <1>3. \A i \in 1 .. Len(writes') : writes'[i].stale
    BY <1>1, <1>2 DEF QueueInv, LaterAreStale
  <1>4. writes' # <<>> => Head(writes').stale
    BY <1>2, <1>3, HeadIsFirst
  <1> QED  BY <1>1, <1>2, <1>3, <1>4 DEF QueueInv, LaterAreStale, HeadIsEntitled

(***************************************************************************)
(* The book.                                                               *)
(***************************************************************************)
Landings == [aim : Aims \cup {Empty}, counter : BOOLEAN, age : 0 .. Ceiling]
Poisons == [aim : Points \cup {Empty}, refusals : 0 .. Refusals,
            first : 0 .. MinAge, last : 0 .. Gap + 1]

BookInv ==
    /\ column \in Aims \cup {Empty} /\ learn \in BOOLEAN
    /\ claim \in {NoClaim} \cup [aim : Aims \ Guards, owner : Owners]
    /\ leg \in Points \cup {Empty}
    /\ driving \in (Aims \ Guards) \cup {Empty}
    /\ landed \in Landings /\ held \in BOOLEAN
    /\ grace \in 0 .. Grace /\ poison \in Poisons

RestInv ==
    /\ swept \in BOOLEAN /\ polled \in BOOLEAN /\ calm \in BOOLEAN
    /\ orders \in 0 .. MaxOrders /\ restarts \in 0 .. MaxRestarts

IInv == QueueInv /\ BookInv /\ RestInv

LEMMA TypesAreParts ==
    IInv <=> TypeOK /\ LaterAreStale /\ HeadIsEntitled
  BY DEF IInv, QueueInv, BookInv, RestInv, TypeOK, Landings, Poisons

LEMMA Limits ==
    /\ Ceiling \in Nat /\ Grace \in Nat /\ Refusals \in Nat \ {0} /\ MinAge \in Nat
    /\ Gap \in Nat /\ MaxQueued \in Nat /\ MaxOrders \in Nat /\ MaxRestarts \in Nat
  BY TravelAssumption

LEMMA Zeros ==
    /\ 0 \in 0 .. Grace /\ Grace \in 0 .. Grace /\ 0 \in 0 .. MaxOrders
    /\ 0 \in 0 .. MaxRestarts
  BY Limits

LEMMA Nothings ==
    NoLanding \in Landings /\ NoPoison \in Poisons
  BY Limits DEF NoLanding, NoPoison, Landings, Poisons

LEMMA LandingType ==
    ASSUME TypeOK, NEW walked
    PROVE  /\ Landing(walked) \in Landings
           /\ \A c \in BOOLEAN : [Landing(walked) EXCEPT !.counter = c] \in Landings
  <1>1. [NoLanding EXCEPT !.aim = column] \in Landings
    BY Nothings, Columns DEF Landings
  <1>2. Landing(walked) \in Landings
    BY <1>1, Nothings DEF Landing
  <1> QED  BY <1>2 DEF Landings

LEMMA NotedType ==
    ASSUME TypeOK
    PROVE  Noted \in Poisons /\ (Noted.refusals > 0 => ~ Ours /\ Target \in Points)
  <1>1. CASE Ours \/ Target \notin Points
    BY <1>1, Nothings DEF Noted, NoPoison
  <1>2. CASE ~ (Ours \/ Target \notin Points) /\ poison.refusals > 0 /\ poison.aim = Target
             /\ poison.last <= Gap
    <2>1. Noted = [poison EXCEPT !.refusals = LesserOf(@ + 1, Refusals), !.last = 0]
      BY <1>2 DEF Noted
    <2>2. poison \in Poisons /\ poison.refusals \in Nat
      BY Limits DEF TypeOK, Poisons
    <2>3. LesserOf(poison.refusals + 1, Refusals) \in 0 .. Refusals /\ 0 \in 0 .. Gap + 1
      BY <2>2, Limits, LesserBounds
    <2> QED  BY <1>2, <2>1, <2>2, <2>3 DEF Poisons
  <1>3. CASE /\ ~ (Ours \/ Target \notin Points)
             /\ ~ (poison.refusals > 0 /\ poison.aim = Target /\ poison.last <= Gap)
    <2>1. Noted = [aim |-> Target, refusals |-> 1, first |-> 0, last |-> 0]
      BY <1>3 DEF Noted
    <2>2. /\ Target \in Points /\ 1 \in 0 .. Refusals /\ 0 \in 0 .. MinAge
          /\ 0 \in 0 .. Gap + 1
      BY <1>3, Limits
    <2> QED  BY <1>3, <2>1, <2>2 DEF Poisons
  <1> QED  BY <1>1, <1>2, <1>3

LEMMA LetGoBook ==
    ASSUME LetGo
    PROVE  claim' = NoClaim /\ driving' = Empty /\ grace' \in 0 .. Grace
  BY Limits DEF LetGo

(***************************************************************************)
(* The owners.                                                             *)
(***************************************************************************)
LEMMA OrderCounts ==
    ASSUME IInv, Order
    PROVE  orders' \in 0 .. MaxOrders /\ orders' # orders
  BY Limits DEF IInv, RestInv, Order

LEMMA ClaimStep ==
    ASSUME IInv, Claim
    PROVE  IInv'
  <1>1. PICK o \in Owners : \E a \in Wants[o] :
          /\ leg' = IF o = "Run" /\ a \in Points THEN a ELSE leg
          /\ IF (driving = a /\ column = a) \/ ~ MayWrite(o, a)
             THEN UNCHANGED <<writes, claim, driving, landed>>
             ELSE /\ writes' = Append(writes, Statement(a, Empty, o))
                  /\ claim' = [aim |-> a, owner |-> o]
                  /\ driving' = Empty
                  /\ landed' = NoLanding
    BY DEF Claim
  <1>a. PICK a \in Wants[o] :
          /\ leg' = IF o = "Run" /\ a \in Points THEN a ELSE leg
          /\ IF (driving = a /\ column = a) \/ ~ MayWrite(o, a)
             THEN UNCHANGED <<writes, claim, driving, landed>>
             ELSE /\ writes' = Append(writes, Statement(a, Empty, o))
                  /\ claim' = [aim |-> a, owner |-> o]
                  /\ driving' = Empty
                  /\ landed' = NoLanding
    BY <1>1
  <1>2. /\ UNCHANGED <<column, learn, held, grace, poison, timing, calm, restarts>>
        /\ RoomToWrite /\ Order
    BY DEF Claim
  <1>3. TypeOK /\ a \in Aims \ Guards
    BY <1>a, Kinds, TypesAreParts
  <1>4. QueueInv'
    <2>1. CASE UNCHANGED writes
      BY <1>2, <2>1, NotWritten DEF IInv
    <2>2. CASE writes' = Append(writes, Statement(a, Empty, o)) /\ MayWrite(o, a)
      BY <1>2, <1>3, <2>2, WritersAreTakers, Appended DEF IInv
    <2> QED  BY <1>a, <2>1, <2>2
  <1>5. BookInv'
    BY <1>a, <1>2, <1>3, Nothings DEF IInv, BookInv
  <1>6. RestInv'
    BY <1>2, OrderCounts DEF IInv, RestInv, timing
  <1> QED  BY <1>4, <1>5, <1>6 DEF IInv

LEMMA ReleaseStep ==
    ASSUME IInv, Release
    PROVE  IInv'
  <1>1. /\ TypeOK /\ RoomToWrite /\ Order /\ LetGo /\ landed' = Landing(driving)
        /\ UNCHANGED <<column, learn, leg, held, poison, timing, calm, restarts>>
    BY TypesAreParts DEF Release
  <1>2. QueueInv'
    BY <1>1, LetGoWrites DEF IInv
  <1>3. BookInv'
    BY <1>1, LetGoBook, LandingType DEF IInv, BookInv
  <1>4. RestInv'
    BY <1>1, OrderCounts DEF IInv, RestInv, timing
  <1> QED  BY <1>2, <1>3, <1>4 DEF IInv

LEMMA EndRunStep ==
    ASSUME IInv, EndRun
    PROVE  IInv'
  <1>1. /\ TypeOK /\ RoomToWrite /\ Order /\ leg' = Empty
        /\ UNCHANGED <<learn, held, poison, timing, calm, restarts>>
    BY TypesAreParts DEF EndRun
  <1>2. CASE LegStands
    <2>1. LetGo /\ landed' = Landing(driving) /\ column' = Empty
      BY <1>2 DEF EndRun
    <2>2. QueueInv'
      BY <1>1, <2>1, LetGoWrites DEF IInv
    <2>3. BookInv'
      BY <1>1, <2>1, LetGoBook, LandingType DEF IInv, BookInv
    <2>4. RestInv'
      BY <1>1, OrderCounts DEF IInv, RestInv, timing
    <2> QED  BY <2>2, <2>3, <2>4 DEF IInv
  <1>3. CASE ~ LegStands
    <2>1. UNCHANGED <<column, writes, claim, driving, landed, grace>>
      BY <1>3 DEF EndRun
    <2>2. QueueInv'
      BY <1>1, <2>1, NotWritten DEF IInv
    <2>3. BookInv'
      BY <1>1, <2>1 DEF IInv, BookInv
    <2>4. RestInv'
      BY <1>1, OrderCounts DEF IInv, RestInv, timing
    <2> QED  BY <2>2, <2>3, <2>4 DEF IInv
  <1> QED  BY <1>2, <1>3

(***************************************************************************)
(* The travel poll.                                                        *)
(***************************************************************************)
LEMMA PollRest ==
    ASSUME IInv, UNCHANGED rest, swept' \in BOOLEAN, polled' \in BOOLEAN
    PROVE  RestInv'
  BY DEF IInv, RestInv, rest

LEMMA QuietPollsStep ==
    ASSUME IInv, PollForgetsLeftover \/ PollFindsNothing \/ PollSkips \/ PollStandsDown
    PROVE  IInv'
  <1>1. CASE PollForgetsLeftover
    <2>1. QueueInv'
      BY <1>1, NotWritten DEF IInv, PollForgetsLeftover
    <2>2. BookInv'
      BY <1>1, Nothings DEF IInv, BookInv, PollForgetsLeftover
    <2>3. RestInv'
      BY <1>1, PollRest DEF PollForgetsLeftover
    <2> QED  BY <2>1, <2>2, <2>3 DEF IInv
  <1>2. CASE PollFindsNothing
    <2>1. QueueInv'
      BY <1>2, NotWritten DEF IInv, PollFindsNothing
    <2>2. BookInv'
      BY <1>2, Nothings, Limits DEF IInv, BookInv, PollFindsNothing
    <2>3. RestInv'
      BY <1>2, PollRest DEF PollFindsNothing, SweepGoesOn
    <2> QED  BY <2>1, <2>2, <2>3 DEF IInv
  <1>3. CASE PollSkips \/ PollStandsDown
    <2>1. UNCHANGED <<column, learn, writes, book, rest>> /\ SweepGoesOn /\ polled' = TRUE
      BY <1>3 DEF PollSkips, PollStandsDown
    <2>2. QueueInv'
      BY <2>1, NotWritten DEF IInv
    <2>3. BookInv'
      BY <2>1 DEF IInv, BookInv, book
    <2>4. RestInv'
      BY <2>1, PollRest DEF SweepGoesOn
    <2> QED  BY <2>2, <2>3, <2>4 DEF IInv
  <1> QED  BY <1>1, <1>2, <1>3

LEMMA WalkingPollsStep ==
    ASSUME IInv, PollWalks \/ PollEnds
    PROVE  IInv'
  <1>1. /\ TypeOK /\ SweepGoesOn /\ polled' = TRUE /\ UNCHANGED <<column, learn, leg, rest>>
    BY TypesAreParts DEF PollWalks, PollEnds, Walks
  <1>2. RestInv'
    BY <1>1, PollRest DEF SweepGoesOn
  <1>3. CASE PollWalks
    <2>1. QueueInv'
      BY <1>1, <1>3, NotWritten DEF IInv, PollWalks
    <2>2. driving' \in (Aims \ Guards) \cup {Empty} /\ held' \in BOOLEAN
      BY <1>1, <1>3, Columns DEF IInv, BookInv, PollWalks, HeldOnTheWay
    <2>3. BookInv'
      BY <1>1, <1>3, <2>2, Nothings DEF IInv, BookInv, PollWalks
    <2> QED  BY <1>2, <2>1, <2>3 DEF IInv
  <1>4. CASE PollEnds
    <2>1. /\ RoomToWrite /\ LetGo /\ UNCHANGED poison
          /\ held' \in BOOLEAN
      BY <1>4 DEF PollEnds, HeldOnTheWay, IInv, BookInv
    <2>2. landed' \in Landings
      <3>1. \/ landed' = Landing(Target)
            \/ landed' = [Landing(Target) EXCEPT !.counter = (Landing(Target).aim = Target)]
        BY <1>4 DEF PollEnds
      <3>2. (Landing(Target).aim = Target) \in BOOLEAN
        OBVIOUS
      <3> QED  BY <1>1, <3>1, <3>2, LandingType
    <2>3. QueueInv'
      BY <1>1, <2>1, LetGoWrites DEF IInv
    <2>4. BookInv'
      BY <1>1, <2>1, <2>2, LetGoBook DEF IInv, BookInv
    <2> QED  BY <1>2, <2>3, <2>4 DEF IInv
  <1> QED  BY <1>3, <1>4

LEMMA RefusingPollStep ==
    ASSUME IInv, PollRefuses
    PROVE  IInv'
  <1>1. /\ TypeOK /\ RoomToWrite /\ SweepGoesOn /\ polled' = TRUE /\ LetGo
        /\ UNCHANGED <<learn, leg, rest>> /\ held' \in BOOLEAN
        /\ landed' \in {Landing(Target), NoLanding}
        /\ poison' \in {poison, NoPoison, Noted} /\ column' \in {column, Empty}
    BY TypesAreParts DEF PollRefuses, HeldOnTheWay, IInv, BookInv
  <1>2. QueueInv'
    BY <1>1, LetGoWrites DEF IInv
  <1>3. BookInv'
    BY <1>1, LetGoBook, LandingType, NotedType, Nothings DEF IInv, BookInv
  <1>4. RestInv'
    BY <1>1, PollRest DEF SweepGoesOn
  <1> QED  BY <1>2, <1>3, <1>4 DEF IInv

(***************************************************************************)
(* Everybody else.                                                         *)
(***************************************************************************)
LEMMA OutsideStep ==
    ASSUME IInv, WriteFromOutside \/ LearnChanges
    PROVE  IInv'
  <1>1. /\ Order /\ writes' = Overtaken /\ UNCHANGED <<book, timing, calm, restarts>>
        /\ column' \in Aims \cup {Empty} /\ learn' \in BOOLEAN
    BY DEF WriteFromOutside, LearnChanges, IInv, BookInv
  <1>2. QueueInv'
    BY <1>1, OvertakenIsStale DEF IInv
  <1>3. BookInv'
    BY <1>1 DEF IInv, BookInv, book
  <1>4. RestInv'
    BY <1>1, OrderCounts DEF IInv, RestInv, timing
  <1> QED  BY <1>2, <1>3, <1>4 DEF IInv

LEMMA ApplyStep ==
    ASSUME IInv, ApplyWrite
    PROVE  IInv'
  <1>1. /\ writes # <<>> /\ writes' = Tail(writes)
        /\ column' \in {column, Head(writes).aim}
        /\ UNCHANGED <<learn, book, timing, rest>>
    BY DEF ApplyWrite
  <1>2. QueueInv'
    BY <1>1, WorkerRuns DEF IInv
  <1>3. Head(writes).aim \in Aims \cup {Empty}
    <2>1. Head(writes) \in Statements
      BY <1>1, HeadTailProperties DEF IInv, QueueInv
    <2> QED  BY <2>1 DEF Statements
  <1>4. BookInv'
    BY <1>1, <1>3 DEF IInv, BookInv, book
  <1>5. RestInv'
    BY <1>1 DEF IInv, RestInv, timing, rest
  <1> QED  BY <1>2, <1>4, <1>5 DEF IInv

LEMMA OtherSteps ==
    ASSUME IInv, Restart \/ CounterHoldEnds \/ Calm
    PROVE  IInv'
  <1>1. UNCHANGED <<column, learn, writes>>
    BY DEF Restart, CounterHoldEnds, Calm
  <1>2. QueueInv'
    BY <1>1, NotWritten DEF IInv
  <1>3. CASE Restart
    <2>1. BookInv'
      BY <1>1, <1>3, Nothings, Zeros DEF IInv, BookInv, Restart
    <2>2. restarts' \in 0 .. MaxRestarts
      BY <1>3, Limits DEF IInv, RestInv, Restart
    <2>3. RestInv'
      BY <1>3, <2>2 DEF IInv, RestInv, Restart
    <2> QED  BY <1>2, <2>1, <2>3 DEF IInv
  <1>4. CASE CounterHoldEnds \/ Calm
    BY <1>1, <1>2, <1>4 DEF IInv, BookInv, RestInv, CounterHoldEnds, Calm, book, timing, rest
  <1> QED  BY <1>3, <1>4

LEMMA TickStep ==
    ASSUME IInv, Tick
    PROVE  IInv'
  <1>1. /\ polled' = FALSE /\ UNCHANGED <<column, learn, writes, claim, leg, driving, held, swept, rest>>
        /\ grace' = LesserOf(grace + 1, Grace)
    BY DEF Tick
  <1>2. QueueInv'
    BY <1>1, NotWritten DEF IInv
  <1>3. landed' \in Landings
    <2> DEFINE n == IF landed = NoLanding THEN 0 ELSE LesserOf(landed.age + 1, Ceiling)
    <2>1. landed' = [landed EXCEPT !.age = n]
      BY DEF Tick
    <2>2. landed \in Landings /\ landed.age \in Nat
      BY Limits DEF IInv, BookInv, Landings
    <2>3. n \in 0 .. Ceiling
      BY <2>2, Limits, LesserBounds
    <2> HIDE DEF n
    <2> QED  BY <2>1, <2>2, <2>3 DEF Landings
  <1>4. poison' \in Poisons
    <2> DEFINE f == LesserOf(poison.first + 1, MinAge)
               l == LesserOf(poison.last + 1, Gap + 1)
    <2>1. poison' \in {NoPoison, [poison EXCEPT !.first = f, !.last = l]}
      BY DEF Tick
    <2>2. poison \in Poisons /\ poison.first \in Nat /\ poison.last \in Nat
      BY Limits DEF IInv, BookInv, Poisons
    <2>3. f \in 0 .. MinAge
      <3>1. poison.first + 1 \in Nat /\ MinAge \in Nat
        BY <2>2, Limits
      <3> QED  BY <3>1, LesserBounds
    <2>4. l \in 0 .. Gap + 1
      <3>1. poison.last + 1 \in Nat /\ Gap + 1 \in Nat
        BY <2>2, Limits
      <3> QED  BY <3>1, LesserBounds
    <2> HIDE DEF f, l
    <2> QED  BY <2>1, <2>2, <2>3, <2>4, Nothings DEF Poisons
  <1>5. grace' \in 0 .. Grace
    BY <1>1, Limits, LesserBounds DEF IInv, BookInv
  <1>6. BookInv'
    BY <1>1, <1>3, <1>4, <1>5 DEF IInv, BookInv
  <1>7. RestInv'
    BY <1>1, PollRest DEF IInv, RestInv, rest
  <1> QED  BY <1>2, <1>6, <1>7 DEF IInv

LEMMA IInvInit == Init => IInv
  <1> SUFFICES ASSUME Init PROVE IInv
    OBVIOUS
  <1>1. writes = <<>> /\ <<>> \in Seq(Statements) /\ Len(<<>>) = 0 /\ MaxQueued \in Nat
    BY Limits, EmptySeq DEF Init
  <1>2. QueueInv
    BY <1>1 DEF QueueInv, LaterAreStale, HeadIsEntitled
  <1>3. BookInv
    BY Kinds, Nothings, Zeros DEF Init, BookInv
  <1>4. RestInv
    BY Zeros DEF Init, RestInv
  <1> QED  BY <1>2, <1>3, <1>4 DEF IInv

LEMMA IInvStep == IInv /\ [Next]_vars => IInv'
  <1> SUFFICES ASSUME IInv, [Next]_vars PROVE IInv'
    OBVIOUS
  <1>1. CASE UNCHANGED vars
    <2>1. QueueInv'
      BY <1>1, NotWritten DEF IInv, vars
    <2> QED  BY <1>1, <2>1 DEF IInv, BookInv, RestInv, vars, book, timing, rest
  <1> QED
    BY <1>1, ClaimStep, ReleaseStep, EndRunStep, QuietPollsStep, WalkingPollsStep,
       RefusingPollStep, OutsideStep, ApplyStep, OtherSteps, TickStep
    DEF Next, TravelPoll

LEMMA IInvAlways == Spec => []IInv
  BY IInvInit, IInvStep, PTL DEF Spec

\* Every variable keeps its type: nothing but an aim is ever written, a guard
\* is never claimed or walked, and the queue and the clocks keep their limits.
THEOREM TravelTypes == Spec => []TypeOK
  BY IInvAlways, TypesAreParts, PTL

(***************************************************************************)
(* What somebody else put in the column.                                   *)
(***************************************************************************)
LEMMA OneLess ==
    ASSUME NEW n \in Nat, NEW m, m = n - 1
    PROVE  m # n /\ m # n + 1
  OBVIOUS

\* A statement that is written takes only what it may.
LEMMA WrittenIsTaken ==
    ASSUME IInv, writes # <<>>, writes' = Tail(writes), column # Empty, column' # column,
           [Next]_vars
    PROVE  LET s == Head(writes) IN s.stale \/ s.own \/ s.owner \in Takers
  <1>1. /\ writes \in Seq(Statements) /\ Len(writes) \in Nat /\ Len(writes') = Len(writes) - 1
    BY HeadTailProperties DEF IInv, QueueInv
  <1>2. Head(writes).aim # column
    <2>1. SUFFICES ASSUME Head(writes).aim = column PROVE FALSE
      OBVIOUS
    <2>2. ApplyWrite
      <3>0. Len(writes') # Len(writes) /\ Len(writes') # Len(writes) + 1
        BY <1>1, OneLess
      <3>1. writes' # writes
        BY <3>0
      <3>2. ~ (Claim \/ Release \/ EndRun \/ PollEnds \/ PollRefuses)
        <4>1. ASSUME NEW s \in Statements PROVE writes' # Append(writes, s)
          <5>1. Len(Append(writes, s)) = Len(writes) + 1
            BY <1>1, AppendProperties
          <5> QED  BY <3>0, <5>1
        <4>2. ~ LetGo
          BY <3>1, <4>1, StatementType, Columns, TypesAreParts DEF LetGo
        <4>3. ~ Claim
          BY <3>1, <4>1, StatementType, Kinds DEF Claim
        <4> QED  BY <3>1, <4>2, <4>3 DEF Release, EndRun, PollEnds, PollRefuses
      <3>3. ~ (WriteFromOutside \/ LearnChanges)
        <4>1. SUFFICES ASSUME writes' = Overtaken PROVE FALSE
          BY DEF WriteFromOutside, LearnChanges
        <4>2. Len(writes') = Len(writes)
          BY <4>1, OvertakenIsStale DEF IInv
        <4> QED  BY <3>0, <4>2
      <3>4. ~ UNCHANGED vars
        BY <3>1 DEF vars
      <3> QED
        BY <3>1, <3>2, <3>3, <3>4
        DEF Next, TravelPoll, PollForgetsLeftover, PollFindsNothing, PollSkips, PollStandsDown,
            PollWalks, Restart, CounterHoldEnds, Calm, Tick
    <2> QED  BY <2>1, <2>2 DEF ApplyWrite
  <1> QED  BY <1>2 DEF IInv, QueueInv, HeadIsEntitled

\* Without a statement, the module empties the column only of a point that is
\* not the book's: the sweep and the breaker.
LEMMA EmptiedIsPoint ==
    ASSUME IInv, ~ (writes # <<>> /\ writes' = Tail(writes)), column' # column, column # Empty,
           ~ Ours, orders' = orders, [Next]_vars
    PROVE  column \in Points
  <1>1. CASE PollForgetsLeftover
    BY <1>1 DEF PollForgetsLeftover, Leftover
  <1>2. CASE PollRefuses
    <2>1. column \notin Guards /\ Poisoned
      BY <1>2 DEF PollRefuses
    <2>2. Noted.refusals > 0
      BY <2>1, Limits DEF Poisoned
    <2> QED  BY <2>1, <2>2, NotedType, TypesAreParts, Columns
  <1>3. CASE Claim \/ Release \/ EndRun \/ WriteFromOutside \/ LearnChanges
    BY <1>3, OrderCounts DEF Claim, Release, EndRun, WriteFromOutside, LearnChanges
  <1> QED
    BY <1>1, <1>2, <1>3
    DEF Next, TravelPoll, PollFindsNothing, PollSkips, PollStandsDown, PollWalks, PollEnds,
        Walks, ApplyWrite, Restart, CounterHoldEnds, Calm, Tick, vars

\* What somebody else put in the column stays there, whatever the claims,
\* releases, run ends, sweeps and refusals, and however late the database's
\* worker writes what was not overtaken.
THEOREM ForeignErrandsStand == Spec => ForeignErrandStands
  <1> DEFINE Stands ==
        LET s == Head(writes)
            byStatement == writes # <<>> /\ writes' = Tail(writes)
            takers == CASE column \in Guards -> {}
                        [] column \in Counters -> {"Exit", "TrainingStop"}
                        [] column \in Points -> LiveRun \cup {"TrainingStop"}
                        [] column \in Named -> IF learn THEN LiveRun
                                               ELSE Owners \cup {NoOwner}
        IN  (column # Empty /\ column' # column /\ ~ Ours /\ orders' = orders) =>
              \/ byStatement /\ (s.stale \/ s.own \/ s.owner \in takers)
              \/ ~ byStatement /\ column \in Points
  <1>1. IInv /\ [Next]_vars => Stands
    BY WrittenIsTaken, EmptiedIsPoint DEF Takers
  <1>2. IInv /\ [Next]_vars => [Stands]_vars
    BY <1>1
  <1> QED  BY <1>2, IInvAlways, PTL DEF Spec, ForeignErrandStands

=============================================================================
