-------------------------- MODULE ParkedOrdersProofs --------------------------
(***************************************************************************)
(* What TLAPS proves of ParkedOrders and of the hold register it is built  *)
(* from, for any number of rows, orders and holds and any windows.         *)
(***************************************************************************)
EXTENDS ParkedOrders, FiniteSetTheorems, TLAPS

HoldVerbs == Rows \cup Drives \cup {"settle"}

Bots == [strat : SUBSET Strategies, hold : Holds(HoldVerbs, LongestHold),
         body : Bodies, spell : Rows \cup {"none"}]

(***************************************************************************)
(* Windows and deadlines.                                                  *)
(***************************************************************************)
LEMMA MaxOfTwo ==
    ASSUME NEW a \in Nat, NEW b \in Nat
    PROVE  Max({a, b}) \in {a, b} /\ Max({a, b}) >= a /\ Max({a, b}) >= b
  <1>1. \E x \in {a, b} : \A y \in {a, b} : x >= y
    <2>1. CASE a >= b
      BY <2>1
    <2>2. CASE b >= a
      BY <2>2
    <2> QED  BY <2>1, <2>2
  <1> QED  BY <1>1 DEF Max

LEMMA Bounds ==
    /\ Ceiling \in Nat \ {0} /\ CastTime \in Nat \ {0} /\ WalkTime \in Nat \ {0}
    /\ RouteTime \in Nat \ {0} /\ FightTime \in Nat \ {0} /\ SettleTime \in Nat
    /\ WalkTime <= RouteTime
    /\ LongestWindow \in Nat /\ LongestHold \in Nat
    /\ CastTime <= LongestWindow /\ CastTime + SettleTime <= LongestWindow
    /\ RouteTime <= LongestWindow /\ WalkTime <= LongestWindow
    /\ 1 <= LongestHold /\ Ceiling <= LongestHold /\ RouteTime + 1 <= LongestHold
  <1>1. /\ Ceiling \in Nat \ {0} /\ CastTime \in Nat \ {0} /\ WalkTime \in Nat \ {0}
        /\ RouteTime \in Nat \ {0} /\ FightTime \in Nat \ {0} /\ SettleTime \in Nat
        /\ WalkTime <= RouteTime
    BY ConstantsAssumption
  <1>2. /\ LongestWindow \in Nat /\ LongestWindow >= CastTime + SettleTime
        /\ LongestWindow >= RouteTime
    BY <1>1, MaxOfTwo DEF LongestWindow
  <1>3. LongestHold \in Nat /\ LongestHold >= Ceiling /\ LongestHold >= RouteTime + 1
    BY <1>1, MaxOfTwo DEF LongestHold
  <1> QED  BY <1>1, <1>2, <1>3

(***************************************************************************)
(* The register.  A hold takes everything: whoever is held is owed both    *)
(* its stay and its movers back.  Every call of it keeps the account       *)
(* straight, but for the one that forgets.                                 *)
(***************************************************************************)
InForce(b) ==
    /\ b.hold.left > 0 => b.hold.verb # "none"
    /\ b.body = "gone" => b.spell = "none"

Sound(b) == b \in Bots /\ InForce(b)

\* What becomes of b is sound, and accounted for if b was.
Keeps(b, c) == Sound(c) /\ (Accounted(b) => Accounted(c))

USE DEF Keeps

LEMMA BotFields ==
    ASSUME NEW b \in Bots
    PROVE  /\ b.strat \subseteq Strategies /\ b.body \in Bodies /\ b.spell \in Rows \cup {"none"}
           /\ b.hold \in Holds(HoldVerbs, LongestHold)
           /\ b.hold.verb \in HoldVerbs \cup {"none"} /\ b.hold.left \in 0..LongestHold
           /\ b.hold.stay \in BOOLEAN /\ b.hold.mover \in BOOLEAN /\ b.hold.walking \in BOOLEAN
           /\ b.hold.owed \in {"no", "asked", "due"}
  BY DEF Bots, Holds

LEMMA NoHoldType ==
    /\ NoHold \in Holds(HoldVerbs, LongestHold) /\ NoHold.verb = "none" /\ NoHold.left = 0
    /\ ~ NoHold.stay /\ ~ NoHold.mover
  BY Bounds DEF NoHold, Holds

LEMMA StoppedSound ==
    ASSUME NEW b \in Bots
    PROVE  /\ Stopped(b) \in Bots /\ Stopped(b).hold = b.hold /\ Stopped(b).strat = {"stay"}
           /\ Stopped(b).body = IF b.body = "moving" THEN "still" ELSE b.body
           /\ \A h \in Holds(HoldVerbs, LongestHold) :
                LET c == [Stopped(b) EXCEPT !.hold = h]
                IN  /\ c \in Bots /\ c.hold = h /\ c.strat = {"stay"}
                    /\ c.body = IF b.body = "moving" THEN "still" ELSE b.body
                    /\ c.spell = b.spell
  BY DEF Stopped, Bots, Strategies, Bodies

LEMMA FreshHoldType ==
    ASSUME NEW b \in Bots, NEW verb \in HoldVerbs, NEW n \in 0..LongestHold
    PROVE  /\ FreshHold(b, verb, n) \in Holds(HoldVerbs, LongestHold)
           /\ FreshHold(b, verb, n).verb = verb /\ FreshHold(b, verb, n).left = n
           /\ FreshHold(b, verb, n).stay = ("stay" \notin b.strat \/ b.hold.stay)
           /\ FreshHold(b, verb, n).mover = ("mover" \in b.strat \/ b.hold.mover)
  BY DEF FreshHold, NoHold, Holds, Bots

\* A hold in force keeps its verb; a fresh one takes over.
LEMMA HoldStillSound ==
    ASSUME NEW b, Sound(b), NEW verb \in HoldVerbs, NEW n \in 0..LongestHold
    PROVE  /\ Keeps(b, HoldStill(b, verb, n))
           /\ n > 0 => HoldStill(b, verb, n) = b \/ HeldStill(HoldStill(b, verb, n))
           /\ HeldStill(b) => HoldStill(b, verb, n).hold.verb = b.hold.verb
           /\ HoldStill(b, verb, n).hold.verb \in {verb, b.hold.verb}
           /\ HoldStill(b, verb, n).hold.left \in {n, b.hold.left}
           /\ HoldStill(b, verb, n).body # "gone" <=> b.body # "gone"
           /\ HoldStill(b, verb, n).body \in {"still", b.body}
  <1> DEFINE c == HoldStill(b, verb, n)
  <1>0. b \in Bots /\ verb # "none"
    BY ConstantsAssumption DEF Sound, HoldVerbs, Rows
  <1>1. CASE b.body \in {"flying", "gone"}
    BY <1>1 DEF HoldStill
  <1>2. CASE b.body \notin {"flying", "gone"} /\ HeldStill(b)
    <2> DEFINE h == [b.hold EXCEPT !.walking = FALSE]
    <2>1. /\ h \in Holds(HoldVerbs, LongestHold) /\ h.verb = b.hold.verb /\ h.left = b.hold.left
          /\ h.stay = b.hold.stay /\ h.mover = b.hold.mover
      BY <1>0, BotFields DEF Holds
    <2>2. c = [Stopped(b) EXCEPT !.hold = h]
      BY <1>2 DEF HoldStill
    <2> HIDE DEF h, c
    <2>3. /\ c \in Bots /\ c.hold = h /\ c.strat = {"stay"}
          /\ c.body = (IF b.body = "moving" THEN "still" ELSE b.body) /\ c.spell = b.spell
      BY <1>0, <2>1, <2>2, StoppedSound
    <2>4. InForce(c) /\ (Accounted(b) => Accounted(c))
      BY <1>2, <2>1, <2>3 DEF Sound, InForce, Accounted, DebtsRecorded, HeldStill
    <2> QED  BY <1>2, <2>1, <2>3, <2>4 DEF Sound, HeldStill, c
  <1>3. CASE b.body \notin {"flying", "gone"} /\ ~ HeldStill(b)
    <2> DEFINE h == FreshHold(b, verb, n)
    <2>1. /\ h \in Holds(HoldVerbs, LongestHold) /\ h.verb = verb /\ h.left = n
          /\ h.stay = ("stay" \notin b.strat \/ b.hold.stay)
          /\ h.mover = ("mover" \in b.strat \/ b.hold.mover)
      BY <1>0, FreshHoldType
    <2>2. c = [Stopped(b) EXCEPT !.hold = h]
      BY <1>3 DEF HoldStill
    <2> HIDE DEF h, c
    <2>3. /\ c \in Bots /\ c.hold = h /\ c.strat = {"stay"}
          /\ c.body = (IF b.body = "moving" THEN "still" ELSE b.body) /\ c.spell = b.spell
      BY <1>0, <2>1, <2>2, StoppedSound
    <2>4. Accounted(b) => h.stay /\ h.mover
      BY <1>3, <2>1 DEF Accounted, DebtsRecorded
    <2>5. InForce(c) /\ (Accounted(b) => Accounted(c))
      BY <1>0, <1>3, <2>1, <2>3, <2>4 DEF Sound, InForce, Accounted, DebtsRecorded
    <2> QED  BY <1>3, <2>1, <2>3, <2>5 DEF Sound, HeldStill, c
  <1> QED  BY <1>1, <1>2, <1>3

\* Letting go of another's hold changes nothing.
LEMMA LetGoSound ==
    ASSUME NEW b, Sound(b), NEW verb
    PROVE  /\ Keeps(b, LetGo(b, verb))
           /\ LetGo(b, verb).body = b.body /\ LetGo(b, verb).spell = b.spell
           /\ b.hold.verb # verb => LetGo(b, verb) = b
           /\ b.hold.verb = verb => LetGo(b, verb).hold.verb = "none" /\ LetGo(b, verb).hold.left = 0
           /\ LetGo(b, verb).hold \in {b.hold, NoHold}
  <1> DEFINE c == LetGo(b, verb)
             st == IF b.body = "gone" THEN b.strat
                   ELSE (b.strat \ IF b.hold.stay THEN {"stay"} ELSE {})
                        \cup IF b.hold.mover THEN {"mover"} ELSE {}
  <1>0. b \in Bots
    BY DEF Sound
  <1>1. CASE b.hold.verb # verb
    BY <1>1 DEF LetGo
  <1>2. CASE b.hold.verb = "none" /\ verb = "none"
    <2>1. b.hold.left = 0
      BY <1>0, <1>2, BotFields, Bounds DEF Sound, InForce
    <2> QED  BY <1>2, <2>1 DEF LetGo
  <1>3. CASE b.hold.verb = verb /\ verb # "none"
    <2>1. c = [b EXCEPT !.hold = NoHold, !.strat = st]
      BY <1>3 DEF LetGo
    <2>2. st \subseteq Strategies
      BY <1>0, BotFields DEF Strategies
    <2> HIDE DEF c
    <2>3. /\ c \in Bots /\ c.hold = NoHold /\ c.strat = st /\ c.body = b.body /\ c.spell = b.spell
      BY <1>0, <2>1, <2>2, NoHoldType DEF Bots
    <2>4. InForce(c)
      BY <2>3, NoHoldType DEF InForce, Sound
    <2>5. Accounted(b) => Accounted(c)
      BY <2>3, <1>3, NoHoldType DEF Accounted, DebtsRecorded
    <2> QED  BY <1>3, <2>3, <2>4, <2>5, NoHoldType DEF Sound, c
  <1> QED  BY <1>1, <1>2, <1>3

\* Forgetting leaves a sound bot, and no record of that verb.
LEMMA ForgetSound ==
    ASSUME NEW b, Sound(b), NEW verb
    PROVE  /\ Sound(Forget(b, verb))
           /\ b.hold.verb # verb => Forget(b, verb) = b
           /\ b.hold.verb = verb => Forget(b, verb).hold = NoHold
  <1> DEFINE c == [b EXCEPT !.hold = NoHold]
  <1>1. CASE b.hold.verb # verb
    BY <1>1 DEF Forget
  <1>2. CASE b.hold.verb = verb
    <2>1. c \in Bots /\ c.hold = NoHold /\ c.body = b.body /\ c.spell = b.spell
      BY NoHoldType DEF Sound, Bots
    <2>2. Forget(b, verb) = c
      BY <1>2 DEF Forget
    <2> HIDE DEF c
    <2>3. InForce(c)
      BY <2>1, NoHoldType DEF Sound, InForce
    <2> QED  BY <1>2, <2>1, <2>2, <2>3 DEF Sound
  <1> QED  BY <1>1, <1>2

LEMMA ExpiredSound ==
    ASSUME NEW b, Sound(b), NEW owned
    PROVE  Keeps(b, LetGoOfExpired(b, owned))
  BY LetGoSound DEF LetGoOfExpired

LEMMA WalkOnSound ==
    ASSUME NEW b, Sound(b), b.body # "gone"
    PROVE  /\ Keeps(b, WalkOn(b)) /\ WalkOn(b).hold.verb = b.hold.verb
           /\ WalkOn(b).hold.left = b.hold.left
  <1> DEFINE c == WalkOn(b)
  <1>0. b \in Bots
    BY DEF Sound
  <1>1. /\ c \in Bots /\ c.strat = b.strat /\ c.body = "moving" /\ c.hold.verb = b.hold.verb
        /\ c.hold.left = b.hold.left /\ c.hold.stay = b.hold.stay /\ c.hold.mover = b.hold.mover
    BY <1>0 DEF WalkOn, Bots, Holds, Bodies, Rows
  <1> HIDE DEF c
  <1>2. InForce(c) /\ (Accounted(b) => Accounted(c))
    BY <1>1 DEF Sound, InForce, Accounted, DebtsRecorded
  <1> QED  BY <1>1, <1>2 DEF Sound, c

LEMMA LingerSound ==
    ASSUME NEW b, Sound(b)
    PROVE  Keeps(b, Linger(b, 1))
  <1> DEFINE c == Linger(b, 1)
  <1>0. b \in Bots /\ 1 \in 0..LongestHold
    BY Bounds DEF Sound
  <1>1. CASE b.hold.verb = "none"
    BY <1>1 DEF Linger
  <1>2. CASE b.hold.verb # "none"
    <2>1. /\ c \in Bots /\ c.strat = b.strat /\ c.hold.verb = b.hold.verb
          /\ c.hold.stay = b.hold.stay /\ c.hold.mover = b.hold.mover
          /\ c.body \in {"still", b.body} /\ (b.body = "gone" => c.body = "gone")
          /\ (b.body # "gone" => c.body # "gone") /\ c.spell = b.spell
      BY <1>0, <1>2 DEF Linger, Bots, Holds, Bodies
    <2> HIDE DEF c
    <2>2. InForce(c) /\ (Accounted(b) => Accounted(c))
      BY <1>2, <2>1 DEF Sound, InForce, Accounted, DebtsRecorded
    <2> QED  BY <2>1, <2>2 DEF Sound, c
  <1> QED  BY <1>1, <1>2

LEMMA NoteHearthSound ==
    ASSUME NEW b, Sound(b), NEW owes \in BOOLEAN
    PROVE  /\ Keeps(b, NoteHearth(b, owes)) /\ NoteHearth(b, owes).body = b.body
           /\ NoteHearth(b, owes).hold.verb = b.hold.verb
           /\ NoteHearth(b, owes).hold.left = b.hold.left
  <1> DEFINE c == NoteHearth(b, owes)
  <1>0. b \in Bots
    BY DEF Sound
  <1>1. CASE b.hold.verb # "hearth"
    BY <1>1 DEF NoteHearth
  <1>2. CASE b.hold.verb = "hearth"
    <2>1. /\ c \in Bots /\ c.strat = b.strat /\ c.body = b.body /\ c.hold.verb = b.hold.verb
          /\ c.spell = b.spell /\ c.hold.left = b.hold.left /\ c.hold.stay = b.hold.stay /\ c.hold.mover = b.hold.mover
      BY <1>0, <1>2 DEF NoteHearth, Bots, Holds
    <2> HIDE DEF c
    <2>2. InForce(c) /\ (Accounted(b) => Accounted(c))
      BY <2>1 DEF Sound, InForce, Accounted, DebtsRecorded
    <2> QED  BY <2>1, <2>2 DEF Sound, c
  <1> QED  BY <1>1, <1>2

LEMMA OlderSound ==
    ASSUME NEW b, Sound(b)
    PROVE  /\ Keeps(b, [b EXCEPT !.hold = Older(@)])
           /\ [b EXCEPT !.hold = Older(@)].hold.verb = b.hold.verb
  <1> DEFINE h == Older(b.hold)
             c == [b EXCEPT !.hold = Older(@)]
  <1>0. b \in Bots /\ LongestHold \in Nat
    BY Bounds DEF Sound
  <1>1. /\ b.hold \in Holds(HoldVerbs, LongestHold) /\ b.hold.left \in 0..LongestHold
    BY <1>0, BotFields
  <1>2. (IF b.hold.left > 0 THEN b.hold.left - 1 ELSE 0) \in 0..LongestHold
    BY <1>0, <1>1
  <1>3. /\ h \in Holds(HoldVerbs, LongestHold) /\ h.verb = b.hold.verb /\ h.stay = b.hold.stay
        /\ h.mover = b.hold.mover /\ (h.left > 0 => b.hold.left > 0)
    <2> DEFINE n == IF b.hold.left > 0 THEN b.hold.left - 1 ELSE 0
               o == IF b.hold.owed = "asked" THEN "due" ELSE b.hold.owed
    <2>1. o \in {"no", "asked", "due"} /\ n \in 0..LongestHold /\ (n > 0 => b.hold.left > 0)
      BY <1>0, <1>1, <1>2, BotFields
    <2>2. h = [b.hold EXCEPT !.left = n, !.owed = o]
      BY DEF Older
    <2> HIDE DEF n, o, h
    <2> QED  BY <1>1, <2>1, <2>2 DEF Holds
  <1> HIDE DEF h
  <1>4. /\ c \in Bots /\ c.strat = b.strat /\ c.body = b.body /\ c.hold = h /\ c.spell = b.spell
    BY <1>0, <1>3 DEF Bots, h
  <1> HIDE DEF c
  <1>5. InForce(c) /\ (Accounted(b) => Accounted(c))
    BY <1>3, <1>4 DEF Sound, InForce, Accounted, DebtsRecorded
  <1> QED  BY <1>3, <1>4, <1>5 DEF Sound, c

\* A body or a spell changes; nothing the register knows of does.
LEMMA BodySound ==
    ASSUME NEW b, Sound(b), NEW bd \in Bodies, NEW sp \in Rows \cup {"none"},
           bd = "gone" \/ b.body # "gone", bd = "gone" => sp = "none"
    PROVE  /\ Keeps(b, [b EXCEPT !.body = bd, !.spell = sp])
           /\ [b EXCEPT !.body = bd, !.spell = sp].hold = b.hold
  <1> DEFINE c == [b EXCEPT !.body = bd, !.spell = sp]
  <1>1. c \in Bots /\ c.strat = b.strat /\ c.body = bd /\ c.hold = b.hold /\ c.spell = sp
    BY DEF Sound, Bots
  <1> HIDE DEF c
  <1>2. InForce(c) /\ (Accounted(b) => Accounted(c))
    BY <1>1 DEF Sound, InForce, Accounted, DebtsRecorded
  <1> QED  BY <1>1, <1>2 DEF Sound, c

LEMMA SpellSound ==
    ASSUME NEW b, Sound(b), NEW verb \in Rows, NEW c \in MayCast(b, verb)
    PROVE  Keeps(b, c) /\ c.hold = b.hold /\ c.body = b.body
  <1>1. PICK v \in Rows \cup {"none"} :
          c = [b EXCEPT !.spell = v] /\ (b.body # "still" => v = "none")
    BY DEF MayCast
  <1>2. c \in Bots /\ c.strat = b.strat /\ c.body = b.body /\ c.hold = b.hold
        /\ (b.body # "still" => c.spell = "none")
    BY <1>1 DEF Sound, Bots
  <1>3. InForce(c) /\ (Accounted(b) => Accounted(c))
    BY <1>2 DEF Sound, InForce, Accounted, DebtsRecorded
  <1> QED  BY <1>2, <1>3 DEF Sound

LEMMA SettleSound ==
    ASSUME NEW b, Sound(b), NEW c \in SettleOnTheDeck(b)
    PROVE  /\ Keeps(b, c)
           /\ c = b \/ HeldStill(c)
           /\ HeldStill(b) => c = b
  <1>1. "settle" \in HoldVerbs /\ Ceiling \in 0..LongestHold /\ Ceiling > 0
    BY Bounds DEF HoldVerbs
  <1> QED  BY <1>1, HoldStillSound DEF SettleOnTheDeck

LEMMA RetakenSound ==
    ASSUME NEW b, Sound(b)
    PROVE  Keeps(b, Retaken(b)) /\ Retaken(b).hold = b.hold
  <1> DEFINE c == [b EXCEPT !.body = "still"]
  <1>1. CASE b.body = "moving"
    <2>1. c \in Bots /\ c.strat = b.strat /\ c.body = "still" /\ c.hold = b.hold
      BY DEF Sound, Bots, Bodies
    <2> HIDE DEF c
    <2>2. InForce(c) /\ (Accounted(b) => Accounted(c))
      BY <1>1, <2>1 DEF Sound, InForce, Accounted, DebtsRecorded
    <2> QED  BY <2>1, <2>2 DEF Sound, Retaken, c
  <1>2. CASE b.body # "moving"
    BY <1>2 DEF Retaken
  <1> QED  BY <1>1, <1>2
(***************************************************************************)
(* The rows.  A walk that does not know its route yet has at most the      *)
(* window of a near walk left; the window of a known route fits the        *)
(* longest hold.                                                           *)
(***************************************************************************)
TimedRows == {r \in Row \cup {Idle} :
                r.verb = "walk" => r.left <= RouteTime /\ (~r.clock => r.left <= WalkTime)}

LEMMA RowFields ==
    ASSUME NEW r \in TimedRows
    PROVE  /\ r.verb \in Rows \cup {"none"} /\ r.left \in 0..LongestWindow /\ r.left \in Nat
           /\ r.stage \in Stages /\ r.fight \in 0..FightTime /\ r.clock \in BOOLEAN
           /\ r.verb # "none" => r \in Row
           /\ r.verb = "none" => r = Idle
           /\ r.verb = "walk" => r.left <= RouteTime /\ (~r.clock => r.left <= WalkTime)
  <1>1. CASE r \in Row
    BY <1>1, Bounds DEF Row, Rows, TimedRows
  <1>2. CASE r = Idle
    BY <1>2, Bounds DEF Idle, Stages, Rows
  <1> QED  BY <1>1, <1>2 DEF TimedRows

LEMMA IdleTimed == Idle \in TimedRows /\ Idle.verb = "none" /\ Idle \notin Row
  BY DEF Idle, TimedRows, Row, Rows

LEMMA ParkedTimed ==
    ASSUME NEW verb \in Rows, NEW n \in 0..LongestWindow, NEW st \in Stages, NEW f \in 0..FightTime,
           verb = "walk" => n = WalkTime
    PROVE  LET r == [verb |-> verb, left |-> n, stage |-> st, fight |-> f, clock |-> FALSE]
           IN  r \in TimedRows /\ r.verb = verb
  BY Bounds DEF TimedRows, Row

LEMMA StageTimed ==
    ASSUME NEW r \in TimedRows, r.verb # "none", NEW st \in Stages
    PROVE  [r EXCEPT !.stage = st] \in TimedRows
  <1>1. r \in Row
    BY RowFields
  <1> QED  BY <1>1 DEF TimedRows, Row

LEMMA RouteTimed ==
    ASSUME NEW r \in TimedRows, r.verb = "walk", ~ r.clock
    PROVE  [r EXCEPT !.left = @ + RouteTime - WalkTime, !.clock = TRUE] \in TimedRows
  <1> DEFINE n == r.left + RouteTime - WalkTime
             q == [r EXCEPT !.left = n, !.clock = TRUE]
  <1>1. r \in Row /\ r.left \in Nat /\ r.left <= WalkTime
    BY RowFields
  <1>2. n \in 0..LongestWindow /\ n <= RouteTime
    BY <1>1, Bounds
  <1>3. q = [r EXCEPT !.left = @ + RouteTime - WalkTime, !.clock = TRUE]
    OBVIOUS
  <1> HIDE DEF n
  <1>4. q \in Row /\ q.left = n /\ q.clock
    BY <1>1, <1>2 DEF Row
  <1> HIDE DEF q
  <1>5. q \in TimedRows
    BY <1>2, <1>4 DEF TimedRows
  <1> QED  BY <1>3, <1>5

LEMMA ChargedTimed ==
    ASSUME NEW r \in TimedRows
    PROVE  /\ Charged(r) \in TimedRows /\ Charged(r).verb = r.verb /\ Charged(r).stage = r.stage
  <1> DEFINE fights == r.verb = "walk" /\ bot.body = "fighting"
             n == IF fights \/ r.left = 0 THEN r.left ELSE r.left - 1
             f == IF fights /\ r.fight > 0 THEN r.fight - 1 ELSE r.fight
  <1>1. Charged(r) = [r EXCEPT !.left = n, !.fight = f]
    BY DEF Charged
  <1>2. /\ r.left \in 0..LongestWindow /\ r.fight \in 0..FightTime
        /\ LongestWindow \in Nat /\ FightTime \in Nat
    BY RowFields, Bounds
  <1>3. n \in 0..LongestWindow /\ n <= r.left /\ f \in 0..FightTime
    BY <1>2
  <1>4. r = Idle => n = r.left /\ f = r.fight
    <2>1. r = Idle => r.left = 0 /\ r.verb = "none"
      BY DEF Idle
    <2> QED  BY <2>1
  <1> HIDE DEF n, f
  <1>5. CASE r \in Row
    <2> DEFINE q == Charged(r)
    <2>1. /\ q \in Row /\ q.left = n /\ q.verb = r.verb /\ q.stage = r.stage /\ q.clock = r.clock
      BY <1>1, <1>3, <1>5 DEF Row
    <2> HIDE DEF q
    <2>2. r.verb = "walk" => r.left <= RouteTime /\ (~r.clock => r.left <= WalkTime)
      BY RowFields
    <2>3. r.verb = "walk" => n <= RouteTime /\ (~r.clock => n <= WalkTime)
      BY <1>2, <1>3, <2>2, Bounds
    <2>4. q \in TimedRows
      BY <2>1, <2>3 DEF TimedRows
    <2> QED  BY <2>1, <2>4 DEF q
  <1>6. CASE r = Idle
    <2>1. Charged(r) = r
      BY <1>1, <1>4, <1>6 DEF Idle
    <2> QED  BY <2>1
  <1> QED  BY <1>5, <1>6 DEF TimedRows

(***************************************************************************)
(* The inductive invariant, and the step it carries the holds through.     *)
(***************************************************************************)
IInv ==
    /\ Sound(bot)
    /\ rows \in [Slots -> TimedRows]
    /\ phase \in {"world", "rows", "expire", "orders"}
    /\ todo \in SUBSET Slots
    /\ late \in BOOLEAN
    /\ sent \in 0..MaxOrders
    /\ held \in 0..MaxHolds

Owning == {"hearth", "conjure", "cast", "walk"}

\* The hold keeps its verb, or gives way past its deadline.
Stands == bot'.hold.verb = bot.hold.verb \/ (~HeldStill(bot) /\ TakenOver)

OwnersKept ==
    \A s \in Slots :
        /\ Owns(s)
        /\ rows'[s].verb = rows[s].verb
        /\ rows'[s].stage = rows[s].stage
        => Stands

Straight == Accounted(bot) /\ bot'.hold # NoHold => Accounted(bot')

Good == Sound(bot)' /\ rows' \in [Slots -> TimedRows] /\ Straight /\ OwnersKept

\* The one row of a verb.
LEMMA OnlyRow ==
    ASSUME NEW verb, NEW s \in Parked(verb), NEW t \in Parked(verb),
           Cardinality(Parked(verb)) = 1
    PROVE  s = t
  <1>1. IsFiniteSet(Parked(verb))
    BY ConstantsAssumption, FS_Subset DEF Parked
  <1>2. PICK x : Parked(verb) = {x}
    BY <1>1, FS_Singleton
  <1> QED  BY <1>2

\* A row that ends, or leaves its stage, may let go of what its verb holds.
LEMMA OwnEnd ==
    ASSUME IInv, NEW t \in Slots, NEW c, c = LetGo(bot, rows[t].verb),
           bot' = c \/ (~HeldStill(c) /\ HeldStill(bot')),
           rows'[t].verb # rows[t].verb \/ rows'[t].stage # rows[t].stage
    PROVE  OwnersKept
  <1> SUFFICES ASSUME NEW s \in Slots, Owns(s), rows'[s].verb = rows[s].verb,
                      rows'[s].stage = rows[s].stage
               PROVE  Stands
    BY DEF OwnersKept
  <1>1. rows[t].verb # bot.hold.verb
    <2>1. SUFFICES ASSUME rows[t].verb = bot.hold.verb PROVE FALSE
      OBVIOUS
    <2>2. s = t
      BY <2>1, OnlyRow DEF Owns, Parked
    <2> QED  BY <2>2
  <1>2. c = bot
    BY <1>1, LetGoSound DEF IInv
  <1> QED  BY <1>2 DEF Stands, TakenOver

\* Letting go of what no row owns leaves the holds of rows alone.
LEMMA ForeignLetGo ==
    ASSUME NEW b, Sound(b), NEW verb, b.hold.verb \in Owning, verb \notin Owning
    PROVE  LetGo(b, verb) = b
  BY LetGoSound

(***************************************************************************)
(* Rows that are answered.                                                 *)
(***************************************************************************)
LEMMA AnsweredRows ==
    ASSUME IInv, NEW t \in Slots, rows[t].verb # "none", Answered(t)
    PROVE  rows' \in [Slots -> TimedRows] /\ rows'[t].verb # rows[t].verb
  BY IdleTimed DEF IInv, Answered

LEMMA LetGoAndAnswer ==
    ASSUME IInv, NEW t \in Slots, NEW verb, rows[t].verb = verb, verb # "none", Answered(t),
           bot' \in SettleOnTheDeck(LetGo(bot, verb))
    PROVE  Good
  <1> DEFINE c == LetGo(bot, verb)
  <1>1. Keeps(bot, c)
    BY LetGoSound DEF IInv
  <1>2. Keeps(c, bot')
    BY <1>1, SettleSound
  <1>3. bot' = c \/ (~HeldStill(c) /\ HeldStill(bot'))
    BY <1>1, SettleSound
  <1> HIDE DEF c
  <1>4. rows' \in [Slots -> TimedRows] /\ rows'[t].verb # rows[t].verb
    BY AnsweredRows
  <1>5. OwnersKept
    BY <1>3, <1>4, OwnEnd DEF c
  <1>6. Sound(bot)'
    BY <1>2 DEF Sound, Bots, InForce
  <1> QED  BY <1>1, <1>2, <1>4, <1>5, <1>6 DEF Good, Straight

LEMMA LetGoOnly ==
    ASSUME IInv, NEW t \in Slots, NEW verb, rows[t].verb = verb, verb # "none", Answered(t),
           bot' = LetGo(bot, verb)
    PROVE  Good
  <1>1. bot' \in SettleOnTheDeck(LetGo(bot, verb))
    BY DEF SettleOnTheDeck
  <1> QED  BY <1>1, LetGoAndAnswer

LEMMA SoundPrime == ASSUME Sound(bot') PROVE Sound(bot)'
  BY DEF Sound, InForce

\* A step that leaves the rows where they are and the hold to its owner.
LEMMA SameRows ==
    ASSUME IInv, Keeps(bot, bot'), UNCHANGED rows, \A s \in Slots : Owns(s) => Stands
    PROVE  Good
  <1>1. OwnersKept
    BY DEF OwnersKept
  <1> QED  BY <1>1, SoundPrime DEF Good, Straight, IInv

LEMMA NothingHappens ==
    ASSUME IInv, UNCHANGED <<bot, rows>>
    PROVE  Good
  BY SameRows DEF IInv, Stands

\* A bot held again: its hold stands, or a new one takes over.
LEMMA HoldAgain ==
    ASSUME Sound(bot), NEW verb \in HoldVerbs, NEW n \in 0..LongestHold, n > 0,
           bot' = HoldStill(bot, verb, n)
    PROVE  Keeps(bot, bot') /\ Stands
  BY HoldStillSound DEF Stands, TakenOver

LEMMA ConjureGood ==
    ASSUME IInv, NEW t \in Slots, ResolveConjure(t)
    PROVE  Good
  <1>1. rows[t].verb = "conjure"
    BY DEF ResolveConjure, ConjurerGone, ConjureEnds, ConjureWaits, ConjureSettles, ConjureCasts
  <1>2. CASE ConjureEnds(t)
    BY <1>1, <1>2, LetGoOnly DEF ConjureEnds
  <1>6. CASE ConjurerGone(t)
    <2>1. /\ bot' = Forget(bot, "conjure") /\ Answered(t) /\ Sound(bot)
          /\ bot.body \in {"gone", "teleported"}
      BY <1>6 DEF ConjurerGone, InWorld, IInv
    <2>2. rows' \in [Slots -> TimedRows] /\ rows'[t].verb # rows[t].verb /\ rows'[t] = Idle
      BY <1>1, <2>1, AnsweredRows DEF IInv, Answered
    <2>3. Sound(bot') /\ (bot.hold.verb # "conjure" => bot' = bot)
          /\ (bot.hold.verb = "conjure" => bot'.hold = NoHold)
      BY <2>1, ForgetSound
    <2>4. Straight
      BY <2>3 DEF Straight
    <2>5. OwnersKept
      <3>1. SUFFICES ASSUME NEW s \in Slots, Owns(s), rows'[s].verb = rows[s].verb
                     PROVE  bot.hold.verb # "conjure"
        BY <2>3 DEF OwnersKept, Stands
      <3>2. s # t
        BY <2>2, <3>1
      <3> QED  BY <1>1, <3>1, <3>2, OnlyRow DEF Owns, Parked
    <2> QED  BY <2>2, <2>3, <2>4, <2>5, SoundPrime DEF Good
  <1>3. CASE ConjureWaits(t)
    BY <1>3, NothingHappens DEF ConjureWaits, Waits
  <1>4. CASE ConjureSettles(t)
    <2>1. "conjure" \in HoldVerbs /\ Ceiling \in 0..LongestHold /\ Ceiling > 0
      BY Bounds DEF HoldVerbs, Rows
    <2>2. Keeps(bot, bot') /\ Stands /\ UNCHANGED rows
      BY <1>4, <2>1, HoldAgain DEF ConjureSettles, IInv
    <2> QED  BY <2>2, SameRows
  <1>5. CASE ConjureCasts(t)
    <2>1. Keeps(bot, bot') /\ bot'.hold = bot.hold /\ UNCHANGED rows
      BY <1>5, SpellSound DEF ConjureCasts, IInv, Rows
    <2> QED  BY <2>1, SameRows DEF Stands
  <1> QED  BY <1>2, <1>3, <1>4, <1>5, <1>6 DEF ResolveConjure

LEMMA SpellRowsGood ==
    ASSUME IInv, NEW t \in Slots,
           ResolveHearth(t) \/ ResolveCast(t) \/ ResolveLearn(t) \/ ResolveQuestUse(t)
    PROVE  Good
  <1>1. CASE ResolveHearth(t)
    <2>1. CASE Waits(t)
      BY <2>1, NothingHappens DEF Waits
    <2>2. CASE ~ Waits(t)
      <3>1. rows[t].verb = "hearth" /\ Answered(t)
        BY <1>1, <2>2 DEF ResolveHearth
      <3>2. \/ bot' = LetGo(bot, "hearth")
            \/ bot' \in SettleOnTheDeck(LetGo(bot, "hearth"))
        BY <1>1, <2>2 DEF ResolveHearth
      <3> QED  BY <3>1, <3>2, LetGoOnly, LetGoAndAnswer
    <2> QED  BY <2>1, <2>2
  <1>2. CASE ResolveCast(t)
    <2>1. CASE Waits(t)
      BY <2>1, NothingHappens DEF Waits
    <2>2. CASE ~ Waits(t)
      <3>1. rows[t].verb = "cast" /\ Answered(t) /\ bot' = LetGo(bot, "cast")
        BY <1>2, <2>2 DEF ResolveCast
      <3> QED  BY <3>1, LetGoOnly
    <2> QED  BY <2>1, <2>2
  <1>3. CASE ResolveLearn(t)
    <2>1. CASE Waits(t)
      BY <2>1, NothingHappens DEF Waits
    <2>2. CASE ~ Waits(t)
      <3>1. rows[t].verb = "learn" /\ Answered(t) /\ bot' = LetGo(bot, "learn")
        BY <1>3, <2>2 DEF ResolveLearn
      <3> QED  BY <3>1, LetGoOnly
    <2> QED  BY <2>1, <2>2
  <1>4. CASE ResolveQuestUse(t)
    <2>1. CASE Waits(t)
      BY <2>1, NothingHappens DEF Waits
    <2>2. CASE ~ Waits(t)
      <3>1. rows[t].verb = "quest" /\ Answered(t)
        BY <1>4, <2>2 DEF ResolveQuestUse
      <3>2. \/ bot' = LetGo(bot, "quest")
            \/ bot' \in SettleOnTheDeck(LetGo(bot, "quest"))
        BY <1>4, <2>2 DEF ResolveQuestUse
      <3> QED  BY <3>1, <3>2, LetGoOnly, LetGoAndAnswer
    <2> QED  BY <2>1, <2>2
  <1> QED  BY <1>1, <1>2, <1>3, <1>4

(***************************************************************************)
(* Walks.                                                                  *)
(***************************************************************************)
\* A walk that takes its hold again takes it from a settle or from nobody.
LEMMA RetakesSound ==
    ASSUME IInv, NEW t \in Slots, rows[t].verb = "walk", NEW c \in Retakes(t, bot)
    PROVE  /\ Keeps(bot, c)
           /\ bot.hold.verb \in Owning =>
                c.hold.verb = bot.hold.verb \/ (~HeldStill(bot) /\ HeldStill(c))
           /\ bot.body # "gone" => c.body # "gone"
  <1> DEFINE free == LetGo(bot, "settle")
  <1>1. /\ Keeps(bot, free) /\ free.body = bot.body
        /\ (bot.hold.verb \in Owning => free = bot)
    BY LetGoSound, ForeignLetGo DEF IInv, Owning
  <1>2. rows[t].left + 1 \in 0..LongestHold /\ rows[t].left + 1 > 0 /\ "walk" \in HoldVerbs
    <2>1. rows[t].left \in Nat /\ rows[t].left <= RouteTime
      BY RowFields DEF IInv
    <2> QED  BY <2>1, Bounds DEF HoldVerbs, Rows
  <1>3. c = HoldStill(free, "walk", rows[t].left + 1)
    BY DEF Retakes
  <1> HIDE DEF free
  <1> QED  BY <1>1, <1>2, <1>3, HoldStillSound

LEMMA WalkGood ==
    ASSUME IInv, NEW t \in Slots, ResolveWalk(t)
    PROVE  Good
  <1>0. /\ rows[t].verb = "walk" /\ rows[t] \in TimedRows /\ rows[t].verb # "none"
        /\ Sound(bot) /\ rows \in [Slots -> TimedRows]
    BY DEF ResolveWalk, IInv
  <1>1. ASSUME NEW st \in Stages
        PROVE  [rows EXCEPT ![t].stage = st] \in [Slots -> TimedRows]
    <2>1. [rows[t] EXCEPT !.stage = st] \in TimedRows
      BY <1>0, StageTimed
    <2> QED  BY <1>0, <2>1
  <1>2. CASE WalkFails(t)
    BY <1>0, <1>2, LetGoOnly DEF WalkFails
  <1>3. CASE WalkPauses(t)
    <2>1. rows' = [rows EXCEPT ![t].stage = "paused"] /\ "paused" \in Stages
      BY <1>3 DEF WalkPauses, Stages
    <2>2. rows' \in [Slots -> TimedRows] /\ rows'[t].stage = "paused"
      BY <1>0, <1>1, <2>1, RowFields DEF TimedRows, Row, Idle
    <2>3. CASE rows[t].stage = "paused"
      <3>1. bot' = bot
        BY <1>3, <2>3 DEF WalkPauses
      <3>2. OwnersKept
        BY <3>1 DEF OwnersKept, Stands
      <3> QED  BY <1>0, <2>2, <3>1, <3>2, SoundPrime DEF Good, Straight
    <2>4. CASE rows[t].stage # "paused"
      <3>1. bot' = LetGo(bot, "walk")
        BY <1>3, <2>4 DEF WalkPauses
      <3>2. Keeps(bot, bot')
        BY <1>0, <3>1, LetGoSound
      <3>3. OwnersKept
        BY <1>0, <2>2, <2>4, <3>1, OwnEnd
      <3> QED  BY <2>2, <3>2, <3>3, SoundPrime DEF Good, Straight
    <2> QED  BY <2>3, <2>4
  <1>4. CASE AbandonedFrom(t, bot)
    <2>1. bot' = LetGo(bot, "settle") /\ Answered(t)
      BY <1>4 DEF AbandonedFrom
    <2>2. Keeps(bot, bot') /\ (bot.hold.verb \in Owning => bot' = bot)
      BY <1>0, <2>1, LetGoSound, ForeignLetGo DEF Owning
    <2>3. OwnersKept
      BY <2>2 DEF OwnersKept, Owns, Owning, Stands
    <2> QED  BY <1>0, <2>1, <2>2, <2>3, AnsweredRows, SoundPrime DEF Good, Straight
  <1>5. CASE \E b \in Retakes(t, bot) :
                /\ bot' \in {b, WalkOn(b)}
                /\ rows' = [rows EXCEPT ![t].stage = "walking"]
                /\ bot.body # "gone"
    <2>1. PICK b \in Retakes(t, bot) :
                /\ bot' \in {b, WalkOn(b)}
                /\ rows' = [rows EXCEPT ![t].stage = "walking"]
                /\ bot.body # "gone"
      BY <1>5
    <2>2. /\ Keeps(bot, b) /\ b.body # "gone"
          /\ bot.hold.verb \in Owning =>
               b.hold.verb = bot.hold.verb \/ (~HeldStill(bot) /\ HeldStill(b))
      BY <1>0, <2>1, RetakesSound
    <2>3. /\ Keeps(b, bot') /\ bot'.hold.verb = b.hold.verb
          /\ bot'.hold.left = b.hold.left
      BY <2>1, <2>2, WalkOnSound
    <2>4. OwnersKept
      BY <2>2, <2>3 DEF OwnersKept, Owns, Owning, Stands, TakenOver, HeldStill
    <2>5. rows' \in [Slots -> TimedRows]
      BY <1>1, <2>1 DEF Stages
    <2> QED  BY <2>2, <2>3, <2>4, <2>5, SoundPrime DEF Good, Straight
  <1>6. CASE WalkResumes(t)
    BY <1>4, <1>5, <1>6 DEF WalkResumes
  <1>7. CASE WalkFlies(t)
    <2>1. CASE UNCHANGED <<bot, rows>>
      BY <2>1, NothingHappens
    <2>2. CASE /\ rows[t].stage = "walking" /\ bot' = LetGo(bot, "walk")
               /\ rows' = [rows EXCEPT ![t].stage = "flying"]
      <3>1. rows' \in [Slots -> TimedRows]
        BY <1>1, <2>2 DEF Stages
      <3>2. rows'[t].stage # rows[t].stage
        <4>1. [rows[t] EXCEPT !.stage = "flying"].stage = "flying"
          BY <1>0, RowFields DEF Row
        <4> QED  BY <1>0, <2>2, <4>1
      <3>3. Keeps(bot, bot') /\ OwnersKept
        BY <1>0, <2>2, <3>2, OwnEnd, LetGoSound
      <3> QED  BY <3>1, <3>3, SoundPrime DEF Good, Straight
    <2>3. CASE bot' = LetGo(bot, "walk") /\ Answered(t)
      BY <1>0, <2>3, LetGoOnly
    <2> QED  BY <1>4, <1>5, <1>7, <2>1, <2>2, <2>3 DEF WalkFlies
  <1>8. CASE WalkGoesOn(t)
    <2>1. CASE bot.hold.verb = "walk"
      <3>1. /\ bot' \in {bot, WalkOn(bot)} /\ bot.body # "gone"
            /\ rows' = rows \/ (~ rows[t].clock /\ rows' = RouteKnown(t))
        BY <1>8, <2>1 DEF WalkGoesOn
      <3>2. Keeps(bot, bot') /\ bot'.hold.verb = bot.hold.verb
        BY <1>0, <3>1, WalkOnSound
      <3>3. ~ rows[t].clock => RouteKnown(t) \in [Slots -> TimedRows]
        <4> DEFINE q == [rows[t] EXCEPT !.left = @ + RouteTime - WalkTime, !.clock = TRUE]
        <4>1. ~ rows[t].clock => q \in TimedRows
          BY <1>0, RouteTimed
        <4>2. RouteKnown(t) = [rows EXCEPT ![t] = q]
          BY <1>0 DEF RouteKnown
        <4> HIDE DEF q
        <4> QED  BY <1>0, <4>1, <4>2
      <3>4. OwnersKept
        BY <3>2 DEF OwnersKept, Stands
      <3> QED  BY <1>0, <3>1, <3>2, <3>3, <3>4, SoundPrime DEF Good, Straight
    <2>2. CASE bot.hold.verb # "walk"
      <3>1. bot' = bot /\ Answered(t)
        BY <1>8, <2>2 DEF WalkGoesOn
      <3>2. OwnersKept
        BY <3>1 DEF OwnersKept, Stands
      <3> QED  BY <1>0, <3>1, <3>2, AnsweredRows, SoundPrime DEF Good, Straight
    <2> QED  BY <2>1, <2>2
  <1>9. CASE WalkArrives(t)
    <2>1. CASE bot' = Linger(bot, 1) /\ Answered(t)
      <3>1. Keeps(bot, bot') /\ bot'.hold.verb = bot.hold.verb
        <4>1. bot \in Bots /\ (bot'.hold.verb = bot.hold.verb)
          BY <1>0, <2>1 DEF Linger, Sound, Bots, Holds
        <4> QED  BY <1>0, <2>1, <4>1, LingerSound
      <3>2. OwnersKept
        BY <3>1 DEF OwnersKept, Stands
      <3> QED  BY <1>0, <2>1, <3>1, <3>2, AnsweredRows, SoundPrime DEF Good, Straight
    <2>2. CASE bot' \in SettleOnTheDeck(LetGo(bot, "walk")) /\ Answered(t)
      BY <1>0, <2>2, LetGoAndAnswer
    <2> QED  BY <1>9, <2>1, <2>2 DEF WalkArrives
  <1> QED  BY <1>2, <1>3, <1>6, <1>7, <1>8, <1>9 DEF ResolveWalk

LEMMA ResolveGood ==
    ASSUME IInv, NEW t \in Slots, Resolve(t)
    PROVE  Good
  BY ConjureGood, SpellRowsGood, WalkGood DEF Resolve

(***************************************************************************)
(* The poll around the rows.                                               *)
(***************************************************************************)
LEMMA StartPollGood ==
    ASSUME IInv, StartPoll
    PROVE  Good
  <1>1. /\ bot' = bot
        /\ rows' = [s \in Slots |-> IF late THEN Charged(rows[s]) ELSE rows[s]]
    BY DEF StartPoll
  <1>2. rows' \in [Slots -> TimedRows]
    BY <1>1, ChargedTimed DEF IInv
  <1>3. OwnersKept
    BY <1>1 DEF OwnersKept, Stands
  <1> QED  BY <1>1, <1>2, <1>3, SoundPrime DEF Good, Straight, IInv

LEMMA ParkGood ==
    ASSUME IInv, NEW t \in Slots, NEW verb \in Rows, NEW n \in 0..LongestWindow,
           verb = "walk" => n = WalkTime, Park(t, verb, n),
           Keeps(bot, bot'), \A s \in Slots : Owns(s) => Stands
    PROVE  Good
  <1> DEFINE st == IF verb = "walk" THEN "walking" ELSE "casting"
             f == IF verb = "walk" THEN FightTime ELSE 0
             q == [verb |-> verb, left |-> n, stage |-> st, fight |-> f, clock |-> FALSE]
  <1>1. st \in Stages /\ f \in 0..FightTime
    BY Bounds DEF Stages
  <1>2. rows' = [rows EXCEPT ![t] = q]
    BY DEF Park
  <1> HIDE DEF st, f
  <1>3. q \in TimedRows
    BY <1>1, ParkedTimed
  <1> HIDE DEF q
  <1>4. rows' \in [Slots -> TimedRows]
    BY <1>2, <1>3 DEF IInv
  <1>5. OwnersKept
    BY DEF OwnersKept
  <1> QED  BY <1>4, <1>5, SoundPrime DEF Good, Straight

LEMMA HearthGoesGood ==
    ASSUME IInv, NEW t \in Slots, NEW b, Keeps(bot, b), HearthGoes(t, b),
           \A s \in Slots : Owns(s) => b = bot
    PROVE  Good
  <1>1. /\ "hearth" \in HoldVerbs /\ Ceiling \in 0..LongestHold /\ Ceiling > 0
        /\ CastTime + SettleTime \in 0..LongestWindow /\ "hearth" \in Rows
    BY Bounds DEF HoldVerbs, Rows
  <1> DEFINE c == HoldStill(b, "hearth", Ceiling)
             d == NoteHearth(c, FALSE)
  <1>2. /\ Keeps(b, c) /\ (HeldStill(b) => c.hold.verb = b.hold.verb)
        /\ c = b \/ HeldStill(c)
    BY <1>1, HoldStillSound
  <1>3. Keeps(c, d) /\ d.hold.verb = c.hold.verb /\ d.hold.left = c.hold.left
    BY <1>2, NoteHearthSound
  <1>4. bot' \in MayCast(d, "hearth") /\ Park(t, "hearth", CastTime + SettleTime)
    BY DEF HearthGoes
  <1> HIDE DEF c, d
  <1>5. Keeps(d, bot') /\ bot'.hold = d.hold
    BY <1>1, <1>3, <1>4, SpellSound
  <1>6. \A s \in Slots : Owns(s) => Stands
    BY <1>2, <1>3, <1>5 DEF Stands, TakenOver, HeldStill
  <1> QED  BY <1>1, <1>2, <1>3, <1>4, <1>5, <1>6, ParkGood

LEMMA CastOwedGood ==
    ASSUME IInv, CastOwedHearths
    PROVE  Good
  <1>1. OwesAHearth => \A s \in Slots : ~ Owns(s)
    BY DEF OwesAHearth, ARowStillOwnsTheHold, Owns
  <1>2. CASE UNCHANGED <<bot, rows>>
    BY <1>2, NothingHappens
  <1>3. CASE OwesAHearth /\ bot' = LetGo(bot, "hearth") /\ UNCHANGED rows
    <2>1. Keeps(bot, bot')
      BY <1>3, LetGoSound DEF IInv
    <2> QED  BY <1>1, <1>3, <2>1, SameRows
  <1>4. CASE OwesAHearth /\ \E s \in Slots : HearthGoes(s, bot)
    BY <1>1, <1>4, HearthGoesGood DEF IInv
  <1> QED  BY <1>2, <1>3, <1>4 DEF CastOwedHearths

LEMMA ExpireGood ==
    ASSUME IInv, ReleaseExpiredHolds
    PROVE  Good
  <1>1. bot' = LetGoOfExpired(bot, ARowStillOwnsTheHold) /\ UNCHANGED rows
    BY DEF ReleaseExpiredHolds
  <1>2. Keeps(bot, bot')
    BY <1>1, ExpiredSound DEF IInv
  <1>3. ASSUME NEW s \in Slots, Owns(s) PROVE bot' = bot
    <2>1. ARowStillOwnsTheHold
      BY <1>3 DEF Owns, ARowStillOwnsTheHold
    <2> QED  BY <1>1, <2>1 DEF LetGoOfExpired
  <1> QED  BY <1>1, <1>2, <1>3, SameRows DEF Stands

(***************************************************************************)
(* The orders.                                                             *)
(***************************************************************************)
LEMMA LiftedSound ==
    ASSUME IInv
    PROVE  /\ Keeps(bot, Lifted) /\ Lifted.body = bot.body
           /\ \A s \in Slots : Owns(s) => Lifted = bot
  BY LetGoSound, ForeignLetGo DEF IInv, Lifted, Owns, Owning

LEMMA RefusedGood ==
    ASSUME IInv, Refused
    PROVE  Good
  BY LiftedSound, SameRows DEF Refused, Stands

\* A bot that is stopped, and perhaps starts a cast.
LEMMA StopsGood ==
    ASSUME IInv, NEW verb \in Rows
    PROVE  LET c == HoldStill(Lifted, verb, Ceiling)
           IN  /\ Keeps(bot, c)
               /\ \A s \in Slots : Owns(s) =>
                    c.hold.verb = bot.hold.verb \/ (~HeldStill(bot) /\ HeldStill(c))
               /\ bot' = c /\ UNCHANGED rows => Good
               /\ \A t \in Slots : Casts(verb, t) /\ verb # "walk" => Good
               /\ \A t \in Slots : bot' = c /\ verb # "walk" /\ Park(t, verb, CastTime) => Good
  <1> DEFINE c == HoldStill(Lifted, verb, Ceiling)
  <1>1. /\ verb \in HoldVerbs /\ Ceiling \in 0..LongestHold /\ Ceiling > 0
        /\ CastTime + SettleTime \in 0..LongestWindow /\ CastTime \in 0..LongestWindow
        /\ CastTime + 0 \in 0..LongestWindow
    BY Bounds DEF HoldVerbs
  <1>2. /\ Keeps(bot, c)
        /\ \A s \in Slots : Owns(s) =>
              c.hold.verb = bot.hold.verb \/ (~HeldStill(bot) /\ HeldStill(c))
    BY <1>1, LiftedSound, HoldStillSound
  <1>3. ASSUME bot' = c, UNCHANGED rows PROVE Good
    <2> HIDE DEF c
    <2> QED  BY <1>2, <1>3, SameRows DEF Stands, TakenOver
  <1>4. ASSUME NEW t \in Slots, Casts(verb, t), verb # "walk" PROVE Good
    <2> DEFINE n == CastTime + IF verb = "cast" THEN SettleTime ELSE 0
    <2>1. bot' \in MayCast(c, verb) /\ Park(t, verb, n)
      BY <1>4 DEF Casts
    <2>2. n \in 0..LongestWindow
      BY <1>1
    <2> HIDE DEF c, n
    <2>3. Keeps(c, bot') /\ bot'.hold = c.hold
      BY <1>2, <2>1, SpellSound
    <2>4. \A s \in Slots : Owns(s) => Stands
      BY <1>2, <2>3 DEF Stands, TakenOver, HeldStill
    <2> QED  BY <1>2, <1>4, <2>1, <2>2, <2>3, <2>4, ParkGood
  <1>5. ASSUME NEW t \in Slots, bot' = c, verb # "walk", Park(t, verb, CastTime) PROVE Good
    <2> HIDE DEF c
    <2> QED  BY <1>1, <1>2, <1>5, ParkGood DEF Stands, TakenOver
  <1> QED  BY <1>2, <1>3, <1>4, <1>5

LEMMA DoConjureGood ==
    ASSUME IInv, NEW t \in Slots, DoConjure(t)
    PROVE  Good
  <1>1. CASE Refused
    BY <1>1, RefusedGood
  <1>2. CASE ~ Refused
    <2>1. bot' = HoldStill(Lifted, "conjure", Ceiling) /\ Park(t, "conjure", CastTime)
      BY <1>2 DEF DoConjure
    <2> QED  BY <2>1, StopsGood DEF Rows
  <1> QED  BY <1>1, <1>2

LEMMA DoHearthGood ==
    ASSUME IInv, NEW t \in Slots, DoHearth(t)
    PROVE  Good
  <1>1. CASE HearthRefused(Lifted, FALSE)
    <2>1. bot' = NoteHearth(Lifted, FALSE) /\ UNCHANGED rows
      BY <1>1 DEF HearthRefused
    <2>2. Keeps(Lifted, bot') /\ bot'.hold.verb = Lifted.hold.verb
      BY <2>1, LiftedSound, NoteHearthSound
    <2> QED  BY <2>1, <2>2, LiftedSound, SameRows DEF Stands
  <1>2. CASE HearthRefused(Lifted, TRUE)
    <2> DEFINE c == HoldStill(Lifted, "hearth", Ceiling)
    <2>1. bot' = NoteHearth(c, TRUE) /\ UNCHANGED rows
      BY <1>2 DEF HearthRefused
    <2>2. /\ Keeps(bot, c)
          /\ \A s \in Slots : Owns(s) =>
                c.hold.verb = bot.hold.verb \/ (~HeldStill(bot) /\ HeldStill(c))
      BY StopsGood DEF Rows
    <2> HIDE DEF c
    <2>3. Keeps(c, bot') /\ bot'.hold.verb = c.hold.verb /\ bot'.hold.left = c.hold.left
      BY <2>1, <2>2, NoteHearthSound
    <2>4. \A s \in Slots : Owns(s) => Stands
      BY <2>2, <2>3 DEF Stands, TakenOver, HeldStill
    <2> QED  BY <2>1, <2>2, <2>3, <2>4, SameRows
  <1>3. CASE HearthGoes(t, Lifted)
    BY <1>3, LiftedSound, HearthGoesGood
  <1> QED  BY <1>1, <1>2, <1>3 DEF DoHearth

LEMMA DoCastGood ==
    ASSUME IInv, NEW t \in Slots, DoCast(t) \/ DoLearnRecipe(t)
    PROVE  Good
  <1>1. CASE Refused
    BY <1>1, RefusedGood
  <1>2. PICK verb \in {"cast", "learn"} :
            \/ Refused
            \/ bot' = HoldStill(Lifted, verb, Ceiling) /\ UNCHANGED rows
            \/ Casts(verb, t)
    BY DEF DoCast, DoLearnRecipe
  <1> QED  BY <1>1, <1>2, StopsGood DEF Rows

LEMMA DoQuestUseGood ==
    ASSUME IInv, NEW t \in Slots, DoQuestUse(t)
    PROVE  Good
  <1> DEFINE c == HoldStill(Lifted, "quest", Ceiling)
  <1>1. CASE Refused
    BY <1>1, RefusedGood
  <1>2. CASE bot' = c /\ UNCHANGED rows
    BY <1>2, StopsGood DEF Rows
  <1>3. CASE bot' = LetGo(c, "quest") /\ UNCHANGED rows
    <2>1. /\ Keeps(bot, c)
          /\ \A s \in Slots : Owns(s) =>
                c.hold.verb = bot.hold.verb \/ (~HeldStill(bot) /\ HeldStill(c))
      BY StopsGood DEF Rows
    <2> HIDE DEF c
    <2>2. Keeps(c, bot')
      BY <1>3, <2>1, LetGoSound
    <2>3. ASSUME NEW s \in Slots, Owns(s)
          PROVE  Stands
      <3>1. CASE HeldStill(bot)
        <4>1. c.hold.verb \in Owning /\ "quest" \notin Owning
          BY <2>1, <2>3, <3>1 DEF Owns, Owning
        <4> QED  BY <1>3, <2>1, <2>3, <3>1, <4>1, ForeignLetGo DEF Stands
      <3>2. CASE ~ HeldStill(bot)
        BY <3>2 DEF Stands, TakenOver
      <3> QED  BY <3>1, <3>2
    <2> QED  BY <1>3, <2>1, <2>2, <2>3, SameRows
  <1>4. CASE Casts("quest", t)
    BY <1>4, StopsGood DEF Rows
  <1> QED  BY <1>1, <1>2, <1>3, <1>4 DEF DoQuestUse

LEMMA DoWalkGood ==
    ASSUME IInv, NEW t \in Slots, DoWalk(t)
    PROVE  Good
  <1>1. CASE Refused
    BY <1>1, RefusedGood
  <1>2. CASE ~ Refused
    <2>1. PICK b \in {Lifted, LetGo(Lifted, "sick")} :
              WalkGate(b) /\ (WalkRefused(b) \/ WalkIsThere(b) \/ WalkStarts(t, b))
      BY <1>2 DEF DoWalk
    <2>2. /\ Keeps(bot, b) /\ b.body = bot.body
          /\ \A s \in Slots : Owns(s) => b = bot
      BY <2>1, LiftedSound, LetGoSound, ForeignLetGo DEF Owns, Owning
    <2>3. \A s \in Slots : Owns(s) => Stands
      BY <2>1, <2>2 DEF WalkGate, HeldByAnother, Owns, Parked, Stands, TakenOver
    <2> DEFINE free == LetGo(b, "walk")
               kept == HoldStill(free, "walk", WalkTime + 1)
    <2>4. Keeps(bot, free) /\ free.body = bot.body /\ bot.body # "gone"
      BY <2>1, <2>2, LetGoSound DEF WalkGate
    <2>5. /\ "walk" \in HoldVerbs /\ 1 \in 0..LongestHold /\ WalkTime + 1 \in 0..LongestHold
          /\ WalkTime \in 0..LongestWindow /\ "walk" \in Rows
      BY Bounds DEF HoldVerbs, Rows
    <2>6. CASE WalkRefused(b)
      BY <2>3, <2>4, <2>6, SameRows DEF WalkRefused
    <2>7. CASE WalkIsThere(b)
      <3>1. Keeps(free, bot') /\ UNCHANGED rows
        BY <2>4, <2>5, <2>7, HoldStillSound DEF WalkIsThere
      <3> QED  BY <2>3, <2>4, <3>1, SameRows
    <2>8. CASE WalkStarts(t, b)
      <3>1. Keeps(bot, kept) /\ kept.body # "gone"
        BY <2>4, <2>5, HoldStillSound
      <3>2. \/ bot' = LetGo(kept, "walk") /\ UNCHANGED rows
            \/ bot' = WalkOn(kept) /\ Park(t, "walk", WalkTime)
        BY <2>8 DEF WalkStarts
      <3> HIDE DEF kept, free
      <3>3. Keeps(bot, bot')
        BY <3>1, <3>2, LetGoSound, WalkOnSound
      <3> QED  BY <2>3, <2>5, <3>2, <3>3, SameRows, ParkGood
    <2> QED  BY <2>1, <2>6, <2>7, <2>8
  <1> QED  BY <1>1, <1>2

LEMMA OrdersGood ==
    ASSUME IInv, NEW t \in Slots, Orders(t)
    PROVE  Good
  BY DoConjureGood, DoHearthGood, DoCastGood, DoQuestUseGood, DoWalkGood DEF Orders

(***************************************************************************)
(* The rest of the server.                                                 *)
(***************************************************************************)
LEMMA WorldGood ==
    ASSUME IInv,
           \/ BodyChanges \/ SpellEnds \/ LogsIn \/ KeepHeldCharactersStill
           \/ RosterGivesMoverBack \/ OtherDriveHolds \/ OtherDriveLetsGo
    PROVE  Good
  <1>0. /\ UNCHANGED rows /\ Sound(bot) /\ bot \in Bots
        /\ (bot.body = "gone" => bot.spell = "none")
    BY DEF BodyChanges, SpellEnds, LogsIn, KeepHeldCharactersStill, RosterGivesMoverBack,
           OtherDriveHolds, OtherDriveLetsGo, World, IInv, Sound, InForce
  <1>1. CASE BodyChanges
    <2>1. PICK body \in Bodies \ {bot.body} :
              bot.body # "gone" /\ bot' = [bot EXCEPT !.body = body, !.spell = "none"]
      BY <1>1 DEF BodyChanges
    <2>2. Keeps(bot, bot') /\ bot'.hold = bot.hold
      BY <1>0, <2>1, BodySound
    <2> QED  BY <1>0, <2>2, SameRows DEF Stands
  <1>2. CASE SpellEnds
    <2>1. PICK body \in {"still", "teleported"} :
              bot.spell # "none" /\ bot' = [bot EXCEPT !.spell = "none", !.body = body]
      BY <1>2 DEF SpellEnds
    <2>2. bot' = [bot EXCEPT !.body = body, !.spell = "none"]
      BY <1>0, <2>1 DEF Bots
    <2>3. /\ bot.body # "gone" /\ body \in Bodies /\ body # "gone"
          /\ "none" \in Rows \cup {"none"}
      BY <1>0, <2>1 DEF Bodies
    <2>4. Keeps(bot, bot') /\ bot'.hold = bot.hold
      BY <1>0, <2>2, <2>3, BodySound
    <2> QED  BY <1>0, <2>4, SameRows DEF Stands
  <1>3. CASE LogsIn
    <2>1. /\ bot' \in Bots /\ bot'.body = "still" /\ bot'.strat = {"mover"}
          /\ bot'.hold = bot.hold
      BY <1>0, <1>3 DEF LogsIn, Bots, Own, Bodies, Strategies
    <2>2. Keeps(bot, bot')
      BY <1>0, <2>1 DEF Sound, InForce, Accounted, DebtsRecorded
    <2> QED  BY <1>0, <2>1, <2>2, SameRows DEF Stands
  <1>4. CASE KeepHeldCharactersStill
    BY <1>0, <1>4, RetakenSound, SameRows DEF KeepHeldCharactersStill, Stands
  <1>5. CASE RosterGivesMoverBack
    <2>1. /\ bot' \in Bots /\ bot'.strat = bot.strat \cup {"mover"} /\ bot'.hold = bot.hold
          /\ bot'.body = bot.body /\ bot'.spell = bot.spell
      BY <1>0, <1>5 DEF RosterGivesMoverBack, Bots, Strategies
    <2>2. Keeps(bot, bot')
      BY <1>0, <2>1 DEF Sound, InForce, Accounted, DebtsRecorded
    <2> QED  BY <1>0, <2>1, <2>2, SameRows DEF Stands
  <1>6. CASE OtherDriveHolds
    <2>1. PICK verb \in Drives : bot' = HoldStill(bot, verb, Ceiling)
      BY <1>6 DEF OtherDriveHolds
    <2>2. verb \in HoldVerbs /\ Ceiling \in 0..LongestHold /\ Ceiling > 0
      BY Bounds DEF HoldVerbs
    <2>3. Keeps(bot, bot') /\ Stands
      BY <1>0, <2>1, <2>2, HoldAgain
    <2> QED  BY <1>0, <2>3, SameRows
  <1>7. CASE OtherDriveLetsGo
    <2>1. PICK verb \in Drives : bot' = LetGo(bot, verb)
      BY <1>7 DEF OtherDriveLetsGo
    <2>2. verb \notin Owning
      BY ConstantsAssumption DEF Owning
    <2>3. Keeps(bot, bot') /\ (bot.hold.verb \in Owning => bot' = bot)
      BY <1>0, <2>1, <2>2, LetGoSound, ForeignLetGo
    <2> QED  BY <1>0, <2>3, SameRows DEF Owns, Owning, Stands
  <1> QED  BY <1>1, <1>2, <1>3, <1>4, <1>5, <1>6, <1>7

LEMMA TickGood ==
    ASSUME IInv, Tick
    PROVE  Good
  <1>1. bot' = [bot EXCEPT !.hold = Older(@)] /\ UNCHANGED rows
    BY DEF Tick
  <1>2. Keeps(bot, bot') /\ bot'.hold.verb = bot.hold.verb
    BY <1>1, OlderSound DEF IInv
  <1> QED  BY <1>1, <1>2, SameRows DEF Stands

LEMMA LoggedInSound == Sound(LoggedIn) /\ Accounted(LoggedIn)
  <1>1. LoggedIn \in Bots
    BY NoHoldType DEF LoggedIn, Bots, Own, Strategies, Bodies
  <1>2. InForce(LoggedIn) /\ Accounted(LoggedIn)
    BY NoHoldType DEF LoggedIn, InForce, Accounted, DebtsRecorded, Own
  <1> QED  BY <1>1, <1>2 DEF Sound

LEMMA RestartGood ==
    ASSUME IInv, Restart
    PROVE  Good
  <1>1. bot' = LoggedIn /\ rows' = [s \in Slots |-> Idle]
    BY DEF Restart
  <1>2. OwnersKept
    <2>1. SUFFICES ASSUME NEW s \in Slots, Owns(s), rows'[s].verb = rows[s].verb PROVE FALSE
      BY DEF OwnersKept
    <2> QED  BY <1>1, <2>1, IdleTimed DEF Owns
  <1> QED  BY <1>1, <1>2, LoggedInSound, IdleTimed, SoundPrime DEF Good, Straight

LEMMA NextGood ==
    ASSUME IInv, [Next]_vars
    PROVE  Good
  <1>1. CASE \E s \in Slots : Resolve(s)
    BY <1>1, ResolveGood
  <1>2. CASE \E s \in Slots : Orders(s)
    BY <1>2, OrdersGood
  <1>3. CASE EndPoll \/ UNCHANGED vars
    BY <1>3, NothingHappens DEF EndPoll, vars
  <1> QED
    BY <1>1, <1>2, <1>3, StartPollGood, CastOwedGood, ExpireGood, WorldGood, TickGood, RestartGood
    DEF Next

(***************************************************************************)
(* The bookkeeping of the poll and the theorems.                           *)
(***************************************************************************)
LEMMA PollTypes ==
    ASSUME IInv, [Next]_vars
    PROVE  /\ phase' \in {"world", "rows", "expire", "orders"} /\ todo' \in SUBSET Slots
           /\ late' \in BOOLEAN /\ sent' \in 0..MaxOrders /\ held' \in 0..MaxHolds
  <1>0. MaxOrders \in Nat /\ MaxHolds \in Nat
    BY ConstantsAssumption
  <1>1. CASE \E s \in Slots : Resolve(s)
    <2>1. PICK s \in Slots : Resolve(s)
      BY <1>1
    <2>2. Resolved(s)
      BY <2>1 DEF Resolve, ResolveConjure, ResolveHearth, ResolveCast, ResolveLearn,
                  ResolveQuestUse, ResolveWalk
    <2> QED  BY <2>2 DEF Resolved, IInv
  <1>2. CASE \E s \in Slots : Orders(s)
    <2>1. PICK s \in Slots, verb \in Rows : Order(verb)
      BY <1>2 DEF Orders, DoConjure, DoHearth, DoCast, DoLearnRecipe, DoQuestUse, DoWalk, Rows
    <2> QED  BY <1>0, <2>1 DEF Order, IInv
  <1>3. CASE StartPoll \/ CastOwedHearths \/ ReleaseExpiredHolds \/ EndPoll \/ UNCHANGED vars
    BY <1>3 DEF StartPoll, CastOwedHearths, ReleaseExpiredHolds, EndPoll, vars, IInv
  <1>4. CASE OtherDriveHolds
    BY <1>0, <1>4 DEF OtherDriveHolds, World, IInv
  <1>5. CASE \/ BodyChanges \/ SpellEnds \/ LogsIn \/ KeepHeldCharactersStill
             \/ RosterGivesMoverBack \/ OtherDriveLetsGo \/ Tick \/ Restart
    BY <1>5 DEF BodyChanges, SpellEnds, LogsIn, KeepHeldCharactersStill, RosterGivesMoverBack,
                OtherDriveLetsGo, Tick, Restart, World, IInv
  <1> QED  BY <1>1, <1>2, <1>3, <1>4, <1>5 DEF Next

LEMMA IInvInit == Init => IInv
  <1> SUFFICES ASSUME Init PROVE IInv
    OBVIOUS
  <1>1. Sound(bot)
    BY LoggedInSound DEF Init
  <1>2. rows \in [Slots -> TimedRows]
    BY IdleTimed DEF Init
  <1>3. sent \in 0..MaxOrders /\ held \in 0..MaxHolds
    BY ConstantsAssumption DEF Init
  <1> QED  BY <1>1, <1>2, <1>3 DEF Init, IInv

LEMMA IInvStep == IInv /\ [Next]_vars => IInv'
  BY NextGood, PollTypes DEF IInv, Good

LEMMA IInvAlways == Spec => []IInv
  BY IInvInit, IInvStep, PTL DEF Spec

\* Every record, row and counter has its type: no window, deadline or combat
\* allowance is ever charged below zero or set beyond its ceiling.
THEOREM ParkedOrdersTypes == Spec => []TypeOK
  <1>1. IInv => TypeOK
    BY RowFields DEF IInv, TypeOK, Sound, Bots, HoldVerbs, TimedRows
  <1> QED  BY <1>1, IInvAlways, PTL

\* Whatever holds took from a bot stands in the record of the hold it is under:
\* what a first hold takes, and what an expired one had taken when another takes
\* it over, whatever rows, drives, log-outs and teleports come between.
THEOREM DebtsAreCarried == Spec => DebtsStayRecorded
  <1>1. IInv /\ [Next]_vars => [Accounted(bot) /\ bot'.hold # NoHold => Accounted(bot')]_vars
    BY NextGood DEF Good, Straight
  <1> QED  BY <1>1, IInvAlways, PTL DEF Spec, DebtsStayRecorded

\* A row whose verb placed the hold keeps it until the row ends, is paused by a
\* fight or is offered a flight: no other row's end, no release of another
\* drive and no sweep lifts it, before its deadline or after; past the deadline
\* only a new hold takes it over, or a walk or quest use that held the bot.
THEOREM OwnersKeepHolds == Spec => OwnersKeepTheirHold
  <1>1. IInv /\ [Next]_vars =>
            [\A s \in Slots :
               /\ Owns(s)
               /\ rows'[s].verb = rows[s].verb
               /\ rows'[s].stage = rows[s].stage
               => bot'.hold.verb = bot.hold.verb \/ (~HeldStill(bot) /\ TakenOver)]_vars
    BY NextGood DEF Good, OwnersKept, Stands
  <1> QED  BY <1>1, IInvAlways, PTL DEF Spec, OwnersKeepTheirHold

=============================================================================
