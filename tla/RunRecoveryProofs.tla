--------------------------- MODULE RunRecoveryProofs ---------------------------
(***************************************************************************)
(* What TLAPS proves of RunRecovery: for a family of any size, any number  *)
(* of warlocks, attempts, summons, log-outs and restarts.                  *)
(***************************************************************************)
EXTENDS RunRecovery, SequenceTheorems, FiniteSetTheorems, TLAPS

(***************************************************************************)
(* Parties.                                                                *)
(***************************************************************************)
Parties == {p \in SUBSET Chars : Leader \in p /\ Cardinality(p) <= Cardinality(Family)}

LEMMA Names ==
    /\ Leader \in Family /\ Guest \notin Family /\ Warlocks \subseteq Family
    /\ Nobody \notin Chars /\ Leader # Guest /\ Leader # Nobody /\ Guest # Nobody
    /\ Family \subseteq Chars /\ Guest \in Chars
    /\ Tries \in Nat \ {0} /\ MaxFailures \in Nat /\ MaxQueue \in Nat /\ MaxMishaps \in Nat
  BY RecoveryAssumption DEF Chars

LEMMA Finite ==
    ASSUME NEW p \in SUBSET Chars
    PROVE  IsFiniteSet(p) /\ Cardinality(p) \in Nat
  <1>1. IsFiniteSet(Chars)
    BY RecoveryAssumption, FS_AddElement DEF Chars
  <1> QED  BY <1>1, FS_Subset, FS_CardinalityType

LEMMA FamilyParty == Family \in Parties /\ Full(Family)
  <1>1. Cardinality(Family) \in Nat
    BY Names, Finite
  <1> QED  BY <1>1, Names DEF Parties, Full

LEMMA JoinParty ==
    ASSUME NEW p \in Parties, ~ Full(p), NEW c \in Chars
    PROVE  p \cup {c} \in Parties
  <1>1. /\ p \cup {c} \in SUBSET Chars /\ Leader \in p
        /\ Cardinality(p) \in Nat /\ Cardinality(Family) \in Nat
        /\ Cardinality(p) < Cardinality(Family) /\ IsFiniteSet(p)
    BY Names, Finite DEF Parties, Full
  <1>4. Cardinality(p \cup {c}) = IF c \in p THEN Cardinality(p) ELSE Cardinality(p) + 1
    BY <1>1, FS_AddElement
  <1>2. Cardinality(p \cup {c}) <= Cardinality(p) + 1
    BY <1>1, <1>4
  <1>3. Cardinality(p \cup {c}) \in Nat
    BY <1>1, Finite
  <1> QED  BY <1>1, <1>2, <1>3 DEF Parties

LEMMA LeaveParty ==
    ASSUME NEW p \in Parties, NEW c, c # Leader
    PROVE  p \ {c} \in Parties
  <1>1. /\ p \in SUBSET Chars /\ IsFiniteSet(p) /\ Leader \in p
        /\ Cardinality(p) \in Nat /\ Cardinality(Family) \in Nat
        /\ Cardinality(p) <= Cardinality(Family)
    BY Names, Finite DEF Parties
  <1>2. p \ {c} \in SUBSET Chars /\ Cardinality(p \ {c}) \in Nat
    BY <1>1, Finite
  <1>4. Cardinality(p \ {c}) = IF c \in p THEN Cardinality(p) - 1 ELSE Cardinality(p)
    BY <1>1, FS_RemoveElement
  <1>3. Cardinality(p \ {c}) <= Cardinality(p)
    BY <1>1, <1>4
  <1> QED  BY <1>1, <1>2, <1>3 DEF Parties

LEMMA SwapParty ==
    ASSUME NEW p \in Parties, NEW m \in p, m # Leader, NEW c \in Chars
    PROVE  (p \ {m}) \cup {c} \in Parties
  <1>1. p \ {m} \in Parties
    BY LeaveParty
  <1>2. /\ IsFiniteSet(p) /\ Cardinality(p) \in Nat /\ Cardinality(Family) \in Nat
        /\ Cardinality(p) <= Cardinality(Family)
    BY Names, Finite DEF Parties
  <1>3. Cardinality(p \ {m}) = Cardinality(p) - 1
    BY <1>2, FS_RemoveElement
  <1>4. ~ Full(p \ {m})
    BY <1>2, <1>3 DEF Full
  <1> QED  BY <1>1, <1>4, JoinParty

\* A family with the guest in one member's place is full, and without him
\* that member has room.
LEMMA SwappedParty ==
    ASSUME NEW m \in Family
    PROVE  Full((Family \ {m}) \cup {Guest}) /\ ~ Full(Family \ {m})
  <1>1. IsFiniteSet(Family) /\ Cardinality(Family) \in Nat
    BY Names, Finite
  <1>2. IsFiniteSet(Family \ {m}) /\ Cardinality(Family \ {m}) = Cardinality(Family) - 1
    BY <1>1, FS_RemoveElement
  <1>3. Guest \notin Family \ {m}
    BY Names
  <1>4. Cardinality((Family \ {m}) \cup {Guest}) = Cardinality(Family) - 1 + 1
    BY <1>2, <1>3, FS_AddElement
  <1> QED  BY <1>1, <1>2, <1>4 DEF Full

(***************************************************************************)
(* A hand: what a poll holds.  While no one may have slipped, either the   *)
(* party is the family, or the guest stands in it for the one member the   *)
(* record names.                                                           *)
(***************************************************************************)
Rituals == [row : Sources \cup {NoSource}, tries : [Family -> 0 .. Tries],
            summoner : Warlocks \cup {Guest, Nobody},
            out : (Family \ {Leader}) \cup {Nobody}, added : BOOLEAN]

Hands == [place : [Chars -> Places], party : Parties,
          lfg : {"none", "queued", "proposal", "dungeon"}, ritual : Rituals,
          queue : Seq(Statements), slip : {"none", "twice", "away"}]

SeatKept(p, r, s) ==
    s = "none" =>
        IF r.added
        THEN r.summoner = Guest /\ r.out # Nobody /\ p = (Family \ {r.out}) \cup {Guest}
        ELSE p = Family /\ r.out = Nobody

Seats(h) ==
    /\ h \in Hands
    /\ h.ritual.added => h.ritual.summoner \notin {Leader, Nobody}
    /\ SeatKept(h.party, h.ritual, h.slip)

\* A summon in flight is one of the tries its target has left.
TriesLeft(r) == r.row # NoSource => r.row \in Sources /\ r.tries[r.row[2]] < Tries

LEMMA HandFields ==
    ASSUME NEW h \in Hands
    PROVE  /\ h.place \in [Chars -> Places] /\ h.party \in Parties
           /\ h.lfg \in {"none", "queued", "proposal", "dungeon"}
           /\ h.ritual \in Rituals /\ h.queue \in Seq(Statements)
           /\ h.slip \in {"none", "twice", "away"}
           /\ h.ritual.row \in Sources \cup {NoSource}
           /\ h.ritual.tries \in [Family -> 0 .. Tries]
           /\ h.ritual.summoner \in Warlocks \cup {Guest, Nobody}
           /\ h.ritual.out \in (Family \ {Leader}) \cup {Nobody}
           /\ h.ritual.added \in BOOLEAN
  BY DEF Hands, Rituals

\* Places, the finder and the queue are no part of the seats.
LEMMA SameSeats ==
    ASSUME NEW h, Seats(h), NEW g \in Hands, g.party = h.party, g.ritual = h.ritual,
           g.slip = h.slip
    PROVE  Seats(g)
  BY DEF Seats

LEMMA PlaceSeats ==
    ASSUME NEW h, Seats(h), NEW p \in [Chars -> Places]
    PROVE  LET g == [h EXCEPT !.place = p]
           IN  Seats(g) /\ g.ritual = h.ritual
  <1> DEFINE g == [h EXCEPT !.place = p]
  <1>1. g \in Hands /\ g.party = h.party /\ g.ritual = h.ritual /\ g.slip = h.slip
    BY DEF Seats, Hands
  <1> HIDE DEF g
  <1>2. Seats(g)
    BY <1>1, SameSeats
  <1>3. Seats(g) /\ g.ritual = h.ritual
    BY <1>1, <1>2
  <1> QED  BY <1>3 DEF g

LEMMA FinderSeats ==
    ASSUME NEW h, Seats(h), NEW l \in {"none", "queued", "proposal", "dungeon"}
    PROVE  LET g == [h EXCEPT !.lfg = l]
           IN  Seats(g) /\ g.ritual = h.ritual /\ g.place = h.place
  <1> DEFINE g == [h EXCEPT !.lfg = l]
  <1>1. /\ g \in Hands /\ g.party = h.party /\ g.ritual = h.ritual /\ g.slip = h.slip
        /\ g.place = h.place
    BY DEF Seats, Hands
  <1> HIDE DEF g
  <1>2. Seats(g)
    BY <1>1, SameSeats
  <1>3. Seats(g) /\ g.ritual = h.ritual /\ g.place = h.place
    BY <1>1, <1>2
  <1> QED  BY <1>3 DEF g

LEMMA QueueSeats ==
    ASSUME NEW h, Seats(h), NEW s \in Statements
    PROVE  LET g == [h EXCEPT !.queue = Append(@, s)]
           IN  Seats(g) /\ g.ritual = h.ritual
  <1> DEFINE q == Append(h.queue, s)
             g == [h EXCEPT !.queue = q]
  <1>1. h.queue \in Seq(Statements)
    BY HandFields DEF Seats
  <1>2. q \in Seq(Statements)
    BY <1>1, AppendProperties
  <1> HIDE DEF q
  <1>3. g \in Hands /\ g.party = h.party /\ g.ritual = h.ritual /\ g.slip = h.slip
    BY <1>2 DEF Seats, Hands
  <1> HIDE DEF g
  <1>4. Seats(g)
    BY <1>3, SameSeats
  <1>5. Seats(g) /\ g.ritual = h.ritual
    BY <1>3, <1>4
  <1>6. [h EXCEPT !.queue = Append(@, s)] = g
    BY DEF g, q
  <1> QED  BY <1>5, <1>6

\* The record's changes that leave its seats alone.
WithRow(h, w, t) == [h EXCEPT !.ritual.row = w, !.ritual.tries = t]

LEMMA RowSeats ==
    ASSUME NEW h, Seats(h), NEW w \in Sources \cup {NoSource}, NEW t \in [Family -> 0 .. Tries]
    PROVE  LET g == WithRow(h, w, t)
           IN  Seats(g) /\ g.ritual.row = w /\ g.ritual.tries = t
  <1> DEFINE g == WithRow(h, w, t)
             r == [h.ritual EXCEPT !.row = w, !.tries = t]
  <1>1. /\ r \in Rituals /\ r.row = w /\ r.tries = t /\ r.summoner = h.ritual.summoner
        /\ r.out = h.ritual.out /\ r.added = h.ritual.added
    BY HandFields DEF Seats, Rituals
  <1>2. g = [h EXCEPT !.ritual = r]
    BY DEF Seats, Hands, WithRow
  <1> HIDE DEF r, g
  <1>3. g \in Hands /\ g.ritual = r /\ g.party = h.party /\ g.slip = h.slip
    BY <1>1, <1>2 DEF Seats, Hands
  <1>4. Seats(g)
    BY <1>1, <1>3 DEF Seats, SeatKept
  <1> QED  BY <1>1, <1>3, <1>4 DEF g

(***************************************************************************)
(* The guest comes and goes.                                               *)
(***************************************************************************)
\* What a poll that seats c leaves of the party and of the record.
LEMMA SeatedSeats ==
    ASSUME NEW h, Seats(h), NEW c \in Warlocks \cup {Guest}, NEW g \in Seated(h, c)
    PROVE  /\ Seats(g) /\ g.ritual.summoner = c /\ g.ritual.row = h.ritual.row
           /\ g.ritual.tries = h.ritual.tries
  <1> DEFINE again == IF h.ritual.summoner # Nobody /\ h.slip = "none"
                      THEN "twice" ELSE h.slip
  <1>1. /\ h \in Hands /\ h.party \in Parties /\ h.ritual \in Rituals
        /\ again \in {"none", "twice", "away"} /\ c \in Chars /\ c # Nobody
        /\ h.ritual.out \in (Family \ {Leader}) \cup {Nobody}
        /\ SeatKept(h.party, h.ritual, h.slip)
        /\ h.ritual.added \in BOOLEAN
        /\ h.ritual.added => h.ritual.summoner # Nobody
    BY HandFields, Names DEF Seats, Chars
  <1>2. again = "none" => /\ h.slip = "none" /\ h.ritual.summoner = Nobody
                          /\ ~ h.ritual.added /\ h.party = Family /\ h.ritual.out = Nobody
    BY <1>1 DEF SeatKept
  <1> HIDE DEF again
  <1>3. ASSUME NEW p \in Parties, NEW o \in (Family \ {Leader}) \cup {Nobody},
               NEW a \in BOOLEAN, a => c # Leader,
               again = "none" => IF a THEN c = Guest /\ o # Nobody
                                           /\ p = (Family \ {o}) \cup {Guest}
                                 ELSE p = Family /\ o = Nobody,
               g = [h EXCEPT !.party = p, !.slip = again,
                             !.ritual = [h.ritual EXCEPT !.summoner = c, !.out = o,
                                                         !.added = a]]
        PROVE  /\ Seats(g) /\ g.ritual.summoner = c /\ g.ritual.row = h.ritual.row
               /\ g.ritual.tries = h.ritual.tries
    <2> DEFINE r == [h.ritual EXCEPT !.summoner = c, !.out = o, !.added = a]
    <2>1. /\ r \in Rituals /\ r.summoner = c /\ r.out = o /\ r.added = a
          /\ r.row = h.ritual.row /\ r.tries = h.ritual.tries
      BY <1>1, <1>3 DEF Rituals
    <2> HIDE DEF r
    <2>2. g = [h EXCEPT !.party = p, !.slip = again, !.ritual = r]
      BY <1>3 DEF r
    <2>3. g \in Hands /\ g.party = p /\ g.ritual = r /\ g.slip = again
      BY <1>1, <2>1, <2>2 DEF Hands
    <2> QED  BY <1>1, <1>3, <2>1, <2>3 DEF Seats, SeatKept
  <1>4. CASE c \in h.party
    <2>1. g = [h EXCEPT !.party = h.party, !.slip = again,
                        !.ritual = [h.ritual EXCEPT !.summoner = c, !.out = h.ritual.out,
                                                    !.added = FALSE]]
      <3>1. g = [h EXCEPT !.ritual.summoner = c, !.ritual.added = FALSE, !.slip = again]
        BY <1>4 DEF Seated, again
      <3> QED  BY <1>1, <3>1 DEF Hands, Rituals
    <2> QED  BY <1>1, <1>2, <1>3, <2>1
  <1>5. CASE c \notin h.party /\ ~ Full(h.party)
    <2>1. g = [h EXCEPT !.party = h.party \cup {c}, !.slip = again,
                        !.ritual = [h.ritual EXCEPT !.summoner = c, !.out = h.ritual.out,
                                                    !.added = TRUE]]
      <3>1. g = [h EXCEPT !.party = @ \cup {c}, !.ritual.summoner = c,
                          !.ritual.added = TRUE, !.slip = again]
        BY <1>5 DEF Seated, again
      <3> QED  BY <1>1, <3>1 DEF Hands, Rituals
    <2>2. h.party \cup {c} \in Parties /\ c # Leader /\ Full(Family)
      BY <1>1, <1>5, JoinParty, FamilyParty DEF Parties
    <2> QED  BY <1>1, <1>2, <1>3, <1>5, <2>1, <2>2
  <1>6. CASE c \notin h.party /\ Full(h.party)
    <2>1. PICK m \in MayStepOut(h) :
             g = [h EXCEPT !.party = (h.party \ {m}) \cup {c}, !.slip = again,
                           !.ritual = [h.ritual EXCEPT !.summoner = c, !.out = m,
                                                       !.added = TRUE]]
      <3>1. PICK m \in MayStepOut(h) :
               g = [h EXCEPT !.party = (@ \ {m}) \cup {c}, !.ritual.summoner = c,
                             !.ritual.out = m, !.ritual.added = TRUE, !.slip = again]
        BY <1>6 DEF Seated, again
      <3> QED  BY <1>1, <3>1 DEF Hands, Rituals
    <2>2. /\ m \in h.party /\ m # Leader /\ m \in Family /\ c # Leader
      BY <1>1, <1>6 DEF MayStepOut, Parties, Chars
    <2>3. (h.party \ {m}) \cup {c} \in Parties
      BY <1>1, <2>2, SwapParty
    <2>4. again = "none" => c = Guest /\ m # Nobody
                            /\ (h.party \ {m}) \cup {c} = (Family \ {m}) \cup {Guest}
      BY <1>1, <1>2, <1>6, <2>2, Names DEF Chars
    <2> QED  BY <1>3, <2>1, <2>2, <2>3, <2>4
  <1> QED  BY <1>4, <1>5, <1>6

\* Whoever is put back, the seats are right, and with the leader in the world
\* nobody is on the record any more.
LEMMA RestoredSeats ==
    ASSUME NEW h, Seats(h), online \subseteq Chars
    PROVE  LET g == Restored(h)
           IN  /\ Seats(g) /\ g.place = h.place /\ g.lfg = h.lfg /\ g.queue = h.queue
               /\ g.ritual.row = h.ritual.row /\ g.ritual.tries = h.ritual.tries
               /\ Leader \in online => g.ritual.summoner = Nobody
               /\ h.ritual.summoner = Nobody => g = h
  <1>1. CASE Leader \notin online \/ h.ritual.summoner = Nobody
    BY <1>1 DEF Restored
  <1>2. CASE ~ (Leader \notin online \/ h.ritual.summoner = Nobody)
    <2> DEFINE w == h.ritual
               left == IF w.added /\ w.summoner \in online
                       THEN h.party \ {w.summoner} ELSE h.party
               back == IF w.out \in online /\ ~ Full(left) THEN left \cup {w.out} ELSE left
               away == ~ ({w.summoner, w.out} \ {Nobody} \subseteq online)
               s == IF away THEN "away" ELSE h.slip
               r == [w EXCEPT !.summoner = Nobody, !.out = Nobody, !.added = FALSE]
               g == [h EXCEPT !.party = back, !.ritual = r, !.slip = s]
    <2>1. /\ h \in Hands /\ h.party \in Parties /\ w \in Rituals /\ w.added \in BOOLEAN
          /\ s \in {"none", "twice", "away"}
          /\ w.out \in (Family \ {Leader}) \cup {Nobody}
          /\ w.added => w.summoner \notin {Leader, Nobody}
          /\ SeatKept(h.party, w, h.slip)
      BY HandFields DEF Seats
    <2>2. Restored(h) = g
      BY <1>2, <2>1 DEF Restored, Hands, Rituals
    <2>3. left \in Parties
      BY <2>1, LeaveParty
    <2>4. back \in Parties
      BY <2>1, <2>3, JoinParty, Names
    <2>5. s = "none" => back = Family
      <3>1. SUFFICES ASSUME s = "none" PROVE back = Family
        OBVIOUS
      <3>2. h.slip = "none" /\ ~ away
        BY <3>1
      <3>3. CASE w.added
        <4>1. /\ w.summoner = Guest /\ w.out # Nobody /\ w.out \in Family
              /\ h.party = (Family \ {w.out}) \cup {Guest}
          BY <2>1, <3>2, <3>3 DEF SeatKept
        <4>2. Guest \in online /\ w.out \in online
          BY <3>2, <4>1, Names
        <4>3. left = Family \ {w.out}
          BY <3>3, <4>1, <4>2, Names
        <4>4. ~ Full(left)
          BY <4>1, <4>3, SwappedParty
        <4> QED  BY <4>1, <4>2, <4>3, <4>4
      <3>4. CASE ~ w.added
        <4>1. h.party = Family /\ w.out = Nobody
          BY <2>1, <3>2, <3>4 DEF SeatKept
        <4>2. Nobody \notin online
          BY Names
        <4> QED  BY <3>4, <4>1, <4>2
      <3> QED  BY <2>1, <3>3, <3>4
    <2>6. /\ r \in Rituals /\ r.row = w.row /\ r.tries = w.tries /\ r.summoner = Nobody
          /\ r.out = Nobody /\ r.added = FALSE
      BY <2>1 DEF Rituals
    <2> HIDE DEF r, back, left, away, s
    <2>7. /\ g \in Hands /\ g.party = back /\ g.ritual = r /\ g.slip = s
          /\ g.place = h.place /\ g.lfg = h.lfg /\ g.queue = h.queue
      BY <2>1, <2>4, <2>6 DEF Hands
    <2> HIDE DEF g
    <2>8. Seats(g)
      BY <2>5, <2>6, <2>7 DEF Seats, SeatKept
    <2> QED  BY <1>2, <2>2, <2>6, <2>7, <2>8
  <1> QED  BY <1>1, <1>2

\* A coordinator that forgets its record has nobody on it, or the leader is away.
LEMMA ForgottenSeats ==
    ASSUME NEW h, Seats(h), h.ritual.summoner # Nobody => Leader \notin online
    PROVE  LET g == Forgotten(h)
           IN  Seats(g) /\ g.ritual = NoRitual /\ g.queue = h.queue
  <1> DEFINE s == IF h.ritual.summoner # Nobody /\ Leader \notin online
                  THEN "away" ELSE h.slip
             n == NoRitual
             g == [h EXCEPT !.ritual = n, !.slip = s]
  <1>1. Forgotten(h) = g
    BY DEF Seats, Hands, Forgotten
  <1>2. /\ NoRitual \in Rituals /\ NoRitual.summoner = Nobody /\ NoRitual.out = Nobody
        /\ NoRitual.added = FALSE
    BY Names DEF NoRitual, Rituals
  <1>3. /\ h \in Hands /\ s \in {"none", "twice", "away"} /\ SeatKept(h.party, h.ritual, h.slip)
        /\ h.ritual.added => h.ritual.summoner # Nobody
        /\ h.ritual.added \in BOOLEAN
    BY HandFields DEF Seats
  <1>4. s = "none" => h.party = Family
    BY <1>3 DEF SeatKept
  <1> HIDE DEF s, n
  <1>5. g \in Hands /\ g.party = h.party /\ g.ritual = NoRitual /\ g.slip = s
        /\ g.queue = h.queue
    BY <1>2, <1>3 DEF Hands, n
  <1> HIDE DEF g
  <1>6. Seats(g)
    BY <1>2, <1>4, <1>5 DEF Seats, SeatKept
  <1> QED  BY <1>1, <1>5, <1>6

(***************************************************************************)
(* What one poll may leave: o is a result of a poll that began with h.     *)
(***************************************************************************)
Steady(h) == Seats(h) /\ TriesLeft(h.ritual)

Ends == {"no", "over", "inside"}

Outcome(o) == Steady(o.h) /\ o.end \in Ends /\ o.joined \in BOOLEAN

LEMMA GoesResult ==
    ASSUME NEW h, Steady(h)
    PROVE  Outcome(Goes(h)) /\ Goes(h).h = h /\ Goes(h).end = "no"
  BY DEF Goes, Result, Outcome, Ends

LEMMA OverResult ==
    ASSUME NEW h, Steady(h)
    PROVE  Outcome(Over(h)) /\ Over(h).h = h /\ Over(h).end = "over"
  BY DEF Over, Result, Outcome, Ends

LEMMA StagedResult ==
    ASSUME NEW h, Steady(h)
    PROVE  Outcome(StagedInside(h)) /\ StagedInside(h).h = h
  BY DEF StagedInside, Result, Outcome, Ends

LEMMA JoinedResult ==
    ASSUME NEW h, Steady(h)
    PROVE  Outcome(Joined(Goes(h))) /\ Joined(Goes(h)).h = h
  BY DEF Joined, Goes, Result, Outcome, Ends

\* The walk to the door and the regroup at the inn change where the family is.
LEMMA WalkResults ==
    ASSUME NEW h, Steady(h), NEW o \in WalkPoll(h)
    PROVE  Outcome(o) /\ o.h.ritual = h.ritual /\ o.end # "inside"
  <1> DEFINE p == [h.place EXCEPT ![Leader] = "stone"]
             g == [h EXCEPT !.place = p]
  <1>1. p \in [Chars -> Places]
    BY HandFields DEF Steady, Seats, Places
  <1> HIDE DEF p
  <1>2. Seats(g) /\ g.ritual = h.ritual
    BY <1>1, PlaceSeats DEF Steady
  <1>3. [h EXCEPT !.place[Leader] = "stone"] = g
    BY DEF p
  <1> HIDE DEF g
  <1>4. o \in {Goes(h), Over(h), Goes(g)}
    BY <1>3 DEF WalkPoll
  <1>5. Steady(g)
    BY <1>2 DEF Steady
  <1> QED  BY <1>2, <1>4, <1>5, GoesResult, OverResult

LEMMA WaitResults ==
    ASSUME NEW h, Steady(h), NEW o \in WaitPoll(h)
    PROVE  Outcome(o) /\ o.h.ritual = h.ritual /\ o.end # "inside"
  <1>1. o \in {Goes(h), Over(h)}
    BY DEF WaitPoll
  <1> QED  BY <1>1, GoesResult, OverResult

LEMMA HearthResults ==
    ASSUME NEW h, Steady(h), NEW o \in HearthPoll(h)
    PROVE  Outcome(o) /\ o.h.ritual = h.ritual /\ o.end # "inside"
  <1>1. CASE o = Over(h)
    BY <1>1, OverResult
  <1>2. CASE o # Over(h)
    <2>1. PICK S : o = Goes([h EXCEPT !.place = [c \in Chars |->
                               IF c \in S THEN "inn" ELSE h.place[c]]])
      BY <1>2, Zenon DEF HearthPoll
    <2> DEFINE p == [c \in Chars |-> IF c \in S THEN "inn" ELSE h.place[c]]
               g == [h EXCEPT !.place = p]
    <2>2. p \in [Chars -> Places]
      BY HandFields DEF Steady, Seats, Places
    <2>4. o = Goes(g)
      BY <2>1
    <2> HIDE DEF p
    <2>3. Seats(g) /\ g.ritual = h.ritual
      BY <2>2, PlaceSeats DEF Steady
    <2> HIDE DEF g
    <2>5. Steady(g)
      BY <2>3 DEF Steady
    <2> QED  BY <2>3, <2>4, <2>5, GoesResult
  <1> QED  BY <1>1, <1>2

\* The finder changes where the family is and what it waits for.
LEMMA MovedInSeats ==
    ASSUME NEW h, Steady(h), NEW g \in MovedIn(h)
    PROVE  Steady(g) /\ g.ritual = h.ritual
  <1>1. PICK S : g = [h EXCEPT !.place = [c \in Chars |->
                        IF c \in S THEN "inside" ELSE h.place[c]]]
    BY Zenon DEF MovedIn
  <1> DEFINE p == [c \in Chars |-> IF c \in S THEN "inside" ELSE h.place[c]]
  <1>2. p \in [Chars -> Places]
    BY HandFields DEF Steady, Seats, Places
  <1>3. g = [h EXCEPT !.place = p]
    BY <1>1
  <1> HIDE DEF p
  <1> QED  BY <1>2, <1>3, PlaceSeats DEF Steady

LEMMA LfgSteady ==
    ASSUME NEW h, Steady(h), NEW l \in {"none", "queued", "proposal", "dungeon"}
    PROVE  LET g == [h EXCEPT !.lfg = l] IN Steady(g) /\ g.ritual = h.ritual
  BY FinderSeats DEF Steady

LEMMA OutOfTheQueueSteady ==
    ASSUME NEW h, Steady(h)
    PROVE  Steady(OutOfTheQueue(h)) /\ OutOfTheQueue(h).ritual = h.ritual
  <1> DEFINE l == IF Leader \in online /\ h.lfg \in {"queued", "proposal"}
                  THEN "none" ELSE h.lfg
  <1>1. l \in {"none", "queued", "proposal", "dungeon"}
    BY HandFields DEF Steady, Seats
  <1>2. OutOfTheQueue(h) = [h EXCEPT !.lfg = l]
    BY DEF OutOfTheQueue
  <1> HIDE DEF l
  <1> QED  BY <1>1, <1>2, LfgSteady

LEMMA FinderResults ==
    ASSUME NEW h, Steady(h), run.joined \in BOOLEAN,
           NEW o \in FinderPoll(h) \cup FinderLate(h)
    PROVE  Outcome(o) /\ o.h.ritual = h.ritual
  <1> DEFINE q == [h EXCEPT !.lfg = "queued"]
             d == [h EXCEPT !.lfg = "dungeon"]
             w == OutOfTheQueue(h)
             k == [Goes(h) EXCEPT !.joined = run.joined]
  <1>1. Steady(q) /\ q.ritual = h.ritual
    BY LfgSteady
  <1>2. Steady(d) /\ d.ritual = h.ritual
    BY LfgSteady
  <1>3. Steady(w) /\ w.ritual = h.ritual
    BY OutOfTheQueueSteady
  <1>4. \A x \in {h} \cup MovedIn(h) \cup MovedIn(d) : Steady(x) /\ x.ritual = h.ritual
    BY <1>2, MovedInSeats
  <1>5. k.h = h /\ k.end = "no" /\ k.joined = run.joined
    BY DEF Goes, Result
  <1>6. \/ o \in {StagedInside(h), k, Over(h), Over(w), Joined(Goes(q)), Joined(Goes(h))}
        \/ \E x \in {h} \cup MovedIn(h) \cup MovedIn(d) : o = Joined(Goes(x))
    BY Zenon DEF FinderPoll, FinderLate
  <1> HIDE DEF q, d, w, k
  <1>7. CASE o \in {StagedInside(h), Over(h), Over(w), Joined(Goes(q)), Joined(Goes(h))}
    BY <1>1, <1>3, <1>7, OverResult, StagedResult, JoinedResult
  <1>8. CASE o = k
    BY <1>5, <1>8 DEF Outcome, Ends
  <1>9. ASSUME NEW x \in {h} \cup MovedIn(h) \cup MovedIn(d), o = Joined(Goes(x))
        PROVE  Outcome(o) /\ o.h.ritual = h.ritual
    BY <1>4, <1>9, JoinedResult
  <1> QED  BY <1>6, <1>7, <1>8, <1>9

\* The summon in flight is one the record's tries allow, whatever seats move.
LEMMA RestoredSteady ==
    ASSUME NEW h, Steady(h), online \subseteq Chars
    PROVE  LET g == Restored(h)
           IN  /\ Steady(g) /\ g.ritual.row = h.ritual.row
               /\ Leader \in online => g.ritual.summoner = Nobody
               /\ h.ritual.summoner = Nobody => g = h
  BY RestoredSeats DEF Steady, TriesLeft

LEMMA SummonersAre == Summoners \subseteq Warlocks \cup {Guest}
  BY DEF Summoners

\* An order is written for a member who has a try left, by the summoner just
\* seated.
LEMMA OrderedResult ==
    ASSUME NEW h, Seats(h), h.ritual.summoner \in Warlocks \cup {Guest},
           run.attempt \in 1 .. MaxFailures,
           NEW target \in MaySummon(h), NEW helper \in Helpers(h)
    PROVE  Outcome(Ordered(h, target, helper)) /\ Ordered(h, target, helper).end = "no"
  <1> DEFINE source == <<run.attempt, target, h.ritual.tries[target] + 1>>
             s == [is |-> "order", source |-> source,
                   who |-> h.ritual.summoner, helper |-> helper]
             t == h.ritual.tries
             g == WithRow(h, source, t)
             k == [g EXCEPT !.queue = Append(@, s)]
  <1>1. target \in Family /\ h.ritual.tries[target] < Tries
    BY DEF MaySummon, AwayFromStone, Chars
  <1>2. t \in [Family -> 0 .. Tries]
    BY HandFields DEF Seats
  <1>3. source \in Sources
    BY <1>1, <1>2, Names DEF Sources
  <1>4. helper \in Chars /\ h.ritual.summoner \in Chars
    BY Names DEF Helpers, Clickers, Chars
  <1>5. s \in Statements
    BY <1>3, <1>4 DEF Statements
  <1>6. [h EXCEPT !.ritual.row = source, !.queue = Append(@, s)] = k
    BY DEF Seats, Hands, Rituals, WithRow
  <1>7. Ordered(h, target, helper) = Goes(k)
    BY <1>6 DEF Ordered
  <1> HIDE DEF source, s, t
  <1>8. Seats(g) /\ g.ritual.row = source /\ g.ritual.tries = t
    BY <1>2, <1>3, RowSeats
  <1> HIDE DEF g
  <1>9. Seats(k) /\ k.ritual = g.ritual
    BY <1>5, <1>8, QueueSeats
  <1> HIDE DEF k
  <1>10. source[2] = target /\ t[target] < Tries
    BY <1>1 DEF source, t
  <1>11. Steady(k)
    BY <1>3, <1>8, <1>9, <1>10 DEF Steady, TriesLeft
  <1> QED  BY <1>7, <1>11, GoesResult

\* With nothing in flight, a poll of the summon rung leaves the seats right;
\* the leader, if he stands at the stone, has found a summoner.
LEMMA SummonStepResults ==
    ASSUME NEW h, Seats(h), h.ritual.row = NoSource, online \subseteq Chars,
           run.attempt \in 1 .. MaxFailures,
           Leader \in online /\ h.place[Leader] = "stone"
               => h.ritual.summoner \in Warlocks \cup {Guest},
           NEW o \in SummonStep(h)
    PROVE  Outcome(o) /\ o.end # "inside"
  <1>1. Steady(h) /\ Steady(Restored(h))
    BY RestoredSteady DEF Steady, TriesLeft
  <1>2. \/ o \in {Over(Restored(h)), Goes(h)} \cup WalkPoll(h)
        \/ /\ Leader \in online /\ h.place[Leader] = "stone"
           /\ \E target \in MaySummon(h), helper \in Helpers(h) :
                 o = Ordered(h, target, helper)
    <2>1. CASE AwayFromStone(h) = {}
      BY <2>1 DEF SummonStep
    <2>2. CASE AwayFromStone(h) # {} /\ (h.place[Leader] # "stone" \/ Leader \notin online)
      BY <2>2 DEF SummonStep
    <2>3. CASE AwayFromStone(h) # {} /\ ~ (h.place[Leader] # "stone" \/ Leader \notin online)
      <3>1. CASE MaySummon(h) = {}
        BY <2>3, <3>1 DEF SummonStep
      <3>2. CASE MaySummon(h) # {} /\ Helpers(h) = {}
        BY <2>3, <3>2 DEF SummonStep
      <3>3. CASE MaySummon(h) # {} /\ Helpers(h) # {}
        <4>1. o \in {Ordered(h, target, helper) :
                        target \in MaySummon(h), helper \in Helpers(h)}
          BY <2>3, <3>3 DEF SummonStep
        <4>2. \E target \in MaySummon(h), helper \in Helpers(h) : o = Ordered(h, target, helper)
          BY <4>1
        <4> QED  BY <2>3, <4>2
      <3> QED  BY <3>1, <3>2, <3>3
    <2> QED  BY <2>1, <2>2, <2>3
  <1>3. CASE o \in {Over(Restored(h)), Goes(h)}
    BY <1>1, <1>3, GoesResult, OverResult
  <1>4. CASE o \in WalkPoll(h)
    BY <1>1, <1>4, WalkResults
  <1>5. ASSUME h.ritual.summoner \in Warlocks \cup {Guest},
               NEW target \in MaySummon(h), NEW helper \in Helpers(h),
               o = Ordered(h, target, helper)
        PROVE  Outcome(o) /\ o.end # "inside"
    BY <1>5, OrderedResult
  <1> QED  BY <1>2, <1>3, <1>4, <1>5

LEMMA SummonPlanResults ==
    ASSUME NEW h, Seats(h), h.ritual.row = NoSource, online \subseteq Chars,
           run.attempt \in 1 .. MaxFailures, NEW o \in SummonPlan(h)
    PROVE  Outcome(o) /\ o.end # "inside"
  <1>1. CASE ~ (Leader \in online /\ h.place[Leader] = "stone")
    <2>1. o \in SummonStep(h)
      BY <1>1 DEF SummonPlan
    <2> QED  BY <1>1, <2>1, SummonStepResults
  <1>2. CASE Leader \in online /\ h.place[Leader] = "stone"
    <2>1. \/ o = Goes(h)
          \/ \E c \in Summoners : \E g \in Seated(h, c) : o \in SummonStep(g)
      BY <1>2 DEF SummonPlan
    <2>2. CASE o = Goes(h)
      BY <2>2, GoesResult DEF Steady, TriesLeft
    <2>3. ASSUME NEW c \in Summoners, NEW g \in Seated(h, c), o \in SummonStep(g)
          PROVE  Outcome(o) /\ o.end # "inside"
      <3>1. c \in Warlocks \cup {Guest}
        BY SummonersAre
      <3>2. Seats(g) /\ g.ritual.summoner = c /\ g.ritual.row = NoSource
        BY <3>1, SeatedSeats
      <3> QED  BY <2>3, <3>1, <3>2, SummonStepResults
    <2> QED  BY <2>1, <2>2, <2>3
  <1> QED  BY <1>1, <1>2

\* A verdict spends the try and puts the party back.
LEMMA HeardSeats ==
    ASSUME NEW h, Steady(h), h.ritual.row # NoSource, online \subseteq Chars
    PROVE  Seats(Heard(h)) /\ Heard(h).ritual.row = NoSource
  <1> DEFINE target == h.ritual.row[2]
             t == [h.ritual.tries EXCEPT ![target] = @ + 1]
             w == h.ritual.row
             g == WithRow(h, w, t)
             k == Restored(g)
             u == k.ritual.tries
             n == NoSource
             m == WithRow(k, n, u)
  <1>1. /\ h \in Hands /\ Seats(h) /\ h.ritual.row \in Sources
        /\ h.ritual.tries \in [Family -> 0 .. Tries]
        /\ h.ritual.tries[target] < Tries
    BY HandFields DEF Steady, Seats, TriesLeft
  <1>2. target \in Family
    BY <1>1 DEF Sources
  <1>3. t \in [Family -> 0 .. Tries] /\ w \in Sources \cup {NoSource}
    BY <1>1, <1>2, Names
  <1>4. [h EXCEPT !.ritual.tries[target] = @ + 1] = g
    BY <1>1 DEF Hands, Rituals, WithRow
  <1> HIDE DEF t, w, target
  <1>5. Seats(g)
    BY <1>1, <1>3, RowSeats
  <1>6. Heard(h) = [k EXCEPT !.ritual.row = NoSource]
    BY <1>4 DEF Heard, target
  <1> HIDE DEF g
  <1>7. Seats(k)
    BY <1>5, RestoredSeats
  <1> HIDE DEF k
  <1>8. k \in Hands /\ u \in [Family -> 0 .. Tries] /\ n \in Sources \cup {NoSource}
    BY <1>7, HandFields DEF Seats
  <1>9. [k EXCEPT !.ritual.row = NoSource] = m
    BY <1>8 DEF Hands, Rituals, WithRow
  <1> HIDE DEF u, n
  <1>10. Seats(m) /\ m.ritual.row = n
    BY <1>7, <1>8, RowSeats
  <1> HIDE DEF m
  <1> QED  BY <1>6, <1>9, <1>10 DEF n

LEMMA SummonResults ==
    ASSUME NEW h, Steady(h), online \subseteq Chars,
           run.attempt \in 1 .. MaxFailures, NEW o \in SummonPoll(h)
    PROVE  Outcome(o) /\ o.end # "inside"
  <1>1. \/ o \in {Over(h), Goes(h)}
        \/ h.ritual.row = NoSource /\ o \in SummonPlan(h)
        \/ h.ritual.row # NoSource /\ o \in SummonPlan(Heard(h))
    BY DEF SummonPoll
  <1>2. CASE o \in {Over(h), Goes(h)}
    BY <1>2, GoesResult, OverResult
  <1>3. CASE h.ritual.row = NoSource /\ o \in SummonPlan(h)
    BY <1>3, SummonPlanResults DEF Steady
  <1>4. CASE h.ritual.row # NoSource /\ o \in SummonPlan(Heard(h))
    <2>1. Seats(Heard(h)) /\ Heard(h).ritual.row = NoSource
      BY <1>4, HeardSeats
    <2> QED  BY <1>4, <2>1, SummonPlanResults
  <1> QED  BY <1>1, <1>2, <1>3, <1>4

(***************************************************************************)
(* The inductive invariant.                                                *)
(***************************************************************************)
Runs == [phase : {"off", "run", "waiting", "acting"}, attempt : 0 .. MaxFailures,
         rung : Rungs \cup {"none"}, joined : BOOLEAN, tried : BOOLEAN]

Driven == {"walk", "wait", "hearth", "summon", "finder"}

\* A recovery is of an attempt that failed, unless the finder is the way in.
Live(r) ==
    /\ r \in Runs
    /\ r.phase = "waiting" => r.attempt \in 1 .. MaxFailures
    /\ r.phase = "acting" => r.rung \in Driven
    /\ r.phase = "acting" /\ r.rung # "finder" => r.attempt \in 1 .. MaxFailures

AskRows == [attempt : 1 .. MaxFailures, applied : BOOLEAN]

OrderRows == [source : Sources, who : Chars, helper : Chars, stage : Stages]

Records ==
    /\ asks \in Seq(AskRows) /\ orders \in Seq(OrderRows)
    /\ streak \in 0 .. MaxFailures /\ failures \in 0 .. MaxFailures
    /\ mishaps \in 0 .. MaxMishaps /\ streak <= failures

World == online \subseteq Chars /\ fighting \subseteq Chars

\* Only a summon in progress has a summoner on record.
GuestHasAReason ==
    ritual.summoner # Nobody => run.phase = "acting" /\ run.rung = "summon"

IInv == World /\ Records /\ Live(run) /\ Steady(Hand) /\ GuestHasAReason

\* The states a coordinator is put in.
LEMMA LiveAtRest ==
    ASSUME NEW r \in Runs, r.phase \in {"off", "run"}
    PROVE  Live(r)
  BY DEF Live

LEMMA LiveStates ==
    /\ Live(Off)
    /\ Live([Off EXCEPT !.phase = "run"])
    /\ Live(run) => Live(Rearmed)
    /\ Live(run) => Live([Off EXCEPT !.phase = "run", !.attempt = run.attempt])
  <1> DEFINE n == run.attempt
             t == run.tried
             a == [Off EXCEPT !.phase = "run"]
             b == [Off EXCEPT !.phase = "run", !.attempt = n, !.tried = t]
             c == [Off EXCEPT !.phase = "run", !.attempt = n]
  <1>1. Live(run) => n \in 0 .. MaxFailures /\ t \in BOOLEAN
    BY DEF Live, Runs
  <1> HIDE DEF n, t
  <1>9. 0 \in 0 .. MaxFailures
    BY Names
  <1>2. Off \in Runs /\ Off.phase = "off"
    BY <1>9 DEF Off, Runs
  <1>3. a \in Runs /\ a.phase = "run"
    BY <1>9 DEF Off, Runs
  <1>4. ASSUME n \in 0 .. MaxFailures, t \in BOOLEAN
        PROVE  b \in Runs /\ b.phase = "run"
    BY <1>4 DEF Off, Runs
  <1>5. ASSUME n \in 0 .. MaxFailures
        PROVE  c \in Runs /\ c.phase = "run"
    BY <1>5 DEF Off, Runs
  <1>6. Rearmed = b
    BY DEF Rearmed, n, t
  <1>7. c = [Off EXCEPT !.phase = "run", !.attempt = run.attempt]
    BY DEF n
  <1> HIDE DEF a, b, c
  <1>8. Live(Off) /\ Live(a) /\ (Live(run) => Live(b) /\ Live(c))
    BY <1>1, <1>2, <1>3, <1>4, <1>5, LiveAtRest
  <1> QED  BY <1>6, <1>7, <1>8 DEF a

LEMMA LiveWaiting ==
    ASSUME NEW n \in 1 .. MaxFailures
    PROVE  Live([Off EXCEPT !.phase = "waiting", !.attempt = n])
  <1> DEFINE r == [Off EXCEPT !.phase = "waiting", !.attempt = n]
  <1>1. n \in 0 .. MaxFailures
    BY Names
  <1>2. r \in Runs /\ r.phase = "waiting" /\ r.attempt = n
    BY <1>1 DEF Off, Runs
  <1> HIDE DEF r
  <1>3. Live(r)
    BY <1>2 DEF Live
  <1> QED  BY <1>3 DEF r

LEMMA LiveActing ==
    ASSUME NEW r, Live(r), NEW w \in Driven, NEW j \in BOOLEAN, NEW t \in BOOLEAN,
           w = "finder" \/ r.attempt \in 1 .. MaxFailures
    PROVE  Live([r EXCEPT !.phase = "acting", !.rung = w, !.joined = j, !.tried = t])
  <1> DEFINE g == [r EXCEPT !.phase = "acting", !.rung = w, !.joined = j, !.tried = t]
  <1>1. g \in Runs /\ g.phase = "acting" /\ g.rung = w /\ g.attempt = r.attempt
    BY DEF Live, Runs, Driven, Rungs
  <1> HIDE DEF g
  <1>2. Live(g)
    BY <1>1 DEF Live
  <1> QED  BY <1>2 DEF g

LEMMA HandIs ==
    /\ Hand.place = place /\ Hand.party = party /\ Hand.lfg = lfg
    /\ Hand.ritual = ritual /\ Hand.queue = queue /\ Hand.slip = slip
  BY DEF Hand

LEMMA HandTypes ==
    ASSUME Steady(Hand)
    PROVE  /\ place \in [Chars -> Places] /\ party \in Parties
           /\ lfg \in {"none", "queued", "proposal", "dungeon"}
           /\ ritual \in Rituals /\ queue \in Seq(Statements)
           /\ slip \in {"none", "twice", "away"}
  <1>1. Hand \in Hands
    BY DEF Steady, Seats
  <1> QED  BY <1>1, HandFields, HandIs

LEMMA PutDownHand ==
    ASSUME NEW h, Steady(h), PutDown(h)
    PROVE  Steady(Hand') /\ ritual' = h.ritual
  <1>1. Hand' = h
    BY DEF Steady, Seats, Hands, Hand, PutDown
  <1> QED  BY <1>1 DEF PutDown

\* A step that changes neither the party nor the record.
LEMMA OtherSteady ==
    ASSUME Steady(Hand), place' \in [Chars -> Places],
           lfg' \in {"none", "queued", "proposal", "dungeon"}, queue' \in Seq(Statements),
           UNCHANGED <<party, ritual, slip>>
    PROVE  Steady(Hand')
  <1>1. Hand' \in Hands
    BY HandTypes DEF Hands, Hand
  <1>2. Hand'.party = Hand.party /\ Hand'.ritual = Hand.ritual /\ Hand'.slip = Hand.slip
    BY DEF Hand
  <1>3. Seats(Hand')
    BY <1>1, <1>2, SameSeats DEF Steady
  <1> QED  BY <1>2, <1>3 DEF Steady

LEMMA InitInvariant == Init => IInv
  <1> SUFFICES ASSUME Init PROVE IInv
    OBVIOUS
  <1>1. World /\ GuestHasAReason
    BY DEF Init, World, GuestHasAReason, NoRitual
  <1>2. Records
    BY Names DEF Init, Records
  <1>3. Live(run)
    BY LiveStates DEF Init
  <1>4. NoRitual \in Rituals /\ NoRitual.added = FALSE /\ NoRitual.out = Nobody
        /\ NoRitual.row = NoSource
    BY Names DEF NoRitual, Rituals
  <1>5. Hand \in Hands
    BY <1>4, FamilyParty DEF Init, Hand, Hands, Places
  <1>6. Seats(Hand)
    BY <1>4, <1>5, HandIs DEF Init, Seats, SeatKept
  <1> QED  BY <1>1, <1>2, <1>3, <1>4, <1>6, HandIs DEF Init, IInv, Steady, TriesLeft

LEMMA InvariantTypes == IInv => TypeOK
  <1> SUFFICES ASSUME IInv PROVE TypeOK
    OBVIOUS
  <1>1. /\ place \in [Chars -> Places] /\ party \in Parties
        /\ lfg \in {"none", "queued", "proposal", "dungeon"}
        /\ ritual \in Rituals /\ queue \in Seq(Statements)
        /\ slip \in {"none", "twice", "away"}
    BY HandTypes DEF IInv
  <1>2. \A i \in DOMAIN queue : queue[i] \in Statements
    BY <1>1
  <1>3. /\ \A i \in DOMAIN asks : asks[i] \in AskRows
        /\ \A i \in DOMAIN orders : orders[i] \in OrderRows
    BY DEF IInv, Records
  <1> QED  BY <1>1, <1>2, <1>3
        DEF IInv, World, Records, Live, Runs, TypeOK, Parties, Rituals, AskRows, OrderRows

LEMMA InvariantSeats == IInv => PartyIsTheFamily
  <1>1. Steady(Hand) => Seats(Hand)
    BY DEF Steady
  <1>2. Seats(Hand) => /\ Hand \in Hands
                       /\ ritual.added => ritual.summoner # Nobody
                       /\ SeatKept(party, ritual, slip)
    BY HandIs DEF Seats
  <1>3. Hand \in Hands => ritual.added \in BOOLEAN
    BY HandFields, HandIs
  <1> QED  BY <1>1, <1>2, <1>3 DEF IInv, PartyIsTheFamily, SeatKept

(***************************************************************************)
(* The coordinator's steps.                                                *)
(***************************************************************************)
\* Letting go of h: nobody is on its record, or the leader is away.
LEMMA LetsGo ==
    ASSUME NEW h, Steady(h), h.ritual.summoner # Nobody => Leader \notin online,
           PutDown(Forgotten(h))
    PROVE  Steady(Hand') /\ ritual'.summoner = Nobody
  <1>1. /\ Seats(Forgotten(h)) /\ Forgotten(h).ritual = NoRitual
        /\ NoRitual.row = NoSource /\ NoRitual.summoner = Nobody
    BY ForgottenSeats DEF Steady, NoRitual
  <1>2. Steady(Forgotten(h))
    BY <1>1 DEF Steady, TriesLeft
  <1> QED  BY <1>1, <1>2, PutDownHand

LEMMA PolledResults ==
    ASSUME IInv, run.phase = "acting", NEW o \in Polled(Hand)
    PROVE  /\ Outcome(o)
           /\ o.end = "inside" => run.rung = "finder"
           /\ run.rung # "summon" => o.h.ritual.summoner = Nobody
  <1>1. /\ online \subseteq Chars /\ run.rung \in Driven /\ Steady(Hand)
        /\ run.rung # "finder" => run.attempt \in 1 .. MaxFailures
        /\ run.joined \in BOOLEAN /\ Hand.ritual = ritual
        /\ run.rung # "summon" => ritual.summoner = Nobody
    BY HandIs DEF IInv, World, Live, Runs, GuestHasAReason
  <1>2. CASE run.rung = "walk"
    BY <1>1, <1>2, WalkResults DEF Polled
  <1>3. CASE run.rung = "wait"
    BY <1>1, <1>3, WaitResults DEF Polled
  <1>4. CASE run.rung = "hearth"
    BY <1>1, <1>4, HearthResults DEF Polled
  <1>5. CASE run.rung = "summon"
    BY <1>1, <1>5, SummonResults DEF Polled
  <1>6. CASE run.rung = "finder"
    BY <1>1, <1>6, FinderResults DEF Polled
  <1> QED  BY <1>1, <1>2, <1>3, <1>4, <1>5, <1>6 DEF Driven

LEMMA RungEndsKeeps ==
    ASSUME IInv, run.phase = "acting", NEW h, Steady(h),
           run.rung # "summon" => h.ritual.summoner = Nobody, RungEnds(h)
    PROVE  Live(run') /\ Steady(Hand') /\ GuestHasAReason'
  <1>1. Live(run) /\ online \subseteq Chars
    BY DEF IInv, World
  <1>2. CASE run.rung = "hearth"
    <2>1. PutDown(h) /\ run' = [run EXCEPT !.rung = "walk"] /\ ritual'.summoner = Nobody
      BY <1>2, PutDownHand DEF RungEnds
    <2>2. run' \in Runs /\ run'.phase = "acting" /\ run'.rung = "walk"
          /\ run'.attempt = run.attempt
      BY <1>1, <2>1 DEF Live, Runs, Rungs
    <2>3. Live(run')
      BY <1>1, <1>2, <2>2 DEF Live, Driven
    <2> QED  BY <2>1, <2>3, PutDownHand DEF GuestHasAReason
  <1>3. CASE run.rung # "hearth"
    <2> DEFINE g == IF run.rung = "summon" THEN Restored(h)
                    ELSE IF run.rung = "finder" THEN OutOfTheQueue(h) ELSE h
    <2>1. PutDown(Forgotten(g)) /\ run' = Rearmed
      BY <1>3 DEF RungEnds
    <2>2. Steady(g) /\ (g.ritual.summoner # Nobody => Leader \notin online)
      BY <1>1, RestoredSteady, OutOfTheQueueSteady
    <2> HIDE DEF g
    <2>3. Steady(Hand') /\ ritual'.summoner = Nobody
      BY <2>1, <2>2, LetsGo
    <2> QED  BY <1>1, <2>1, <2>3, LiveStates DEF GuestHasAReason
  <1> QED  BY <1>2, <1>3

LEMMA RunInsideKeeps ==
    ASSUME IInv, NEW h, Steady(h), h.ritual.summoner = Nobody, RunInside(h)
    PROVE  Live(run') /\ Steady(Hand') /\ GuestHasAReason'
  <1>1. /\ PutDown(Forgotten(h))
        /\ run' = [Off EXCEPT !.phase = "run", !.attempt = run.attempt]
    BY DEF RunInside
  <1>2. Steady(Hand') /\ ritual'.summoner = Nobody
    BY <1>1, LetsGo
  <1> QED  BY <1>1, <1>2, LiveStates DEF IInv, GuestHasAReason

\* What the coordinator's polls leave of the rest.
LEMMA CoordinatorRest ==
    ASSUME IInv, UNCHANGED <<online, fighting, asks, orders, streak, failures>>,
           mishaps' \in 0 .. MaxMishaps,
           Live(run'), Steady(Hand'), GuestHasAReason'
    PROVE  IInv'
  BY DEF IInv, World, Records

LEMMA PollKeeps == IInv /\ Poll => IInv'
  <1> SUFFICES ASSUME IInv, Poll PROVE IInv'
    OBVIOUS
  <1>1. PICK o \in Polled(Hand) :
           CASE o.end = "no" -> PutDown(o.h) /\ run' = [run EXCEPT !.joined = o.joined]
             [] o.end = "over" -> RungEnds(o.h)
             [] o.end = "inside" -> RunInside(o.h)
    BY DEF Poll
  <1>2. /\ run.phase = "acting" /\ Live(run)
        /\ UNCHANGED <<online, fighting, asks, orders, streak, failures>>
        /\ mishaps' \in 0 .. MaxMishaps
    BY DEF IInv, Records, Poll, spent
  <1>3. /\ Steady(o.h) /\ o.end \in {"no", "over", "inside"} /\ o.joined \in BOOLEAN
        /\ o.end = "inside" => run.rung = "finder"
        /\ run.rung # "summon" => o.h.ritual.summoner = Nobody
    BY <1>2, PolledResults DEF Outcome, Ends
  <1>4. Live(run') /\ Steady(Hand') /\ GuestHasAReason'
    <2>1. CASE o.end = "no"
      <3>1. PutDown(o.h) /\ run' = [run EXCEPT !.joined = o.joined]
        BY <1>1, <2>1
      <3>2. run' \in Runs /\ run'.phase = "acting" /\ run'.rung = run.rung
            /\ run'.attempt = run.attempt
        BY <1>2, <1>3, <3>1 DEF Live, Runs
      <3>3. Live(run')
        BY <1>2, <3>2 DEF Live
      <3>4. Steady(Hand') /\ ritual' = o.h.ritual
        BY <1>3, <3>1, PutDownHand
      <3> QED  BY <1>3, <3>2, <3>3, <3>4 DEF GuestHasAReason
    <2>2. CASE o.end = "over"
      <3>1. RungEnds(o.h)
        BY <1>1, <2>2
      <3> QED  BY <1>2, <1>3, <3>1, RungEndsKeeps
    <2>3. CASE o.end = "inside"
      <3>1. RunInside(o.h)
        BY <1>1, <2>3
      <3> QED  BY <1>3, <2>3, <3>1, RunInsideKeeps
    <2> QED  BY <1>3, <2>1, <2>2, <2>3
  <1> QED  BY <1>2, <1>4, CoordinatorRest

LEMMA PollLateKeeps == IInv /\ PollLate => IInv'
  <1> SUFFICES ASSUME IInv, PollLate PROVE IInv'
    OBVIOUS
  <1>1. PICK o \in IF run.rung = "finder" THEN FinderLate(Hand) ELSE Polled(Hand) :
           IF o.end = "inside" THEN RunInside(o.h) ELSE RungEnds(o.h)
    BY DEF PollLate
  <1>2. /\ run.phase = "acting" /\ Live(run) /\ run.joined \in BOOLEAN /\ Steady(Hand)
        /\ UNCHANGED <<online, fighting, asks, orders, streak, failures>>
        /\ mishaps' \in 0 .. MaxMishaps
    BY DEF IInv, Records, PollLate, spent, Live, Runs
  <1>3. /\ Steady(o.h)
        /\ o.end = "inside" => run.rung = "finder"
        /\ run.rung # "summon" => o.h.ritual.summoner = Nobody
    <2>1. CASE run.rung = "finder"
      <3>1. o \in FinderPoll(Hand) \cup FinderLate(Hand)
        BY <1>1, <2>1
      <3>2. Outcome(o) /\ o.h.ritual = Hand.ritual
        BY <1>2, <3>1, FinderResults
      <3> QED  BY <2>1, <3>2, HandIs DEF Outcome, IInv, GuestHasAReason
    <2>2. CASE run.rung # "finder"
      <3>1. o \in Polled(Hand)
        BY <1>1, <2>2
      <3> QED  BY <1>2, <3>1, PolledResults DEF Outcome
    <2> QED  BY <2>1, <2>2
  <1>4. Live(run') /\ Steady(Hand') /\ GuestHasAReason'
    <2>1. CASE o.end = "inside"
      <3>1. RunInside(o.h)
        BY <1>1, <2>1
      <3> QED  BY <1>3, <2>1, <3>1, RunInsideKeeps
    <2>2. CASE o.end # "inside"
      <3>1. RungEnds(o.h)
        BY <1>1, <2>2
      <3> QED  BY <1>2, <1>3, <3>1, RungEndsKeeps
    <2> QED  BY <2>1, <2>2
  <1> QED  BY <1>2, <1>4, CoordinatorRest

LEMMA GivenUpKeeps ==
    ASSUME IInv, NEW next, Live(next), next.phase # "acting", GivenUp(next)
    PROVE  IInv'
  <1> DEFINE h == IF run.rung = "summon" THEN Restored(Hand) ELSE Hand
  <1>1. /\ mishaps < MaxMishaps /\ mishaps' = mishaps + 1
        /\ PutDown(Forgotten(h)) /\ run' = next
        /\ UNCHANGED <<online, fighting, asks, orders, streak, failures>>
    BY DEF GivenUp
  <1>2. online \subseteq Chars /\ Steady(Hand) /\ Hand.ritual = ritual
        /\ (ritual.summoner # Nobody => run.rung = "summon")
    BY HandIs DEF IInv, World, GuestHasAReason
  <1>3. Steady(h) /\ (h.ritual.summoner # Nobody => Leader \notin online)
    BY <1>2, RestoredSteady
  <1> HIDE DEF h
  <1>4. Steady(Hand') /\ ritual'.summoner = Nobody
    BY <1>1, <1>3, LetsGo
  <1>5. mishaps' \in 0 .. MaxMishaps
    BY <1>1, Names DEF IInv, Records
  <1>6. Live(run') /\ GuestHasAReason'
    BY <1>1, <1>4 DEF GuestHasAReason
  <1> QED  BY <1>1, <1>4, <1>5, <1>6, CoordinatorRest

LEMMA GivenUpsKeep == IInv /\ (JobChanged \/ Backstop) => IInv'
  <1>1. Off.phase # "acting" /\ Rearmed.phase # "acting"
    BY DEF Off, Rearmed
  <1>2. IInv => Live(Off) /\ Live(Rearmed)
    BY LiveStates DEF IInv
  <1> QED  BY <1>1, <1>2, GivenUpKeeps DEF JobChanged, Backstop

LEMMA ChooseKeeps == IInv /\ Choose => IInv'
  <1> SUFFICES ASSUME IInv, Choose PROVE IInv'
    OBVIOUS
  <1> DEFINE s == Applied(run.attempt)
             h == Forgotten(Hand)
             g == [h EXCEPT !.queue = Append(@, s)]
  <1>1. PICK r \in Rungs :
           /\ PutDown(g)
           /\ run' = CASE r = "town" -> Off
                       [] r = "rearm" -> Rearmed
                       [] OTHER -> [run EXCEPT !.phase = "acting", !.rung = r,
                                               !.joined = FALSE]
    BY DEF Choose
  <1>2. /\ UNCHANGED <<online, fighting, asks, orders, streak, failures>>
        /\ mishaps' \in 0 .. MaxMishaps /\ run.attempt \in 1 .. MaxFailures
        /\ Live(run) /\ Steady(Hand) /\ Hand.ritual = ritual /\ ritual.summoner = Nobody
    BY HandIs DEF IInv, Records, Choose, spent, Live, GuestHasAReason
  <1>3. s \in Statements
    BY <1>2 DEF Applied, Statements
  <1>4. Seats(h) /\ h.ritual = NoRitual
    BY <1>2, ForgottenSeats DEF Steady
  <1> HIDE DEF s, h
  <1>5. Seats(g) /\ g.ritual = NoRitual
    BY <1>3, <1>4, QueueSeats
  <1> HIDE DEF g
  <1>6. NoRitual.row = NoSource /\ NoRitual.summoner = Nobody
    BY DEF NoRitual
  <1>7. Steady(g)
    BY <1>5, <1>6 DEF Steady, TriesLeft
  <1>8. Steady(Hand') /\ ritual' = NoRitual
    BY <1>1, <1>5, <1>7, PutDownHand
  <1>9. Live(run')
    <2>1. CASE r \in {"town", "rearm"}
      BY <1>1, <1>2, <2>1, LiveStates
    <2>2. CASE r \notin {"town", "rearm"}
      <3>1. run' = [run EXCEPT !.phase = "acting", !.rung = r, !.joined = FALSE]
        BY <1>1, <2>2
      <3>2. /\ run' \in Runs /\ run'.phase = "acting" /\ run'.rung = r
            /\ run'.attempt = run.attempt
        BY <1>2, <3>1 DEF Live, Runs
      <3>3. r \in Driven
        BY <2>2 DEF Rungs, Driven
      <3> QED  BY <1>2, <3>2, <3>3 DEF Live
    <2> QED  BY <2>1, <2>2
  <1>10. GuestHasAReason'
    BY <1>6, <1>8 DEF GuestHasAReason
  <1> QED  BY <1>2, <1>8, <1>9, <1>10, CoordinatorRest

LEMMA FailKeeps ==
    ASSUME IInv, NEW entered \in BOOLEAN, Fail(entered)
    PROVE  IInv'
  <1> DEFINE n == IF entered THEN 1 ELSE streak + 1
             r == [Off EXCEPT !.phase = "waiting", !.attempt = n]
  <1>1. /\ failures < MaxFailures /\ failures' = failures + 1 /\ streak' = n
        /\ run' = r /\ queue' = Append(queue, Asked(n)) /\ run.phase = "run"
        /\ place' = [c \in Chars |-> IF place[c] = "inside" THEN "away" ELSE place[c]]
        /\ lfg' = IF lfg = "dungeon" THEN "none" ELSE lfg
        /\ UNCHANGED <<online, fighting, party, ritual, asks, orders, mishaps, slip>>
    BY DEF Fail
  <1>2. n \in 1 .. MaxFailures /\ n <= failures + 1 /\ failures + 1 \in 0 .. MaxFailures
        /\ n \in 0 .. MaxFailures
    BY <1>1, Names DEF IInv, Records
  <1>3. /\ Steady(Hand) /\ place \in [Chars -> Places] /\ queue \in Seq(Statements)
        /\ lfg \in {"none", "queued", "proposal", "dungeon"}
    BY HandTypes DEF IInv
  <1>4. Live(r)
    BY <1>2, LiveWaiting
  <1> HIDE DEF n, r
  <1>5. Asked(n) \in Statements
    BY <1>2 DEF Asked, Statements
  <1>6. /\ place' \in [Chars -> Places] /\ queue' \in Seq(Statements)
        /\ lfg' \in {"none", "queued", "proposal", "dungeon"}
    BY <1>1, <1>3, <1>5, AppendProperties DEF Places
  <1>7. Steady(Hand')
    BY <1>1, <1>3, <1>6, OtherSteady
  <1>8. GuestHasAReason'
    BY <1>1 DEF IInv, GuestHasAReason
  <1>9. Records' /\ World'
    BY <1>1, <1>2 DEF IInv, Records, World
  <1> QED  BY <1>1, <1>4, <1>7, <1>8, <1>9 DEF IInv

LEMMA IdleKeeps == IInv /\ Idle => IInv'
  <1> SUFFICES ASSUME IInv, Idle PROVE IInv'
    OBVIOUS
  <1> DEFINE unapplied == asks # <<>> /\ ~ asks[Len(asks)].applied
             n == IF unapplied THEN asks[Len(asks)].attempt ELSE streak
             w == [Off EXCEPT !.phase = "waiting", !.attempt = n]
             a == [Off EXCEPT !.phase = "run"]
  <1>1. /\ asks \in Seq(AskRows) /\ streak \in 0 .. MaxFailures
        /\ Steady(Hand) /\ place \in [Chars -> Places] /\ queue \in Seq(Statements)
        /\ lfg \in {"none", "queued", "proposal", "dungeon"}
    BY HandTypes DEF IInv, Records
  <1>2. asks # <<>> => asks[Len(asks)] \in AskRows
    BY <1>1
  <1>3. \/ run' = w /\ n \in 1 .. MaxFailures /\ queue' \in {queue, Append(queue, Asked(n))}
        \/ run' = a /\ queue' = queue
    <2>1. CASE unapplied
      <3>1. run' = w /\ queue' = queue
        BY <2>1 DEF Idle
      <3>2. n \in 1 .. MaxFailures
        BY <1>2, <2>1 DEF AskRows
      <3> QED  BY <3>1, <3>2
    <2>2. CASE ~ unapplied
      <3>1. \/ run' = w /\ streak > 0 /\ queue' = Append(queue, Asked(n))
            \/ run' = a /\ queue' = queue
        BY <2>2 DEF Idle
      <3>2. streak > 0 => n \in 1 .. MaxFailures
        BY <1>1, <2>2, Names
      <3> QED  BY <3>1, <3>2
    <2> QED  BY <2>1, <2>2
  <1>4. n \in 1 .. MaxFailures => Live(w)
    BY LiveWaiting
  <1>5. n \in 1 .. MaxFailures => Asked(n) \in Statements
    BY DEF Asked, Statements
  <1>10. Live(a)
    BY LiveStates
  <1> HIDE DEF n, w, a
  <1>11. Live(run')
    BY <1>3, <1>4, <1>10
  <1>12. queue' \in Seq(Statements)
    BY <1>1, <1>3, <1>5, AppendProperties
  <1>6. Live(run') /\ queue' \in Seq(Statements)
    BY <1>11, <1>12
  <1>7. Steady(Hand')
    BY <1>1, <1>6, OtherSteady DEF Idle, world
  <1>8. GuestHasAReason'
    BY DEF IInv, GuestHasAReason, Idle
  <1>9. Records' /\ World'
    BY DEF IInv, Records, World, Idle, world, spent
  <1> QED  BY <1>6, <1>7, <1>8, <1>9 DEF IInv

LEMMA FinderFirstKeeps == IInv /\ FinderFirst => IInv'
  <1> SUFFICES ASSUME IInv, FinderFirst PROVE IInv'
    OBVIOUS
  <1>1. /\ Steady(Hand) /\ place \in [Chars -> Places] /\ queue \in Seq(Statements)
        /\ lfg \in {"none", "queued", "proposal", "dungeon"}
    BY HandTypes DEF IInv
  <1>2. run' \in Runs /\ run'.phase = "acting" /\ run'.rung = "finder"
    BY DEF IInv, Live, Runs, FinderFirst, Rungs
  <1>3. Live(run')
    BY <1>2 DEF Live, Driven
  <1>4. Steady(Hand')
    BY <1>1, OtherSteady DEF FinderFirst, world
  <1>5. GuestHasAReason' /\ Records' /\ World'
    BY DEF IInv, GuestHasAReason, Records, World, FinderFirst, world, spent
  <1> QED  BY <1>3, <1>4, <1>5 DEF IInv

LEMMA CoordinatorKeeps == IInv /\ Coordinator => IInv'
  BY FailKeeps, IdleKeeps, FinderFirstKeeps, ChooseKeeps, PollKeeps, PollLateKeeps,
     GivenUpsKeep DEF Coordinator

(***************************************************************************)
(* The steps around it.                                                    *)
(***************************************************************************)
\* Rows that are rewritten in place.
LEMMA SameLength ==
    ASSUME NEW S, NEW s \in Seq(S), NEW f, DOMAIN f = DOMAIN s,
           f = [i \in DOMAIN s |-> f[i]], \A i \in DOMAIN s : f[i] \in S
    PROVE  f \in Seq(S)
  <1>1. Len(s) \in Nat /\ DOMAIN s = 1 .. Len(s)
    BY LenProperties
  <1>2. f \in [1 .. Len(s) -> S]
    BY <1>1
  <1> QED  BY <1>1, <1>2, SeqDef

LEMMA StatementKeeps == IInv /\ Statement => IInv'
  <1> SUFFICES ASSUME IInv, Statement PROVE IInv'
    OBVIOUS
  <1> DEFINE q == Head(queue)
  <1>1. /\ Steady(Hand) /\ place \in [Chars -> Places] /\ queue \in Seq(Statements)
        /\ lfg \in {"none", "queued", "proposal", "dungeon"}
        /\ asks \in Seq(AskRows) /\ orders \in Seq(OrderRows)
    BY HandTypes DEF IInv, Records
  <1>2. q \in Statements /\ queue' \in Seq(Statements)
    BY <1>1, HeadTailProperties DEF Statement
  <1>3. asks' \in Seq(AskRows) /\ orders' \in Seq(OrderRows)
    <2>1. CASE /\ q.is = "ask" /\ UNCHANGED orders
               /\ asks' = Append(asks, [attempt |-> q.attempt, applied |-> FALSE])
      <3>1. [attempt |-> q.attempt, applied |-> FALSE] \in AskRows
        BY <1>2, <2>1 DEF Statements, AskRows
      <3> QED  BY <1>1, <2>1, <3>1, AppendProperties
    <2>2. CASE /\ q.is = "applied" /\ UNCHANGED orders
               /\ asks' = [i \in DOMAIN asks |->
                             IF asks[i].attempt = q.attempt
                             THEN [asks[i] EXCEPT !.applied = TRUE] ELSE asks[i]]
      <3>1. \A i \in DOMAIN asks : asks[i] \in AskRows
        BY <1>1
      <3>2. \A i \in DOMAIN asks : asks'[i] \in AskRows
        BY <2>2, <3>1 DEF AskRows
      <3>3. DOMAIN asks' = DOMAIN asks /\ asks' = [i \in DOMAIN asks |-> asks'[i]]
        BY <2>2
      <3>4. asks' \in Seq(AskRows)
        BY <1>1, <3>2, <3>3, SameLength
      <3> QED  BY <1>1, <2>2, <3>4
    <2>3. CASE /\ q.is = "order" /\ UNCHANGED asks
               /\ orders' = Append(orders, [source |-> q.source, who |-> q.who,
                                            helper |-> q.helper, stage |-> "pending"])
      <3>1. [source |-> q.source, who |-> q.who, helper |-> q.helper,
             stage |-> "pending"] \in OrderRows
        BY <1>2, <2>3 DEF Statements, OrderRows, Stages
      <3> QED  BY <1>1, <2>3, <3>1, AppendProperties
    <2> QED  BY <2>1, <2>2, <2>3 DEF Statement
  <1>4. Steady(Hand')
    BY <1>1, <1>2, OtherSteady DEF Statement, world
  <1>5. GuestHasAReason' /\ World' /\ Live(run')
    BY DEF IInv, GuestHasAReason, World, Statement, world
  <1>6. Records'
    BY <1>3 DEF IInv, Records, Statement, spent
  <1> QED  BY <1>4, <1>5, <1>6 DEF IInv

LEMMA VerbKeeps == IInv /\ Verb => IInv'
  <1> SUFFICES ASSUME IInv, Verb PROVE IInv'
    OBVIOUS
  <1>1. PICK i \in DOMAIN orders : Begin(i) \/ Walk(i) \/ Click(i) \/ Settle(i)
    BY DEF Verb
  <1>2. /\ Steady(Hand) /\ place \in [Chars -> Places] /\ queue \in Seq(Statements)
        /\ lfg \in {"none", "queued", "proposal", "dungeon"}
        /\ orders \in Seq(OrderRows)
    BY HandTypes DEF IInv, Records
  <1>3. PICK s \in Stages : ToStage(i, s) /\ place' \in [Chars -> Places]
    <2>1. orders[i] \in OrderRows
      BY <1>2
    <2>2. CASE Begin(i) \/ Walk(i) \/ Click(i)
      BY <1>2, <2>2 DEF Begin, Walk, Click, Stages
    <2>3. CASE Settle(i)
      BY <1>2, <2>1, <2>3 DEF Settle, Stages, OrderRows
    <2> QED  BY <1>1, <2>2, <2>3
  <1>4. /\ orders' = [orders EXCEPT ![i].stage = s]
        /\ UNCHANGED <<online, fighting, party, lfg, ritual, queue, slip,
                       run, asks, streak, failures, mishaps>>
    BY <1>3 DEF ToStage, spent
  <1>5. orders' \in Seq(OrderRows)
    <2> DEFINE e == [orders[i] EXCEPT !.stage = s]
    <2>4. orders[i] \in OrderRows
      BY <1>2
    <2>1. e \in OrderRows
      BY <2>4 DEF OrderRows
    <2>2. orders' = [orders EXCEPT ![i] = e]
      BY <1>4
    <2> HIDE DEF e
    <2>3. i \in 1 .. Len(orders)
      BY <1>2, LenProperties
    <2> QED  BY <1>2, <2>1, <2>2, <2>3, ExceptSeq
  <1>6. Steady(Hand')
    BY <1>2, <1>3, <1>4, OtherSteady
  <1>7. GuestHasAReason' /\ World' /\ Live(run') /\ Records'
    BY <1>4, <1>5 DEF IInv, GuestHasAReason, World, Records
  <1> QED  BY <1>6, <1>7 DEF IInv

LEMMA KeepFamilyGroupedKeeps == IInv /\ KeepFamilyGrouped => IInv'
  <1> SUFFICES ASSUME IInv, KeepFamilyGrouped PROVE IInv'
    OBVIOUS
  <1>1. PICK c \in (Family \cap online) \ party : ~ Full(party) /\ party' = party \cup {c}
    BY DEF KeepFamilyGrouped
  <1>2. UNCHANGED <<online, fighting, place, lfg, ritual, queue, slip, run, asks, orders,
                    streak, failures, mishaps>>
    BY DEF KeepFamilyGrouped, world, spent
  <1>3. Steady(Hand) /\ party \in Parties
    BY HandTypes DEF IInv
  <1>4. party' \in Parties /\ c \in Family
    BY <1>1, <1>3, JoinParty, Names
  <1>5. Hand' = [Hand EXCEPT !.party = party \cup {c}]
    BY <1>1, <1>2 DEF Hand
  <1>6. Hand' \in Hands
    BY <1>2, <1>3, <1>4, HandTypes DEF Hand, Hands
  \* A family short of nobody has no room, and a guest fills the place he takes.
  <1>7. slip # "none"
    <2>1. SUFFICES ASSUME slip = "none" PROVE FALSE
      OBVIOUS
    <2>2. SeatKept(party, ritual, slip) /\ ritual.added \in BOOLEAN
          /\ ritual.out \in (Family \ {Leader}) \cup {Nobody}
      BY <1>3, HandTypes, HandIs DEF Steady, Seats, Rituals
    <2>3. CASE ritual.added
      <3>1. ritual.out \in Family /\ party = (Family \ {ritual.out}) \cup {Guest}
        BY <2>1, <2>2, <2>3 DEF SeatKept
      <3> QED  BY <1>1, <3>1, SwappedParty
    <2>4. CASE ~ ritual.added
      <3>1. party = Family
        BY <2>1, <2>2, <2>4 DEF SeatKept
      <3> QED  BY <1>1, <3>1
    <2> QED  BY <2>2, <2>3, <2>4
  <1>8. Steady(Hand')
    <2>1. /\ Hand'.ritual = Hand.ritual /\ Hand'.slip # "none"
      BY <1>2, <1>7, HandIs DEF Hand
    <2> QED  BY <1>3, <1>6, <2>1 DEF Steady, Seats, SeatKept
  <1>9. GuestHasAReason' /\ World' /\ Live(run') /\ Records'
    BY <1>2 DEF IInv, GuestHasAReason, World, Records
  <1> QED  BY <1>8, <1>9 DEF IInv

LEMMA EnvironmentKeeps == IInv /\ Environment => IInv'
  <1> SUFFICES ASSUME IInv, Environment PROVE IInv'
    OBVIOUS
  <1>1. /\ Steady(Hand) /\ place \in [Chars -> Places] /\ queue \in Seq(Statements)
        /\ lfg \in {"none", "queued", "proposal", "dungeon"}
    BY HandTypes DEF IInv
  <1>2. /\ online' \subseteq Chars /\ fighting' \subseteq Chars
        /\ mishaps' \in 0 .. MaxMishaps
        /\ place' \in [Chars -> Places]
        /\ lfg' \in {"none", "queued", "proposal", "dungeon"}
        /\ UNCHANGED <<party, ritual, queue, slip, run, asks, orders, streak, failures>>
    <2>1. CASE /\ \E c \in Chars : LogOff(c) \/ LogOn(c) \/ Fight(c) \/ Calm(c)
               /\ UNCHANGED <<hands, run, asks, orders, streak, failures>>
      <3>1. PICK c \in Chars : LogOff(c) \/ LogOn(c) \/ Fight(c) \/ Calm(c)
        BY <2>1
      <3>2. online' \subseteq Chars /\ fighting' \subseteq Chars
        BY <3>1 DEF IInv, World, LogOff, LogOn, Fight, Calm
      <3>3. mishaps' \in 0 .. MaxMishaps
        <4>1. mishaps' = mishaps \/ (mishaps < MaxMishaps /\ mishaps' = mishaps + 1)
          BY <3>1 DEF LogOff, LogOn, Fight, Calm
        <4> QED  BY <4>1, Names DEF IInv, Records
      <3> QED  BY <1>1, <2>1, <3>2, <3>3 DEF hands
    <2>2. CASE \E c \in Family \ {Leader} : Follow(c)
      BY <1>1, <2>2 DEF Follow, Places, spent, IInv, World, Records
    <2>3. CASE FinderMoves
      <3>1. lfg' \in {"none", "proposal"}
        BY <2>3 DEF FinderMoves
      <3> QED  BY <1>1, <2>3, <3>1 DEF FinderMoves, world, spent, IInv, World, Records
    <2> QED  BY <2>1, <2>2, <2>3 DEF Environment
  <1>3. Steady(Hand')
    BY <1>1, <1>2, OtherSteady
  <1>4. GuestHasAReason' /\ World' /\ Live(run') /\ Records'
    BY <1>2 DEF IInv, GuestHasAReason, World, Records
  <1> QED  BY <1>3, <1>4 DEF IInv

LEMMA RestartKeeps == IInv /\ Restart => IInv'
  <1> SUFFICES ASSUME IInv, Restart PROVE IInv'
    OBVIOUS
  <1>1. /\ Steady(Hand) /\ place \in [Chars -> Places] /\ party \in Parties
        /\ ritual \in Rituals /\ slip \in {"none", "twice", "away"}
        /\ orders \in Seq(OrderRows)
    BY HandTypes DEF IInv, Records
  <1>2. /\ mishaps < MaxMishaps /\ mishaps' = mishaps + 1
        /\ run' = Off /\ lfg' = "none" /\ queue' = <<>> /\ ritual' = NoRitual
        /\ slip' = IF ritual.summoner # Nobody THEN "away" ELSE slip
        /\ UNCHANGED <<online, fighting, place, party, asks, streak, failures>>
    BY DEF Restart, world
  <1>3. /\ NoRitual \in Rituals /\ NoRitual.summoner = Nobody /\ NoRitual.out = Nobody
        /\ NoRitual.added = FALSE /\ NoRitual.row = NoSource
    BY Names DEF NoRitual, Rituals
  <1>4. slip' = "none" => party = Family
    BY <1>1, <1>2, InvariantSeats DEF PartyIsTheFamily
  <1>5. Hand' \in Hands /\ Hand'.ritual = NoRitual /\ Hand'.party = party
        /\ Hand'.slip = slip'
    BY <1>1, <1>2, <1>3, EmptySeq DEF Hand, Hands
  <1>6. Steady(Hand')
    BY <1>3, <1>4, <1>5 DEF Steady, Seats, SeatKept, TriesLeft
  <1>7. orders' \in Seq(OrderRows)
    <2>1. \A i \in DOMAIN orders : orders[i] \in OrderRows
      BY <1>1
    <2>2. /\ orders' = [i \in DOMAIN orders |->
                          IF orders[i].stage \in {"walking", "clicking", "settling"}
                          THEN [orders[i] EXCEPT !.stage = "done"] ELSE orders[i]]
      BY DEF Restart
    <2>3. \A i \in DOMAIN orders : orders'[i] \in OrderRows
      BY <2>1, <2>2 DEF OrderRows, Stages
    <2>4. DOMAIN orders' = DOMAIN orders /\ orders' = [i \in DOMAIN orders |-> orders'[i]]
      BY <2>2
    <2> QED  BY <1>1, <2>3, <2>4, SameLength
  <1>8. mishaps' \in 0 .. MaxMishaps
    BY <1>2, Names DEF IInv, Records
  <1>9. Records' /\ World'
    BY <1>2, <1>7, <1>8 DEF IInv, Records, World
  <1>10. Live(run') /\ GuestHasAReason'
    BY <1>2, <1>3, LiveStates DEF GuestHasAReason
  <1> QED  BY <1>6, <1>9, <1>10 DEF IInv

LEMMA NextKeeps == IInv /\ [Next]_vars => IInv'
  <1>1. IInv /\ UNCHANGED vars => IInv'
    BY DEF IInv, World, Records, GuestHasAReason, Hand, vars, hands, spent
  <1> QED  BY <1>1, CoordinatorKeeps, VerbKeeps, KeepFamilyGroupedKeeps, EnvironmentKeeps,
              StatementKeeps, RestartKeeps DEF Next

LEMMA Invariance == Spec => []IInv
  BY InitInvariant, NextKeeps, PTL DEF Spec

(***************************************************************************)
(* The theorems.                                                           *)
(***************************************************************************)
\* Every variable keeps its type: a party is never larger than the family and
\* never without its leader, no member is summoned more often than he may be,
\* and every row and statement names an attempt that failed.
THEOREM RecoveryTypes == Spec => []TypeOK
  BY Invariance, InvariantTypes, PTL

\* The guest leaves (RestoreRitualSummoner): whatever ended the summon, once no
\* guest is on record the party is the family again, unless somebody was away,
\* the server was restarted, or a summoner was seated twice.
THEOREM GuestGivesHisSeatBack == Spec => []PartyIsTheFamily
  BY Invariance, InvariantSeats, PTL

=============================================================================
