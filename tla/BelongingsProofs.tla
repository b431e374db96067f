--------------------------- MODULE BelongingsProofs ---------------------------
(***************************************************************************)
(* What TLAPS proves of Belongings for any number of characters, pieces,   *)
(* orders and faults.                                                      *)
(***************************************************************************)
EXTENDS Belongings, FiniteSetTheorems, TLAPS

(***************************************************************************)
(* Places, and the records the verbs answer with.                          *)
(***************************************************************************)
LEMMA PlaceTypes ==
    /\ \A c \in Chars, at \in Somewhere : In(at, c) \in Places
    /\ Shop \in Places /\ Vault \in Places /\ Gone \in Places
    /\ In("vaultstack", NoOne) \in Places
  BY DEF Places, In, Shop, Vault, Gone, Somewhere, Owned

LEMMA PlaceFields ==
    ASSUME NEW at, NEW c
    PROVE  In(at, c).at = at /\ In(at, c).of = c
  BY DEF In

LEMMA LandsTypes ==
    ASSUME NEW i \in Items, NEW c \in Chars
    PROVE  /\ Lands(i, "bags", c) \subseteq Places
           /\ Lands(i, "bank", c) \subseteq Places
           /\ Lands(i, "vault", NoOne) \subseteq Places
           /\ PlaceItemOn(c, i) \subseteq Places
  <1>1. /\ In("bags", c) \in Places /\ In("bank", c) \in Places /\ In("worn", c) \in Places
        /\ In("stack", c) \in Places /\ In("bankstack", c) \in Places
        /\ In("vault", NoOne) \in Places /\ In("vaultstack", NoOne) \in Places
    BY PlaceTypes DEF Somewhere, Owned, Vault
  <1>2. /\ MergedIn["bags"] = "stack" /\ MergedIn["bank"] = "bankstack"
        /\ MergedIn["vault"] = "vaultstack"
    BY DEF MergedIn
  <1> QED  BY <1>1, <1>2 DEF Lands, PlaceItemOn

\* Where a piece may land, spelled out.
LEMMA LandsAt ==
    ASSUME NEW i, NEW c
    PROVE  /\ \A new \in Lands(i, "bags", c) :
                 new = In("bags", c) \/ (i \in Stacks /\ new = In("stack", c))
           /\ \A new \in Lands(i, "bank", c) :
                 new = In("bank", c) \/ (i \in Stacks /\ new = In("bankstack", c))
           /\ \A new \in Lands(i, "vault", c) :
                 new = In("vault", c) \/ (i \in Stacks /\ new = In("vaultstack", c))
           /\ \A new \in PlaceItemOn(c, i) :
                 \/ new = In("bags", c)
                 \/ i \in Stacks /\ new = In("stack", c)
                 \/ i \in Bags /\ new = In("worn", c)
  <1>1. /\ MergedIn["bags"] = "stack" /\ MergedIn["bank"] = "bankstack"
        /\ MergedIn["vault"] = "vaultstack"
    BY DEF MergedIn
  <1> QED  BY <1>1 DEF Lands, PlaceItemOn

LEMMA MovedType ==
    ASSUME TypeOK, NEW i \in Items, NEW new \in Places
    PROVE  /\ Moved(i, new) \in [Items -> Places]
           /\ Moved(i, new)[i] = new
           /\ \A j \in Items : j # i => Moved(i, new)[j] = place[j]
           /\ new = place[i] => Moved(i, new) = place
  BY DEF Moved, TypeOK

LEMMA SaidType ==
    ASSUME TypeOK, NEW verb \in Verbs, NEW c \in Chars, NEW d \in Chars \cup {NoOne},
           NEW i \in Items, NEW status \in Statuses
    PROVE  /\ Said(verb, c, d, i, status) \in Answers
           /\ \A b \in Items : [Said(verb, c, d, i, status) EXCEPT !.spare = b] \in Answers
           /\ \A l \in Items \cup {NoItem, Older} :
                 [Said(verb, c, d, i, status) EXCEPT !.letter = l] \in Answers
  BY DEF Said, Answers, TypeOK

\* One row of a verb whose piece moves: the state stays in its types.
LEMMA RowType ==
    ASSUME TypeOK, NEW c \in Chars, Ordered(c),
           place' \in [Items -> Places], answer' \in Answers, orders' = orders + 1,
           held' \subseteq Chars \X Chars \X Items
    PROVE  TypeOK'
  BY BelongingsAssumption DEF TypeOK, Ordered, people, reservations, bounds

LEMMA DoneType ==
    ASSUME TypeOK, NEW verb \in Verbs, NEW c \in Chars, NEW d \in Chars \cup {NoOne},
           NEW i \in Items, NEW new \in Places, NEW status \in Statuses,
           Ordered(c), Done(verb, c, d, i, Moved(i, new), status)
    PROVE  TypeOK'
  <1>1. place' \in [Items -> Places] /\ answer' \in Answers
    BY MovedType, SaidType DEF Done
  <1> QED  BY <1>1, RowType DEF Done, TypeOK

LEMMA WalledType ==
    ASSUME TypeOK, NEW c \in Chars, Ordered(c), Walled
    PROVE  TypeOK'
  BY DEF TypeOK, Ordered, Walled, people, reservations

LEMMA NoteType ==
    ASSUME TypeOK, NEW c \in Chars, NEW d \in Chars, NEW i \in Items, NoteGiveRefusal(c, d, i)
    PROVE  held' \subseteq Chars \X Chars \X Items
  BY DEF TypeOK, NoteGiveRefusal

-----------------------------------------------------------------------------
(***************************************************************************)
(* Counting one entry: a piece that comes under the counter adds one, a    *)
(* piece that leaves it takes one away.                                    *)
(***************************************************************************)
LEMMA EntryIsFinite ==
    ASSUME NEW i \in Items
    PROVE  i \in EntryOf(i) /\ IsFiniteSet(EntryOf(i)) /\ EntryOf(i) \subseteq Items
  BY FS_Singleton, BelongingsAssumption DEF EntryOf

LEMMA CountGains ==
    ASSUME TypeOK, NEW i \in Items, NEW new \in Places, NEW at, NEW c,
           ~(place[i].of = c /\ place[i].at \in at), new.of = c, new.at \in at
    PROVE  /\ CountIn(place, i, at, c) \in Nat
           /\ CountIn(Moved(i, new), i, at, c) = CountIn(place, i, at, c) + 1
  <1> DEFINE S == {j \in EntryOf(i) : place[j].of = c /\ place[j].at \in at}
             T == {j \in EntryOf(i) : Moved(i, new)[j].of = c /\ Moved(i, new)[j].at \in at}
  <1>0. Moved(i, new)[i] = new /\ \A j \in EntryOf(i) : j # i => Moved(i, new)[j] = place[j]
    BY MovedType, EntryIsFinite
  <1>1. T = S \cup {i} /\ i \notin S
    BY <1>0, EntryIsFinite
  <1>2. IsFiniteSet(S)
    BY EntryIsFinite, FS_Subset
  <1> HIDE DEF S, T
  <1>3. Cardinality(S) \in Nat /\ Cardinality(T) = Cardinality(S) + 1
    BY <1>1, <1>2, FS_AddElement, FS_CardinalityType
  <1> QED  BY <1>3 DEF CountIn, S, T

LEMMA CountLoses ==
    ASSUME TypeOK, NEW i \in Items, NEW new \in Places, NEW at, NEW c,
           place[i].of = c, place[i].at \in at, ~(new.of = c /\ new.at \in at)
    PROVE  /\ CountIn(place, i, at, c) \in Nat
           /\ CountIn(Moved(i, new), i, at, c) + 1 = CountIn(place, i, at, c)
  <1> DEFINE S == {j \in EntryOf(i) : place[j].of = c /\ place[j].at \in at}
             T == {j \in EntryOf(i) : Moved(i, new)[j].of = c /\ Moved(i, new)[j].at \in at}
  <1>0. Moved(i, new)[i] = new /\ \A j \in EntryOf(i) : j # i => Moved(i, new)[j] = place[j]
    BY MovedType, EntryIsFinite
  <1>1. S = T \cup {i} /\ i \notin T
    BY <1>0, EntryIsFinite
  <1>2. IsFiniteSet(T)
    BY EntryIsFinite, FS_Subset
  <1> HIDE DEF S, T
  <1>3. Cardinality(T) \in Nat /\ Cardinality(S) = Cardinality(T) + 1
    BY <1>1, <1>2, FS_AddElement, FS_CardinalityType
  <1> QED  BY <1>3 DEF CountIn, S, T

-----------------------------------------------------------------------------
(***************************************************************************)
(* What each verb does with its piece. Keeps: an owner who must keep the   *)
(* piece still owns it. Honest: the row says what became of the piece.     *)
(***************************************************************************)
Keeps(i, new) ==
    \A x \in Chars : (ItemKept(x, i) /\ place[i].of = x /\ place[i].at \in Owned) =>
                        new.of = x /\ new.at \in Owned

Honest(verb, c, d, i, new, status) ==
    /\ status = "delivered" => new \in Promised(Said(verb, c, d, i, status))
    /\ status = "refused" => new = place[i] \/ (verb = "trade" /\ new.at = "stack")

Row(verb, c, d, i) ==
    \E new \in Places, status \in Statuses :
      /\ Done(verb, c, d, i, Moved(i, new), status)
      /\ Keeps(i, new)
      /\ Honest(verb, c, d, i, new, status)

LEMMA SellRow ==
    ASSUME TypeOK, NEW c \in Chars, NEW i \in Items, Sell(c, i)
    PROVE  Walled \/ Row("sell", c, NoOne, i)
  <1> SUFFICES ASSUME MaySell(c, i), NEW new \in {Gone, place[i]}, NEW status,
                      status = SellAnswer(Moved(i, new), c, i),
                      Done("sell", c, NoOne, i, Moved(i, new), status)
               PROVE  Row("sell", c, NoOne, i)
    BY DEF Sell
  <1>1. new \in Places
    BY PlaceTypes DEF TypeOK
  <1>2. place[i].of = c /\ place[i].at \in Carriable /\ ~ ItemKept(c, i)
    BY DEF MaySell, FindCarriedItem
  <1>3. Keeps(i, new)
    BY <1>2 DEF Keeps
  <1>4. status = IF new.of = c /\ new.at \in Carriable THEN "refused" ELSE "delivered"
    BY <1>1, MovedType DEF SellAnswer, FindCarriedItem
  <1>5. status \in Statuses
    BY <1>4 DEF Statuses
  <1>6. status = "delivered" => new = Gone
    BY <1>2, <1>4
  <1>7. status = "refused" => new = place[i]
    <2>1. Gone.of # c
      BY BelongingsAssumption DEF Gone, In
    <2> QED  BY <1>4, <2>1
  <1>8. Honest("sell", c, NoOne, i, new, status)
    <2>1. Promised(Said("sell", c, NoOne, i, status)) = {Gone}
      BY DEF Promised, Said
    <2>2. status = "delivered" => new \in Promised(Said("sell", c, NoOne, i, status))
      BY <1>6, <2>1
    <2> QED  BY <1>7, <2>2 DEF Honest
  <1> QED  BY <1>1, <1>3, <1>5, <1>8 DEF Row

LEMMA DestroyRow ==
    ASSUME TypeOK, NEW c \in Chars, NEW i \in Items, Destroy(c, i)
    PROVE  Walled \/ Row("destroy", c, NoOne, i)
  <1> SUFFICES ASSUME MayDestroy(c, i), NEW new \in {Gone, place[i]}, NEW status,
                      status = SellAnswer(Moved(i, new), c, i),
                      Done("destroy", c, NoOne, i, Moved(i, new), status)
               PROVE  Row("destroy", c, NoOne, i)
    BY DEF Destroy
  <1>1. new \in Places
    BY PlaceTypes DEF TypeOK
  <1>2. place[i].of = c /\ place[i].at \in Carriable /\ ~ ItemKept(c, i)
    BY DEF MayDestroy, FindCarriedItem
  <1>3. Keeps(i, new)
    BY <1>2 DEF Keeps
  <1>4. status = IF new.of = c /\ new.at \in Carriable THEN "refused" ELSE "delivered"
    BY <1>1, MovedType DEF SellAnswer, FindCarriedItem
  <1>5. status \in Statuses
    BY <1>4 DEF Statuses
  <1>6. status = "delivered" => new = Gone
    BY <1>2, <1>4
  <1>7. status = "refused" => new = place[i]
    <2>1. Gone.of # c
      BY BelongingsAssumption DEF Gone, In
    <2> QED  BY <1>4, <2>1
  <1>8. Honest("destroy", c, NoOne, i, new, status)
    <2>1. Promised(Said("destroy", c, NoOne, i, status)) = {Gone}
      BY DEF Promised, Said
    <2>2. status = "delivered" => new \in Promised(Said("destroy", c, NoOne, i, status))
      BY <1>6, <2>1
    <2> QED  BY <1>7, <2>2 DEF Honest
  <1> QED  BY <1>1, <1>3, <1>5, <1>8 DEF Row

LEMMA TradeRow ==
    ASSUME TypeOK, NEW c \in Chars, NEW d \in Chars, NEW i \in Items, Trade(c, d, i)
    PROVE  Walled \/ Row("trade", c, d, i)
  <1> SUFFICES ASSUME MayTrade(c, d, i), NEW new \in Lands(i, "bags", d) \cup {place[i]}, NEW status,
                      status = TradeAnswer(Moved(i, new), d, i),
                      Done("trade", c, d, i, Moved(i, new), status)
               PROVE  Row("trade", c, d, i)
    BY DEF Trade
  <1>1. new \in Places
    BY LandsTypes DEF TypeOK
  <1>2. place[i].of = c /\ c # d /\ ~ ItemKept(c, i)
    BY DEF MayTrade, FindCarriedItem
  <1>3. Keeps(i, new)
    BY <1>2 DEF Keeps
  <1>4. /\ status \in {"delivered", "refused"}
        /\ status = "delivered" <=> (new.of = d /\ new.at \in {"bags", "worn", "bank"})
    <2>1. Moved(i, new)[i] = new
      BY <1>1, MovedType
    <2>2. GetItemByGuid(Moved(i, new), d, i) <=> (new.of = d /\ new.at \in {"bags", "worn", "bank"})
      BY <2>1, <1>1 DEF GetItemByGuid, FindCarriedItem, FindBankedItem, Carriable, Places, In
    <2> QED  BY <2>2 DEF TradeAnswer
  <1>5. status \in Statuses
    BY <1>4 DEF Statuses
  <1>6. new = place[i] \/ new = In("bags", d) \/ new = In("stack", d)
    BY LandsAt
  <1>7. status = "delivered" => new = In("bags", d)
    BY <1>2, <1>4, <1>6, PlaceFields
  <1>8. status = "refused" => new = place[i] \/ new.at = "stack"
    BY <1>4, <1>6, PlaceFields
  <1>9. Honest("trade", c, d, i, new, status)
    <2>1. Promised(Said("trade", c, d, i, status)) = {In("bags", d), In("worn", d), In("stack", d)}
      BY DEF Promised, Said
    <2>2. status = "delivered" => new \in Promised(Said("trade", c, d, i, status))
      BY <1>7, <2>1
    <2> QED  BY <1>8, <2>2 DEF Honest
  <1> QED  BY <1>1, <1>3, <1>5, <1>9 DEF Row

LEMMA DepositRow ==
    ASSUME TypeOK, NEW c \in Chars, NEW i \in Items, Deposit(c, i)
    PROVE  Walled \/ Row("deposit", c, NoOne, i)
  <1> SUFFICES ASSUME FindCarriedItem(place, c, i), NEW new \in Lands(i, "bank", c) \cup {place[i]}, NEW status,
                      status = Landed(DepositLanded(Moved(i, new), c, i)),
                      Done("deposit", c, NoOne, i, Moved(i, new), status)
               PROVE  Row("deposit", c, NoOne, i)
    BY DEF Deposit
  <1>1. new \in Places
    BY LandsTypes DEF TypeOK
  <1>2. place[i].of = c /\ place[i].at \in {"bags", "worn"}
    BY DEF FindCarriedItem, Carriable
  <1>3. new = place[i] \/ new = In("bank", c) \/ new = In("bankstack", c)
    BY LandsAt
  <1>4. Keeps(i, new)
    BY <1>2, <1>3, PlaceFields DEF Keeps, Owned
  <1>5. status \in {"delivered", "refused"}
    BY DEF Landed
  <1>6. status \in Statuses
    BY <1>5 DEF Statuses
  <1>7. status = "delivered" => new \in {In("bank", c), In("bankstack", c)}
    <2>1. CASE new = place[i]
      <3>1. ~ DepositLanded(Moved(i, new), c, i)
        BY <1>1, <1>2, <2>1, MovedType
           DEF DepositLanded, GetItemByGuid, FindCarriedItem, FindBankedItem, Carriable, In
      <3> QED  BY <3>1 DEF Landed
    <2> QED  BY <1>3, <2>1
  <1>8. status = "refused" => new = place[i]
    <2>1. CASE new = In("bank", c)
      <3>1. DepositLanded(Moved(i, new), c, i)
        BY <1>1, <2>1, MovedType DEF DepositLanded, GetItemByGuid, FindBankedItem
      <3> QED  BY <3>1 DEF Landed
    <2>2. CASE new = In("bankstack", c)
      <3>1. new.of = c /\ new.at = "bankstack"
        BY <2>2, PlaceFields
      <3>2. ~ GetItemByGuid(Moved(i, new), c, i)
        BY <1>1, <3>1, MovedType
           DEF GetItemByGuid, FindCarriedItem, FindBankedItem, Carriable, In
      <3>3. BankedCount(Moved(i, new), i, c) = BankedCount(place, i, c) + 1
        BY <1>1, <1>2, <3>1, CountGains DEF BankedCount
      <3>4. CarriedCount(Moved(i, new), i, c) + 1 = CarriedCount(place, i, c)
        BY <1>1, <1>2, <3>1, CountLoses DEF CarriedCount
      <3> QED  BY <3>2, <3>3, <3>4 DEF DepositLanded, Landed
    <2> QED  BY <1>3, <2>1, <2>2
  <1>9. Honest("deposit", c, NoOne, i, new, status)
    <2>1. Promised(Said("deposit", c, NoOne, i, status)) = {In("bank", c), In("bankstack", c)}
      BY DEF Promised, Said
    <2>2. status = "delivered" => new \in Promised(Said("deposit", c, NoOne, i, status))
      BY <1>7, <2>1
    <2> QED  BY <1>8, <2>2 DEF Honest
  <1> QED  BY <1>1, <1>4, <1>6, <1>9 DEF Row

LEMMA WithdrawRow ==
    ASSUME TypeOK, NEW c \in Chars, NEW i \in Items, Withdraw(c, i)
    PROVE  Walled \/ Row("withdraw", c, NoOne, i)
  <1> SUFFICES ASSUME FindBankedItem(place, c, i), NEW new \in Lands(i, "bags", c) \cup {place[i]}, NEW status,
                      status = Landed(WithdrawLanded(Moved(i, new), c, i)),
                      Done("withdraw", c, NoOne, i, Moved(i, new), status)
               PROVE  Row("withdraw", c, NoOne, i)
    BY DEF Withdraw
  <1>1. new \in Places
    BY LandsTypes DEF TypeOK
  <1>2. place[i].of = c /\ place[i].at = "bank" /\ place[i] = In("bank", c)
    BY DEF FindBankedItem, In
  <1>3. new = place[i] \/ new = In("bags", c) \/ new = In("stack", c)
    BY LandsAt
  <1>4. Keeps(i, new)
    BY <1>2, <1>3, PlaceFields DEF Keeps, Owned
  <1>5. status \in {"delivered", "refused"}
    BY DEF Landed
  <1>6. status \in Statuses
    BY <1>5 DEF Statuses
  <1>7. status = "delivered" => new \in {In("bags", c), In("stack", c)}
    <2>1. CASE new = place[i]
      <3>1. ~ WithdrawLanded(Moved(i, new), c, i)
        BY <1>1, <1>2, <2>1, MovedType DEF WithdrawLanded, GetItemByGuid, FindBankedItem
      <3> QED  BY <3>1 DEF Landed
    <2> QED  BY <1>3, <2>1
  <1>8. status = "refused" => new = place[i]
    <2>1. CASE new = In("bags", c)
      <3>1. new.of = c /\ new.at = "bags"
        BY <2>1, PlaceFields
      <3>2. WithdrawLanded(Moved(i, new), c, i)
        BY <1>1, <3>1, MovedType
           DEF WithdrawLanded, GetItemByGuid, FindCarriedItem, FindBankedItem, Carriable, In
      <3> QED  BY <3>2 DEF Landed
    <2>2. CASE new = In("stack", c)
      <3>1. new.of = c /\ new.at = "stack"
        BY <2>2, PlaceFields
      <3>2. ~ GetItemByGuid(Moved(i, new), c, i)
        BY <1>1, <3>1, MovedType
           DEF GetItemByGuid, FindCarriedItem, FindBankedItem, Carriable, In
      <3>3. CarriedCount(Moved(i, new), i, c) = CarriedCount(place, i, c) + 1
        BY <1>1, <1>2, <3>1, CountGains DEF CarriedCount
      <3>4. BankedCount(Moved(i, new), i, c) + 1 = BankedCount(place, i, c)
        BY <1>1, <1>2, <3>1, CountLoses DEF BankedCount
      <3> QED  BY <3>2, <3>3, <3>4 DEF WithdrawLanded, Landed
    <2> QED  BY <1>3, <2>1, <2>2
  <1>9. Honest("withdraw", c, NoOne, i, new, status)
    <2>1. Promised(Said("withdraw", c, NoOne, i, status)) = {In("bags", c), In("worn", c), In("stack", c)}
      BY DEF Promised, Said
    <2>2. status = "delivered" => new \in Promised(Said("withdraw", c, NoOne, i, status))
      BY <1>7, <2>1
    <2> QED  BY <1>8, <2>2 DEF Honest
  <1> QED  BY <1>1, <1>4, <1>6, <1>9 DEF Row

LEMMA PlaceBagRow ==
    ASSUME TypeOK, NEW c \in Chars, NEW i \in Items, PlaceBag(c, i)
    PROVE  Walled \/ Row("place bag", c, NoOne, i)
  <1> SUFFICES ASSUME place[i] = In("bags", c), NEW new \in {In("bank", c), place[i]}, NEW status,
                      status = Landed(FindBankedItem(Moved(i, new), c, i)),
                      Done("place bag", c, NoOne, i, Moved(i, new), status)
               PROVE  Row("place bag", c, NoOne, i)
    BY DEF PlaceBag
  <1>1. new \in Places
    BY PlaceTypes DEF TypeOK, Somewhere, Owned
  <1>2. /\ place[i].of = c /\ place[i].at = "bags"
        /\ In("bank", c).of = c /\ In("bank", c).at = "bank"
    <2>1. /\ In("bags", c).of = c /\ In("bags", c).at = "bags"
          /\ In("bank", c).of = c /\ In("bank", c).at = "bank"
      BY DEF In
    <2> QED  BY <2>1
  <1>3. Keeps(i, new)
    BY <1>2 DEF Keeps, Owned
  <1>4. status \in {"delivered", "refused"}
    BY DEF Landed
  <1>5. status \in Statuses
    BY <1>4 DEF Statuses
  <1>6. Moved(i, new)[i] = new
    BY <1>1, MovedType
  <1>7. status = "delivered" => new = In("bank", c)
    BY <1>2, <1>6 DEF Landed, FindBankedItem
  <1>8. status = "refused" => new = place[i]
    BY <1>6 DEF Landed, FindBankedItem
  <1>9. Honest("place bag", c, NoOne, i, new, status)
    <2>1. Promised(Said("place bag", c, NoOne, i, status)) = {In("bank", c), In("bankstack", c)}
      BY DEF Promised, Said
    <2>2. status = "delivered" => new \in Promised(Said("place bag", c, NoOne, i, status))
      BY <1>7, <2>1
    <2> QED  BY <1>8, <2>2 DEF Honest
  <1> QED  BY <1>1, <1>3, <1>5, <1>9 DEF Row

LEMMA BuyRow ==
    ASSUME TypeOK, NEW c \in Chars, NEW i \in Items, Buy(c, i)
    PROVE  Walled \/ Row("buy", c, NoOne, i)
  <1> SUFFICES ASSUME place[i] = Shop, NEW priced \in BOOLEAN, NEW new \in PlaceItemOn(c, i) \cup {place[i]}, NEW status,
                      status = BuyAnswer(Moved(i, new), c, i, priced),
                      Done("buy", c, NoOne, i, Moved(i, new), status)
               PROVE  Row("buy", c, NoOne, i)
    BY DEF Buy
  <1>1. new \in Places
    BY LandsTypes DEF TypeOK
  <1>2. place[i].of # c /\ place[i].of \notin Chars
    BY BelongingsAssumption DEF Shop, In
  <1>3. Keeps(i, new)
    BY <1>2 DEF Keeps
  <1>4. /\ status \in Statuses
        /\ status = "refused" <=> CarriedCount(Moved(i, new), i, c) = CarriedCount(place, i, c)
    BY DEF BuyAnswer, Statuses
  <1>5. status \in Statuses
    BY <1>4
  <1>6. new \in {place[i], In("bags", c), In("worn", c), In("stack", c)}
    BY LandsAt
  <1>7. status = "delivered" => new \in {In("bags", c), In("worn", c), In("stack", c)}
    <2>1. new = place[i] => status = "refused"
      BY <1>1, <1>4, MovedType
    <2> QED  BY <1>6, <2>1
  <1>8. status = "refused" => new = place[i]
    <2>1. CASE new # place[i]
      <3>1. new.of = c /\ new.at \in {"bags", "worn", "stack"}
        BY <1>6, <2>1, PlaceFields
      <3>2. /\ CarriedCount(place, i, c) \in Nat
            /\ CarriedCount(Moved(i, new), i, c) = CarriedCount(place, i, c) + 1
        BY <1>1, <1>2, <3>1, CountGains DEF CarriedCount
      <3> QED  BY <1>4, <3>2
    <2> QED  BY <2>1
  <1>9. Honest("buy", c, NoOne, i, new, status)
    <2>1. Promised(Said("buy", c, NoOne, i, status)) = {In("bags", c), In("worn", c), In("stack", c)}
      BY DEF Promised, Said
    <2>2. status = "delivered" => new \in Promised(Said("buy", c, NoOne, i, status))
      BY <1>7, <2>1
    <2> QED  BY <1>8, <2>2 DEF Honest
  <1> QED  BY <1>1, <1>3, <1>5, <1>9 DEF Row

LEMMA ListRow ==
    ASSUME TypeOK, NEW c \in Chars, NEW i \in Items, AuctionList(c, i)
    PROVE  Walled \/ Row("list", c, NoOne, i)
  <1> SUFFICES ASSUME MayList(c, i), NEW new \in {In("house", c), place[i]}, NEW status,
                      status = ListAnswer(Moved(i, new), c, i),
                      Done("list", c, NoOne, i, Moved(i, new), status)
               PROVE  Row("list", c, NoOne, i)
    BY DEF AuctionList
  <1>1. new \in Places
    BY PlaceTypes DEF TypeOK, Somewhere
  <1>2. place[i].of = c /\ place[i].at \in Carriable /\ ~ ItemKept(c, i)
    BY DEF MayList, FindCarriedItem
  <1>3. Keeps(i, new)
    BY <1>2 DEF Keeps
  <1>4. Moved(i, new)[i] = new
    BY <1>1, MovedType
  <1>5. status = IF new = In("house", c) THEN "delivered" ELSE "refused"
    BY <1>2, <1>4 DEF ListAnswer, GetItemByGuid, FindCarriedItem
  <1>6. status \in Statuses
    BY <1>5 DEF Statuses
  <1>7. status = "delivered" => new = In("house", c)
    BY <1>5
  <1>8. status = "refused" => new = place[i]
    BY <1>5
  <1>9. Honest("list", c, NoOne, i, new, status)
    <2>1. Promised(Said("list", c, NoOne, i, status)) = {In("house", c)}
      BY DEF Promised, Said
    <2>2. status = "delivered" => new \in Promised(Said("list", c, NoOne, i, status))
      BY <1>7, <2>1
    <2> QED  BY <1>8, <2>2 DEF Honest
  <1> QED  BY <1>1, <1>3, <1>6, <1>9 DEF Row

LEMMA CancelRow ==
    ASSUME TypeOK, NEW c \in Chars, NEW i \in Items, AuctionCancel(c, i)
    PROVE  Walled \/ Row("cancel", c, NoOne, i)
  <1> SUFFICES ASSUME place[i] = In("house", c), NEW new \in {In("letter", c), place[i]}, NEW status,
                      status = Landed(Moved(i, new)[i].at # "house"),
                      Done("cancel", c, NoOne, i, Moved(i, new), status)
               PROVE  Row("cancel", c, NoOne, i)
    BY DEF AuctionCancel
  <1>1. new \in Places
    BY PlaceTypes DEF TypeOK, Somewhere
  <1>2. place[i].at = "house"
    BY DEF In
  <1>3. Keeps(i, new)
    BY <1>2 DEF Keeps, Owned
  <1>4. status \in {"delivered", "refused"}
    BY DEF Landed
  <1>5. status \in Statuses
    BY <1>4 DEF Statuses
  <1>6. Moved(i, new)[i].at = new.at
    BY <1>1, MovedType
  <1>7. status = "delivered" => new = In("letter", c)
    BY <1>2, <1>6 DEF Landed
  <1>8. status = "refused" => new = place[i]
    BY <1>6, PlaceFields DEF Landed
  <1>9. Honest("cancel", c, NoOne, i, new, status)
    <2>1. Promised(Said("cancel", c, NoOne, i, status)) = {In("letter", c)}
      BY DEF Promised, Said
    <2>2. status = "delivered" => new \in Promised(Said("cancel", c, NoOne, i, status))
      BY <1>7, <2>1
    <2> QED  BY <1>8, <2>2 DEF Honest
  <1> QED  BY <1>1, <1>3, <1>5, <1>9 DEF Row

LEMMA BuyoutRow ==
    ASSUME TypeOK, NEW c \in Chars, NEW i \in Items, AuctionBuy(c, i)
    PROVE  Walled \/ Row("buyout", c, NoOne, i)
  <1> SUFFICES ASSUME place[i].at = "house", NEW paid \in BOOLEAN, NEW new \in {In("letter", c), place[i]}, NEW status,
                      status = (IF new.at = "house" THEN "refused" ELSE IF paid THEN "delivered" ELSE "unknown"),
                      Done("buyout", c, NoOne, i, Moved(i, new), status)
               PROVE  Row("buyout", c, NoOne, i)
    BY DEF AuctionBuy
  <1>1. new \in Places
    BY PlaceTypes DEF TypeOK, Somewhere
  <1>2. Keeps(i, new)
    BY DEF Keeps, Owned
  <1>3. status \in {"delivered", "refused", "unknown"}
    OBVIOUS
  <1>4. status \in Statuses
    BY <1>3 DEF Statuses
  <1>5. status = "delivered" => new = In("letter", c)
    OBVIOUS
  <1>6. status = "refused" => new = place[i]
    BY PlaceFields
  <1>7. Honest("buyout", c, NoOne, i, new, status)
    <2>1. Promised(Said("buyout", c, NoOne, i, status)) = {In("letter", c)}
      BY DEF Promised, Said
    <2>2. status = "delivered" => new \in Promised(Said("buyout", c, NoOne, i, status))
      BY <1>5, <2>1
    <2> QED  BY <1>6, <2>2 DEF Honest
  <1> QED  BY <1>1, <1>2, <1>4, <1>7 DEF Row

LEMMA TakeRow ==
    ASSUME TypeOK, NEW c \in Chars, NEW i \in Items, MailTake(c, i)
    PROVE  Walled \/ Row("take", c, NoOne, i)
  <1> SUFFICES ASSUME place[i] = In("letter", c), NEW new \in Lands(i, "bags", c) \cup {place[i]}, NEW status,
                      status = TakeAnswer(Moved(i, new), c, i),
                      Done("take", c, NoOne, i, Moved(i, new), status)
               PROVE  Row("take", c, NoOne, i)
    BY DEF MailTake
  <1>1. new \in Places
    BY LandsTypes DEF TypeOK
  <1>2. place[i].at = "letter"
    BY DEF In
  <1>3. Keeps(i, new)
    BY <1>2 DEF Keeps, Owned
  <1>4. Moved(i, new)[i] = new
    BY <1>1, MovedType
  <1>5. /\ status \in {"delivered", "refused", "unknown"}
        /\ status = "delivered" => new # place[i]
        /\ status = "refused" => new = place[i]
    BY <1>2, <1>4 DEF TakeAnswer
  <1>6. status \in Statuses
    BY <1>5 DEF Statuses
  <1>7. status = "delivered" => new \in {In("bags", c), In("stack", c)}
    BY <1>5, LandsAt
  <1>8. status = "refused" => new = place[i]
    BY <1>5
  <1>9. Honest("take", c, NoOne, i, new, status)
    <2>1. Promised(Said("take", c, NoOne, i, status)) = {In("bags", c), In("worn", c), In("stack", c)}
      BY DEF Promised, Said
    <2>2. status = "delivered" => new \in Promised(Said("take", c, NoOne, i, status))
      BY <1>7, <2>1
    <2> QED  BY <1>8, <2>2 DEF Honest
  <1> QED  BY <1>1, <1>3, <1>6, <1>9 DEF Row

LEMMA ReturnRow ==
    ASSUME TypeOK, NEW c \in Chars, NEW d \in Chars, NEW i \in Items, MailReturn(c, d, i)
    PROVE  Walled \/ Row("return", c, d, i)
  <1> SUFFICES ASSUME place[i] = In("letter", c), NEW new \in {In("letter", d), place[i]}, NEW status,
                      status = Landed(new # place[i]),
                      Done("return", c, d, i, Moved(i, new), status)
               PROVE  Row("return", c, d, i)
    BY DEF MailReturn
  <1>1. new \in Places
    BY PlaceTypes DEF TypeOK, Somewhere
  <1>2. place[i].at = "letter"
    BY DEF In
  <1>3. Keeps(i, new)
    BY <1>2 DEF Keeps, Owned
  <1>4. status \in {"delivered", "refused"}
    BY DEF Landed
  <1>5. status \in Statuses
    BY <1>4 DEF Statuses
  <1>6. status = "delivered" => new = In("letter", d)
    BY DEF Landed
  <1>7. status = "refused" => new = place[i]
    BY DEF Landed
  <1>8. Honest("return", c, d, i, new, status)
    <2>1. Promised(Said("return", c, d, i, status)) = {In("letter", d)}
      BY DEF Promised, Said
    <2>2. status = "delivered" => new \in Promised(Said("return", c, d, i, status))
      BY <1>6, <2>1
    <2> QED  BY <1>7, <2>2 DEF Honest
  <1> QED  BY <1>1, <1>3, <1>5, <1>8 DEF Row

LEMMA VaultInRow ==
    ASSUME TypeOK, NEW c \in Chars, NEW i \in Items, VaultIn(c, i)
    PROVE  Walled \/ Row("vault in", c, NoOne, i)
  <1> SUFFICES ASSUME MayStore(c, i), NEW new \in Lands(i, "vault", NoOne) \cup {place[i]}, NEW status,
                      status = Landed(~FindCarriedItem(Moved(i, new), c, i)),
                      Done("vault in", c, NoOne, i, Moved(i, new), status)
               PROVE  Row("vault in", c, NoOne, i)
    BY DEF VaultIn
  <1>1. new \in Places
    BY LandsTypes DEF TypeOK
  <1>2. place[i].of = c /\ place[i].at \in Carriable /\ ~ ItemKept(c, i)
    BY DEF MayStore, FindCarriedItem
  <1>3. Keeps(i, new)
    BY <1>2 DEF Keeps
  <1>4. status \in {"delivered", "refused"}
    BY DEF Landed
  <1>5. status \in Statuses
    BY <1>4 DEF Statuses
  <1>6. new \in {place[i], Vault, In("vaultstack", NoOne)}
    BY LandsAt DEF Vault
  <1>7. /\ Moved(i, new)[i] = new
        /\ new \in {place[i], Vault, In("vaultstack", NoOne)}
    BY <1>6, <1>1, MovedType
  <1>8. status = "delivered" => new \in {Vault, In("vaultstack", NoOne)}
    BY <1>2, <1>7 DEF Landed, FindCarriedItem
  <1>9. status = "refused" => new = place[i]
    <2>1. Vault.of # c /\ In("vaultstack", NoOne).of # c
      BY BelongingsAssumption DEF Vault, In
    <2> QED  BY <1>7, <2>1 DEF Landed, FindCarriedItem
  <1>10. Honest("vault in", c, NoOne, i, new, status)
    <2>1. Promised(Said("vault in", c, NoOne, i, status)) = {Vault, In("vaultstack", NoOne)}
      BY DEF Promised, Said
    <2>2. status = "delivered" => new \in Promised(Said("vault in", c, NoOne, i, status))
      BY <1>8, <2>1
    <2> QED  BY <1>9, <2>2 DEF Honest
  <1> QED  BY <1>1, <1>3, <1>5, <1>10 DEF Row

LEMMA VaultOutRow ==
    ASSUME TypeOK, NEW c \in Chars, NEW i \in Items, VaultOut(c, i)
    PROVE  Walled \/ Row("vault out", c, NoOne, i)
  <1> SUFFICES ASSUME place[i] = Vault, NEW new \in {In("bags", c), place[i]}, NEW status,
                      status = VaultOutAnswer(Moved(i, new), c, i),
                      Done("vault out", c, NoOne, i, Moved(i, new), status)
               PROVE  Row("vault out", c, NoOne, i)
    BY DEF VaultOut
  <1>1. new \in Places
    BY PlaceTypes DEF TypeOK, Somewhere, Owned
  <1>2. place[i].at = "vault"
    <2>1. Vault.at = "vault"
      BY DEF Vault, In
    <2> QED  BY <2>1
  <1>3. Keeps(i, new)
    BY <1>2 DEF Keeps, Owned
  <1>4. Moved(i, new)[i] = new
    BY <1>1, MovedType
  <1>5. /\ status \in {"delivered", "refused", "unknown"}
        /\ status = "delivered" => new # Vault
        /\ status = "refused" => new = Vault
    BY <1>4 DEF VaultOutAnswer
  <1>6. status \in Statuses
    BY <1>5 DEF Statuses
  <1>7. status = "delivered" => new = In("bags", c)
    BY <1>5
  <1>8. status = "refused" => new = place[i]
    BY <1>5
  <1>9. Honest("vault out", c, NoOne, i, new, status)
    <2>1. Promised(Said("vault out", c, NoOne, i, status)) = {In("bags", c), In("worn", c), In("stack", c)}
      BY DEF Promised, Said
    <2>2. status = "delivered" => new \in Promised(Said("vault out", c, NoOne, i, status))
      BY <1>7, <2>1
    <2> QED  BY <1>8, <2>2 DEF Honest
  <1> QED  BY <1>1, <1>3, <1>6, <1>9 DEF Row

-----------------------------------------------------------------------------
(***************************************************************************)
(* What one step makes of the three properties.                            *)
(***************************************************************************)
\* A reserved piece leaves its owner only as the spare bag of a give.
SparesOnly ==
    \A c \in Chars, i \in Items :
        ItemKept(c, i) /\ LetsGo(c, i) =>
            /\ answer' # NoAnswer /\ answer'.verb = "give"
            /\ answer'.spare = i /\ i \in Bags
            /\ place'[i] = In("worn", answer'.to)

\* The answers, of the verbs AnswersAreTrue does not speak of too: a refused row
\* moved nothing, save a trade whose stack merged.
Honesty ==
    answer # NoAnswer =>
        /\ answer.status = "delivered" => place[answer.item] \in Promised(answer)
        /\ answer.status = "refused" =>
            \/ place[answer.item] = answer.before
            \/ answer.verb = "trade" /\ place[answer.item].at = "stack"
        /\ answer.status = "delivered" /\ answer.verb = "send" /\ answer.to \in online =>
            answer.letter = answer.item

LEMMA PlacesStay ==
    ASSUME place' = place
    PROVE  SparesOnly
  BY DEF SparesOnly, LetsGo

LEMMA NothingSaid ==
    ASSUME answer' = NoAnswer
    PROVE  Honesty'
  BY DEF Honesty

LEMMA MovedKeeps ==
    ASSUME TypeOK, NEW i \in Items, NEW new \in Places, Keeps(i, new), place' = Moved(i, new)
    PROVE  SparesOnly
  <1>1. \A c \in Chars, j \in Items : ItemKept(c, j) => ~ LetsGo(c, j)
    <2>1. place'[i] = new /\ \A j \in Items : j # i => place'[j] = place[j]
      BY MovedType
    <2> QED  BY <2>1 DEF Keeps, LetsGo
  <1> QED  BY <1>1 DEF SparesOnly

LEMMA WalledStep ==
    ASSUME TypeOK, NEW c \in Chars, Ordered(c), Walled
    PROVE  TypeOK' /\ SparesOnly /\ Honesty'
  BY WalledType, PlacesStay, NothingSaid DEF Walled

LEMMA RowStep ==
    ASSUME TypeOK, NEW c \in Chars, NEW d \in Chars \cup {NoOne}, NEW i \in Items,
           NEW verb \in Verbs \ {"send"}, Ordered(c), Row(verb, c, d, i)
    PROVE  TypeOK' /\ SparesOnly /\ Honesty'
  <1>1. PICK new \in Places, status \in Statuses :
          /\ Done(verb, c, d, i, Moved(i, new), status)
          /\ Keeps(i, new)
          /\ Honest(verb, c, d, i, new, status)
    BY DEF Row
  <1>2. TypeOK'
    BY <1>1, DoneType
  <1>3. SparesOnly
    BY <1>1, MovedKeeps DEF Done
  <1>4. Honesty'
    <2> DEFINE a == Said(verb, c, d, i, status)
    <2>1. answer' = a /\ place'[i] = new
      BY <1>1, MovedType DEF Done
    <2>2. a.item = i /\ a.status = status /\ a.before = place[i] /\ a.verb = verb
      BY DEF Said
    <2>3. /\ status = "delivered" => new \in Promised(a)
          /\ status = "refused" => new = place[i] \/ (verb = "trade" /\ new.at = "stack")
      BY <1>1 DEF Honest
    <2>4. Promised(answer)' = Promised(answer')
      BY DEF Promised
    <2> HIDE DEF a
    <2> QED  BY <2>1, <2>2, <2>3, <2>4 DEF Honesty
  <1> QED  BY <1>2, <1>3, <1>4

LEMMA GiveStep ==
    ASSUME TypeOK, NEW c \in Chars, NEW d \in Chars, NEW i \in Items, Give(c, d, i)
    PROVE  TypeOK' /\ SparesOnly /\ Honesty'
  <1>1. PICK new \in PlaceItemOn(d, i) : place' = Moved(i, new)
    BY DEF Give
  <1>2. new \in Places
    BY LandsTypes
  <1> DEFINE a == Said("give", c, d, i, "delivered")
  <1>3. answer' = a /\ a \in Answers
    BY SaidType DEF Give, Verbs, Statuses
  <1>4. TypeOK'
    <2>1. place' \in [Items -> Places] /\ held' \subseteq Chars \X Chars \X Items
      BY <1>1, <1>2, MovedType DEF Give, TypeOK
    <2> QED  BY <1>3, <2>1, RowType DEF Give
  <1>5. SparesOnly
    <2>1. place[i].of = c /\ ~ ItemKept(c, i)
      BY DEF Give, MayGive, FindCarriedItem
    <2>2. Keeps(i, new)
      BY <2>1 DEF Keeps
    <2> QED  BY <1>1, <1>2, <2>2, MovedKeeps
  <1>6. Honesty'
    <2>1. place'[i] = new /\ new \in {In("bags", d), In("worn", d), In("stack", d)}
      BY <1>1, <1>2, MovedType, LandsAt
    <2>2. a.item = i /\ a.status = "delivered" /\ a.verb = "give"
      BY DEF Said
    <2>3. Promised(a) = {In("bags", d), In("worn", d), In("stack", d)}
      BY DEF Promised, Said
    <2>4. Promised(answer)' = Promised(answer')
      BY DEF Promised
    <2> HIDE DEF a
    <2> QED  BY <1>3, <2>1, <2>2, <2>3, <2>4 DEF Honesty
  <1> QED  BY <1>4, <1>5, <1>6

\* The spare bag is the only piece the give lets go without asking.
LEMMA GiveMakesRoomStep ==
    ASSUME TypeOK, NEW c \in Chars, NEW d \in Chars, NEW i \in Items, GiveMakesRoom(c, d, i)
    PROVE  TypeOK' /\ SparesOnly /\ Honesty'
  <1> DEFINE roomier(b) == Moved(b, In("worn", d))
             a(status, b) == [Said("give", c, d, i, status) EXCEPT !.spare = b]
  <1>1. PICK b \in SpareContainers(c, i) :
          \/ /\ \E new \in PlaceItemOn(d, i) : place' = [roomier(b) EXCEPT ![i] = new]
             /\ answer' = a("delivered", b)
             /\ held' = {h \in held : h[2] # d}
          \/ /\ place' = roomier(b)
             /\ answer' = a("refused", b)
             /\ NoteGiveRefusal(c, d, i)
    BY DEF GiveMakesRoom
  <1>2. b \in Items /\ b \in Bags /\ b # i /\ In("worn", d) \in Places
    BY BelongingsAssumption, PlaceTypes DEF SpareContainers, Somewhere, Owned
  <1>3. /\ roomier(b) \in [Items -> Places] /\ roomier(b)[b] = In("worn", d)
        /\ \A j \in Items : j # b => roomier(b)[j] = place[j]
    BY <1>2, MovedType
  <1>4. ASSUME NEW status \in {"delivered", "refused"}
        PROVE  /\ a(status, b) \in Answers
               /\ a(status, b).item = i /\ a(status, b).status = status
               /\ a(status, b).verb = "give" /\ a(status, b).before = place[i]
               /\ a(status, b).spare = b /\ a(status, b).to = d
               /\ a(status, b) # NoAnswer
               /\ Promised(a(status, b)) = {In("bags", d), In("worn", d), In("stack", d)}
    <2>1. a(status, b) \in Answers
      BY <1>2, SaidType DEF Verbs, Statuses
    <2>2. /\ a(status, b).item = i /\ a(status, b).status = status
          /\ a(status, b).verb = "give" /\ a(status, b).before = place[i]
          /\ a(status, b).spare = b /\ a(status, b).to = d
      BY DEF Said
    <2>3. a(status, b) # NoAnswer
      <3>1. NoAnswer.status = "none" /\ status # "none"
        BY DEF NoAnswer
      <3> HIDE DEF a
      <3> QED  BY <2>2, <3>1
    <2>4. Promised(a(status, b)) = {In("bags", d), In("worn", d), In("stack", d)}
      <3> HIDE DEF a
      <3> QED  BY <2>2 DEF Promised
    <2> QED  BY <2>1, <2>2, <2>3, <2>4
  <1>5. place[i].of = c /\ place[b] = In("bags", c) /\ ~ ItemKept(c, i)
    BY DEF GiveMakesRoom, MayGive, FindCarriedItem, SpareContainers
  <1>6. Promised(answer)' = Promised(answer')
    BY DEF Promised
  <1>7. CASE /\ \E new \in PlaceItemOn(d, i) : place' = [roomier(b) EXCEPT ![i] = new]
             /\ answer' = a("delivered", b)
             /\ held' = {h \in held : h[2] # d}
    <2>1. PICK new \in PlaceItemOn(d, i) : place' = [roomier(b) EXCEPT ![i] = new]
      BY <1>7
    <2>2. new \in Places /\ new \in {In("bags", d), In("worn", d), In("stack", d)}
      BY LandsTypes, LandsAt
    <2> HIDE DEF roomier, a
    <2>3. /\ place' \in [Items -> Places] /\ place'[i] = new /\ place'[b] = In("worn", d)
          /\ \A j \in Items \ {b, i} : place'[j] = place[j]
      BY <1>2, <1>3, <2>1, <2>2
    <2>4. TypeOK'
      <3>1. held' \subseteq Chars \X Chars \X Items
        BY <1>7 DEF TypeOK
      <3> QED  BY <1>4, <1>7, <2>3, <3>1, RowType DEF GiveMakesRoom
    <2>5. SparesOnly
      BY <1>2, <1>4, <1>5, <1>7, <2>3 DEF SparesOnly, LetsGo
    <2>6. Honesty'
      BY <1>4, <1>6, <1>7, <2>2, <2>3 DEF Honesty
    <2> QED  BY <2>4, <2>5, <2>6
  <1>8. CASE /\ place' = roomier(b)
             /\ answer' = a("refused", b)
             /\ NoteGiveRefusal(c, d, i)
    <2> HIDE DEF roomier, a
    <2>1. TypeOK'
      <3>1. held' \subseteq Chars \X Chars \X Items
        BY <1>8, NoteType
      <3> QED  BY <1>3, <1>4, <1>8, <3>1, RowType DEF GiveMakesRoom
    <2>2. SparesOnly
      BY <1>2, <1>3, <1>4, <1>8 DEF SparesOnly, LetsGo
    <2>3. Honesty'
      BY <1>2, <1>3, <1>4, <1>6, <1>8 DEF Honesty
    <2> QED  BY <2>1, <2>2, <2>3
  <1> HIDE DEF roomier, a
  <1> QED  BY <1>1, <1>7, <1>8

LEMMA GiveRefusedStep ==
    ASSUME TypeOK, NEW c \in Chars, NEW d \in Chars, NEW i \in Items, GiveRefused(c, d, i)
    PROVE  TypeOK' /\ SparesOnly /\ Honesty'
  <1>1. held' \subseteq Chars \X Chars \X Items
    BY NoteType DEF GiveRefused, TypeOK
  <1>2. TypeOK'
    BY <1>1, BelongingsAssumption DEF TypeOK, GiveRefused, Ordered, people, reservations
  <1> QED  BY <1>2, PlacesStay, NothingSaid DEF GiveRefused

LEMMA MailSendStep ==
    ASSUME TypeOK, NEW c \in Chars, NEW d \in Chars, NEW i \in Items, MailSend(c, d, i)
    PROVE  TypeOK' /\ SparesOnly /\ Honesty'
  <1>0. CASE Walled
    BY <1>0, WalledStep DEF MailSend
  <1>1. ASSUME MaySend(c, d, i), NEW new \in {In("letter", d), place[i]},
               NEW letter \in Posted(d, i, new.at = "letter"), NEW status,
               status = SendAnswer(Moved(i, new), c, i, letter),
               place' = Moved(i, new),
               answer' = [Said("send", c, d, i, status) EXCEPT !.letter = letter],
               orders' = orders + 1, UNCHANGED held, Ordered(c)
        PROVE  TypeOK' /\ SparesOnly /\ Honesty'
    <2>1. new \in Places
      BY PlaceTypes DEF TypeOK, Somewhere
    <2>2. place'[i] = new
      BY <1>1, <2>1, MovedType
    <2>3. place[i].of = c /\ place[i].at \in Carriable /\ ~ ItemKept(c, i)
      BY <1>1 DEF MaySend, FindCarriedItem
    <2>4. In("letter", d).at = "letter" /\ place[i].at # "letter"
      BY <2>3, PlaceFields DEF Carriable
    <2>5. /\ status \in {"delivered", "refused", "unknown"}
          /\ status = "delivered" <=> (letter # NoItem /\ new = In("letter", d))
          /\ status = "refused" => new = place[i]
      <3>1. GetItemByGuid(Moved(i, new), c, i) <=> new = place[i]
        BY <1>1, <2>2, <2>3, <2>4
           DEF GetItemByGuid, FindCarriedItem, FindBankedItem, Carriable, In
      <3>2. new = place[i] <=> new # In("letter", d)
        BY <1>1, <2>4
      <3>3. CASE letter = NoItem /\ new = place[i]
        BY <1>1, <3>1, <3>2, <3>3 DEF SendAnswer
      <3>4. CASE letter # NoItem /\ new # place[i]
        BY <1>1, <3>1, <3>2, <3>4 DEF SendAnswer
      <3>5. CASE letter = NoItem <=> new # place[i]
        BY <1>1, <3>1, <3>2, <3>5 DEF SendAnswer
      <3> QED  BY <3>3, <3>4, <3>5
    <2>6. letter \in Items \cup {NoItem, Older}
      BY <1>1 DEF Posted
    <2> DEFINE a == [Said("send", c, d, i, status) EXCEPT !.letter = letter]
    <2>7. a \in Answers
      BY <2>5, <2>6, SaidType DEF Verbs, Statuses
    <2>8. /\ a.item = i /\ a.status = status /\ a.verb = "send" /\ a.before = place[i]
          /\ a.letter = letter /\ a.to = d
      BY DEF Said
    <2>9. Promised(a) = {In("letter", d)}
      <3> HIDE DEF a
      <3> QED  BY <2>8 DEF Promised
    <2> HIDE DEF a
    <2>10. TypeOK'
      <3>1. place' \in [Items -> Places]
        BY <1>1, <2>1, MovedType
      <3> QED  BY <1>1, <2>7, <3>1, RowType DEF a, TypeOK
    <2>11. SparesOnly
      <3>1. Keeps(i, new)
        BY <2>3 DEF Keeps
      <3> QED  BY <1>1, <2>1, <3>1, MovedKeeps
    <2>12. Honesty'
      <3>1. answer' = a /\ online' = online /\ Promised(answer)' = Promised(answer')
        BY <1>1 DEF a, Ordered, people, Promised
      <3>2. status = "delivered" /\ d \in online => letter = i
        BY <1>1, <2>4, <2>5 DEF Posted
      <3> QED  BY <2>2, <2>5, <2>8, <2>9, <3>1, <3>2 DEF Honesty
    <2> QED  BY <2>10, <2>11, <2>12
  <1> QED  BY <1>0, <1>1 DEF MailSend

-----------------------------------------------------------------------------
(***************************************************************************)
(* The roster poll moves a reserved piece only within its owner's places.  *)
(***************************************************************************)
LEMMA KeepStepStays ==
    ASSUME TypeOK, NEW k, NEW i \in ToPutAway(k)
    PROVE  /\ i \in Items
           /\ place[i].of \in Chars
           /\ KeepStepFor(place[i].of, i) \in {"bags", "worn", "bank"}
           /\ i \in Stacks => KeepStepFor(place[i].of, i) \in {"bags", "bank"}
  <1>1. PICK c \in online : KeepStepFor(c, i) # place[i].at
    BY DEF ToPutAway
  <1>2. c = place[i].of
    BY <1>1 DEF KeepStepFor
  <1>3. c \in Chars /\ i \in Items
    BY <1>1 DEF TypeOK, ToPutAway
  <1>4. KeepStepFor(c, i) \in {"bags", "worn", "bank"}
    BY <1>1, <1>2 DEF KeepStepFor
  <1>5. i \in Stacks => KeepStepFor(c, i) # "worn"
    <2>1. i \in Stacks => i \notin Gear \cup Bags
      BY BelongingsAssumption
    <2> QED  BY <1>1, <1>2, <2>1 DEF KeepStepFor
  <1> QED  BY <1>2, <1>3, <1>4, <1>5

LEMMA RosterPollStep ==
    ASSUME TypeOK, RosterPoll
    PROVE  TypeOK' /\ SparesOnly /\ Honesty'
  <1> DEFINE to(i) == KeepStepFor(place[i].of, i)
  <1>0. KeepReservedItems(keep')
    BY DEF RosterPoll
  <1>m. PICK moving \in SUBSET ToPutAway(keep') :
          \E merging \in SUBSET (moving \cap Stacks) :
            place' = [i \in Items |->
              IF i \notin moving THEN place[i]
              ELSE IF i \in merging THEN In(MergedIn[to(i)], place[i].of)
              ELSE In(to(i), place[i].of)]
    BY <1>0 DEF KeepReservedItems
  <1>1. PICK merging \in SUBSET (moving \cap Stacks) :
          place' = [i \in Items |->
            IF i \notin moving THEN place[i]
            ELSE IF i \in merging THEN In(MergedIn[to(i)], place[i].of)
            ELSE In(to(i), place[i].of)]
    BY <1>m
  <1>2. ASSUME NEW i \in Items
        PROVE  /\ place'[i] \in Places
               /\ \A c \in Chars : (place[i].of = c /\ place[i].at \in Owned) =>
                                      place'[i].of = c /\ place'[i].at \in Owned
    <2>1. CASE i \notin moving
      BY <1>1, <2>1 DEF TypeOK
    <2>2. CASE i \in moving
      <3>1. /\ place[i].of \in Chars /\ to(i) \in {"bags", "worn", "bank"}
            /\ i \in Stacks => to(i) \in {"bags", "bank"}
        BY <2>2, KeepStepStays
      <3>2. PICK at \in Owned : place'[i] = In(at, place[i].of)
        <4> HIDE DEF to
        <4>1. CASE i \in merging
          <5>1. MergedIn[to(i)] \in Owned
            BY <3>1, <4>1 DEF MergedIn, Owned
          <5> QED  BY <1>1, <2>2, <4>1, <5>1
        <4>2. CASE i \notin merging
          <5>1. to(i) \in Owned
            BY <3>1 DEF Owned
          <5> QED  BY <1>1, <2>2, <4>2, <5>1
        <4> QED  BY <4>1, <4>2
      <3>3. place'[i].of = place[i].of /\ place'[i].at \in Owned
        BY <3>2, PlaceFields
      <3> QED  BY <3>1, <3>2, <3>3, PlaceTypes DEF Somewhere
    <2> QED  BY <2>1, <2>2
  <1>3. TypeOK'
    <2>1. place' \in [Items -> Places]
      BY <1>1, <1>2
    <2>2. keep' \subseteq Chars \X Items
      BY DEF RosterPoll, ReloadKeepReservations, TypeOK
    <2> QED  BY <2>1, <2>2 DEF RosterPoll, TypeOK, people, bounds
  <1>4. SparesOnly
    BY <1>2 DEF SparesOnly, LetsGo
  <1> QED  BY <1>3, <1>4, NothingSaid DEF RosterPoll

-----------------------------------------------------------------------------
(***************************************************************************)
(* Hands, logins, restarts.                                                *)
(***************************************************************************)
LEMMA ElsewhereStep ==
    ASSUME TypeOK, NEW c \in Chars, NEW i \in Items,
           HandMoves(c, i) \/ HandWears(c, i) \/ AuctionEnds(i) \/ RowOfKeep(c, i)
    PROVE  TypeOK' /\ SparesOnly /\ Honesty'
  <1>1. faults' \in 0 .. MaxFaults /\ answer' = NoAnswer /\ UNCHANGED <<held, orders, online, young, keep>>
    BY BelongingsAssumption
       DEF HandMoves, HandWears, AuctionEnds, RowOfKeep, Fault, Elsewhere, TypeOK,
           people, reservations
  <1>2. CASE RowOfKeep(c, i)
    <2>1. place' = place /\ reserved' \subseteq Chars \X Items
      BY <1>2 DEF RowOfKeep, TypeOK
    <2> QED  BY <1>1, <2>1, PlacesStay, NothingSaid DEF TypeOK
  <1>3. ASSUME NEW new \in Places, Keeps(i, new), place' = Moved(i, new),
               UNCHANGED reserved
        PROVE  TypeOK' /\ SparesOnly /\ Honesty'
    <2>1. place' \in [Items -> Places]
      BY <1>3, MovedType
    <2> QED  BY <1>1, <1>3, <2>1, MovedKeeps, NothingSaid DEF TypeOK
  <1>4. CASE HandMoves(c, i)
    <2>1. PICK new \in {Gone} \cup {In("letter", d) : d \in Chars \ {c}}
                         \cup {In("bags", d) : d \in online \ {c}} : place' = Moved(i, new)
      BY <1>4 DEF HandMoves
    <2>2. new \in Places
      BY PlaceTypes DEF Somewhere, Owned, TypeOK
    <2>3. place[i].of = c /\ ~ ItemKept(c, i)
      BY <1>4 DEF HandMoves, FindCarriedItem
    <2> QED  BY <1>3, <1>4, <2>1, <2>2, <2>3 DEF HandMoves, Keeps, reservations
  <1>5. CASE HandWears(c, i)
    <2> DEFINE new == In(IF place[i].at = "bags" THEN "worn" ELSE "bags", c)
    <2>1. new \in Places /\ new.of = c /\ new.at \in Owned
      BY PlaceTypes, PlaceFields DEF Somewhere, Owned
    <2>2. place[i].of = c
      BY <1>5 DEF HandWears, FindCarriedItem
    <2> HIDE DEF new
    <2>3. Keeps(i, new)
      BY <2>1, <2>2 DEF Keeps
    <2> QED  BY <1>3, <1>5, <2>1, <2>3 DEF HandWears, reservations, new
  <1>6. CASE AuctionEnds(i)
    <2>1. PICK new \in {In("letter", place[i].of), Gone} : place' = Moved(i, new)
      BY <1>6 DEF AuctionEnds
    <2>2. place[i] \in Places /\ place[i].at = "house"
      BY <1>6 DEF AuctionEnds, TypeOK
    <2>3. place[i].of \in Chars
      BY <2>2 DEF Places
    <2>4. new \in Places
      BY <2>3, PlaceTypes DEF Somewhere
    <2>5. Keeps(i, new)
      BY <2>2 DEF Keeps, Owned
    <2> QED  BY <1>3, <1>6, <2>1, <2>4, <2>5 DEF AuctionEnds, reservations
  <1> QED  BY <1>2, <1>4, <1>5, <1>6

LEMMA WorldStep ==
    ASSUME TypeOK,
           \/ \E c \in Chars : LogsInOrOut(c) \/ LevelsUp(c)
           \/ GiveAgain \/ Restart \/ UNCHANGED vars
    PROVE  TypeOK' /\ SparesOnly
  <1>1. place' = place
    BY DEF LogsInOrOut, LevelsUp, GiveAgain, Restart, vars
  <1>2. TypeOK'
    <2>1. CASE \E c \in Chars : LogsInOrOut(c)
      BY <2>1, BelongingsAssumption
         DEF LogsInOrOut, Fault, Elsewhere, TypeOK, reservations
    <2>2. CASE \E c \in Chars : LevelsUp(c)
      BY <2>2 DEF LevelsUp, Elsewhere, TypeOK, reservations
    <2>3. CASE GiveAgain
      BY <2>3 DEF GiveAgain, TypeOK, people, reservations, bounds
    <2>4. CASE Restart
      BY <2>4, BelongingsAssumption DEF Restart, TypeOK, people
    <2>5. CASE UNCHANGED vars
      BY <2>5 DEF vars, TypeOK, people, reservations, bounds
    <2> QED  BY <2>1, <2>2, <2>3, <2>4, <2>5
  <1> QED  BY <1>1, <1>2, PlacesStay

LEMMA BelongingsInit == Init => TypeOK /\ Honesty
  <1> SUFFICES ASSUME Init PROVE TypeOK /\ Honesty
    OBVIOUS
  <1>1. place \in [Items -> Places]
    BY PlaceTypes DEF Init, Somewhere, Owned
  <1> QED  BY <1>1, BelongingsAssumption DEF Init, TypeOK, Honesty

LEMMA BelongingsNext ==
    ASSUME TypeOK, Honesty, [Next]_vars
    PROVE  TypeOK' /\ SparesOnly /\ Honesty'
  <1>1. ASSUME NEW c \in Chars, NEW i \in Items, OneVerb(c, i)
        PROVE  TypeOK' /\ SparesOnly /\ Honesty'
    <2>1. Ordered(c)
      BY <1>1 DEF OneVerb, Sell, Destroy, Deposit, Withdraw, PlaceBag, Buy, AuctionList,
                  AuctionCancel, AuctionBuy, MailTake, VaultIn, VaultOut
    <2>2. Walled \/ \E verb \in Verbs \ {"send"} : Row(verb, c, NoOne, i)
      BY <1>1, SellRow, DestroyRow, DepositRow, WithdrawRow, PlaceBagRow, BuyRow, ListRow,
         CancelRow, BuyoutRow, TakeRow, VaultInRow, VaultOutRow DEF OneVerb, Verbs
    <2> QED  BY <2>1, <2>2, WalledStep, RowStep
  <1>2. ASSUME NEW c \in Chars, NEW d \in Chars, NEW i \in Items, VerbTo(c, d, i)
        PROVE  TypeOK' /\ SparesOnly /\ Honesty'
    <2>1. CASE GiveRefused(c, d, i) \/ Give(c, d, i) \/ GiveMakesRoom(c, d, i) \/ MailSend(c, d, i)
      BY <2>1, GiveRefusedStep, GiveStep, GiveMakesRoomStep, MailSendStep
    <2>2. CASE Trade(c, d, i)
      <3>1. Walled \/ Row("trade", c, d, i)
        BY <2>2, TradeRow
      <3>2. Ordered(c) /\ "trade" \in Verbs \ {"send"}
        BY <2>2 DEF Trade, Verbs
      <3> QED  BY <3>1, <3>2, WalledStep, RowStep
    <2>3. CASE MailReturn(c, d, i)
      <3>1. Walled \/ Row("return", c, d, i)
        BY <2>3, ReturnRow
      <3>2. Ordered(c) /\ "return" \in Verbs \ {"send"}
        BY <2>3 DEF MailReturn, Verbs
      <3> QED  BY <3>1, <3>2, WalledStep, RowStep
    <2> QED  BY <1>2, <2>1, <2>2, <2>3 DEF VerbTo
  <1>3. ASSUME NEW c \in Chars, NEW i \in Items, Other(c, i) \/ AuctionEnds(i)
        PROVE  TypeOK' /\ SparesOnly /\ Honesty'
    BY <1>3, ElsewhereStep DEF Other
  <1>4. CASE RosterPoll
    BY <1>4, RosterPollStep
  <1>5. CASE \/ \E c \in Chars : LogsInOrOut(c) \/ LevelsUp(c)
             \/ GiveAgain \/ Restart
    <2>1. answer' = NoAnswer
      BY <1>5 DEF LogsInOrOut, LevelsUp, GiveAgain, Restart, Fault, Elsewhere
    <2> QED  BY <1>5, <2>1, WorldStep, NothingSaid
  <1>6. CASE UNCHANGED vars
    <2>1. Honesty'
      BY <1>6 DEF vars, people, Honesty, Promised
    <2> QED  BY <1>6, <2>1, WorldStep
  <1> QED
    <2>1. ASSUME NEW i \in Items, AuctionEnds(i)
          PROVE  TypeOK' /\ SparesOnly /\ Honesty'
      <3>1. place[i].of \in Chars
        BY <2>1 DEF AuctionEnds, TypeOK, Places
      <3> QED  BY <1>3, <2>1, <3>1
    <2> QED  BY <1>1, <1>2, <1>3, <1>4, <1>5, <1>6, <2>1 DEF Next

\* Every reachable state is of the declared types.
THEOREM BelongingsTypes == Spec => []TypeOK
  BY BelongingsInit, BelongingsNext, PTL DEF Spec

\* A piece whose reservation is loaded is never sold, destroyed, auctioned,
\* mailed or put in a guild bank, whatever the verbs, the roster poll and the
\* hands do, for any number of characters and pieces.
THEOREM KeptPiecesAreNotLost == Spec => KeptIsNotLost
  <1> DEFINE NoneLost == \A c \in Chars, i \in Items :
                            ItemKept(c, i) /\ LetsGo(c, i) => place'[i].at \in Owned
  <1>1. SparesOnly => NoneLost
    BY DEF SparesOnly, In, Owned
  <1>2. TypeOK /\ Honesty /\ [Next]_vars => [NoneLost]_vars
    BY <1>1, BelongingsNext
  <1> QED
    BY BelongingsInit, BelongingsNext, <1>2, PTL DEF Spec, KeptIsNotLost

\* A delivered row of any verb moved its piece where it says, and a deposit or
\* a withdrawal that says it failed moved nothing.
THEOREM VerbsAnswerTruly == Spec => []AnswersAreTrue
  <1>1. Honesty => AnswersAreTrue
    BY DEF Honesty, AnswersAreTrue
  <1> QED  BY <1>1, BelongingsInit, BelongingsNext, PTL DEF Spec

=============================================================================
