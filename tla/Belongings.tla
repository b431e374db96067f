------------------------------ MODULE Belongings ------------------------------
(***************************************************************************)
(* What the economy verbs do to the pieces a character owns                *)
(* (mod_overseer.cpp 63772-67449, 70867-71176, 78761-79404): give, trade,  *)
(* sell, destroy, bank, buy, auction, mail and the guild vault,            *)
(* each run by one pass over its row, each asking the core to act as a     *)
(* client would and answering from what it reads back; and the pieces an   *)
(* operator reserved (overseer_keep, 3868-3922, 65348-65451), which no     *)
(* verb may let go and the roster poll puts away until their level.        *)
(*                                                                         *)
(* A verb runs within one update of the world, so each is one action; what *)
(* the core makes of the request is its nondeterminism: it acts, it        *)
(* refuses in silence, or a stack merges into another and loses its guid.  *)
(***************************************************************************)
EXTENDS Naturals, FiniteSets

CONSTANTS
    Chars,       \* characters
    Items,       \* instances, by guid
    Bags,        \* the containers among them
    Stacks,      \* the stackable ones, all of one entry
    Gear,        \* the ones that are worn
    NoOne, NoItem,
    MaxOrders,   \* rows that reach a verb (a bound)
    MaxFaults    \* log-outs, restarts, rows of overseer_keep, hands (a bound)

ASSUME BelongingsAssumption ==
    /\ Bags \subseteq Items /\ Stacks \subseteq Items /\ Gear \subseteq Items
    /\ Bags \cap Stacks = {} /\ Gear \cap Stacks = {}
    /\ IsFiniteSet(Stacks)
    /\ NoOne \notin Chars /\ NoItem \notin Items
    /\ MaxOrders \in Nat /\ MaxFaults \in Nat

VARIABLES
    place,     \* where each piece is, and whose
    online,    \* characters in the world
    young,     \* characters below the level a reservation names
    reserved,  \* rows of overseer_keep, by instance
    keep,      \* g_keep, as the last roster poll loaded it
    held,      \* _giveRefusals: giver, receiver and piece refused lately
    answer,    \* the answer of the row run last
    orders,    \* bound
    faults     \* bound

people == <<online, young>>
reservations == <<reserved, keep>>
bounds == <<orders, faults>>
vars == <<place, people, reservations, held, answer, bounds>>

(* A guid lives in the first group; in the second the units were merged    *)
(* into a stack that was there, and no order can name them any more.       *)
Carriable == {"bags", "worn"}
Owned == {"bags", "worn", "bank", "stack", "bankstack"}
Somewhere == Owned \cup {"letter", "house"}
Places == [at : Somewhere, of : Chars]
          \cup [at : {"shop", "vault", "vaultstack", "gone"}, of : {NoOne}]

In(at, c) == [at |-> at, of |-> c]
Shop == In("shop", NoOne)
Vault == In("vault", NoOne)
Gone == In("gone", NoOne)
MergedIn == [bags |-> "stack", bank |-> "bankstack", vault |-> "vaultstack"]

(* Where the core leaves a piece it puts into a store of an owner.         *)
Lands(i, at, c) ==
    {In(at, c)} \cup (IF i \in Stacks THEN {In(MergedIn[at], c)} ELSE {})

Verbs == {"give", "trade", "sell", "destroy", "deposit", "withdraw", "place bag",
          "buy", "list", "cancel", "buyout", "send", "take", "return",
          "vault in", "vault out", "keep", "hand"}

Statuses == {"delivered", "refused", "unknown"}
NoAnswer == [status |-> "none"]
Older == "older"
Answers ==
    [verb : Verbs, who : Chars, to : Chars \cup {NoOne}, item : Items,
     before : Places, status : Statuses, spare : Items \cup {NoItem},
     letter : Items \cup {NoItem, Older}]

Init ==
    /\ place \in [Items -> {In("bags", c) : c \in Chars} \cup {Shop}]
    /\ online = Chars
    /\ young \in SUBSET Chars
    /\ reserved = {} /\ keep = {}
    /\ held = {}
    /\ answer = NoAnswer
    /\ orders = 0 /\ faults = 0

-----------------------------------------------------------------------------
(* Reading the bags.                                                       *)

(* FindCarriedItem: worn gear, the backpack and the worn bags, by guid.    *)
FindCarriedItem(p, c, i) == p[i].of = c /\ p[i].at \in Carriable

FindBankedItem(p, c, i) == p[i] = In("bank", c)

(* Player::GetItemByGuid: carried or banked.                               *)
GetItemByGuid(p, c, i) == FindCarriedItem(p, c, i) \/ FindBankedItem(p, c, i)

EntryOf(i) == IF i \in Stacks THEN Stacks ELSE {i}

(* GetItemCount of the piece's entry, over the given places.               *)
CountIn(p, i, at, c) ==
    Cardinality({j \in EntryOf(i) : p[j].of = c /\ p[j].at \in at})
CarriedCount(p, i, c) == CountIn(p, i, {"bags", "worn", "stack"}, c)
BankedCount(p, i, c) == CountIn(p, i, {"bank", "bankstack"}, c)
TabHolds(p, i) == CountIn(p, i, {"vault", "vaultstack"}, NoOne)

(* ItemKept, KeepReservationFor.                                           *)
ItemKept(c, i) == <<c, i>> \in keep

Moved(i, new) == [place EXCEPT ![i] = new]

-----------------------------------------------------------------------------
(* One row of a verb: the piece goes to a place, the row gets its answer.  *)

Ordered(c) ==
    /\ c \in online
    /\ orders < MaxOrders
    /\ UNCHANGED <<people, reservations, faults>>

Said(verb, c, d, i, status) ==
    [verb |-> verb, who |-> c, to |-> d, item |-> i, before |-> place[i],
     status |-> status, spare |-> NoItem, letter |-> NoItem]

Done(verb, c, d, i, p, status) ==
    /\ place' = p
    /\ answer' = Said(verb, c, d, i, status)
    /\ orders' = orders + 1
    /\ UNCHANGED held

(* Any of a verb's early returns: the walls on life, combat, flight,       *)
(* reach, money, binding, room, the shape of the request.  Nothing has     *)
(* been asked of the core yet, and the answer says so.                     *)
Walled ==
    /\ answer' = NoAnswer
    /\ UNCHANGED <<place, held, orders>>

(* Give ------------------------------------------------------------------ *)

GiveHeldOff(c, d, i) == <<c, d, i>> \in held

\* Faulty: the key leaves the giver out.
NoteRefusalOfAnyone(c, d, i) == held' = held \cup {<<d, i>>}

NoteGiveRefusal(c, d, i) == held' = held \cup {<<c, d, i>>}

(* A give that is answered again with the refusal that still stands, or    *)
(* one whose refusal is remembered.                                        *)
GiveRefused(c, d, i) ==
    /\ Ordered(c)
    /\ c # d
    /\ answer' = NoAnswer
    /\ orders' = orders + 1
    /\ UNCHANGED place
    /\ IF GiveHeldOff(c, d, i) THEN UNCHANGED held ELSE NoteGiveRefusal(c, d, i)

MayGive(c, d, i) ==
    /\ c # d /\ d \in online
    /\ ~GiveHeldOff(c, d, i)
    /\ FindCarriedItem(place, c, i)
    /\ ~ItemKept(c, i)

(* PlaceItemOn: a container is worn in a free bag slot when it can be,     *)
(* anything else is stored, and a stack may merge.                         *)
PlaceItemOn(d, i) ==
    Lands(i, "bags", d) \cup (IF i \in Bags THEN {In("worn", d)} ELSE {})

Give(c, d, i) ==
    /\ Ordered(c)
    /\ MayGive(c, d, i)
    /\ \E new \in PlaceItemOn(d, i) : place' = Moved(i, new)
    /\ answer' = Said("give", c, d, i, "delivered")
    /\ held' = {h \in held : h[2] # d}
    /\ orders' = orders + 1

(* SpareContainerFor: the first loose bag the receiver could wear.         *)
SpareContainers(c, i) == {b \in Bags \ {i} : place[b] = In("bags", c)}

(* The receiver has no room for a piece that is no bag: a spare bag goes   *)
(* first, and the room is asked for again.                                 *)
GiveMakesRoom(c, d, i) ==
    /\ Ordered(c)
    /\ MayGive(c, d, i) /\ i \notin Bags
    /\ orders' = orders + 1
    /\ \E b \in SpareContainers(c, i) :
        LET roomier == Moved(b, In("worn", d)) IN
        \/ /\ \E new \in PlaceItemOn(d, i) : place' = [roomier EXCEPT ![i] = new]
           /\ answer' = [Said("give", c, d, i, "delivered") EXCEPT !.spare = b]
           /\ held' = {h \in held : h[2] # d}
        \/ /\ place' = roomier
           /\ answer' = [Said("give", c, d, i, "refused") EXCEPT !.spare = b]
           /\ NoteGiveRefusal(c, d, i)

(* GIVE_REFUSAL_BACKOFF_SECONDS have passed.                               *)
GiveAgain ==
    /\ held # {}
    /\ \E h \in held : held' = held \ {h}
    /\ answer' = NoAnswer
    /\ UNCHANGED <<place, people, reservations, bounds>>

(* Trade ----------------------------------------------------------------- *)

MayTrade(c, d, i) ==
    /\ c # d /\ d \in online
    /\ FindCarriedItem(place, c, i)
    /\ ~ItemKept(c, i)

(* The window closed; believed only when the receiver holds the guid.      *)
TradeAnswer(p, d, i) ==
    IF GetItemByGuid(p, d, i) THEN "delivered" ELSE "refused"

Trade(c, d, i) ==
    /\ Ordered(c)
    /\ \/ Walled
       \/ /\ MayTrade(c, d, i)
          /\ \E new \in Lands(i, "bags", d) \cup {place[i]} :
                Done("trade", c, d, i, Moved(i, new),
                     TradeAnswer(Moved(i, new), d, i))

(* Sell and destroy ------------------------------------------------------ *)

MaySell(c, i) == FindCarriedItem(place, c, i) /\ ~ItemKept(c, i)

SellAnswer(p, c, i) ==
    IF FindCarriedItem(p, c, i) THEN "refused" ELSE "delivered"

Sell(c, i) ==
    /\ Ordered(c)
    /\ \/ Walled
       \/ /\ MaySell(c, i)
          /\ \E new \in {Gone, place[i]} :
                Done("sell", c, NoOne, i, Moved(i, new), SellAnswer(Moved(i, new), c, i))

MayDestroy(c, i) == FindCarriedItem(place, c, i) /\ ~ItemKept(c, i)

(* DestroyRefusal: a worn piece never.                                     *)
DestroyRefusal(i) == place[i].at = "worn"

Destroy(c, i) ==
    /\ Ordered(c)
    /\ \/ Walled
       \/ /\ MayDestroy(c, i) /\ ~DestroyRefusal(i)
          /\ \E new \in {Gone, place[i]} :
                Done("destroy", c, NoOne, i, Moved(i, new),
                     SellAnswer(Moved(i, new), c, i))

(* Bank ------------------------------------------------------------------ *)

\* Faulty: a merged stack is not looked for.
DepositLandedByGuid(p, c, i) == FindBankedItem(p, c, i)

(* Landed: by the guid when the piece still has one, by the counts on both *)
(* sides of the counter when it merged.                                    *)
DepositLanded(p, c, i) ==
    IF GetItemByGuid(p, c, i)
    THEN FindBankedItem(p, c, i)
    ELSE /\ BankedCount(p, i, c) = BankedCount(place, i, c) + 1
         /\ CarriedCount(p, i, c) + 1 = CarriedCount(place, i, c)

WithdrawLanded(p, c, i) ==
    IF GetItemByGuid(p, c, i)
    THEN ~FindBankedItem(p, c, i)
    ELSE /\ CarriedCount(p, i, c) = CarriedCount(place, i, c) + 1
         /\ BankedCount(p, i, c) + 1 = BankedCount(place, i, c)

Landed(yes) == IF yes THEN "delivered" ELSE "refused"

Deposit(c, i) ==
    /\ Ordered(c)
    /\ \/ Walled
       \/ /\ FindCarriedItem(place, c, i)
          /\ \E new \in Lands(i, "bank", c) \cup {place[i]} :
                Done("deposit", c, NoOne, i, Moved(i, new),
                     Landed(DepositLanded(Moved(i, new), c, i)))

Withdraw(c, i) ==
    /\ Ordered(c)
    /\ \/ Walled
       \/ /\ FindBankedItem(place, c, i)
          /\ \E new \in Lands(i, "bags", c) \cup {place[i]} :
                Done("withdraw", c, NoOne, i, Moved(i, new),
                     Landed(WithdrawLanded(Moved(i, new), c, i)))

(* An empty loose bag into an open bank bag slot.                          *)
PlaceBag(c, i) ==
    /\ Ordered(c)
    /\ \/ Walled
       \/ /\ i \in Bags /\ place[i] = In("bags", c)
          /\ \E new \in {In("bank", c), place[i]} :
                Done("place bag", c, NoOne, i, Moved(i, new),
                     Landed(FindBankedItem(Moved(i, new), c, i)))

(* Buy ------------------------------------------------------------------- *)

(* Delivered when the count grew by what was bought and the price was the  *)
(* quoted one; the piece that arrived at another price is an error.        *)
BuyAnswer(p, c, i, priced) ==
    IF CarriedCount(p, i, c) = CarriedCount(place, i, c) THEN "refused"
    ELSE IF priced THEN "delivered" ELSE "unknown"

Buy(c, i) ==
    /\ Ordered(c)
    /\ \/ Walled
       \/ /\ place[i] = Shop
          /\ \E new \in PlaceItemOn(c, i) \cup {place[i]}, priced \in BOOLEAN :
                Done("buy", c, NoOne, i, Moved(i, new),
                     BuyAnswer(Moved(i, new), c, i, priced))

(* Auction --------------------------------------------------------------- *)

\* Faulty: the reservations are not asked.
MayListUnasked(c, i) == FindCarriedItem(place, c, i)

MayList(c, i) == FindCarriedItem(place, c, i) /\ ~ItemKept(c, i)

(* Listed, and not in the bags any more; either one alone is not believed. *)
ListAnswer(p, c, i) ==
    IF p[i] = In("house", c) THEN "delivered"
    ELSE IF GetItemByGuid(p, c, i) THEN "refused" ELSE "unknown"

AuctionList(c, i) ==
    /\ Ordered(c)
    /\ \/ Walled
       \/ /\ MayList(c, i)
          /\ \E new \in {In("house", c), place[i]} :
                Done("list", c, NoOne, i, Moved(i, new), ListAnswer(Moved(i, new), c, i))

AuctionCancel(c, i) ==
    /\ Ordered(c)
    /\ \/ Walled
       \/ /\ place[i] = In("house", c)
          /\ \E new \in {In("letter", c), place[i]} :
                Done("cancel", c, NoOne, i, Moved(i, new),
                     Landed(Moved(i, new)[i].at # "house"))

(* A bid that takes the auction: the piece comes by mail.                  *)
AuctionBuy(c, i) ==
    /\ Ordered(c)
    /\ \/ Walled
       \/ /\ place[i].at = "house" /\ place[i].of # c
          /\ \E new \in {In("letter", c), place[i]}, paid \in BOOLEAN :
                Done("buyout", c, NoOne, i, Moved(i, new),
                     IF new.at = "house" THEN "refused"
                     ELSE IF paid THEN "delivered" ELSE "unknown")

(* Mail ------------------------------------------------------------------ *)

MaySend(c, d, i) == c # d /\ FindCarriedItem(place, c, i) /\ ~ItemKept(c, i)

(* The letters the read-back can find.  The mailbox of a receiver online   *)
(* shows a new one, by the ids before.  Of a receiver offline the table    *)
(* is read while the letter's transaction is still with the asynchronous   *)
(* worker: the letter is there if the worker was quick, and if not an      *)
(* older one of the same sender and subject may be.                        *)
Posted(d, i, sent) ==
    IF d \in online
    THEN {IF sent THEN i ELSE NoItem}
    ELSE {NoItem, Older} \cup (IF sent THEN {i} ELSE {})

SendAnswer(p, c, i, letter) ==
    CASE letter = NoItem /\ GetItemByGuid(p, c, i) -> "refused"
      [] letter # NoItem /\ ~GetItemByGuid(p, c, i) -> "delivered"
      [] OTHER -> "unknown"

MailSend(c, d, i) ==
    /\ Ordered(c)
    /\ \/ Walled
       \/ /\ MaySend(c, d, i)
          /\ \E new \in {In("letter", d), place[i]} :
                \E letter \in Posted(d, i, new.at = "letter") :
                    /\ place' = Moved(i, new)
                    /\ answer' = [Said("send", c, d, i,
                                       SendAnswer(Moved(i, new), c, i, letter))
                                  EXCEPT !.letter = letter]
                    /\ orders' = orders + 1
                    /\ UNCHANGED held

(* Taken when the letter has lost it and the bags have gained it.          *)
TakeAnswer(p, c, i) ==
    CASE p[i] = place[i] -> "refused"
      [] p[i].at # "letter" /\ CarriedCount(p, i, c) = CarriedCount(place, i, c) + 1
            -> "delivered"
      [] OTHER -> "unknown"

MailTake(c, i) ==
    /\ Ordered(c)
    /\ \/ Walled
       \/ /\ place[i] = In("letter", c)
          /\ \E new \in Lands(i, "bags", c) \cup {place[i]} :
                Done("take", c, NoOne, i, Moved(i, new), TakeAnswer(Moved(i, new), c, i))

(* The letter and its piece go back to their sender.                       *)
MailReturn(c, d, i) ==
    /\ Ordered(c)
    /\ \/ Walled
       \/ /\ c # d /\ place[i] = In("letter", c)
          /\ \E new \in {In("letter", d), place[i]} :
                Done("return", c, d, i, Moved(i, new), Landed(new # place[i]))

(* The guild vault ------------------------------------------------------- *)

MayStore(c, i) == FindCarriedItem(place, c, i) /\ ~ItemKept(c, i)

VaultIn(c, i) ==
    /\ Ordered(c)
    /\ \/ Walled
       \/ /\ MayStore(c, i)
          /\ \E new \in Lands(i, "vault", NoOne) \cup {place[i]} :
                Done("vault in", c, NoOne, i, Moved(i, new),
                     Landed(~FindCarriedItem(Moved(i, new), c, i)))

(* GuildItemWithdrawVerdict: the tab lost it and the bags hold its guid,   *)
(* or neither; anything else is unexplained.                               *)
VaultOutAnswer(p, c, i) ==
    CASE /\ p[i] # Vault /\ FindCarriedItem(p, c, i)
         /\ TabHolds(p, i) + 1 = TabHolds(place, i) -> "delivered"
      [] /\ p[i] = Vault /\ ~FindCarriedItem(p, c, i)
         /\ TabHolds(p, i) = TabHolds(place, i) -> "refused"
      [] OTHER -> "unknown"

(* Into a free slot of the bags, so nothing merges.                        *)
VaultOut(c, i) ==
    /\ Ordered(c)
    /\ \/ Walled
       \/ /\ place[i] = Vault
          /\ \E new \in {In("bags", c), place[i]} :
                Done("vault out", c, NoOne, i, Moved(i, new),
                     VaultOutAnswer(Moved(i, new), c, i))

-----------------------------------------------------------------------------
(* The reservations.                                                       *)

(* KeepStepFor: below its level it comes off and into the bank; from its   *)
(* level on out of the bank and on.                                        *)
KeepStepFor(c, i) ==
    IF place[i].of # c THEN place[i].at
    ELSE CASE place[i].at = "worn" /\ c \in young -> "bags"
           [] place[i].at = "bags" /\ c \in young -> "bank"
           [] place[i].at = "bank" /\ c \notin young -> "bags"
           [] place[i].at = "bags" /\ c \notin young /\ i \in Gear \cup Bags -> "worn"
           [] OTHER -> place[i].at

(* Pieces KeepReservedItems would move.                                    *)
ToPutAway(k) ==
    {i \in Items : \E c \in online : <<c, i>> \in k /\ KeepStepFor(c, i) # place[i].at}

(* KeepReservedItems: those whose banker or slot is there take their step, *)
(* each by the bank verb or a swap; a stack may merge.                     *)
KeepReservedItems(k) ==
    \E moving \in SUBSET ToPutAway(k) :
        \E merging \in SUBSET (moving \cap Stacks) :
            place' = [i \in Items |->
                LET to == KeepStepFor(place[i].of, i) IN
                IF i \notin moving THEN place[i]
                ELSE IF i \in merging THEN In(MergedIn[to], place[i].of)
                ELSE In(to, place[i].of)]

(* ReloadKeepReservations: a query that fails keeps what was loaded.       *)
ReloadKeepReservations == keep' \in {reserved, keep}

RosterPoll ==
    /\ ReloadKeepReservations
    /\ KeepReservedItems(keep')
    /\ answer' = NoAnswer
    /\ UNCHANGED <<people, reserved, held, bounds>>

-----------------------------------------------------------------------------
(* Everything else that touches a piece or a flag.                         *)

Elsewhere == answer' = NoAnswer /\ UNCHANGED <<held, orders>>

Fault == faults < MaxFaults /\ faults' = faults + 1 /\ Elsewhere

(* The bot's own AI or a client sells, mails or trades: the core's hooks   *)
(* ask the reservations.                                                   *)
HandMoves(c, i) ==
    /\ Fault
    /\ c \in online /\ FindCarriedItem(place, c, i) /\ ~ItemKept(c, i)
    /\ \E new \in {Gone} \cup {In("letter", d) : d \in Chars \ {c}}
                 \cup {In("bags", d) : d \in online \ {c}} : place' = Moved(i, new)
    /\ UNCHANGED <<people, reservations>>

(* ... wears a piece or takes it off.                                      *)
HandWears(c, i) ==
    /\ Fault
    /\ c \in online /\ i \in Gear \cup Bags /\ FindCarriedItem(place, c, i)
    /\ place' = Moved(i, In(IF place[i].at = "bags" THEN "worn" ELSE "bags", c))
    /\ UNCHANGED <<people, reservations>>

(* An auction runs out or is sold to a stranger.                           *)
AuctionEnds(i) ==
    /\ Fault
    /\ place[i].at = "house"
    /\ place' \in {Moved(i, In("letter", place[i].of)), Moved(i, Gone)}
    /\ UNCHANGED <<people, reservations>>

RowOfKeep(c, i) ==
    /\ Fault
    /\ reserved' \in {reserved \cup {<<c, i>>}, reserved \ {<<c, i>>}} \ {reserved}
    /\ UNCHANGED <<place, people, keep>>

LogsInOrOut(c) ==
    /\ Fault
    /\ online' = IF c \in online THEN online \ {c} ELSE online \cup {c}
    /\ UNCHANGED <<place, young, reservations>>

LevelsUp(c) ==
    /\ c \in young /\ young' = young \ {c}
    /\ Elsewhere
    /\ UNCHANGED <<place, online, reservations, faults>>

(* The world restarts: what it had loaded and what it remembered is gone   *)
(* until the next roster poll.                                             *)
Restart ==
    /\ faults < MaxFaults /\ faults' = faults + 1
    /\ keep' = {} /\ held' = {}
    /\ answer' = NoAnswer
    /\ UNCHANGED <<place, people, reserved, orders>>

OneVerb(c, i) ==
    \/ Sell(c, i) \/ Destroy(c, i)
    \/ Deposit(c, i) \/ Withdraw(c, i) \/ PlaceBag(c, i)
    \/ Buy(c, i)
    \/ AuctionList(c, i) \/ AuctionCancel(c, i) \/ AuctionBuy(c, i)
    \/ MailTake(c, i)
    \/ VaultIn(c, i) \/ VaultOut(c, i)

VerbTo(c, d, i) ==
    \/ GiveRefused(c, d, i) \/ Give(c, d, i) \/ GiveMakesRoom(c, d, i)
    \/ Trade(c, d, i)
    \/ MailSend(c, d, i) \/ MailReturn(c, d, i)

Other(c, i) ==
    \/ HandMoves(c, i) \/ HandWears(c, i) \/ RowOfKeep(c, i)

Next ==
    \/ \E c \in Chars, i \in Items : OneVerb(c, i) \/ Other(c, i)
    \/ \E c, d \in Chars, i \in Items : VerbTo(c, d, i)
    \/ \E i \in Items : AuctionEnds(i)
    \/ \E c \in Chars : LogsInOrOut(c) \/ LevelsUp(c)
    \/ GiveAgain \/ RosterPoll \/ Restart

Spec == Init /\ [][Next]_vars

-----------------------------------------------------------------------------
(* Every variable stays within its type.                                   *)
TypeOK ==
    /\ place \in [Items -> Places]
    /\ online \subseteq Chars /\ young \subseteq Chars
    /\ reserved \subseteq Chars \X Items /\ keep \subseteq Chars \X Items
    /\ held \subseteq Chars \X Chars \X Items
    /\ answer = NoAnswer \/ answer \in Answers
    /\ orders \in 0..MaxOrders /\ faults \in 0..MaxFaults

(* A step lets a piece go that its owner must keep.                        *)
LetsGo(c, i) ==
    /\ place[i].of = c /\ place[i].at \in Owned
    /\ ~(place'[i].of = c /\ place'[i].at \in Owned)

(* A piece whose reservation is loaded does not get lost: no verb, poll or *)
(* hand sells, destroys, auctions or mails it or puts it in a guild bank   *)
(* (2026_09_24_06_overseer_keep.sql:4-8), whenever the reservation was     *)
(* loaded, dropped or raised to wearing.  That it stays with its owner is  *)
(* not said here: the spare bag of a give goes unasked (63887-63935).      *)
KeptIsNotLost ==
    [][\A c \in Chars, i \in Items :
        ItemKept(c, i) /\ LetsGo(c, i) => place'[i].at \in Owned]_vars

(* Where a verb that says it delivered promises to have put the piece.     *)
Promised(a) ==
    CASE a.verb \in {"give", "trade"} -> {In(at, a.to) : at \in {"bags", "worn", "stack"}}
      [] a.verb \in {"sell", "destroy"} -> {Gone}
      [] a.verb \in {"deposit", "place bag"} -> {In(at, a.who) : at \in {"bank", "bankstack"}}
      [] a.verb \in {"withdraw", "buy", "take", "vault out"} ->
            {In(at, a.who) : at \in {"bags", "worn", "stack"}}
      [] a.verb = "list" -> {In("house", a.who)}
      [] a.verb \in {"cancel", "buyout"} -> {In("letter", a.who)}
      [] a.verb \in {"send", "return"} -> {In("letter", a.to)}
      [] a.verb = "vault in" -> {Vault, In("vaultstack", NoOne)}

(* A delivered row moved its piece where it says; and a deposit or a       *)
(* withdrawal that says it failed moved nothing, though a stack that merged *)
(* over the counter has lost its guid (65246-65256 counts on both sides).  *)
AnswersAreTrue ==
    answer # NoAnswer =>
        /\ answer.status = "delivered" => place[answer.item] \in Promised(answer)
        /\ answer.status = "refused" /\ answer.verb \in {"deposit", "withdraw"} =>
            place[answer.item] = answer.before

=============================================================================
