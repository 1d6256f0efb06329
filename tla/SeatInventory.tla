--------------------------- MODULE SeatInventory ---------------------------
(***************************************************************************)
(* The Redis side of booking: the inventory counters, the seat hashes, the *)
(* per-user ticket counter, the hold keys and the order keys of one event, *)
(* and the three Lua scripts that are the only code that changes them      *)
(* (services/booking-service/internal/redis/lua.go).  Redis runs a script  *)
(* without interleaving, so a script is one action; a rejected script      *)
(* changes nothing and is no action.                                       *)
(*                                                                         *)
(* Here the scripts are called in any order with any arguments a handler   *)
(* can pass.  BookingService calls them in the order the handlers do, and  *)
(* implements this module.                                                 *)
(***************************************************************************)
EXTENDS Integers, Sequences, FiniteSetsExt, Functions

CONSTANTS
    Users,          \* buyers, ARGV user_id
    Seats,          \* seats of the event
    Categories,     \* ticket categories; each has one inventory hash
    Holds,          \* hold ids (a fresh uuid per successful HOLD)
    Orders,         \* order ids (a fresh uuid per COMMIT call)
    SeatLists,      \* the seat lists a request may carry
    Quota,          \* Quota[c]: the 'available' count seeded for c
    EventLimit,     \* events.max_ticket_per_user
    DefaultLimit,   \* the limit used when the events row cannot be read
    DayPasses,      \* whether the 24 hour expiries of counters can be reached
    MaxReleases,    \* bound: how often RELEASE runs for one hold
    None            \* a missing hash field or key

ASSUME VenueAssumption == IsFiniteSet(Seats) /\ IsFiniteSet(Categories)
ASSUME SeatListsAssumption == SeatLists \subseteq Seq(Seats) \ {<<>>}
ASSUME QuotaAssumption == Quota \in [Categories -> Nat]
(* Seeding makes the quota of a category and that many seat hashes.        *)
ASSUME SeededAssumption == Cardinality(Seats) <= SumFunctionOnSet(Quota, Categories)
ASSUME LimitAssumption == EventLimit \in Nat /\ DefaultLimit \in Nat
ASSUME NoneAssumption ==
    /\ None \notin Users \cup Holds \cup Orders
    /\ None \notin [user : Users, category : Categories, seats : SeatLists]
ASSUME BoundAssumption == MaxReleases \in Nat \ {0} /\ DayPasses \in BOOLEAN

VARIABLES
    inventory,      \* inventory:{event}:category -> available, held, sold
    seat,           \* seat:{event}:id -> status, held_by, hold_id, has a TTL
    userLimit,      \* user:limit:{event}:user -> count, has a TTL
    holdKeys,       \* holds whose hold:{event}:id key exists
    ledger,         \* order:hold:{event}:id -> the order that committed it
    committed,      \* history: the hold an order id was committed for
    grant,          \* history: the arguments HOLD granted a hold for
    sales,          \* history: the (hold, seat) pairs COMMIT turned to SOLD
    releases,       \* history: how often RELEASE ran for a hold
    lapsed,         \* history: holds whose order key has expired
    repeats         \* history: how many names of COMMIT's lists were repeated

redisVars ==
    <<inventory, seat, userLimit, holdKeys, ledger, committed, grant, sales,
      releases, lapsed, repeats>>

Limits == {EventLimit, DefaultLimit}

FreeSeat == [status |-> "AVAILABLE", heldBy |-> None, holdId |-> None, ttl |-> FALSE]
GoneSeat == [status |-> "NIL", heldBy |-> None, holdId |-> None, ttl |-> FALSE]

Counters == [available : Int, held : Int, sold : Int]
LimitKeys == [count : Int, ttl : BOOLEAN]
SeatStates ==
    [status : {"AVAILABLE", "HELD", "SOLD", "NIL"}, heldBy : Users \cup {None},
     holdId : Holds \cup {None}, ttl : BOOLEAN]
Grants == [user : Users, category : Categories, seats : SeatLists]

Granted == {h \in Holds : grant[h] # None}

(* How many names of a list repeat an earlier one.                         *)
Repeated(ss) == Len(ss) - Cardinality(Range(ss))

----------------------------------------------------------------------------
(* Faulty variants of the pieces below: each is a slip the scripts could   *)
(* have had, and shows a property of this module that it would break.      *)
HeldSeatArgvSwapped(u, h) == [status |-> "HELD", heldBy |-> h, holdId |-> u, ttl |-> TRUE]
SoldSeatWithoutPersist(st) ==
    [status |-> "SOLD", heldBy |-> st.heldBy, holdId |-> st.holdId, ttl |-> st.ttl]
FreeUnlessHeld(s) == seat[s].status # "HELD"
WithinLimitBeforeAdding(u, need, max) == userLimit[u].count < max
NeverCommitted(h) == FALSE
CarriesAnyHold(s, h) == seat[s].holdId # None
ExpiringOfAnyHold(h) == {s \in Seats : seat[s].ttl}
MoveClamped(inv, c, from, to, n) ==     \* the clamp of redis/lua/commit.lua:149-150
    [inv EXCEPT ![c][from] = @ - Min({@, n}), ![c][to] = @ + n]
MoveOnlyFrom(inv, c, from, to, n) == [inv EXCEPT ![c][from] = @ - n]

----------------------------------------------------------------------------
(* The pieces of the scripts.                                              *)
HeldSeat(u, h) == [status |-> "HELD", heldBy |-> u, holdId |-> h, ttl |-> TRUE]

(* HMSET status SOLD and PERSIST; hold_id and held_by stay.                *)
SoldSeat(st) ==
    [status |-> "SOLD", heldBy |-> st.heldBy, holdId |-> st.holdId, ttl |-> FALSE]

Free(s) == seat[s].status = "AVAILABLE"
WithinLimit(u, need, max) == userLimit[u].count + need <= max

(* DECRBY keeps the TTL of the counter, or its absence.                    *)
LimitLoweredBy(l, n) == [count |-> l.count - n, ttl |-> l.ttl]

(* The order key of the hold exists.                                       *)
Committed(h) == ledger[h] # None

(* What COMMIT demands of a seat: still HELD, or already SOLD, by (h, u).  *)
CommittableBy(s, u, h) ==
    /\ seat[s].status \in {"HELD", "SOLD"}
    /\ seat[s].holdId = h
    /\ seat[s].heldBy = u

(* What RELEASE asks before it frees a seat.                               *)
CarriesHold(s, h) == seat[s].holdId = h

(* The two HINCRBYs every script does, by the number of keys of the call.  *)
Move(inv, c, from, to, n) == [inv EXCEPT ![c][from] = @ - n, ![c][to] = @ + n]

----------------------------------------------------------------------------
(* HOLD: all seats or none.  The limit is compared with the per-user       *)
(* counter, seats and hold key get the same TTL.                           *)
ExecHold(u, h, c, ss, max) ==
    LET need == Len(ss) IN
    /\ h \notin Granted
    /\ inventory[c].available >= need
    /\ WithinLimit(u, need, max)
    /\ \A s \in Range(ss) : Free(s)
    /\ seat' = [s \in Seats |-> IF s \in Range(ss) THEN HeldSeat(u, h) ELSE seat[s]]
    /\ inventory' = Move(inventory, c, "available", "held", need)
    /\ userLimit' = [userLimit EXCEPT ![u] = [count |-> @.count + need, ttl |-> TRUE]]
    /\ holdKeys' = holdKeys \cup {h}
    /\ grant' = [grant EXCEPT ![h] = [user |-> u, category |-> c, seats |-> ss]]
    /\ UNCHANGED <<ledger, committed, sales, releases, lapsed, repeats>>

(* COMMIT of an uncommitted hold, under a new order id.  The counters move *)
(* by every key of the call, also those already SOLD.                      *)
ExecCommit(h, c, ss, k) ==
    LET flip == {s \in Range(ss) : seat[s].status = "HELD"} IN
    /\ committed[k] = None
    /\ ~Committed(h)
    /\ \A s \in Range(ss) : CommittableBy(s, grant[h].user, h)
    /\ seat' = [s \in Seats |-> IF s \in flip THEN SoldSeat(seat[s]) ELSE seat[s]]
    /\ inventory' = Move(inventory, c, "held", "sold", Len(ss))
    /\ ledger' = [ledger EXCEPT ![h] = k]
    /\ committed' = [committed EXCEPT ![k] = h]
    /\ holdKeys' = holdKeys \ {h}
    /\ sales' = sales \cup ({h} \X flip)
    /\ repeats' = repeats + Repeated(ss)
    /\ UNCHANGED <<userLimit, grant, releases, lapsed>>

(* RELEASE: frees the seats that still carry hold_id, whatever their       *)
(* status, but moves the counters by every key of the call.                *)
ExecRelease(h) ==
    LET need == Len(grant[h].seats) IN
    /\ releases[h] < MaxReleases
    /\ seat' = [s \in Seats |-> IF s \in Range(grant[h].seats) /\ CarriesHold(s, h)
                                THEN FreeSeat ELSE seat[s]]
    /\ inventory' = Move(inventory, grant[h].category, "held", "available", need)
    /\ userLimit' = [userLimit EXCEPT ![grant[h].user] = LimitLoweredBy(@, need)]
    /\ holdKeys' = holdKeys \ {h}
    /\ releases' = [releases EXCEPT ![h] = @ + 1]
    /\ UNCHANGED <<ledger, committed, grant, sales, lapsed, repeats>>

----------------------------------------------------------------------------
(* Expiry.  Redis drops a key as a whole.                                  *)

Expiring(h) == {s \in Seats : seat[s].holdId = h /\ seat[s].ttl}

(* The TTL of one HOLD: its unsold seats and its hold key, set by one      *)
(* script to the same number of seconds, go together.                      *)
HoldTtlFires(h) ==
    /\ Expiring(h) # {}
    /\ seat' = [s \in Seats |-> IF s \in Expiring(h) THEN GoneSeat ELSE seat[s]]
    /\ holdKeys' = holdKeys \ {h}
    /\ UNCHANGED <<inventory, userLimit, ledger, committed, grant, sales, releases, lapsed, repeats>>

(* 24 hours after the user's last HOLD; every TTL of a hold is shorter.    *)
LimitTtlFires(u) ==
    /\ DayPasses
    /\ userLimit[u].ttl
    /\ \A h \in Granted : grant[h].user = u => Expiring(h) = {}
    /\ userLimit' = [userLimit EXCEPT ![u] = [count |-> 0, ttl |-> FALSE]]
    /\ UNCHANGED <<inventory, seat, holdKeys, ledger, committed, grant, sales, releases, lapsed, repeats>>

(* 24 hours after the COMMIT.                                              *)
LedgerTtlFires(h) ==
    /\ DayPasses
    /\ Committed(h)
    /\ Expiring(h) = {}
    /\ ledger' = [ledger EXCEPT ![h] = None]
    /\ lapsed' = lapsed \cup {h}
    /\ UNCHANGED <<inventory, seat, userLimit, holdKeys, committed, grant, sales, releases, repeats>>

----------------------------------------------------------------------------
RedisInit ==
    /\ inventory = [c \in Categories |-> [available |-> Quota[c], held |-> 0, sold |-> 0]]
    /\ seat = [s \in Seats |-> FreeSeat]
    /\ userLimit = [u \in Users |-> [count |-> 0, ttl |-> FALSE]]
    /\ holdKeys = {}
    /\ ledger = [h \in Holds |-> None]
    /\ committed = [k \in Orders |-> None]
    /\ grant = [h \in Holds |-> None]
    /\ sales = {}
    /\ releases = [h \in Holds |-> 0]
    /\ lapsed = {}
    /\ repeats = 0

RedisNext ==
    \/ \E u \in Users, h \in Holds, c \in Categories, ss \in SeatLists, max \in Limits :
          ExecHold(u, h, c, ss, max)
    \/ \E h \in Granted, ss \in SeatLists, k \in Orders :
          ExecCommit(h, grant[h].category, ss, k)
    \/ \E h \in Granted : ExecRelease(h)
    \/ \E h \in Granted : HoldTtlFires(h)
    \/ \E u \in Users : LimitTtlFires(u)
    \/ \E h \in Holds : LedgerTtlFires(h)

RedisSpec == RedisInit /\ [][RedisNext]_redisVars

----------------------------------------------------------------------------
(* The shape of every variable: what a HGET of each key can return.        *)
RedisTypeOK ==
    /\ inventory \in [Categories -> Counters]
    /\ seat \in [Seats -> SeatStates]
    /\ userLimit \in [Users -> LimitKeys]
    /\ holdKeys \subseteq Holds
    /\ ledger \in [Holds -> Orders \cup {None}]
    /\ committed \in [Orders -> Holds \cup {None}]
    /\ grant \in [Holds -> Grants \cup {None}]
    /\ sales \subseteq Holds \X Seats
    /\ releases \in [Holds -> 0 .. MaxReleases]
    /\ lapsed \subseteq Holds
    /\ repeats \in Nat

(* Tickets are neither created nor lost in the counters of a category,     *)
(* whatever the scripts are called with: available, held and sold always   *)
(* add up to the quota seeded for it.                                      *)
CounterConservation ==
    \A c \in Categories :
        inventory[c].available + inventory[c].held + inventory[c].sold = Quota[c]

(* As long as the hold key exists every seat of the hold is HELD, by this  *)
(* hold and this user, under a running TTL: no other buyer's HOLD, COMMIT, *)
(* RELEASE or expiry has touched one of them.                              *)
LiveHoldKept ==
    \A h \in holdKeys :
        h \in Granted /\ \A s \in Range(grant[h].seats) : seat[s] = HeldSeat(grant[h].user, h)

(* A sale stands until somebody runs RELEASE for the very hold that was    *)
(* sold: nothing else (another hold, a TTL, a repeated COMMIT) takes a     *)
(* sold seat back.                                                         *)
SaleStands ==
    \A p \in sales :
        releases[p[1]] = 0 =>
            seat[p[2]] = [status |-> "SOLD", heldBy |-> grant[p[1]].user,
                          holdId |-> p[1], ttl |-> FALSE]

(* Two holds are sold the same seat only if one of them was released in    *)
(* between: Redis alone never double-books.                                *)
NoDoubleSaleUnlessReleased ==
    \A p, q \in sales :
        p[2] = q[2] /\ p[1] # q[1] => releases[p[1]] > 0 \/ releases[q[1]] > 0

(* What makes LiveHoldKept and SaleStands inductive, and the refinement    *)
(* below exact: sales are of granted holds; a seat's hold_id names a hold  *)
(* that was granted the seat; the fields of a seat hash go together.       *)
SalesAreOfGrants == \A p \in sales : p[1] \in Granted
SeatsFollowGrants ==
    \A s \in Seats : seat[s].holdId # None =>
        seat[s].holdId \in Granted /\ s \in Range(grant[seat[s].holdId].seats)
SeatFieldsAgree ==
    \A s \in Seats :
        /\ seat[s].status \in {"HELD", "SOLD"} <=> seat[s].holdId # None
        /\ seat[s].status = "HELD" <=> seat[s].ttl

(* A seat is SOLD, and a hold committed, only by a recorded sale; COMMIT   *)
(* removes the hold key.                                                   *)
SoldSeatsAreSales ==
    \A s \in Seats : seat[s].status = "SOLD" => <<seat[s].holdId, s>> \in sales
CommittedHoldsSold ==
    \A h \in Holds : Committed(h) => \E s \in Seats : <<h, s>> \in sales
LiveHoldsUncommitted == \A h \in holdKeys : ~Committed(h)

(* The inductive invariant: after any sequence of scripts and expiries all *)
(* of the above hold together.                                             *)
InventoryInv ==
    /\ RedisTypeOK
    /\ CounterConservation
    /\ LiveHoldKept
    /\ SaleStands
    /\ SalesAreOfGrants
    /\ SeatsFollowGrants
    /\ SeatFieldsAgree
    /\ SoldSeatsAreSales
    /\ CommittedHoldsSold
    /\ LiveHoldsUncommitted

Available == {s \in Seats : Free(s)}
Held == {s \in Seats : seat[s].status = "HELD"}
Total(field) == SumFunctionOnSet([c \in Categories |-> inventory[c][field]], Categories)

Unreleased == {h \in Granted : releases[h] = 0}

(* What the holds that were not released took from 'available' beyond the  *)
(* seats they took.                                                        *)
Surplus == SumFunctionOnSet([h \in Granted |-> Repeated(grant[h].seats)], Unreleased)

(* HOLD answers SOLD_OUT from the counter.  Neither the pages nor HOLD     *)
(* refuse a list that names a seat twice, and HOLD takes such a seat twice *)
(* from 'available'.  Nothing else makes the counters fall below the       *)
(* number of seats that could be sold: not an expiry, nor a RELEASE run    *)
(* again or after a COMMIT, and RELEASE of such a list gives all of it     *)
(* back.                                                                   *)
ShortByRepeatsOnly == Cardinality(Available) <= Total("available") + Surplus

(* The 'sold' counters count every (hold, seat) sale once, and besides     *)
(* only the repeated names of COMMIT's lists, although COMMIT adds the     *)
(* number of keys of the call whatever their seats' status and may be sent *)
(* again with other lists: for the 24 hours of the order key.              *)
SoldCountsSales == lapsed = {} => Total("sold") = Cardinality(sales) + repeats

(* A hold that is released at most once, and never after seats of it were  *)
(* sold.                                                                   *)
CleanlyReleased(h) ==
    \/ releases[h] = 0
    \/ releases[h] = 1 /\ \A s \in Seats : <<h, s>> \notin sales

(* The counter of u has lost no unreleased hold by its own expiry.         *)
LimitWhole(u) ==
    userLimit[u].count =
        SumFunctionOnSet([h \in Granted |-> Len(grant[h].seats)],
                         {h \in Granted : grant[h].user = u /\ releases[h] = 0})

(* The per-user limit: with every hold of a user released at most once and *)
(* unsold, and within 24 hours of the user's last HOLD, the user never has *)
(* more seats, held or bought, than the larger limit passed to HOLD.       *)
TicketCapWhenClean ==
    \A u \in Users :
        LimitWhole(u) /\ (\A h \in Granted : grant[h].user = u => CleanlyReleased(h)) =>
            \E max \in Limits : Cardinality({s \in Seats : seat[s].heldBy = u}) <= max

(* With clean releases the 'held' counters cover the seats that are HELD   *)
(* but for the repeated names of COMMIT's lists, which leave 'held' twice, *)
(* for the 24 hours of the order key.                                      *)
HeldCoversSeatsWhenClean ==
    lapsed = {} /\ (\A h \in Granted : CleanlyReleased(h)) =>
        Total("held") + repeats >= Cardinality(Held)

----------------------------------------------------------------------------
(* The refinement: a seat's owner is its hold_id, its stage its status.    *)
StageOf(status) ==
    CASE status = "AVAILABLE" -> "free"
      [] status = "HELD" -> "held"
      [] status = "SOLD" -> "sold"
      [] status = "NIL" -> "gone"

Ownership == INSTANCE SeatOwnership WITH
    Nobody <- None,
    owner <- [s \in Seats |-> seat[s].holdId],
    stage <- [s \in Seats |-> StageOf(seat[s].status)],
    used <- Granted

(* Every script and every expiry is one step of SeatOwnership or changes   *)
(* nobody's seats.                                                         *)
OwnershipSpec == Ownership!Spec

============================================================================
