-------------------------- MODULE BookingService ---------------------------
(***************************************************************************)
(* The booking service: the HTTP handlers for hold, commit and release,    *)
(* the reaper of every replica, and the PostgreSQL rows they keep beside   *)
(* Redis (services/booking-service/internal/handler and .../store).        *)
(*                                                                         *)
(* A handler is a sequence of calls to Redis and PostgreSQL with nothing   *)
(* around them: other handlers run between any two, and a failing call or  *)
(* a dying pod leaves the rest undone.  Each call is one action; checks    *)
(* that only read rows which never change are joined to the call that      *)
(* follows.  The seats, user and category of hold h are grant[h]: the row  *)
(* repeats the arguments of the script.                                    *)
(*                                                                         *)
(* A client commits and cancels only holds it was granted.                 *)
(***************************************************************************)
EXTENDS SeatInventory

CONSTANTS
    Keys,           \* idempotency keys of commit requests
    Reapers,        \* one reaper per replica
    Cancellers,     \* DELETE /api/hold requests in progress
    BatchSize,      \* reservations a sweep reads at most
    MaxFaults       \* bound: failed calls and died pods in a behaviour

ASSUME ServiceAssumption ==
    /\ BatchSize \in Nat \ {0} /\ MaxFaults \in Nat
    /\ Reapers \cap Cancellers = {}

VARIABLES
    hpc,            \* hpc[h]: what the hold handler that was granted h does next
    creq,           \* creq[k]: the commit request that will order as k
    rel,            \* rel[p]: holds still to release, and the row to delete
    reservations,   \* rows of the reservations table
    due,            \* holds whose expires_at has passed for PostgreSQL
    orders,         \* rows of the orders table; the columns are creq[k]
    faults

serviceVars == <<hpc, creq, rel, reservations, due, orders, faults>>
vars == <<redisVars, serviceVars>>

Releasers == Reapers \cup Cancellers

IdleCommit == [pc |-> "idle", hold |-> None, key |-> None, seats |-> <<>>]
IdleReleaser == [todo |-> {}, dropping |-> None]

Fault == faults < MaxFaults /\ faults' = faults + 1

----------------------------------------------------------------------------
(* Faulty variants of actions below: each is a slip the handlers could     *)
(* have had, and shows a property that it would break.                     *)
CommitRunWhateverTheReply(k) ==
    LET r == creq[k] IN
    /\ r.pc = "script"
    /\ \/ ExecCommit(r.hold, grant[r.hold].category, r.seats, k)
       \/ UNCHANGED redisVars
    /\ creq' = [creq EXCEPT ![k].pc = "select"]
    /\ UNCHANGED <<hpc, rel, reservations, due, orders, faults>>

CommitRunInCategoryOfRequest(k) ==
    LET r == creq[k] IN
    /\ r.pc = "script"
    /\ \E c \in Categories : ExecCommit(r.hold, c, r.seats, k)
    /\ creq' = [creq EXCEPT ![k].pc = "select"]
    /\ UNCHANGED <<hpc, rel, reservations, due, orders, faults>>

ReleaseRunPassesBatch(p) ==
    /\ rel[p].dropping = None
    /\ \E h \in rel[p].todo : ExecRelease(h)
    /\ rel' = [rel EXCEPT ![p] = [todo |-> {}, dropping |-> @.todo]]
    /\ UNCHANGED <<hpc, creq, reservations, due, orders, faults>>

ReleaseCallDropsRowFirst(p) ==
    /\ p \in Cancellers /\ rel[p] = IdleReleaser
    /\ \E h \in reservations :
          /\ rel' = [rel EXCEPT ![p].todo = {h}]
          /\ reservations' = reservations \ {h}
    /\ UNCHANGED <<redisVars, hpc, creq, due, orders, faults>>


----------------------------------------------------------------------------
(* POST /api/hold.  The idempotency check never stops a request with a     *)
(* fresh key.  The limit is read from the events row, or defaulted.        *)
HoldCall(h) ==
    /\ hpc[h] = "idle"
    /\ \E u \in Users, c \in Categories, ss \in SeatLists :
          \/ /\ Len(ss) <= EventLimit
             /\ ExecHold(u, h, c, ss, EventLimit)
             /\ UNCHANGED faults
          \/ /\ Len(ss) <= DefaultLimit
             /\ ExecHold(u, h, c, ss, DefaultLimit)
             /\ Fault
    /\ hpc' = [hpc EXCEPT ![h] = "mirror"]
    /\ UNCHANGED <<creq, rel, reservations, due, orders>>

(* INSERT INTO reservations; chk_expires refuses a row already expired.    *)
HoldMirror(h) ==
    /\ hpc[h] = "mirror"
    /\ h \notin due
    /\ reservations' = reservations \cup {h}
    /\ hpc' = [hpc EXCEPT ![h] = "held"]
    /\ UNCHANGED <<redisVars, creq, rel, due, orders, faults>>

(* The insert is refused or fails, its error dropped, or the pod dies.     *)
HoldMirrorFails(h) ==
    /\ hpc[h] = "mirror"
    /\ (h \in due /\ UNCHANGED faults) \/ Fault
    /\ hpc' = [hpc EXCEPT ![h] = "held"]
    /\ UNCHANGED <<redisVars, creq, rel, reservations, due, orders>>

----------------------------------------------------------------------------
(* POST /api/commit.                                                       *)

SameKey(k, h, key) == creq[k].key = key /\ grant[creq[k].hold].user = grant[h].user

(* Idempotency check (passed also when it fails), seat list (of the        *)
(* client, or the row's), category from the row.                           *)
CommitCall(k) ==
    /\ creq[k].pc = "idle"
    /\ \E h \in reservations, key \in Keys, ss \in SeatLists :
          /\ IF \E o \in orders : SameKey(o, h, key) THEN Fault ELSE UNCHANGED faults
          /\ creq' = [creq EXCEPT ![k] =
                         [pc |-> "script", hold |-> h, key |-> key, seats |-> ss]]
    /\ UNCHANGED <<redisVars, hpc, rel, reservations, due, orders>>

(* COMMIT ran, or answered ALREADY_COMMITTED: the handler does not look    *)
(* at the reply and keeps its own order id.                                *)
CommitRun(k) ==
    LET r == creq[k] IN
    /\ r.pc = "script"
    /\ \/ ExecCommit(r.hold, grant[r.hold].category, r.seats, k)
       \/ (ledger[r.hold] # None /\ UNCHANGED redisVars)
    /\ creq' = [creq EXCEPT ![k].pc = "select"]
    /\ UNCHANGED <<hpc, rel, reservations, due, orders, faults>>

(* HOLD_INVALID: answered with 409, nothing changed.                       *)
CommitRejected(k) ==
    LET r == creq[k] IN
    /\ r.pc = "script"
    /\ ledger[r.hold] = None
    /\ \E s \in Range(r.seats) : ~CommittableBy(s, grant[r.hold].user, r.hold)
    /\ creq' = [creq EXCEPT ![k] = IdleCommit]
    /\ UNCHANGED <<redisVars, hpc, rel, reservations, due, orders, faults>>

(* The SELECT of InsertOrderTx.  A hit returns nil: the handler answers    *)
(* PAID with an order id that is not stored.                               *)
OrderSelect(k) ==
    /\ creq[k].pc = "select"
    /\ creq' = [creq EXCEPT ![k].pc =
                   IF \E o \in orders : SameKey(o, creq[k].hold, creq[k].key)
                   THEN "paid" ELSE "insert"]
    /\ UNCHANGED <<redisVars, hpc, rel, reservations, due, orders, faults>>

(* The INSERTs of the transaction.  hold_id references reservations; the   *)
(* unique index contains created_at, so it does not hold keys apart.       *)
OrderInsert(k) ==
    /\ creq[k].pc = "insert"
    /\ creq[k].hold \in reservations
    /\ orders' = orders \cup {k}
    /\ creq' = [creq EXCEPT ![k].pc = "paid"]
    /\ UNCHANGED <<redisVars, hpc, rel, reservations, due, faults>>

(* 202 "redis committed, db pending reconciliation".                       *)
OrderInsertFails(k) ==
    /\ creq[k].pc = "insert"
    /\ (creq[k].hold \notin reservations /\ UNCHANGED faults) \/ Fault
    /\ creq' = [creq EXCEPT ![k].pc = "accepted"]
    /\ UNCHANGED <<redisVars, hpc, rel, reservations, due, orders>>

(* The pod dies, or the client goes away and its context is cancelled.     *)
CommitDies(k) ==
    /\ creq[k].pc \in {"select", "insert"}
    /\ Fault
    /\ creq' = [creq EXCEPT ![k].pc = "dead"]
    /\ UNCHANGED <<redisVars, hpc, rel, reservations, due, orders>>

----------------------------------------------------------------------------
(* DELETE /api/hold/:holdId and the reaper: read rows, then for each run   *)
(* RELEASE and delete the row.                                             *)

ReleaseCall(p) ==
    /\ p \in Cancellers /\ rel[p] = IdleReleaser
    /\ \E h \in reservations : rel' = [rel EXCEPT ![p].todo = {h}]
    /\ UNCHANGED <<redisVars, hpc, creq, reservations, due, orders, faults>>

(* SELECT ... WHERE expires_at < now() LIMIT BatchSize: any such rows,     *)
(* those of committed holds too.                                           *)
Sweep(p) ==
    LET expired == reservations \cap due IN
    /\ p \in Reapers /\ rel[p] = IdleReleaser
    /\ expired # {}
    /\ \E batch \in SUBSET expired :
          /\ Cardinality(batch) = Min({BatchSize, Cardinality(expired)})
          /\ rel' = [rel EXCEPT ![p].todo = batch]
    /\ UNCHANGED <<redisVars, hpc, creq, reservations, due, orders, faults>>

ReleaseRun(p) ==
    /\ rel[p].dropping = None
    /\ \E h \in rel[p].todo :
          /\ ExecRelease(h)
          /\ rel' = [rel EXCEPT ![p] = [todo |-> @.todo \ {h}, dropping |-> h]]
    /\ UNCHANGED <<hpc, creq, reservations, due, orders, faults>>

(* The reply is lost and the Redis client sends the script again.          *)
ReleaseRetried(p) ==
    /\ rel[p].dropping = None
    /\ \E h \in rel[p].todo : ExecRelease(h)
    /\ Fault
    /\ UNCHANGED <<hpc, creq, rel, reservations, due, orders>>

(* The script did not run.  The handler answers 500; the reaper does not   *)
(* look at the error and goes on to the row.  A RELEASE beyond MaxReleases *)
(* is such a failure that costs no fault, so that the bound stops nobody.  *)
ReleaseFails(p) ==
    /\ rel[p].dropping = None
    /\ \E h \in rel[p].todo :
          /\ Fault \/ (releases[h] = MaxReleases /\ UNCHANGED faults)
          /\ rel' = [rel EXCEPT ![p] = [todo |-> @.todo \ {h},
                        dropping |-> IF p \in Reapers THEN h ELSE None]]
    /\ UNCHANGED <<redisVars, hpc, creq, reservations, due, orders>>

Ordered(h) == \E o \in orders : creq[o].hold = h

(* DELETE FROM reservations: an order's foreign key keeps the row, and     *)
(* the error is dropped.                                                   *)
DropRow(p) ==
    /\ rel[p].dropping # None
    /\ reservations' = IF Ordered(rel[p].dropping) THEN reservations
                       ELSE reservations \ {rel[p].dropping}
    /\ rel' = [rel EXCEPT ![p].dropping = None]
    /\ UNCHANGED <<redisVars, hpc, creq, due, orders, faults>>

DropRowFails(p) ==
    /\ rel[p].dropping # None
    /\ Fault
    /\ rel' = [rel EXCEPT ![p].dropping = None]
    /\ UNCHANGED <<redisVars, hpc, creq, reservations, due, orders>>

ReleaserDies(p) ==
    /\ rel[p] # IdleReleaser
    /\ Fault
    /\ rel' = [rel EXCEPT ![p] = IdleReleaser]
    /\ UNCHANGED <<redisVars, hpc, creq, reservations, due, orders>>

----------------------------------------------------------------------------
(* Time.  PostgreSQL's clock decides `due', Redis fires its TTL by itself, *)
(* in either order.                                                        *)
Expires(h) ==
    /\ h \in Granted \ due
    /\ due' = due \cup {h}
    /\ UNCHANGED <<redisVars, hpc, creq, rel, reservations, orders, faults>>

RedisTime ==
    /\ \/ \E h \in Granted : HoldTtlFires(h) \/ LedgerTtlFires(h)
       \/ \E u \in Users : LimitTtlFires(u)
    /\ UNCHANGED serviceVars

----------------------------------------------------------------------------
Init ==
    /\ RedisInit
    /\ hpc = [h \in Holds |-> "idle"]
    /\ creq = [k \in Orders |-> IdleCommit]
    /\ rel = [p \in Releasers |-> IdleReleaser]
    /\ reservations = {} /\ due = {} /\ orders = {}
    /\ faults = 0

HoldStep(h) == HoldMirror(h) \/ HoldMirrorFails(h)
CommitStep(k) ==
    \/ CommitRun(k) \/ CommitRejected(k)
    \/ OrderSelect(k) \/ OrderInsert(k) \/ OrderInsertFails(k) \/ CommitDies(k)
ReleaserStep(p) ==
    \/ ReleaseRun(p) \/ ReleaseRetried(p) \/ ReleaseFails(p)
    \/ DropRow(p) \/ DropRowFails(p) \/ ReleaserDies(p)

Next ==
    \/ \E h \in Holds : HoldCall(h) \/ HoldStep(h) \/ Expires(h)
    \/ \E k \in Orders : CommitCall(k) \/ CommitStep(k)
    \/ \E p \in Releasers : ReleaseCall(p) \/ Sweep(p) \/ ReleaserStep(p)
    \/ RedisTime

Spec == Init /\ [][Next]_vars

(* A handler or reaper that can take a step takes one (or fails), the      *)
(* reaper's ticker keeps ticking and clocks run.  Clients may stop.        *)
Fairness ==
    /\ \A h \in Holds : WF_vars(HoldStep(h)) /\ WF_vars(Expires(h))
    /\ \A h \in Holds : WF_vars(h \in Granted /\ HoldTtlFires(h) /\ UNCHANGED serviceVars)
    /\ \A k \in Orders : WF_vars(CommitStep(k))
    /\ \A p \in Releasers : WF_vars(ReleaserStep(p)) /\ WF_vars(Sweep(p))

FairSpec == Spec /\ Fairness

----------------------------------------------------------------------------
CommitStates == {"idle", "script", "select", "insert", "paid", "accepted", "dead"}
CommitRequests == [pc : CommitStates, hold : Holds \cup {None},
                   key : Keys \cup {None}, seats : SeatLists \cup {<<>>}]
Releases == [todo : SUBSET Holds, dropping : Holds \cup {None}]

(* The shape of the handlers' and tables' state; columns of an order are   *)
(* those of a request that has passed the script.                          *)
ServiceTypeOK ==
    /\ hpc \in [Holds -> {"idle", "mirror", "held"}]
    /\ creq \in [Orders -> CommitRequests]
    /\ rel \in [Releasers -> Releases]
    /\ reservations \subseteq Holds /\ due \subseteq Holds /\ orders \subseteq Orders
    /\ faults \in 0 .. MaxFaults

(* Every row and every handler in progress is about a granted hold.        *)
ServiceRefersToGrants ==
    /\ \A h \in Holds : hpc[h] # "idle" => h \in Granted
    /\ reservations \subseteq Granted
    /\ \A k \in Orders : creq[k].pc # "idle" => creq[k].hold \in Granted /\ creq[k].seats \in SeatLists
    /\ \A p \in Releasers : rel[p].todo \subseteq Granted

(* A commit that got past Redis - answered PAID, answered 202, or still    *)
(* between script and rows, also as a replay - belongs to a hold under     *)
(* which Redis sold at least one seat, and no order row exists otherwise.  *)
OrdersAreBacked ==
    \A k \in Orders :
        (k \in orders \/ creq[k].pc \in {"select", "insert", "paid", "accepted", "dead"}) =>
            \E s \in Seats : <<creq[k].hold, s>> \in sales

(* While nothing has failed, a hold that Redis sold has its reservation    *)
(* row, which the order row must reference, until a RELEASE of that very   *)
(* hold has run: between a COMMIT and its INSERT no DELETE and no sweep,   *)
(* begun before the commit or after, takes the row away and leaves the     *)
(* sale standing.                                                          *)
SaleKeepsRow ==
    faults = 0 =>
        \A p \in sales : releases[p[1]] = 0 => p[1] \in reservations

(* A client whose hold has its row, whose key lives in Redis, and that     *)
(* nobody released or committed, can commit it: COMMIT accepts the seats   *)
(* of the hold.                                                            *)
HoldCanBeCommitted ==
    \A h \in reservations \cap holdKeys :
        /\ ledger[h] = None
        /\ \A s \in Range(grant[h].seats) : CommittableBy(s, grant[h].user, h)

(* While nothing has failed, an answered hold whose key lives in Redis has *)
(* its reservation row until its time is over: cancel, commit and reaper,  *)
(* in any order, take the key away before the row, so that nobody is left  *)
(* with a hold that COMMIT finds in Redis but not in PostgreSQL.           *)
LiveHoldHasRow ==
    \A h \in holdKeys :
        hpc[h] = "held" /\ h \notin due /\ faults = 0 => h \in reservations

(* Expired rows the sweep selects and can never delete: a committed hold's *)
(* row is due like any other, and the order's foreign key keeps it.        *)
StuckRows == {h \in reservations \cap due : Ordered(h)}


(* The handlers and the reaper drive Redis only through the scripts, one   *)
(* at a time, with the arguments of the hold: every behaviour of the       *)
(* service is one of SeatInventory, whose properties it so inherits.       *)
InventorySpec == RedisSpec

----------------------------------------------------------------------------
(* What the repository says of the program and the code does not do.       *)

(* sql/001_schema.sql:3 "zero double-booking": no seat is in PAID orders   *)
(* of two holds.                                                           *)
NoDoubleBooking ==
    \A o, q \in orders :
        creq[o].hold # creq[q].hold => Range(creq[o].seats) \cap Range(creq[q].seats) = {}

(* README.md:244 "UUID key per checkout payload - retry safe": one order   *)
(* per idempotency key and user.                                           *)
OneOrderPerKey ==
    \A o, q \in orders : o # q => ~SameKey(o, creq[q].hold, creq[q].key)

(* release.lua:1 "kembalikan stok saat TTL habis / cancel" (return stock   *)
(* when the TTL ends), main.go:124 "release expired holds (fallback if     *)
(* Redis TTL missed)": a seat whose key expired is on sale again once      *)
(* every hold that had it was released.                                    *)
ReleasedSeatsReturn ==
    \A s \in Seats : seat[s].status = "NIL" =>
        \E h \in Granted : s \in Range(grant[h].seats) /\ releases[h] = 0

(* commit.go:116 "pending reconciliation": what Redis committed reaches    *)
(* PostgreSQL in the end.                                                  *)
CommittedReachesPostgres ==
    \A h \in Holds : (ledger[h] # None) ~> Ordered(h)

============================================================================
