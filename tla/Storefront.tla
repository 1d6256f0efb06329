---------------------------- MODULE Storefront -----------------------------
(***************************************************************************)
(* The pages a buyer sees (frontend/app/page.tsx, the home page, and       *)
(* frontend/app/checkout/page.tsx) in front of the booking service: every  *)
(* request of BookingService is now one a page can send, with the seats    *)
(* picked, the hold shown and the fresh idempotency key of that click.     *)
(*                                                                         *)
(* A page acts on what it knows: the answer to a request arrives later, or *)
(* never, while the buyer picks other seats, clicks again or reloads.  A   *)
(* click and the arrival of its request are one step, as a request that is *)
(* late is a click that came later.  A request that is refused without an  *)
(* effect (401, 404, 409, 429, service down) leaves the page as it was     *)
(* before the click and is no step; so are the clicks without a token that *)
(* is accepted (see QueueToken).  There is one event; the statuses that    *)
(* colour the seat map may be old, so any seat can be picked.              *)
(***************************************************************************)
EXTENDS BookingService, SequencesExt

CONSTANTS
    Homes,          \* home pages that are open
    Checkouts,      \* checkout pages that are open
    Buyer           \* Buyer[p]: tiket_user_id of the browser of page p

Pages == Homes \cup Checkouts

ASSUME PagesAssumption ==
    /\ Homes \cap Checkouts = {} /\ None \notin Pages
    /\ Buyer \in [Pages -> Users]
    /\ Orders \subseteq Keys        \* crypto.randomUUID() for every commit

VARIABLES
    picked,         \* picked[p]: the seats picked, or typed
    shown,          \* shown[p]: the hold whose answer the page shows
    phase,          \* phase[p] of a home page: which buttons are enabled
    asker,          \* asker[h]: the page that waits for the answer to hold h
    committer,      \* committer[k]: the page that waits for the answer to k
    doubted         \* history: holds with a commit that the page did not see
                    \* end before it could send, or sent, another

pageVars == <<picked, shown, phase, asker, committer, doubted>>
storeVars == <<vars, pageVars>>

----------------------------------------------------------------------------
(* Faulty variants of definitions below: each is a slip a page could have  *)
(* had, and shows a property that it would break.                          *)
KeepsHoldAfterPaying(p) == shown

StaysBusy(p) == phase

ShowsOrderAsHold(p) == [shown EXCEPT ![p] = CHOOSE k \in Orders : committer[k] = p]

----------------------------------------------------------------------------
(* Picks.                                                                  *)

(* toggleSeat, up to max_per_user seats; a seat is picked once.            *)
Toggled(ss, s) ==
    IF s \in Range(ss) THEN RemoveAt(ss, CHOOSE i \in DOMAIN ss : ss[i] = s)
    ELSE IF Len(ss) >= EventLimit THEN ss ELSE Append(ss, s)

(* A click on a seat, or on CLEAR.                                         *)
PickSeat(p) ==
    /\ p \in Homes
    /\ \/ \E s \in Seats : picked' = [picked EXCEPT ![p] = Toggled(@, s)]
       \/ picked' = [picked EXCEPT ![p] = <<>>]
    /\ UNCHANGED <<vars, shown, phase, asker, committer, doubted>>

(* The text field of the checkout page, and its quick pick.                *)
TypeSeats(p) ==
    /\ p \in Checkouts
    /\ \E ss \in SeatLists \cup {<<>>} : picked' = [picked EXCEPT ![p] = ss]
    /\ UNCHANGED <<vars, shown, phase, asker, committer, doubted>>

(* The state of the page is gone, answers to its requests reach nobody.    *)
Reload(p) ==
    /\ picked' = [picked EXCEPT ![p] = <<>>]
    /\ shown' = [shown EXCEPT ![p] = None]
    /\ phase' = [phase EXCEPT ![p] = "idle"]
    /\ asker' = [h \in Holds |-> IF asker[h] = p THEN None ELSE asker[h]]
    /\ committer' = [k \in Orders |-> IF committer[k] = p THEN None ELSE committer[k]]
    /\ UNCHANGED <<vars, doubted>>

----------------------------------------------------------------------------
(* HOLD.                                                                   *)

(* The home page disables its buttons by phase, the checkout page never.   *)
MayHold(p) == p \in Homes => phase[p] = "idle"
MayCommit(p) == shown[p] # None /\ (p \in Homes => phase[p] # "committing")

InPhase(p, name) == IF p \in Homes THEN [phase EXCEPT ![p] = name] ELSE phase

ClickHold(p) ==
    /\ MayHold(p) /\ picked[p] # <<>>
    /\ \E h \in Holds :
          /\ HoldCall(h)
          /\ grant'[h].user = Buyer[p] /\ grant'[h].seats = picked[p]
          /\ asker' = [asker EXCEPT ![h] = p]
    /\ shown' = IF p \in Homes THEN [shown EXCEPT ![p] = None] ELSE shown
    /\ phase' = InPhase(p, "holding")
    /\ UNCHANGED <<picked, committer, doubted>>

HoldAnswered(h) ==
    LET p == asker[h] IN
    /\ p # None /\ hpc[h] = "held"
    /\ shown' = [shown EXCEPT ![p] = h]
    /\ phase' = InPhase(p, "held")
    /\ asker' = [asker EXCEPT ![h] = None]
    /\ UNCHANGED <<vars, picked, committer, doubted>>

HoldAnswerLost(h) ==
    LET p == asker[h] IN
    /\ p # None
    /\ Fault
    /\ phase' = InPhase(p, "idle")
    /\ asker' = [asker EXCEPT ![h] = None]
    /\ UNCHANGED <<redisVars, hpc, creq, rel, reservations, due, orders,
                   picked, shown, committer, doubted>>

----------------------------------------------------------------------------
(* COMMIT, with the seats that are picked now; the service takes those of  *)
(* the row when there are none.                                            *)

SeatsSent(p) == IF picked[p] = <<>> THEN grant[shown[p]].seats ELSE picked[p]

Unanswered(h) == \E k \in Orders : committer[k] # None /\ creq[k].hold = h

ClickCommit(p) ==
    /\ MayCommit(p)
    /\ \E k \in Orders :
          /\ CommitCall(k)
          /\ creq'[k] = [pc |-> "script", hold |-> shown[p], key |-> k,
                         seats |-> SeatsSent(p)]
          /\ committer' = [committer EXCEPT ![k] = p]
    /\ doubted' = IF Unanswered(shown[p]) THEN doubted \cup {shown[p]} ELSE doubted
    /\ phase' = InPhase(p, "committing")
    /\ UNCHANGED <<picked, shown, asker>>

HoldForgotten(p) == [shown EXCEPT ![p] = None]

(* An order id in the answer, 200 or 202: paid.  The checkout page keeps   *)
(* the list it has typed.                                                  *)
CommitAnswered(k) ==
    LET p == committer[k] IN
    /\ p # None /\ creq[k].pc \in {"paid", "accepted"}
    /\ shown' = HoldForgotten(p)
    /\ picked' = IF p \in Homes THEN [picked EXCEPT ![p] = <<>>] ELSE picked
    /\ phase' = InPhase(p, "idle")
    /\ committer' = [committer EXCEPT ![k] = None]
    /\ UNCHANGED <<vars, asker, doubted>>

AfterFailure(p) == IF p = None THEN phase ELSE InPhase(p, "held")

CommitRefused(k) ==
    /\ CommitRejected(k)
    /\ phase' = AfterFailure(committer[k])
    /\ committer' = [committer EXCEPT ![k] = None]
    /\ UNCHANGED <<picked, shown, asker, doubted>>

(* The pod died or the connection broke: an error like any other.          *)
CommitAnswerLost(k) ==
    LET p == committer[k] IN
    /\ p # None
    /\ (creq[k].pc = "dead" /\ UNCHANGED faults) \/ (creq[k].pc # "dead" /\ Fault)
    /\ phase' = AfterFailure(p)
    /\ committer' = [committer EXCEPT ![k] = None]
    /\ doubted' = doubted \cup {creq[k].hold}
    /\ UNCHANGED <<redisVars, hpc, creq, rel, reservations, due, orders,
                   picked, shown, asker>>

----------------------------------------------------------------------------
StoreInit ==
    /\ Init
    /\ picked = [p \in Pages |-> <<>>]
    /\ shown = [p \in Pages |-> None]
    /\ phase = [p \in Pages |-> "idle"]
    /\ asker = [h \in Holds |-> None]
    /\ committer = [k \in Orders |-> None]
    /\ doubted = {}

BuyerStep(p) ==
    \/ PickSeat(p) \/ TypeSeats(p) \/ Reload(p) \/ ClickHold(p) \/ ClickCommit(p)
HoldReply(h) == HoldAnswered(h) \/ HoldAnswerLost(h)
CommitReply(k) == CommitAnswered(k) \/ CommitAnswerLost(k)

(* The steps of the service that no page takes part in.                    *)
OrderStep(k) ==
    CommitRun(k) \/ OrderSelect(k) \/ OrderInsert(k) \/ OrderInsertFails(k) \/ CommitDies(k)
ServiceStep ==
    /\ \/ \E h \in Holds : HoldStep(h) \/ Expires(h)
       \/ \E k \in Orders : OrderStep(k)
       \/ \E p \in Reapers : Sweep(p) \/ ReleaserStep(p)
       \/ RedisTime
    /\ UNCHANGED pageVars

StoreNext ==
    \/ \E p \in Pages : BuyerStep(p)
    \/ \E h \in Holds : HoldReply(h)
    \/ \E k \in Orders : CommitReply(k) \/ CommitRefused(k)
    \/ ServiceStep

StoreSpec == StoreInit /\ [][StoreNext]_storeVars

----------------------------------------------------------------------------
(* The shape of the pages' state.                                          *)
StoreTypeOK ==
    /\ picked \in [Pages -> Seq(Seats)]
    /\ shown \in [Pages -> Holds \cup {None}]
    /\ phase \in [Pages -> {"idle", "holding", "held", "committing"}]
    /\ asker \in [Holds -> Pages \cup {None}]
    /\ committer \in [Orders -> Pages \cup {None}]
    /\ doubted \subseteq Holds

Asking(p) == {h \in Holds : asker[h] = p}
Committing(p) == {k \in Orders : committer[k] = p}

(* The phase that enables the buttons of a home page tells the truth about *)
(* the requests under way, whatever is answered, lost or clicked: it never *)
(* has two, it waits exactly in "holding" and "committing", and it has a   *)
(* hold to show exactly in "held" and "committing".                        *)
PhaseTellsRequests ==
    \A p \in Homes :
        /\ Cardinality(Asking(p)) = IF phase[p] = "holding" THEN 1 ELSE 0
        /\ Cardinality(Committing(p)) = IF phase[p] = "committing" THEN 1 ELSE 0
        /\ shown[p] # None <=> phase[p] \in {"held", "committing"}

(* Although every click sends a fresh idempotency key, a hold is ordered   *)
(* once, unless its page lost sight of a commit: an answer was lost, or    *)
(* the checkout page sent a second commit before the first was answered.   *)
OneOrderPerHoldUnlessDoubted ==
    \A o, q \in orders :
        o # q /\ creq[o].hold = creq[q].hold => creq[o].hold \in doubted

(* An order lists seats that Redis sold under its hold, although the seats *)
(* picked may have changed since the hold, and a replayed COMMIT does not  *)
(* look at them - again unless the page lost sight of a commit.            *)
OrderListsSoldSeatsUnlessDoubted ==
    \A o \in orders :
        \/ creq[o].hold \in doubted
        \/ \A s \in Range(creq[o].seats) : <<creq[o].hold, s>> \in sales

============================================================================
