------------------------ MODULE SeatInventoryProofs ------------------------
(***************************************************************************)
(* Proofs about SeatInventory for every set of users, seats, holds and     *)
(* orders, and every bound.                                                *)
(***************************************************************************)
EXTENDS SeatInventory, FiniteSetTheorems, TLAPS

----------------------------------------------------------------------------
(* Facts about the pieces of the scripts.                                  *)

(* A request's seat list names seats of the event and has a length >= 1.   *)
LEMMA SeatListFacts ==
    ASSUME NEW ss \in SeatLists
    PROVE  Range(ss) \subseteq Seats /\ Range(ss) # {} /\ Len(ss) \in Nat
<1>1. ss \in Seq(Seats) /\ ss # <<>>
  BY SeatListsAssumption
<1>2. DOMAIN ss = 1 .. Len(ss) /\ Len(ss) \in Nat /\ Len(ss) > 0
  BY <1>1
<1>3. ss[1] \in Range(ss)
  BY <1>2 DEF Range
<1>4. \A i \in 1 .. Len(ss) : ss[i] \in Seats
  BY <1>1
<1> QED
  BY <1>2, <1>3, <1>4 DEF Range

Sum(counters) == counters.available + counters.held + counters.sold

(* Move, as each script uses it, keeps the counters integers and their sum *)
(* unchanged.                                                              *)
LEMMA MoveFacts ==
    ASSUME NEW inv \in [Categories -> Counters], NEW c \in Categories, NEW n \in Int
    PROVE  \A m \in {Move(inv, c, "available", "held", n), Move(inv, c, "held", "sold", n),
                     Move(inv, c, "held", "available", n)} :
              /\ m \in [Categories -> Counters]
              /\ \A d \in Categories : Sum(m[d]) = Sum(inv[d])
<1> DEFINE Moved(from, to) == [inv EXCEPT ![c] = [inv[c] EXCEPT ![from] = @ - n, ![to] = @ + n]]
<1>1. inv[c] \in Counters
  OBVIOUS
<1>2. /\ Move(inv, c, "available", "held", n) = Moved("available", "held")
      /\ Move(inv, c, "held", "sold", n) = Moved("held", "sold")
      /\ Move(inv, c, "held", "available", n) = Moved("held", "available")
  BY DEF Move, Counters
<1>3. /\ Moved("available", "held") \in [Categories -> Counters]
      /\ Moved("held", "sold") \in [Categories -> Counters]
      /\ Moved("held", "available") \in [Categories -> Counters]
  BY <1>1 DEF Counters
<1>4. \A d \in Categories : /\ Sum(Moved("available", "held")[d]) = Sum(inv[d])
                            /\ Sum(Moved("held", "sold")[d]) = Sum(inv[d])
                            /\ Sum(Moved("held", "available")[d]) = Sum(inv[d])
  BY <1>1 DEF Counters, Sum
<1> QED
  BY <1>2, <1>3, <1>4

(* The updates of one seat hash and of one limit key keep their shape.     *)
LEMMA RecordFacts ==
    /\ \A st \in SeatStates : SoldSeat(st) \in SeatStates
    /\ \A l \in LimitKeys, n \in Int :
          LimitLoweredBy(l, n) \in LimitKeys
  BY DEF SoldSeat, SeatStates, LimitLoweredBy, LimitKeys

(* A list names no more seats than it has names.                           *)
LEMMA ListCount ==
    ASSUME NEW ss \in SeatLists
    PROVE  /\ IsFiniteSet(Range(ss)) /\ Cardinality(Range(ss)) \in Nat
           /\ Len(ss) \in Nat /\ Cardinality(Range(ss)) <= Len(ss)
           /\ Repeated(ss) \in Nat /\ Repeated(ss) = Len(ss) - Cardinality(Range(ss))
<1>1. ss \in Seq(Seats)
  BY SeatListsAssumption
<1>2. Len(ss) \in Nat /\ DOMAIN ss = 1 .. Len(ss) /\ ss = [i \in 1 .. Len(ss) |-> ss[i]]
  BY <1>1
<1>3. ss \in Surjection(1 .. Len(ss), Range(ss))
  <2>1. /\ \A i \in 1 .. Len(ss) : ss[i] \in Range(ss)
        /\ \A t \in Range(ss) : \E i \in 1 .. Len(ss) : ss[i] = t
    BY <1>2 DEF Range
  <2>2. ss \in [1 .. Len(ss) -> Range(ss)]
    BY <1>2, <2>1
  <2> QED
    BY <2>1, <2>2 DEF Surjection
<1>4. IsFiniteSet(1 .. Len(ss)) /\ Cardinality(1 .. Len(ss)) = Len(ss)
  <2>1. 1 \in Int /\ Len(ss) \in Int
    BY <1>2
  <2>2. /\ IsFiniteSet(1 .. Len(ss))
        /\ Cardinality(1 .. Len(ss)) = IF 1 > Len(ss) THEN 0 ELSE Len(ss) - 1 + 1
    BY <2>1, FS_Interval, Zenon
  <2> QED
    BY <1>2, <2>2
<1>5. IsFiniteSet(Range(ss)) /\ Cardinality(Range(ss)) <= Len(ss)
  BY <1>3, <1>4, FS_Surjection
<1> QED
  BY <1>2, <1>5, FS_CardinalityType DEF Repeated

(* A granted hold carries the arguments of a HOLD.                         *)
LEMMA GrantFacts ==
    ASSUME RedisTypeOK, NEW h \in Granted
    PROVE  /\ h \in Holds /\ grant[h] \in Grants
           /\ grant[h].user \in Users /\ grant[h].category \in Categories
           /\ grant[h].seats \in SeatLists /\ Len(grant[h].seats) \in Int
           /\ Range(grant[h].seats) \subseteq Seats
<1>1. h \in Holds /\ grant[h] \in Grants
  BY DEF RedisTypeOK, Granted
<1> QED
  BY <1>1, SeatListFacts DEF Grants

----------------------------------------------------------------------------
(* Type correctness.                                                       *)

LEMMA RedisTypeInit == RedisInit => RedisTypeOK
  BY QuotaAssumption, BoundAssumption DEF RedisInit, RedisTypeOK, FreeSeat, SeatStates, Counters, LimitKeys

LEMMA RedisTypeStep == RedisTypeOK /\ [RedisNext]_redisVars => RedisTypeOK'
<1> SUFFICES ASSUME RedisTypeOK, [RedisNext]_redisVars PROVE RedisTypeOK'
  OBVIOUS
<1> USE DEF RedisTypeOK
<1>1. ASSUME NEW u \in Users, NEW h \in Holds, NEW c \in Categories,
             NEW ss \in SeatLists, NEW max \in Limits, ExecHold(u, h, c, ss, max)
      PROVE  RedisTypeOK'
  <2>1. Len(ss) \in Int /\ Range(ss) \subseteq Seats
    BY SeatListFacts
  <2>2. inventory' \in [Categories -> Counters]
    <3>1. Move(inventory, c, "available", "held", Len(ss)) \in [Categories -> Counters]
      BY <2>1, MoveFacts, Zenon
    <3> QED
      BY <1>1, <3>1 DEF ExecHold
  <2>3. seat' \in [Seats -> SeatStates]
    BY <1>1 DEF ExecHold, HeldSeat, SeatStates
  <2>4. userLimit' \in [Users -> LimitKeys]
    BY <1>1, <2>1 DEF ExecHold, LimitKeys
  <2>5. grant' \in [Holds -> Grants \cup {None}]
    BY <1>1 DEF ExecHold, Grants
  <2> QED
    BY <1>1, <2>2, <2>3, <2>4, <2>5 DEF ExecHold
<1>2. ASSUME NEW h \in Granted, NEW ss \in SeatLists, NEW k \in Orders,
             ExecCommit(h, grant[h].category, ss, k)
      PROVE  RedisTypeOK'
  <2>1. /\ Len(ss) \in Int /\ Range(ss) \subseteq Seats
        /\ h \in Holds /\ grant[h].category \in Categories
    BY SeatListFacts, GrantFacts
  <2>2. inventory' \in [Categories -> Counters]
    <3>1. Move(inventory, grant[h].category, "held", "sold", Len(ss)) \in [Categories -> Counters]
      BY <2>1, MoveFacts, Zenon
    <3> QED
      BY <1>2, <3>1 DEF ExecCommit
  <2>3. seat' \in [Seats -> SeatStates]
    BY <1>2, RecordFacts DEF ExecCommit
  <2>4. sales' \subseteq Holds \X Seats
    BY <1>2, <2>1 DEF ExecCommit
  <2>5. repeats' \in Nat
    <3>1. Repeated(ss) \in Nat
      BY ListCount
    <3> QED
      BY <1>2, <3>1 DEF ExecCommit
  <2> QED
    BY <1>2, <2>1, <2>2, <2>3, <2>4, <2>5 DEF ExecCommit
<1>3. ASSUME NEW h \in Granted, ExecRelease(h)
      PROVE  RedisTypeOK'
  <2>1. /\ h \in Holds /\ grant[h].category \in Categories /\ grant[h].user \in Users
        /\ Len(grant[h].seats) \in Int
    BY GrantFacts
  <2>2. inventory' \in [Categories -> Counters]
    <3>1. Move(inventory, grant[h].category, "held", "available", Len(grant[h].seats))
             \in [Categories -> Counters]
      BY <2>1, MoveFacts, Zenon
    <3> QED
      BY <1>3, <3>1 DEF ExecRelease
  <2>3. seat' \in [Seats -> SeatStates]
    BY <1>3 DEF ExecRelease, FreeSeat, SeatStates
  <2>4. userLimit' \in [Users -> LimitKeys]
    <3>1. LimitLoweredBy(userLimit[grant[h].user], Len(grant[h].seats)) \in LimitKeys
      BY <2>1, RecordFacts
    <3> QED
      BY <1>3, <3>1 DEF ExecRelease
  <2>5. releases' \in [Holds -> 0 .. MaxReleases]
    BY <1>3, <2>1, BoundAssumption DEF ExecRelease
  <2> QED
    BY <1>3, <2>2, <2>3, <2>4, <2>5 DEF ExecRelease
<1>4. ASSUME NEW h \in Granted, HoldTtlFires(h)
      PROVE  RedisTypeOK'
  BY <1>4 DEF HoldTtlFires, GoneSeat, SeatStates
<1>5. ASSUME NEW u \in Users, LimitTtlFires(u)
      PROVE  RedisTypeOK'
  BY <1>5 DEF LimitTtlFires, LimitKeys
<1>6. ASSUME NEW h \in Holds, LedgerTtlFires(h)
      PROVE  RedisTypeOK'
  BY <1>6 DEF LedgerTtlFires
<1>7. CASE UNCHANGED redisVars
  BY <1>7 DEF redisVars
<1> QED
  BY <1>1, <1>2, <1>3, <1>4, <1>5, <1>6, <1>7 DEF RedisNext

(* Every key always holds what a HGET or GET of it may return.             *)
THEOREM RedisTypeCorrect == RedisSpec => []RedisTypeOK
  BY RedisTypeInit, RedisTypeStep, PTL DEF RedisSpec

----------------------------------------------------------------------------
(* The counters.                                                           *)

LEMMA ConservationStep ==
    RedisTypeOK /\ CounterConservation /\ [RedisNext]_redisVars => CounterConservation'
<1> SUFFICES ASSUME RedisTypeOK, CounterConservation, [RedisNext]_redisVars
             PROVE  CounterConservation'
  OBVIOUS
<1> DEFINE SumsAreQuotas(inv) == \A c \in Categories : Sum(inv[c]) = Quota[c]
<1>1. SumsAreQuotas(inventory)
  BY DEF CounterConservation, Sum
<1>2. SUFFICES SumsAreQuotas(inventory')
  BY DEF CounterConservation, Sum
<1>3. inventory \in [Categories -> Counters]
  BY DEF RedisTypeOK
<1>4. ASSUME NEW u \in Users, NEW h \in Holds, NEW c \in Categories,
             NEW ss \in SeatLists, NEW max \in Limits, ExecHold(u, h, c, ss, max)
      PROVE  SumsAreQuotas(inventory')
  <2>1. inventory' = Move(inventory, c, "available", "held", Len(ss)) /\ Len(ss) \in Int
    BY <1>4, SeatListFacts DEF ExecHold
  <2>2. \A d \in Categories : Sum(inventory'[d]) = Sum(inventory[d])
    BY <1>3, <2>1, MoveFacts, Zenon
  <2> QED
    BY <1>1, <2>2
<1>5. ASSUME NEW h \in Granted, NEW ss \in SeatLists, NEW k \in Orders,
             ExecCommit(h, grant[h].category, ss, k)
      PROVE  SumsAreQuotas(inventory')
  <2>1. /\ inventory' = Move(inventory, grant[h].category, "held", "sold", Len(ss))
        /\ Len(ss) \in Int /\ grant[h].category \in Categories
    BY <1>5, SeatListFacts, GrantFacts DEF ExecCommit
  <2>2. \A d \in Categories : Sum(inventory'[d]) = Sum(inventory[d])
    BY <1>3, <2>1, MoveFacts, Zenon
  <2> QED
    BY <1>1, <2>2
<1>6. ASSUME NEW h \in Granted, ExecRelease(h)
      PROVE  SumsAreQuotas(inventory')
  <2>1. /\ inventory' = Move(inventory, grant[h].category, "held", "available",
                            Len(grant[h].seats))
        /\ Len(grant[h].seats) \in Int /\ grant[h].category \in Categories
    BY <1>6, GrantFacts DEF ExecRelease
  <2>2. \A d \in Categories : Sum(inventory'[d]) = Sum(inventory[d])
    BY <1>3, <2>1, MoveFacts, Zenon
  <2> QED
    BY <1>1, <2>2
<1>7. ASSUME inventory' = inventory
      PROVE  SumsAreQuotas(inventory')
  BY <1>1, <1>7
<1> QED
  BY <1>4, <1>5, <1>6, <1>7
     DEF RedisNext, HoldTtlFires, LimitTtlFires, LedgerTtlFires, redisVars

(* The counters of a category always add up to its quota.                  *)
THEOREM CountersConserved == RedisSpec => []CounterConservation
<1>1. RedisInit => CounterConservation
  BY QuotaAssumption DEF RedisInit, CounterConservation
<1> QED
  BY <1>1, RedisTypeCorrect, ConservationStep, PTL DEF RedisSpec

----------------------------------------------------------------------------
(* The seats.  One lemma per kind of step, one step per conjunct.          *)

SeatInv ==
    /\ LiveHoldKept
    /\ SaleStands
    /\ SalesAreOfGrants
    /\ SeatsFollowGrants
    /\ SeatFieldsAgree
    /\ SoldSeatsAreSales
    /\ CommittedHoldsSold
    /\ LiveHoldsUncommitted

(* What the invariant says of a seat of a living hold and of a sold seat.  *)
LEMMA LiveFacts ==
    ASSUME RedisTypeOK, LiveHoldKept, NEW h \in holdKeys, NEW s \in Range(grant[h].seats)
    PROVE  /\ h \in Granted /\ s \in Seats
           /\ seat[s].status = "HELD" /\ seat[s].holdId = h
<1>1. h \in Granted /\ seat[s] = HeldSeat(grant[h].user, h)
  BY DEF LiveHoldKept
<1>2. s \in Seats
  BY <1>1, GrantFacts
<1> QED
  BY <1>1, <1>2 DEF HeldSeat

LEMMA SaleFacts ==
    ASSUME RedisTypeOK, SaleStands, NEW p \in sales, releases[p[1]] = 0
    PROVE  /\ p[1] \in Holds /\ p[2] \in Seats
           /\ seat[p[2]].status = "SOLD" /\ seat[p[2]].holdId = p[1] /\ seat[p[2]].ttl = FALSE
<1>1. p \in Holds \X Seats
  BY DEF RedisTypeOK
<1>2. seat[p[2]] = [status |-> "SOLD", heldBy |-> grant[p[1]].user,
                    holdId |-> p[1], ttl |-> FALSE]
  BY DEF SaleStands
<1> QED
  BY <1>1, <1>2

LEMMA SeatInvInit == RedisInit => SeatInv
  BY DEF RedisInit, SeatInv, LiveHoldKept, SaleStands, SalesAreOfGrants, SeatsFollowGrants,
         SeatFieldsAgree, SoldSeatsAreSales, CommittedHoldsSold, LiveHoldsUncommitted,
         Committed, FreeSeat

LEMMA SeatInvHold ==
    ASSUME RedisTypeOK, RedisTypeOK', SeatInv,
           NEW u \in Users, NEW h \in Holds, NEW c \in Categories,
           NEW ss \in SeatLists, NEW max \in Limits, ExecHold(u, h, c, ss, max)
    PROVE  SeatInv'
<1> DEFINE g == [user |-> u, category |-> c, seats |-> ss]
<1>1. /\ seat' = [s \in Seats |-> IF s \in Range(ss) THEN HeldSeat(u, h) ELSE seat[s]]
      /\ grant' = [grant EXCEPT ![h] = g]
      /\ holdKeys' = holdKeys \cup {h} /\ sales' = sales /\ releases' = releases
      /\ \A s \in Range(ss) : seat[s].status = "AVAILABLE"
      /\ h \notin Granted
  BY DEF ExecHold, Free
<1>2. Range(ss) \subseteq Seats
  BY SeatListFacts
<1>3. /\ grant'[h] = g /\ g.user = u /\ g.seats = ss /\ g # None
      /\ \A i \in Granted : i # h /\ grant'[i] = grant[i]
      /\ Granted' = Granted \cup {h}
  <2>1. g # None
    BY NoneAssumption
  <2>2. grant \in [Holds -> Grants \cup {None}]
    BY DEF RedisTypeOK
  <2> QED
    BY <1>1, <2>1, <2>2 DEF Granted
<1>4. LiveHoldKept'
  <2>1. ASSUME NEW i \in holdKeys
        PROVE  i \in Granted /\ \A s \in Range(grant[i].seats) : s \notin Range(ss)
    <3>1. i \in Granted
      BY DEF SeatInv, LiveHoldKept
    <3> QED
      BY <1>1, <3>1, LiveFacts DEF SeatInv
  <2>2. ASSUME NEW i \in holdKeys, NEW s \in Range(grant[i].seats)
        PROVE  seat'[s] = HeldSeat(grant'[i].user, i)
    BY <1>1, <1>3, <2>1, GrantFacts DEF SeatInv, LiveHoldKept
  <2> QED
    BY <1>1, <1>2, <1>3, <2>1, <2>2 DEF LiveHoldKept
<1>5. SaleStands' /\ SalesAreOfGrants'
  <2>1. SalesAreOfGrants'
    BY <1>1, <1>3 DEF SeatInv, SalesAreOfGrants
  <2>2. ASSUME NEW p \in sales, releases[p[1]] = 0
        PROVE  /\ p[2] \in Seats /\ seat'[p[2]] = seat[p[2]]
               /\ grant'[p[1]] = grant[p[1]]
    <3>1. p[2] \in Seats /\ seat[p[2]].status = "SOLD" /\ p[1] \in Granted
      BY <2>2, SaleFacts DEF SeatInv, SalesAreOfGrants
    <3> QED
      BY <1>1, <1>3, <3>1
  <2> QED
    BY <1>1, <2>1, <2>2 DEF SeatInv, SaleStands
<1>6. SeatsFollowGrants'
  BY <1>1, <1>2, <1>3 DEF SeatInv, SeatsFollowGrants, HeldSeat
<1>7. SeatFieldsAgree'
  BY <1>1, NoneAssumption DEF SeatInv, SeatFieldsAgree, HeldSeat
<1>8. SoldSeatsAreSales'
  BY <1>1 DEF SeatInv, SoldSeatsAreSales, HeldSeat
<1>9. CommittedHoldsSold' /\ LiveHoldsUncommitted'
  <2>1. ledger' = ledger
    BY DEF ExecHold
  <2>2. ~Committed(h)
    BY <1>1 DEF SeatInv, CommittedHoldsSold, SalesAreOfGrants
  <2> QED
    BY <1>1, <2>1, <2>2 DEF SeatInv, CommittedHoldsSold, LiveHoldsUncommitted, Committed
<1> QED
  BY <1>4, <1>5, <1>6, <1>7, <1>8, <1>9 DEF SeatInv

LEMMA SeatInvCommit ==
    ASSUME RedisTypeOK, RedisTypeOK', SeatInv,
           NEW h \in Granted, NEW c \in Categories, NEW ss \in SeatLists, NEW k \in Orders,
           ExecCommit(h, c, ss, k)
    PROVE  SeatInv'
<1> DEFINE flip == {s \in Range(ss) : seat[s].status = "HELD"}
<1>1. /\ seat' = [s \in Seats |-> IF s \in flip THEN SoldSeat(seat[s]) ELSE seat[s]]
      /\ grant' = grant /\ Granted' = Granted
      /\ holdKeys' = holdKeys \ {h} /\ sales' = sales \cup ({h} \X flip)
      /\ releases' = releases
  BY DEF ExecCommit, Granted
<1>2. /\ flip \subseteq Seats
      /\ \A s \in flip : seat[s].holdId = h /\ seat[s].heldBy = grant[h].user
  BY SeatListFacts DEF ExecCommit, CommittableBy
<1>3. LiveHoldKept'
  <2>1. ASSUME NEW i \in holdKeys, i # h, NEW s \in Range(grant[i].seats)
        PROVE  s \in Seats /\ s \notin flip
    BY <1>2, <2>1, LiveFacts DEF SeatInv
  <2> QED
    BY <1>1, <2>1 DEF SeatInv, LiveHoldKept
<1>4. SaleStands'
  <2>1. ASSUME NEW p \in sales, releases[p[1]] = 0
        PROVE  p[2] \in Seats /\ p[2] \notin flip
    BY <2>1, SaleFacts DEF SeatInv
  <2>2. ASSUME NEW s \in flip
        PROVE  seat'[s] = [status |-> "SOLD", heldBy |-> grant[h].user,
                           holdId |-> h, ttl |-> FALSE]
    BY <1>1, <1>2 DEF SoldSeat
  <2> QED
    BY <1>1, <2>1, <2>2 DEF SeatInv, SaleStands
<1>5. SalesAreOfGrants'
  BY <1>1 DEF SeatInv, SalesAreOfGrants
<1>6. SeatsFollowGrants'
  BY <1>1 DEF SeatInv, SeatsFollowGrants, SoldSeat
<1>7. SeatFieldsAgree'
  BY <1>1, <1>2, NoneAssumption DEF SeatInv, SeatFieldsAgree, SoldSeat, Granted
<1>8. SoldSeatsAreSales'
  BY <1>1, <1>2 DEF SeatInv, SoldSeatsAreSales, SoldSeat
<1>9. \E s \in Seats : <<h, s>> \in sales'
  <2>1. PICK s \in Range(ss) : s \in Seats /\ CommittableBy(s, grant[h].user, h)
    BY SeatListFacts DEF ExecCommit
  <2>2. CASE seat[s].status = "HELD"
    BY <1>1, <2>1, <2>2
  <2>3. CASE seat[s].status = "SOLD"
    BY <1>1, <2>1, <2>3 DEF SeatInv, SoldSeatsAreSales, CommittableBy
  <2> QED
    BY <2>1, <2>2, <2>3 DEF CommittableBy
<1>10. CommittedHoldsSold' /\ LiveHoldsUncommitted'
  <2>1. h \in Holds /\ \A i \in Holds : i # h => ledger'[i] = ledger[i]
    BY DEF ExecCommit, Granted, RedisTypeOK
  <2>2. holdKeys \subseteq Holds
    BY DEF RedisTypeOK
  <2> QED
    BY <1>1, <1>9, <2>1, <2>2 DEF SeatInv, CommittedHoldsSold, LiveHoldsUncommitted, Committed
<1> QED
  BY <1>3, <1>4, <1>5, <1>6, <1>7, <1>8, <1>10 DEF SeatInv

LEMMA SeatInvRelease ==
    ASSUME RedisTypeOK, RedisTypeOK', SeatInv, NEW h \in Granted, ExecRelease(h)
    PROVE  SeatInv'
<1>1. /\ seat' = [s \in Seats |-> IF s \in Range(grant[h].seats) /\ seat[s].holdId = h
                                  THEN FreeSeat ELSE seat[s]]
      /\ grant' = grant /\ Granted' = Granted /\ sales' = sales
      /\ holdKeys' = holdKeys \ {h}
      /\ releases' = [releases EXCEPT ![h] = @ + 1]
  BY DEF ExecRelease, Granted, CarriesHold
<1>2. LiveHoldKept'
  <2>1. ASSUME NEW i \in holdKeys, i # h, NEW s \in Range(grant[i].seats)
        PROVE  s \in Seats /\ seat[s].holdId # h
    BY <2>1, LiveFacts DEF SeatInv
  <2> QED
    BY <1>1, <2>1 DEF SeatInv, LiveHoldKept
<1>3. SaleStands'
  <2>1. ASSUME NEW p \in sales, releases'[p[1]] = 0
        PROVE  p[1] # h /\ releases[p[1]] = 0 /\ p[2] \in Seats
    BY <1>1, <2>1, BoundAssumption DEF RedisTypeOK, Granted
  <2>2. ASSUME NEW p \in sales, releases'[p[1]] = 0
        PROVE  seat'[p[2]] = seat[p[2]]
    <3>1. seat[p[2]].holdId = p[1] /\ p[1] # h /\ p[2] \in Seats
      BY <2>1, <2>2, SaleFacts DEF SeatInv
    <3> QED
      BY <1>1, <3>1
  <2> QED
    BY <1>1, <2>1, <2>2 DEF SeatInv, SaleStands
<1>4. SalesAreOfGrants'
  BY <1>1 DEF SeatInv, SalesAreOfGrants
<1>5. SeatsFollowGrants'
  BY <1>1 DEF SeatInv, SeatsFollowGrants, FreeSeat
<1>6. SeatFieldsAgree'
  BY <1>1 DEF SeatInv, SeatFieldsAgree, FreeSeat
<1>7. SoldSeatsAreSales'
  BY <1>1 DEF SeatInv, SoldSeatsAreSales, FreeSeat
<1>8. CommittedHoldsSold' /\ LiveHoldsUncommitted'
  BY <1>1 DEF SeatInv, CommittedHoldsSold, LiveHoldsUncommitted, Committed, ExecRelease
<1> QED
  BY <1>2, <1>3, <1>4, <1>5, <1>6, <1>7, <1>8 DEF SeatInv

LEMMA SeatInvHoldTtl ==
    ASSUME RedisTypeOK, RedisTypeOK', SeatInv, NEW h \in Granted, HoldTtlFires(h)
    PROVE  SeatInv'
<1>1. /\ seat' = [s \in Seats |-> IF seat[s].holdId = h /\ seat[s].ttl THEN GoneSeat ELSE seat[s]]
      /\ grant' = grant /\ Granted' = Granted /\ sales' = sales /\ releases' = releases
      /\ holdKeys' = holdKeys \ {h}
  BY DEF HoldTtlFires, Expiring, Granted
<1>2. LiveHoldKept'
  <2>1. ASSUME NEW i \in holdKeys, i # h, NEW s \in Range(grant[i].seats)
        PROVE  s \in Seats /\ seat[s].holdId # h
    BY <2>1, LiveFacts DEF SeatInv
  <2> QED
    BY <1>1, <2>1 DEF SeatInv, LiveHoldKept
<1>3. SaleStands'
  <2>1. ASSUME NEW p \in sales, releases[p[1]] = 0
        PROVE  p[2] \in Seats /\ ~seat[p[2]].ttl
    BY <2>1, SaleFacts DEF SeatInv
  <2> QED
    BY <1>1, <2>1 DEF SeatInv, SaleStands
<1>4. SalesAreOfGrants'
  BY <1>1 DEF SeatInv, SalesAreOfGrants
<1>5. SeatsFollowGrants'
  BY <1>1 DEF SeatInv, SeatsFollowGrants, GoneSeat
<1>6. SeatFieldsAgree'
  BY <1>1 DEF SeatInv, SeatFieldsAgree, GoneSeat
<1>7. SoldSeatsAreSales'
  BY <1>1 DEF SeatInv, SoldSeatsAreSales, GoneSeat
<1>8. CommittedHoldsSold' /\ LiveHoldsUncommitted'
  BY <1>1 DEF SeatInv, CommittedHoldsSold, LiveHoldsUncommitted, Committed, HoldTtlFires
<1> QED
  BY <1>2, <1>3, <1>4, <1>5, <1>6, <1>7, <1>8 DEF SeatInv

LEMMA SeatInvStep ==
    RedisTypeOK /\ RedisTypeOK' /\ SeatInv /\ [RedisNext]_redisVars => SeatInv'
<1> SUFFICES ASSUME RedisTypeOK, RedisTypeOK', SeatInv, [RedisNext]_redisVars
             PROVE  SeatInv'
  OBVIOUS
<1>1. ASSUME UNCHANGED <<seat, grant, holdKeys, sales, releases>>,
             \A h \in Holds : ledger'[h] \in {ledger[h], None}
      PROVE  SeatInv'
  BY <1>1 DEF SeatInv, LiveHoldKept, SaleStands, SalesAreOfGrants, SeatsFollowGrants,
              SeatFieldsAgree, SoldSeatsAreSales, CommittedHoldsSold, LiveHoldsUncommitted,
              Committed, Granted, RedisTypeOK
<1>2. ASSUME NEW h \in Granted PROVE grant[h].category \in Categories
  BY GrantFacts
<1>3. ASSUME NEW u \in Users, LimitTtlFires(u) PROVE SeatInv'
  BY <1>1, <1>3 DEF LimitTtlFires
<1>4. ASSUME NEW h \in Holds, LedgerTtlFires(h) PROVE SeatInv'
  BY <1>1, <1>4 DEF LedgerTtlFires, RedisTypeOK
<1>5. CASE UNCHANGED redisVars
  BY <1>1, <1>5 DEF redisVars
<1> QED
  BY <1>2, <1>3, <1>4, <1>5, SeatInvHold, SeatInvCommit, SeatInvRelease, SeatInvHoldTtl
     DEF RedisNext

(* The whole inductive invariant holds in every reachable state.           *)
THEOREM InventoryInvariant == RedisSpec => []InventoryInv
<1>1. RedisSpec => []SeatInv
  BY SeatInvInit, SeatInvStep, RedisTypeCorrect, PTL DEF RedisSpec
<1>2. RedisTypeOK /\ CounterConservation /\ SeatInv => InventoryInv
  BY DEF SeatInv, InventoryInv
<1> QED
  BY <1>1, <1>2, RedisTypeCorrect, CountersConserved, PTL

(* No other hold, expiry or repeated COMMIT takes a sold seat back.        *)
THEOREM SalesStand == RedisSpec => []SaleStands
<1>1. InventoryInv => SaleStands
  BY DEF InventoryInv
<1> QED
  BY <1>1, InventoryInvariant, PTL

(* A hold whose key lives has all its seats.                               *)
THEOREM LiveHoldsKept == RedisSpec => []LiveHoldKept
<1>1. InventoryInv => LiveHoldKept
  BY DEF InventoryInv
<1> QED
  BY <1>1, InventoryInvariant, PTL

(* Selling a seat twice takes a RELEASE of one of the two holds.           *)
THEOREM DoubleSaleNeedsRelease == RedisSpec => []NoDoubleSaleUnlessReleased
<1>1. InventoryInv => NoDoubleSaleUnlessReleased
  <2> SUFFICES ASSUME InventoryInv, NEW p \in sales, NEW q \in sales,
                      p[2] = q[2], p[1] # q[1],
                      ~(releases[p[1]] > 0), ~(releases[q[1]] > 0)
               PROVE  FALSE
    BY DEF NoDoubleSaleUnlessReleased
  <2>1. releases[p[1]] = 0 /\ releases[q[1]] = 0
    BY BoundAssumption DEF InventoryInv, RedisTypeOK
  <2>2. seat[p[2]].holdId = p[1] /\ seat[q[2]].holdId = q[1]
    BY <2>1, SaleFacts DEF InventoryInv
  <2> QED
    BY <2>2
<1> QED
  BY <1>1, InventoryInvariant, PTL

----------------------------------------------------------------------------
(* The refinement of SeatOwnership.                                        *)

Owner == [s \in Seats |-> seat[s].holdId]
Stage == [s \in Seats |-> StageOf(seat[s].status)]

(* Taking the seats of S, and them alone, to one owner and stage.          *)
LEMMA TakeFacts ==
    ASSUME NEW S \in SUBSET Seats, NEW o, NEW st,
           \A s \in S : seat'[s].holdId = o /\ StageOf(seat'[s].status) = st,
           \A s \in Seats \ S : seat'[s] = seat[s]
    PROVE  Ownership!Take(S, o, st)
  BY DEF Ownership!Take

(* A step that leaves owner and stage of every seat, and grants nothing.   *)
LEMMA StutterFacts ==
    ASSUME \A s \in Seats : seat'[s].holdId = seat[s].holdId /\ seat'[s].status = seat[s].status,
           Granted' = Granted
    PROVE  UNCHANGED Ownership!vars
  BY DEF Ownership!vars

LEMMA HoldGrants ==
    ASSUME RedisTypeOK,
           NEW u \in Users, NEW h \in Holds, NEW c \in Categories,
           NEW ss \in SeatLists, NEW max \in Limits, ExecHold(u, h, c, ss, max)
    PROVE  h \notin Granted /\ Granted' = Granted \cup {h}
<1>1. grant' = [grant EXCEPT ![h] = [user |-> u, category |-> c, seats |-> ss]]
  BY DEF ExecHold
<1>2. [user |-> u, category |-> c, seats |-> ss] # None
  BY NoneAssumption
<1> QED
  BY <1>1, <1>2 DEF ExecHold, Granted, RedisTypeOK

LEMMA HoldIsGrant ==
    ASSUME RedisTypeOK,
           NEW u \in Users, NEW h \in Holds, NEW c \in Categories,
           NEW ss \in SeatLists, NEW max \in Limits, ExecHold(u, h, c, ss, max)
    PROVE  Ownership!Next
<1>1. Range(ss) \in SUBSET Seats /\ Range(ss) # {}
  BY SeatListFacts
<1>2. Ownership!Take(Range(ss), h, "held")
  <2>1. \A s \in Range(ss) : seat'[s].holdId = h /\ StageOf(seat'[s].status) = "held"
    BY <1>1 DEF ExecHold, HeldSeat, StageOf
  <2>2. \A s \in Seats \ Range(ss) : seat'[s] = seat[s]
    BY DEF ExecHold
  <2> QED
    BY <1>1, <2>1, <2>2, TakeFacts
<1>3. \A s \in Range(ss) : Stage[s] = "free"
  BY <1>1 DEF ExecHold, Free, Stage, StageOf
<1>4. h \notin Granted /\ Granted' = Granted \cup {h}
  BY HoldGrants
<1>5. Ownership!Grant(h, Range(ss))
  BY <1>1, <1>2, <1>3, <1>4 DEF Ownership!Grant, Stage
<1> QED
  BY <1>1, <1>5 DEF Ownership!Next

LEMMA CommitIsSell ==
    ASSUME RedisTypeOK,
           NEW h \in Granted, NEW c \in Categories, NEW ss \in SeatLists, NEW k \in Orders,
           ExecCommit(h, c, ss, k)
    PROVE  [Ownership!Next]_Ownership!vars
<1>0. PICK flip \in SUBSET Seats : flip = {s \in Range(ss) : seat[s].status = "HELD"}
  BY SeatListFacts
<1>1. /\ seat' = [s \in Seats |-> IF s \in flip THEN SoldSeat(seat[s]) ELSE seat[s]]
      /\ Granted' = Granted
  BY <1>0 DEF ExecCommit, Granted
<1>2. \A s \in flip : seat[s].holdId = h /\ seat[s].status = "HELD"
  BY <1>0 DEF ExecCommit, CommittableBy
<1>3. CASE flip = {}
  BY <1>1, <1>3, StutterFacts
<1>4. CASE flip # {}
  <2>1. Ownership!Take(flip, h, "sold")
    <3>1. \A s \in flip : seat'[s].holdId = h /\ StageOf(seat'[s].status) = "sold"
      BY <1>1, <1>2 DEF SoldSeat, StageOf
    <3>2. \A s \in Seats \ flip : seat'[s] = seat[s]
      BY <1>1
    <3> QED
      BY <1>2, <3>1, <3>2, TakeFacts
  <2>2. flip \subseteq Ownership!HeldBy(h)
    BY <1>2 DEF Ownership!HeldBy, Ownership!OwnedBy, StageOf
  <2>3. Ownership!Sell(h, flip)
    BY <1>1, <1>4, <2>1, <2>2 DEF Ownership!Sell
  <2> QED
    BY <2>3 DEF Ownership!Next, Granted
<1> QED
  BY <1>3, <1>4

LEMMA ReleaseIsReturn ==
    ASSUME RedisTypeOK, SeatInv, NEW h \in Granted, ExecRelease(h)
    PROVE  [Ownership!Next]_Ownership!vars
<1> DEFINE own == {s \in Seats : seat[s].holdId = h}
<1>1. /\ seat' = [s \in Seats |-> IF s \in own THEN FreeSeat ELSE seat[s]]
      /\ Granted' = Granted
  <2>1. \A s \in own : s \in Range(grant[h].seats)
    BY NoneAssumption DEF SeatInv, SeatsFollowGrants, Granted
  <2> QED
    BY <2>1 DEF ExecRelease, CarriesHold, Granted
<1>2. Ownership!OwnedBy(h) = own
  BY DEF Ownership!OwnedBy
<1>3. CASE own = {}
  BY <1>1, <1>3, StutterFacts
<1>4. CASE own # {}
  <2>1. Ownership!Take(own, None, "free")
    <3>1. \A s \in own : seat'[s].holdId = None /\ StageOf(seat'[s].status) = "free"
      BY <1>1 DEF FreeSeat, StageOf
    <3>2. \A s \in Seats \ own : seat'[s] = seat[s]
      BY <1>1
    <3> QED
      BY <3>1, <3>2, TakeFacts
  <2>2. Ownership!Return(h)
    BY <1>1, <1>2, <1>4, <2>1 DEF Ownership!Return
  <2> QED
    BY <2>2 DEF Ownership!Next, Granted
<1> QED
  BY <1>3, <1>4

LEMMA HoldTtlIsLapse ==
    ASSUME RedisTypeOK, SeatInv, NEW h \in Granted, HoldTtlFires(h)
    PROVE  Ownership!Next
<1>1. /\ seat' = [s \in Seats |-> IF s \in Expiring(h) THEN GoneSeat ELSE seat[s]]
      /\ Granted' = Granted /\ Expiring(h) # {} /\ Expiring(h) \in SUBSET Seats
  BY DEF HoldTtlFires, Granted, Expiring
<1>2. Ownership!HeldBy(h) = Expiring(h)
  <2>1. ASSUME NEW s \in Seats
        PROVE  StageOf(seat[s].status) = "held" <=> seat[s].ttl
    BY DEF SeatInv, SeatFieldsAgree, StageOf, RedisTypeOK, SeatStates
  <2> QED
    BY <2>1 DEF Ownership!HeldBy, Ownership!OwnedBy, Expiring
<1>3. Ownership!Take(Expiring(h), None, "gone")
  <2>1. \A s \in Expiring(h) : seat'[s].holdId = None /\ StageOf(seat'[s].status) = "gone"
    BY <1>1 DEF GoneSeat, StageOf
  <2>2. \A s \in Seats \ Expiring(h) : seat'[s] = seat[s]
    BY <1>1
  <2> QED
    BY <1>1, <2>1, <2>2, TakeFacts
<1>4. Ownership!Lapse(h)
  BY <1>1, <1>2, <1>3 DEF Ownership!Lapse
<1> QED
  BY <1>4 DEF Ownership!Next, Granted

LEMMA OwnershipStep ==
    RedisTypeOK /\ SeatInv /\ [RedisNext]_redisVars => [Ownership!Next]_Ownership!vars
<1> SUFFICES ASSUME RedisTypeOK, SeatInv, [RedisNext]_redisVars
             PROVE  [Ownership!Next]_Ownership!vars
  OBVIOUS
<1>1. ASSUME seat' = seat, grant' = grant
      PROVE  UNCHANGED Ownership!vars
  BY <1>1, StutterFacts DEF Granted
<1>2. ASSUME NEW h \in Granted PROVE grant[h].category \in Categories
  BY GrantFacts
<1> QED
  BY <1>1, <1>2, HoldIsGrant, CommitIsSell, ReleaseIsReturn, HoldTtlIsLapse
     DEF RedisNext, LimitTtlFires, LedgerTtlFires, redisVars

(* The scripts and expiries implement SeatOwnership: holds are all or      *)
(* nothing, and a seat changes hands only by way of being free.            *)
THEOREM OwnershipRefined == RedisSpec => OwnershipSpec
<1>1. RedisInit => Ownership!Init
  <2> SUFFICES ASSUME RedisInit PROVE Ownership!Init
    OBVIOUS
  <2>1. \A s \in Seats : seat[s].holdId = None /\ StageOf(seat[s].status) = "free"
    BY DEF RedisInit, FreeSeat, StageOf
  <2>2. Granted = {}
    BY DEF RedisInit, Granted
  <2> QED
    BY <2>1, <2>2 DEF Ownership!Init
<1>2. RedisSpec => []SeatInv
  BY SeatInvInit, SeatInvStep, RedisTypeCorrect, PTL DEF RedisSpec
<1> QED
  BY <1>1, <1>2, RedisTypeCorrect, OwnershipStep, PTL
     DEF RedisSpec, OwnershipSpec, Ownership!Spec
============================================================================
