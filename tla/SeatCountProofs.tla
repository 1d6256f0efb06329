-------------------------- MODULE SeatCountProofs ---------------------------
(***************************************************************************)
(* Proofs about the counters of SeatInventory: what they say of the seats. *)
(* SOLD_OUT is answered from 'available', and the ticket limit from the    *)
(* counter of the user, so the counters must cover the seats.              *)
(***************************************************************************)
EXTENDS SeatInventoryProofs, Sums

----------------------------------------------------------------------------
(* The totals of a Move.                                                   *)

TotalOf(inv, field) == SumFunctionOnSet([c \in Categories |-> inv[c][field]], Categories)

(* A field that changes by n in one category changes by n in total.        *)
LEMMA TotalPoint ==
    ASSUME NEW inv \in [Categories -> Counters], NEW m \in [Categories -> Counters],
           NEW c \in Categories, NEW field \in {"available", "held", "sold"}, NEW n \in Int,
           m[c][field] = inv[c][field] + n,
           \A d \in Categories : d # c => m[d][field] = inv[d][field]
    PROVE  TotalOf(m, field) = TotalOf(inv, field) + n
<1> DEFINE f == [d \in Categories |-> inv[d][field]]
           g == [d \in Categories |-> m[d][field]]
<1>1. \A d \in Categories : inv[d][field] \in Int /\ m[d][field] \in Int
  BY DEF Counters
<1>2. /\ \A d \in Categories : f[d] \in Int
      /\ g[c] \in Int /\ \A d \in Categories : d # c => g[d] = f[d]
      /\ g[c] = f[c] + n
  BY <1>1
<1>3. IsFiniteSet(Categories)
  BY VenueAssumption
<1> HIDE DEF f, g
<1>4. SumFunctionOnSet(g, Categories) = SumFunctionOnSet(f, Categories) + g[c] - f[c]
  BY <1>2, <1>3, SumPoint
<1>5. SumFunctionOnSet(f, Categories) \in Int
  BY <1>2, <1>3, SumType
<1>6. SumFunctionOnSet(g, Categories) = SumFunctionOnSet(f, Categories) + n
  BY <1>2, <1>4, <1>5
<1> QED
  BY <1>6 DEF TotalOf, f, g

LEMMA TotalType ==
    ASSUME NEW inv \in [Categories -> Counters], NEW field \in {"available", "held", "sold"}
    PROVE  TotalOf(inv, field) \in Int
<1> DEFINE f == [d \in Categories |-> inv[d][field]]
<1>1. \A d \in Categories : f[d] \in Int
  BY DEF Counters
<1> HIDE DEF f
<1>2. SumFunctionOnSet(f, Categories) \in Int
  BY <1>1, VenueAssumption, SumType
<1> QED
  BY <1>2 DEF TotalOf, f

LEMMA MoveTotals ==
    ASSUME NEW inv \in [Categories -> Counters], NEW c \in Categories, NEW n \in Int,
           NEW from \in {"available", "held"}, NEW to \in {"available", "held", "sold"},
           from # to
    PROVE  LET m == Move(inv, c, from, to, n) IN
           /\ TotalOf(m, from) = TotalOf(inv, from) - n
           /\ TotalOf(m, to) = TotalOf(inv, to) + n
           /\ \A field \in {"available", "held", "sold"} \ {from, to} :
                 TotalOf(m, field) = TotalOf(inv, field)
<1> DEFINE m == Move(inv, c, from, to, n)
           r == [inv[c] EXCEPT ![from] = @ - n, ![to] = @ + n]
<1>1. inv[c] \in Counters
  OBVIOUS
<1>2. m = [inv EXCEPT ![c] = r]
  BY DEF Move
<1>3. /\ r \in Counters /\ r[from] = inv[c][from] - n /\ r[to] = inv[c][to] + n
      /\ \A field \in {"available", "held", "sold"} \ {from, to} : r[field] = inv[c][field]
  BY <1>1 DEF Counters
<1> HIDE DEF r, m
<1>4. /\ m \in [Categories -> Counters] /\ m[c] = r
      /\ \A d \in Categories : d # c => m[d] = inv[d]
  BY <1>2, <1>3
<1>5. TotalOf(m, from) = TotalOf(inv, from) + (0 - n)
  <2>1. inv[c][from] \in Int
    BY <1>1 DEF Counters
  <2>2. m[c][from] = inv[c][from] + (0 - n)
    BY <1>3, <1>4, <2>1
  <2> QED
    BY <1>4, <2>2, TotalPoint
<1>6. TotalOf(m, to) = TotalOf(inv, to) + n
  BY <1>3, <1>4, TotalPoint
<1>7. ASSUME NEW field \in {"available", "held", "sold"} \ {from, to}
      PROVE  TotalOf(m, field) = TotalOf(inv, field)
  <2>1. inv[c][field] \in Int
    BY <1>1 DEF Counters
  <2>2. m[c][field] = inv[c][field] + 0
    BY <1>3, <1>4, <2>1
  <2>3. TotalOf(m, field) = TotalOf(inv, field) + 0
    BY <1>4, <2>2, TotalPoint
  <2> QED
    BY <2>3, TotalType
<1>8. TotalOf(inv, from) \in Int
  BY TotalType
<1> QED
  BY <1>5, <1>6, <1>7, <1>8 DEF m


----------------------------------------------------------------------------
(* What the history says.  Finitely many holds were granted, and seats     *)
(* sold; a seat carries the user of its hold, which was not released; only *)
(* granted holds were; a hold that was sold has, or had, its order key;    *)
(* and no user's counter is above the limits.                              *)
SeatsCarryUsers ==
    \A s \in Seats :
        /\ seat[s].holdId = None => seat[s].heldBy = None
        /\ seat[s].holdId # None => /\ seat[s].heldBy = grant[seat[s].holdId].user
                                    /\ releases[seat[s].holdId] = 0

HistInv ==
    /\ IsFiniteSet(Granted) /\ IsFiniteSet(sales)
    /\ SeatsCarryUsers
    /\ \A h \in Holds : releases[h] # 0 => h \in Granted
    /\ \A p \in sales : Committed(p[1]) \/ p[1] \in lapsed
    /\ \A u \in Users : \E max \in Limits : userLimit[u].count <= max

LEMMA HistInit == RedisInit => HistInv
<1> SUFFICES ASSUME RedisInit PROVE HistInv
  OBVIOUS
<1>1. Granted = {} /\ sales = {}
  BY DEF RedisInit, Granted
<1>2. IsFiniteSet(Granted) /\ IsFiniteSet(sales)
  BY <1>1, FS_EmptySet
<1>3. SeatsCarryUsers
  BY DEF RedisInit, SeatsCarryUsers, FreeSeat
<1>4. \A u \in Users : userLimit[u].count <= EventLimit
  BY LimitAssumption DEF RedisInit
<1> QED
  BY <1>1, <1>2, <1>3, <1>4 DEF RedisInit, HistInv, Limits

LEMMA HistHold ==
    ASSUME InventoryInv, HistInv, NEW u \in Users, NEW h \in Holds, NEW c \in Categories,
           NEW ss \in SeatLists, NEW max \in Limits, ExecHold(u, h, c, ss, max)
    PROVE  HistInv'
<1>0. RedisTypeOK /\ SeatsFollowGrants
  BY DEF InventoryInv
<1>1. h \notin Granted /\ Granted' = Granted \cup {h}
  BY <1>0, HoldGrants
<1>2. IsFiniteSet(Granted') /\ IsFiniteSet(sales')
  BY <1>1, FS_AddElement DEF HistInv, ExecHold
<1>3. /\ grant'[h].user = u /\ releases[h] = 0 /\ releases' = releases
      /\ \A i \in Granted : grant'[i] = grant[i]
  BY <1>0, <1>1 DEF ExecHold, RedisTypeOK, Granted, HistInv
<1>4. SeatsCarryUsers'
  <2>1. ASSUME NEW s \in Seats, s \in Range(ss)
        PROVE  seat'[s].holdId = h /\ seat'[s].heldBy = u
    BY <2>1 DEF ExecHold, HeldSeat
  <2>2. ASSUME NEW s \in Seats, s \notin Range(ss)
        PROVE  seat'[s] = seat[s]
    BY <2>2 DEF ExecHold
  <2>3. h # None
    BY NoneAssumption
  <2> QED
    BY <1>0, <1>3, <2>1, <2>2, <2>3 DEF SeatsCarryUsers, HistInv, SeatsFollowGrants
<1>5. \A v \in Users : \E m \in Limits : userLimit'[v].count <= m
  <2>1. userLimit'[u].count <= max
    BY <1>0 DEF ExecHold, WithinLimit, RedisTypeOK
  <2>2. \A v \in Users : v # u => userLimit'[v] = userLimit[v]
    BY <1>0 DEF ExecHold, RedisTypeOK
  <2> QED
    BY <2>1, <2>2 DEF HistInv
<1>6. \A i \in Holds : releases'[i] # 0 => i \in Granted'
  BY <1>1, <1>3 DEF HistInv
<1>7. \A p \in sales' : Committed(p[1])' \/ p[1] \in lapsed'
  BY DEF HistInv, ExecHold, Committed
<1> QED
  BY <1>2, <1>4, <1>5, <1>6, <1>7 DEF HistInv

LEMMA HistCommit ==
    ASSUME InventoryInv, HistInv, NEW h \in Granted, NEW c \in Categories,
           NEW ss \in SeatLists, NEW k \in Orders, ExecCommit(h, c, ss, k)
    PROVE  HistInv'
<1>0. RedisTypeOK
  BY DEF InventoryInv
<1> DEFINE flip == {s \in Range(ss) : seat[s].status = "HELD"}
<1>1. IsFiniteSet(flip)
  BY ListCount, FS_Subset
<1>2. /\ seat' = [s \in Seats |-> IF s \in flip THEN SoldSeat(seat[s]) ELSE seat[s]]
      /\ ledger' = [ledger EXCEPT ![h] = k] /\ sales' = sales \cup ({h} \X flip)
      /\ UNCHANGED <<userLimit, grant, releases, lapsed>>
  BY DEF ExecCommit
<1> HIDE DEF flip
<1>3. IsFiniteSet(Granted') /\ IsFiniteSet(sales')
  <2>1. IsFiniteSet({h}) /\ IsFiniteSet({h} \X flip)
    BY <1>1, FS_Singleton, FS_Product
  <2>2. Granted' = Granted
    BY <1>2 DEF Granted
  <2> QED
    BY <1>2, <2>1, <2>2, FS_Union DEF HistInv
<1>4. \A s \in Seats : seat'[s].holdId = seat[s].holdId /\ seat'[s].heldBy = seat[s].heldBy
  BY <1>2 DEF SoldSeat
<1>5. SeatsCarryUsers'
  BY <1>2, <1>4 DEF SeatsCarryUsers, HistInv
<1>6. \A p \in sales' : Committed(p[1])' \/ p[1] \in lapsed'
  <2>1. h \in Holds /\ k # None
    BY NoneAssumption DEF Granted
  <2>2. ledger'[h] = k /\ \A i \in Holds : i # h => ledger'[i] = ledger[i]
    BY <1>0, <1>2, <2>1 DEF RedisTypeOK
  <2>3. \A p \in sales : p[1] \in Holds
    BY <1>0 DEF RedisTypeOK
  <2> QED
    BY <1>2, <2>1, <2>2, <2>3 DEF HistInv, Committed
<1> QED
  BY <1>2, <1>3, <1>5, <1>6 DEF HistInv, Granted

LEMMA HistRelease ==
    ASSUME InventoryInv, HistInv, NEW h \in Granted, ExecRelease(h)
    PROVE  HistInv'
<1>0. RedisTypeOK /\ SeatsFollowGrants
  BY DEF InventoryInv
<1>1. UNCHANGED <<ledger, grant, sales, lapsed>> /\ Granted' = Granted
  BY DEF ExecRelease, Granted
<1>2. h \in Holds /\ \A i \in Holds : i # h => releases'[i] = releases[i]
  BY <1>0 DEF ExecRelease, RedisTypeOK, Granted
<1>3. SeatsCarryUsers'
  <2>1. ASSUME NEW s \in Seats
        PROVE  \/ seat'[s].holdId = None /\ seat'[s].heldBy = None
               \/ seat'[s] = seat[s] /\ seat[s].holdId # h
    <3>1. CASE seat[s].holdId = h
      <4>1. h # None
        BY <1>2, NoneAssumption
      <4>2. s \in Range(grant[h].seats)
        BY <1>0, <3>1, <4>1 DEF SeatsFollowGrants
      <4> QED
        BY <3>1, <4>2 DEF ExecRelease, CarriesHold, FreeSeat
    <3>2. CASE seat[s].holdId # h
      BY <3>2 DEF ExecRelease, CarriesHold
    <3> QED
      BY <3>1, <3>2
  <2>2. \A s \in Seats : seat[s].holdId \in Holds \cup {None}
    BY <1>0 DEF RedisTypeOK, SeatStates
  <2> QED
    BY <1>1, <1>2, <2>1, <2>2 DEF SeatsCarryUsers, HistInv
<1>4. \A u \in Users : \E max \in Limits : userLimit'[u].count <= max
  <2>1. Len(grant[h].seats) \in Nat
    BY <1>0, GrantFacts, ListCount
  <2>2. \A u \in Users : userLimit[u].count \in Int
    BY <1>0 DEF RedisTypeOK, LimitKeys
  <2>3. \A u \in Users : userLimit'[u].count <= userLimit[u].count
    BY <1>0, <2>1, <2>2 DEF ExecRelease, RedisTypeOK, LimitLoweredBy
  <2>4. \A u \in Users : userLimit'[u].count \in Int
    BY <1>0, RedisTypeStep DEF RedisTypeOK, LimitKeys, RedisNext
  <2>5. \A max \in Limits : max \in Int
    BY LimitAssumption DEF Limits
  <2> QED
    BY <2>2, <2>3, <2>4, <2>5 DEF HistInv
<1> QED
  BY <1>1, <1>2, <1>3, <1>4 DEF HistInv, Committed

LEMMA HistStep == InventoryInv /\ HistInv /\ [RedisNext]_redisVars => HistInv'
<1> SUFFICES ASSUME InventoryInv, HistInv, [RedisNext]_redisVars PROVE HistInv'
  OBVIOUS
<1>0. RedisTypeOK
  BY DEF InventoryInv
<1>1. ASSUME NEW h \in Granted, HoldTtlFires(h) PROVE HistInv'
  <2>1. UNCHANGED <<userLimit, ledger, grant, sales, releases, lapsed>> /\ Granted' = Granted
    BY <1>1 DEF HoldTtlFires, Granted
  <2>2. \A s \in Seats : \/ seat'[s].holdId = None /\ seat'[s].heldBy = None
                         \/ seat'[s] = seat[s]
    BY <1>1 DEF HoldTtlFires, GoneSeat
  <2>3. SeatsCarryUsers'
    BY <2>1, <2>2 DEF SeatsCarryUsers, HistInv
  <2> QED
    BY <2>1, <2>3 DEF HistInv, Committed
<1>2. ASSUME NEW u \in Users, LimitTtlFires(u) PROVE HistInv'
  <2>1. UNCHANGED <<seat, ledger, grant, sales, releases, lapsed>> /\ Granted' = Granted
    BY <1>2 DEF LimitTtlFires, Granted
  <2>2. \A v \in Users : userLimit'[v].count = 0 \/ userLimit'[v] = userLimit[v]
    BY <1>0, <1>2 DEF LimitTtlFires, RedisTypeOK
  <2>3. \A v \in Users : \E max \in Limits : userLimit'[v].count <= max
    BY <2>2, LimitAssumption DEF HistInv, Limits
  <2> QED
    BY <2>1, <2>3 DEF HistInv, SeatsCarryUsers, Committed
<1>3. ASSUME NEW h \in Holds, LedgerTtlFires(h) PROVE HistInv'
  <2>1. UNCHANGED <<seat, userLimit, grant, sales, releases>> /\ Granted' = Granted
    BY <1>3 DEF LedgerTtlFires, Granted
  <2>2. lapsed' = lapsed \cup {h} /\ \A i \in Holds : i # h => ledger'[i] = ledger[i]
    BY <1>0, <1>3 DEF LedgerTtlFires, RedisTypeOK
  <2>3. \A p \in sales : p[1] \in Holds
    BY <1>0 DEF RedisTypeOK
  <2> QED
    BY <2>1, <2>2, <2>3 DEF HistInv, SeatsCarryUsers, Committed
<1>4. CASE UNCHANGED redisVars
  BY <1>4 DEF redisVars, HistInv, SeatsCarryUsers, Granted, Committed
<1>5. \A h \in Granted : grant[h].category \in Categories
  BY <1>0, GrantFacts
<1> QED
  BY <1>1, <1>2, <1>3, <1>4, <1>5, HistHold, HistCommit, HistRelease DEF RedisNext

----------------------------------------------------------------------------
(* 'available' and the seats that can be held.                             *)

(* What the holds took beyond their seats, hold by hold.                   *)
Excess == [h \in Granted |-> Repeated(grant[h].seats)]

LEMMA ExcessFacts ==
    ASSUME InventoryInv, HistInv
    PROVE  /\ IsFiniteSet(Unreleased) /\ Unreleased \subseteq Granted
           /\ \A h \in Granted : Excess[h] = Repeated(grant[h].seats) /\ Excess[h] \in Nat
           /\ Surplus = SumFunctionOnSet(Excess, Unreleased) /\ Surplus \in Nat
<1>1. Unreleased \subseteq Granted /\ IsFiniteSet(Unreleased)
  BY FS_Subset DEF Unreleased, HistInv
<1>2. \A h \in Granted : Repeated(grant[h].seats) \in Nat
  BY GrantFacts, ListCount DEF InventoryInv
<1>3. \A h \in Granted : Excess[h] = Repeated(grant[h].seats) /\ Excess[h] \in Nat
  BY <1>2 DEF Excess
<1>4. Surplus = SumFunctionOnSet(Excess, Unreleased)
  BY DEF Surplus, Excess
<1>5. SumFunctionOnSet(Excess, Unreleased) \in Nat
  BY <1>1, <1>3, SumOfNaturals
<1> QED
  BY <1>1, <1>3, <1>4, <1>5

LEMMA AvailableInit == RedisInit => ShortByRepeatsOnly
<1> SUFFICES ASSUME RedisInit PROVE ShortByRepeatsOnly
  OBVIOUS
<1>1. Available = Seats
  BY DEF RedisInit, Available, Free, FreeSeat
<1>2. Total("available") = SumFunctionOnSet(Quota, Categories)
  <2> DEFINE f == [c \in Categories |-> inventory[c]["available"]]
  <2>1. \A c \in Categories : f[c] = Quota[c]
    BY DEF RedisInit
  <2> HIDE DEF f
  <2>2. SumFunctionOnSet(f, Categories) = SumFunctionOnSet(Quota, Categories)
    BY <2>1, VenueAssumption, SumSame
  <2> QED
    BY <2>2 DEF Total, f
<1>3. SumFunctionOnSet(Quota, Categories) \in Int
  <2>1. \A c \in Categories : Quota[c] \in Int
    BY QuotaAssumption
  <2> QED
    BY <2>1, VenueAssumption, SumType
<1>4. Surplus = 0
  <2>1. Unreleased = {}
    BY DEF RedisInit, Unreleased, Granted
  <2> QED
    BY <2>1, SumEmpty DEF Surplus
<1>5. Cardinality(Seats) \in Nat
  BY VenueAssumption, FS_CardinalityType
<1> QED
  BY <1>1, <1>2, <1>3, <1>4, <1>5, SeededAssumption DEF ShortByRepeatsOnly

(* The totals, after a script.                                             *)
LEMMA TotalsAfter ==
    ASSUME RedisTypeOK
    PROVE  /\ \A field \in {"available", "held", "sold"} :
                 Total(field) = TotalOf(inventory, field) /\ Total(field) \in Int
           /\ \A field \in {"available", "held", "sold"} : Total(field)' = TotalOf(inventory', field)
<1>1. \A field \in {"available", "held", "sold"} : Total(field) = TotalOf(inventory, field)
  BY DEF Total, TotalOf
<1>2. \A field \in {"available", "held", "sold"} : TotalOf(inventory, field) \in Int
  BY TotalType DEF RedisTypeOK
<1> QED
  BY <1>1, <1>2 DEF Total, TotalOf

LEMMA HoldTotals ==
    ASSUME RedisTypeOK, NEW u \in Users, NEW h \in Holds, NEW c \in Categories,
           NEW ss \in SeatLists, NEW max \in Limits, ExecHold(u, h, c, ss, max)
    PROVE  /\ Total("available")' = Total("available") - Len(ss)
           /\ Total("held")' = Total("held") + Len(ss)
           /\ Total("sold")' = Total("sold")
<1>1. Len(ss) \in Int /\ inventory \in [Categories -> Counters]
  BY ListCount DEF RedisTypeOK
<1>2. inventory' = Move(inventory, c, "available", "held", Len(ss))
  BY DEF ExecHold
<1>3. "sold" \in {"available", "held", "sold"} \ {"available", "held"}
  OBVIOUS
<1> QED
  BY <1>1, <1>2, <1>3, MoveTotals, TotalsAfter

LEMMA CommitTotals ==
    ASSUME RedisTypeOK, NEW h, NEW c \in Categories,
           NEW ss \in SeatLists, NEW k \in Orders, ExecCommit(h, c, ss, k)
    PROVE  /\ Total("available")' = Total("available")
           /\ Total("held")' = Total("held") - Len(ss)
           /\ Total("sold")' = Total("sold") + Len(ss)
<1>1. Len(ss) \in Int /\ inventory \in [Categories -> Counters]
  BY ListCount DEF RedisTypeOK
<1>2. inventory' = Move(inventory, c, "held", "sold", Len(ss))
  BY DEF ExecCommit
<1>3. "available" \in {"available", "held", "sold"} \ {"held", "sold"}
  OBVIOUS
<1> QED
  BY <1>1, <1>2, <1>3, MoveTotals, TotalsAfter

LEMMA ReleaseTotals ==
    ASSUME RedisTypeOK, NEW h \in Granted, ExecRelease(h)
    PROVE  /\ Total("available")' = Total("available") + Len(grant[h].seats)
           /\ Total("held")' = Total("held") - Len(grant[h].seats)
           /\ Total("sold")' = Total("sold")
<1> DEFINE n == Len(grant[h].seats)
           c == grant[h].category
<1>1. n \in Int /\ c \in Categories /\ inventory \in [Categories -> Counters]
  BY GrantFacts DEF RedisTypeOK
<1>2. inventory' = Move(inventory, c, "held", "available", n)
  BY DEF ExecRelease
<1>3. "sold" \in {"available", "held", "sold"} \ {"held", "available"}
  OBVIOUS
<1> HIDE DEF n, c
<1>4. /\ Total("available")' = Total("available") + n
      /\ Total("held")' = Total("held") - n
      /\ Total("sold")' = Total("sold")
  BY <1>1, <1>2, <1>3, MoveTotals, TotalsAfter
<1> QED
  BY <1>4 DEF n

(* The other steps do not touch the counters.                              *)
TtlStep ==
    \/ \E h \in Granted : HoldTtlFires(h)
    \/ \E u \in Users : LimitTtlFires(u)
    \/ \E h \in Holds : LedgerTtlFires(h)
    \/ UNCHANGED redisVars

LEMMA TtlTotals ==
    ASSUME TtlStep
    PROVE  \A field : Total(field)' = Total(field)
<1>1. inventory' = inventory
  BY DEF TtlStep, HoldTtlFires, LimitTtlFires, LedgerTtlFires, redisVars
<1> QED
  BY <1>1 DEF Total

(* The holds that were not released gain the new one, lose the one         *)
(* released, and are the same after every other step.                      *)
LEMMA SurplusOfHold ==
    ASSUME InventoryInv, HistInv, InventoryInv', HistInv',
           NEW u \in Users, NEW h \in Holds, NEW c \in Categories,
           NEW ss \in SeatLists, NEW max \in Limits, ExecHold(u, h, c, ss, max)
    PROVE  Surplus' = Surplus + Repeated(ss)
<1>1. h \notin Granted /\ Granted' = Granted \cup {h}
  BY HoldGrants DEF InventoryInv
<1>2. /\ \A i \in Granted : grant'[i] = grant[i]
      /\ grant'[h].seats = ss /\ releases' = releases /\ releases[h] = 0
  BY <1>1 DEF ExecHold, InventoryInv, RedisTypeOK, Granted, HistInv
<1>3. Unreleased' = Unreleased \cup {h} /\ h \notin Unreleased
  BY <1>1, <1>2 DEF Unreleased
<1>4. \A i \in Granted : Excess'[i] = Excess[i] /\ Excess[i] \in Int
  BY <1>1, <1>2, ExcessFacts DEF Excess
<1>5. Excess'[h] = Repeated(ss) /\ Repeated(ss) \in Nat
  BY <1>1, <1>2, ListCount DEF Excess
<1>6. SumFunctionOnSet(Excess', Unreleased) = Surplus /\ Surplus \in Nat
  <2>1. IsFiniteSet(Unreleased) /\ \A i \in Unreleased : Excess'[i] = Excess[i]
    BY <1>4, ExcessFacts
  <2>2. SumFunctionOnSet(Excess', Unreleased) = SumFunctionOnSet(Excess, Unreleased)
    BY <2>1, SumSame
  <2> QED
    BY <2>2, ExcessFacts
<1>7. SumFunctionOnSet(Excess', Unreleased') = Excess'[h] + SumFunctionOnSet(Excess', Unreleased)
  <2>1. IsFiniteSet(Unreleased \cup {h}) /\ \A i \in Unreleased \cup {h} : Excess'[i] \in Int
    BY <1>4, <1>5, ExcessFacts, FS_AddElement
  <2>2. (Unreleased \cup {h}) \ {h} = Unreleased
    BY <1>3
  <2>3. SumFunctionOnSet(Excess', Unreleased \cup {h})
           = Excess'[h] + SumFunctionOnSet(Excess', (Unreleased \cup {h}) \ {h})
    BY <2>1, SumRemove
  <2> QED
    BY <1>3, <2>2, <2>3, Zenon
<1>8. Surplus' = SumFunctionOnSet(Excess', Unreleased')
  BY DEF Surplus, Excess
<1>9. Surplus' = Repeated(ss) + Surplus
  BY <1>5, <1>6, <1>7, <1>8, Zenon
<1> QED
  BY <1>5, <1>6, <1>9

(* A first RELEASE takes the repeated names of the hold off the surplus; a *)
(* further one changes nothing.                                            *)
LEMMA SurplusOfRelease ==
    ASSUME InventoryInv, HistInv, NEW h \in Granted, ExecRelease(h)
    PROVE  Surplus' = Surplus - Repeated(grant[h].seats) \/ Surplus' = Surplus
<1>1. /\ Granted' = Granted /\ Excess' = Excess
      /\ h \in Holds /\ releases'[h] = releases[h] + 1
      /\ \A i \in Holds : i # h => releases'[i] = releases[i]
      /\ \A i \in Holds : releases[i] \in Nat
  BY BoundAssumption DEF ExecRelease, InventoryInv, RedisTypeOK, Granted, Excess
<1>2. Unreleased' = Unreleased \ {h}
  BY <1>1 DEF Unreleased, Granted
<1>3. Surplus' = SumFunctionOnSet(Excess', Unreleased')
  BY DEF Surplus, Excess
<1>4. Surplus' = SumFunctionOnSet(Excess, Unreleased \ {h})
  BY <1>1, <1>2, <1>3
<1>5. CASE h \notin Unreleased
  <2>1. Unreleased \ {h} = Unreleased
    BY <1>5
  <2> QED
    BY <1>4, <2>1, ExcessFacts
<1>6. CASE h \in Unreleased
  <2>1. \A i \in Unreleased : Excess[i] \in Int
    BY ExcessFacts
  <2>2. SumFunctionOnSet(Excess, Unreleased)
           = Excess[h] + SumFunctionOnSet(Excess, Unreleased \ {h})
    BY <1>6, <2>1, ExcessFacts, SumRemove
  <2>3. SumFunctionOnSet(Excess, Unreleased \ {h}) \in Int
    <3>1. IsFiniteSet(Unreleased \ {h}) /\ \A i \in Unreleased \ {h} : Excess[i] \in Int
      BY <2>1, ExcessFacts, FS_Subset
    <3> QED
      BY <3>1, SumType
  <2> QED
    BY <1>4, <2>2, <2>3, ExcessFacts
<1> QED
  BY <1>5, <1>6

(* HOLD takes from 'available' what it takes of the seats and the repeated *)
(* names; RELEASE puts back at least as much as it frees and takes off the *)
(* surplus; a TTL frees nothing.                                           *)
LEMMA AvailableStep ==
    ASSUME InventoryInv, HistInv, InventoryInv', HistInv', ShortByRepeatsOnly,
           [RedisNext]_redisVars
    PROVE  ShortByRepeatsOnly'
<1>0. /\ RedisTypeOK /\ SeatFieldsAgree
      /\ Total("available") \in Int /\ Surplus \in Nat
      /\ Cardinality(Available) <= Total("available") + Surplus
  BY TotalsAfter, ExcessFacts DEF InventoryInv, ShortByRepeatsOnly
<1>1. IsFiniteSet(Available) /\ Cardinality(Available) \in Nat
  BY VenueAssumption, FS_Subset, FS_CardinalityType DEF Available
<1>2. ASSUME NEW u \in Users, NEW h \in Holds, NEW c \in Categories,
             NEW ss \in SeatLists, NEW max \in Limits, ExecHold(u, h, c, ss, max)
      PROVE  ShortByRepeatsOnly'
  <2>1. Range(ss) \subseteq Available
    BY <1>2, SeatListFacts DEF ExecHold, Available
  <2>2. Available' = Available \ Range(ss)
    BY <1>2 DEF ExecHold, Available, Free, HeldSeat
  <2>3. Cardinality(Available') = Cardinality(Available) - Cardinality(Available \cap Range(ss))
    BY <1>1, <2>2, FS_Difference
  <2>4. Available \cap Range(ss) = Range(ss)
    BY <2>1
  <2>5. /\ Len(ss) \in Nat /\ Cardinality(Range(ss)) \in Nat
        /\ Repeated(ss) = Len(ss) - Cardinality(Range(ss))
    BY ListCount
  <2>6. Total("available")' = Total("available") - Len(ss) /\ Surplus' = Surplus + Repeated(ss)
    BY <1>0, <1>2, HoldTotals, SurplusOfHold
  <2>7. Cardinality(Available') = Cardinality(Available) - Cardinality(Range(ss))
    BY <2>3, <2>4, Zenon
  <2>8. Cardinality(Available') <= Total("available")' + Surplus'
    BY <1>0, <1>1, <2>5, <2>6, <2>7
  <2> QED
    BY <2>8 DEF ShortByRepeatsOnly
<1>3. ASSUME UNCHANGED <<grant, releases>> PROVE Surplus' = Surplus
  BY <1>3 DEF Surplus, Unreleased, Granted
<1>4. ASSUME NEW h \in Granted, NEW ss \in SeatLists, NEW k \in Orders,
             ExecCommit(h, grant[h].category, ss, k)
      PROVE  ShortByRepeatsOnly'
  <2>1. Available' = Available
    BY <1>4 DEF ExecCommit, Available, Free, SoldSeat
  <2>2. Total("available")' = Total("available")
    BY <1>0, <1>4, CommitTotals, GrantFacts
  <2>3. Surplus' = Surplus
    BY <1>3, <1>4 DEF ExecCommit
  <2> QED
    BY <1>0, <2>1, <2>2, <2>3 DEF ShortByRepeatsOnly
<1>5. ASSUME NEW h \in Granted, ExecRelease(h) PROVE ShortByRepeatsOnly'
  <2> DEFINE R == Range(grant[h].seats)
             n == Len(grant[h].seats)
             e == Repeated(grant[h].seats)
  <2>1. /\ IsFiniteSet(R) /\ Cardinality(R) \in Nat /\ n \in Nat
        /\ e \in Nat /\ e = n - Cardinality(R)
    BY <1>0, GrantFacts, ListCount
  <2>2. Available' \subseteq Available \cup R
    BY <1>5 DEF ExecRelease, Available, Free
  <2>3. Total("available")' = Total("available") + n
    BY <1>0, <1>5, ReleaseTotals
  <2>4. Surplus' = Surplus - e \/ Surplus' = Surplus
    BY <1>5, SurplusOfRelease
  <2> HIDE DEF R, n, e
  <2>5. /\ IsFiniteSet(Available \cup R) /\ IsFiniteSet(Available \cap R)
        /\ Cardinality(Available \cup R) =
              Cardinality(Available) + Cardinality(R) - Cardinality(Available \cap R)
    BY <1>1, <2>1, FS_Union, FS_Subset
  <2>6. /\ Cardinality(Available \cap R) \in Nat /\ Cardinality(Available \cup R) \in Nat
        /\ Cardinality(Available') \in Nat
        /\ Cardinality(Available') <= Cardinality(Available \cup R)
    BY <2>2, <2>5, FS_Subset, FS_CardinalityType
  <2>7. Cardinality(Available') <= Cardinality(Available) + Cardinality(R)
    BY <1>1, <2>1, <2>5, <2>6
  <2>8. Total("available") + Surplus + Cardinality(R) <= Total("available")' + Surplus'
    BY <1>0, <2>1, <2>3, <2>4
  <2>9. Total("available")' \in Int /\ Surplus' \in Int
    BY <1>0, <2>1, <2>3, <2>4
  <2>10. Cardinality(Available') <= Total("available")' + Surplus'
    BY <1>0, <1>1, <2>1, <2>6, <2>7, <2>8, <2>9
  <2> QED
    BY <2>10 DEF ShortByRepeatsOnly
<1>6. ASSUME TtlStep PROVE ShortByRepeatsOnly'
  <2>1. Available' = Available
    <3>1. \A s \in Seats : (seat'[s].status = "AVAILABLE") <=> (seat[s].status = "AVAILABLE")
      BY <1>0, <1>6
      DEF TtlStep, HoldTtlFires, LimitTtlFires, LedgerTtlFires, redisVars, Expiring, GoneSeat,
          SeatFieldsAgree
    <3> QED
      BY <3>1 DEF Available, Free
  <2>2. Total("available")' = Total("available")
    BY <1>6, TtlTotals
  <2>3. Surplus' = Surplus
    BY <1>3, <1>6 DEF TtlStep, HoldTtlFires, LimitTtlFires, LedgerTtlFires, redisVars
  <2> QED
    BY <1>0, <2>1, <2>2, <2>3 DEF ShortByRepeatsOnly
<1> QED
  BY <1>2, <1>4, <1>5, <1>6 DEF RedisNext, TtlStep

LEMMA HistInvariant == RedisSpec => [](InventoryInv /\ HistInv)
  BY HistInit, HistStep, InventoryInvariant, PTL DEF RedisSpec

(* The counters that HOLD answers SOLD_OUT from cover the seats that are   *)
(* AVAILABLE, whatever was released, however often, but for the repeated   *)
(* names of the holds not yet released: with one category and no such      *)
(* hold, no list of different free seats is refused for lack of tickets.   *)
THEOREM ShortfallIsRepeats == RedisSpec => []ShortByRepeatsOnly
<1>1. RedisInit => ShortByRepeatsOnly
  BY AvailableInit
<1>2. /\ InventoryInv /\ HistInv /\ InventoryInv' /\ HistInv' /\ ShortByRepeatsOnly
      /\ [RedisNext]_redisVars
      => ShortByRepeatsOnly'
  BY AvailableStep
<1> QED
  BY <1>1, <1>2, HistInvariant, PTL DEF RedisSpec

----------------------------------------------------------------------------
(* 'sold' and the sales.                                                   *)

(* A COMMIT within 24 hours of the order key finds every seat of its list  *)
(* HELD: a sold one would have been sold with that key.                    *)
LEMMA CommitFlipsAll ==
    ASSUME InventoryInv, HistInv, lapsed = {}, NEW h \in Granted, NEW c \in Categories,
           NEW ss \in SeatLists, NEW k \in Orders, ExecCommit(h, c, ss, k)
    PROVE  /\ sales' = sales \cup ({h} \X Range(ss))
           /\ \A s \in Seats : <<h, s>> \notin sales
           /\ Range(ss) \subseteq Range(grant[h].seats) /\ releases[h] = 0
<1>1. \A s \in Seats : <<h, s>> \notin sales
  BY DEF HistInv, ExecCommit
<1>2. Range(ss) \subseteq Seats /\ Range(ss) # {}
  BY SeatListFacts
<1>3. \A s \in Range(ss) : seat[s].status \in {"HELD", "SOLD"} /\ seat[s].holdId = h
  BY DEF ExecCommit, CommittableBy
<1>4. \A s \in Range(ss) : seat[s].status = "HELD"
  BY <1>1, <1>2, <1>3 DEF InventoryInv, SoldSeatsAreSales
<1>5. {s \in Range(ss) : seat[s].status = "HELD"} = Range(ss)
  BY <1>4
<1>6. sales' = sales \cup ({h} \X Range(ss))
  BY <1>5 DEF ExecCommit
<1>7. h # None
  BY NoneAssumption DEF Granted
<1> QED
  BY <1>1, <1>2, <1>3, <1>6, <1>7
  DEF InventoryInv, SeatsFollowGrants, HistInv, SeatsCarryUsers

LEMMA SoldStep ==
    ASSUME InventoryInv, HistInv, SoldCountsSales, [RedisNext]_redisVars
    PROVE  SoldCountsSales'
<1> SUFFICES ASSUME lapsed' = {} PROVE Total("sold")' = Cardinality(sales') + repeats'
  BY DEF SoldCountsSales
<1>0. RedisTypeOK /\ Total("sold") \in Int /\ repeats \in Nat
  BY TotalsAfter DEF InventoryInv, RedisTypeOK
<1>1. lapsed = {}
  BY DEF RedisNext, ExecHold, ExecCommit, ExecRelease, HoldTtlFires, LimitTtlFires,
         LedgerTtlFires, redisVars
<1>2. /\ Total("sold") = Cardinality(sales) + repeats
      /\ IsFiniteSet(sales) /\ Cardinality(sales) \in Nat
  BY <1>1, FS_CardinalityType DEF SoldCountsSales, HistInv
<1>3. ASSUME NEW u \in Users, NEW h \in Holds, NEW c \in Categories,
             NEW ss \in SeatLists, NEW max \in Limits, ExecHold(u, h, c, ss, max)
      PROVE  Total("sold")' = Cardinality(sales') + repeats'
  BY <1>0, <1>2, <1>3, HoldTotals DEF ExecHold
<1>4. ASSUME NEW h \in Granted, NEW ss \in SeatLists, NEW k \in Orders,
             ExecCommit(h, grant[h].category, ss, k)
      PROVE  Total("sold")' = Cardinality(sales') + repeats'
  <2>1. grant[h].category \in Categories
    BY <1>0, GrantFacts
  <2>2. sales' = sales \cup ({h} \X Range(ss)) /\ \A s \in Seats : <<h, s>> \notin sales
    BY <1>1, <1>4, <2>1, CommitFlipsAll
  <2>3. sales \cap ({h} \X Range(ss)) = {}
    BY <2>2, SeatListFacts
  <2>4. /\ IsFiniteSet({h}) /\ Cardinality({h}) = 1
        /\ IsFiniteSet(Range(ss)) /\ Cardinality(Range(ss)) \in Nat /\ Len(ss) \in Nat
        /\ repeats' = repeats + (Len(ss) - Cardinality(Range(ss)))
    BY <1>4, FS_Singleton, ListCount DEF ExecCommit
  <2>5. IsFiniteSet({h} \X Range(ss)) /\ Cardinality({h} \X Range(ss)) = 1 * Cardinality(Range(ss))
    BY <2>4, FS_Product
  <2>6. Cardinality(sales') = Cardinality(sales) + 1 * Cardinality(Range(ss)) - Cardinality(sales \cap ({h} \X Range(ss)))
    BY <1>2, <2>2, <2>5, FS_Union
  <2>7. Cardinality(sales \cap ({h} \X Range(ss))) = 0
    BY <2>3, FS_EmptySet
  <2>8. Total("sold")' = Total("sold") + Len(ss)
    BY <1>0, <1>4, <2>1, CommitTotals
  <2> QED
    BY <1>0, <1>2, <2>4, <2>6, <2>7, <2>8
<1>5. ASSUME NEW h \in Granted, ExecRelease(h) PROVE Total("sold")' = Cardinality(sales') + repeats'
  BY <1>0, <1>2, <1>5, ReleaseTotals DEF ExecRelease
<1>6. ASSUME TtlStep PROVE Total("sold")' = Cardinality(sales') + repeats'
  <2>1. sales' = sales /\ repeats' = repeats
    BY <1>6 DEF TtlStep, HoldTtlFires, LimitTtlFires, LedgerTtlFires, redisVars
  <2> QED
    BY <1>2, <1>6, <2>1, TtlTotals
<1> QED
  BY <1>3, <1>4, <1>5, <1>6 DEF RedisNext, TtlStep

LEMMA ZeroTotals ==
    ASSUME RedisInit
    PROVE  Total("held") = 0 /\ Total("sold") = 0
<1> DEFINE f(field) == [c \in Categories |-> inventory[c][field]]
<1>1. ASSUME NEW field \in {"held", "sold"} PROVE SumFunctionOnSet(f(field), Categories) = 0
  <2>1. \A c \in Categories : f(field)[c] = 0
    BY DEF RedisInit
  <2> QED
    BY <2>1, VenueAssumption, SumOfZeros
<1> QED
  BY <1>1 DEF Total

(* Every sale is counted once, and besides only the repeated names of the  *)
(* lists, although COMMIT adds the number of names in its list whatever    *)
(* they are and may be sent again: within the 24 hours of the order key.   *)
THEOREM SalesAreCounted == RedisSpec => []SoldCountsSales
<1>1. RedisInit => SoldCountsSales
  <2>1. RedisInit => Cardinality(sales) = 0 /\ repeats = 0
    BY FS_EmptySet DEF RedisInit
  <2> QED
    BY <2>1, ZeroTotals DEF SoldCountsSales
<1>2. InventoryInv /\ HistInv /\ SoldCountsSales /\ [RedisNext]_redisVars => SoldCountsSales'
  BY SoldStep
<1> QED
  BY <1>1, <1>2, HistInvariant, PTL DEF RedisSpec

----------------------------------------------------------------------------
(* The counter of a user and the seats of the user.                        *)

HoldsOf(u) == {h \in Granted : grant[h].user = u /\ releases[h] = 0}
Lengths == [h \in Granted |-> Len(grant[h].seats)]

ReleasedOnce(u) == \A h \in Granted : grant[h].user = u => releases[h] <= 1

(* Within 24 hours of the last HOLD, and with every hold of the user       *)
(* released once at most, the counter is the number of names in the holds  *)
(* that were not released.                                                 *)
WholeInv == \A u \in Users : ReleasedOnce(u) => LimitWhole(u)

LEMMA LengthFacts ==
    ASSUME InventoryInv, HistInv
    PROVE  /\ \A h \in Granted : Lengths[h] \in Nat /\ Lengths[h] = Len(grant[h].seats)
           /\ \A u \in Users : /\ IsFiniteSet(HoldsOf(u)) /\ HoldsOf(u) \subseteq Granted
                               /\ LimitWhole(u) <=>
                                     userLimit[u].count = SumFunctionOnSet(Lengths, HoldsOf(u))
<1>1. \A h \in Granted : Len(grant[h].seats) \in Nat
  BY GrantFacts, ListCount DEF InventoryInv
<1>2. \A u \in Users : HoldsOf(u) \subseteq Granted /\ IsFiniteSet(HoldsOf(u))
  BY FS_Subset DEF HoldsOf, HistInv
<1>3. \A u \in Users : LimitWhole(u) <=>
                          userLimit[u].count = SumFunctionOnSet(Lengths, HoldsOf(u))
  BY DEF LimitWhole, Lengths, HoldsOf
<1> QED
  BY <1>1, <1>2, <1>3 DEF Lengths

LEMMA WholeHold ==
    ASSUME InventoryInv, HistInv, InventoryInv', HistInv', WholeInv,
           NEW u \in Users, NEW h \in Holds, NEW c \in Categories,
           NEW ss \in SeatLists, NEW max \in Limits, ExecHold(u, h, c, ss, max)
    PROVE  WholeInv'
<1>0. RedisTypeOK
  BY DEF InventoryInv
<1>1. h \notin Granted /\ Granted' = Granted \cup {h}
  BY <1>0, HoldGrants
<1>2. /\ \A i \in Granted : grant'[i] = grant[i]
      /\ grant'[h].user = u /\ grant'[h].seats = ss /\ releases' = releases /\ releases[h] = 0
  BY <1>0, <1>1 DEF ExecHold, RedisTypeOK, Granted, HistInv
<1>3. \A i \in Granted : Lengths'[i] = Lengths[i] /\ Lengths[i] \in Int
  BY <1>1, <1>2, LengthFacts DEF Lengths
<1>4. Lengths'[h] = Len(ss) /\ Len(ss) \in Nat
  BY <1>1, <1>2, ListCount DEF Lengths
<1>5. \A v \in Users : ReleasedOnce(v)' => ReleasedOnce(v)
  BY <1>1, <1>2 DEF ReleasedOnce
<1>6. ASSUME NEW v \in Users, ReleasedOnce(v)'
      PROVE  userLimit'[v].count = SumFunctionOnSet(Lengths', HoldsOf(v)')
  <2>1. userLimit[v].count = SumFunctionOnSet(Lengths, HoldsOf(v))
    BY <1>5, <1>6, LengthFacts DEF WholeInv
  <2>2. SumFunctionOnSet(Lengths', HoldsOf(v)) = SumFunctionOnSet(Lengths, HoldsOf(v))
    <3>1. IsFiniteSet(HoldsOf(v)) /\ \A i \in HoldsOf(v) : Lengths'[i] = Lengths[i]
      BY <1>3, LengthFacts
    <3> QED
      BY <3>1, SumSame
  <2>3. CASE v = u
    <3>1. HoldsOf(v)' = HoldsOf(v) \cup {h} /\ h \notin HoldsOf(v)
      BY <1>1, <1>2, <2>3 DEF HoldsOf
    <3>2. IsFiniteSet(HoldsOf(v)') /\ \A i \in HoldsOf(v)' : Lengths'[i] \in Int
      <4>1. IsFiniteSet(HoldsOf(v) \cup {h})
        BY LengthFacts, FS_AddElement
      <4>2. \A i \in HoldsOf(v) \cup {h} : Lengths'[i] \in Int
        BY <1>3, <1>4, LengthFacts
      <4> QED
        BY <3>1, <4>1, <4>2
    <3>3. h \in HoldsOf(v)' /\ HoldsOf(v)' \ {h} = HoldsOf(v)
      BY <3>1
    <3>4. SumFunctionOnSet(Lengths', HoldsOf(v)')
             = Lengths'[h] + SumFunctionOnSet(Lengths', HoldsOf(v)' \ {h})
      BY <3>2, <3>3, SumRemove
    <3>5. SumFunctionOnSet(Lengths', HoldsOf(v)') = Len(ss) + userLimit[v].count
      BY <1>4, <2>1, <2>2, <3>3, <3>4, Zenon
    <3>6. userLimit'[v].count = userLimit[v].count + Len(ss) /\ userLimit[v].count \in Int
      BY <1>0, <2>3 DEF ExecHold, RedisTypeOK, LimitKeys
    <3> QED
      BY <1>4, <3>5, <3>6
  <2>4. CASE v # u
    <3>1. HoldsOf(v)' = HoldsOf(v)
      BY <1>1, <1>2, <2>4 DEF HoldsOf
    <3>2. userLimit'[v] = userLimit[v]
      BY <1>0, <2>4 DEF ExecHold, RedisTypeOK
    <3> QED
      BY <2>1, <2>2, <3>1, <3>2, Zenon
  <2> QED
    BY <2>3, <2>4
<1> QED
  BY <1>6 DEF WholeInv, LimitWhole, Lengths, HoldsOf

LEMMA WholeRelease ==
    ASSUME InventoryInv, HistInv, WholeInv, NEW h \in Granted, ExecRelease(h)
    PROVE  WholeInv'
<1>0. RedisTypeOK /\ h \in Holds
  BY DEF InventoryInv, Granted
<1> DEFINE u == grant[h].user
           n == Len(grant[h].seats)
<1>1. Granted' = Granted /\ grant' = grant /\ Lengths' = Lengths
  BY DEF ExecRelease, Granted, Lengths
<1>2. /\ releases'[h] = releases[h] + 1 /\ \A i \in Holds : i # h => releases'[i] = releases[i]
      /\ \A i \in Holds : releases[i] \in Nat
  BY <1>0, BoundAssumption DEF ExecRelease, RedisTypeOK
<1>3. u \in Users /\ n \in Nat /\ Lengths[h] = n
  BY <1>0, GrantFacts, LengthFacts
<1>4. /\ userLimit'[u].count = userLimit[u].count - n
      /\ \A v \in Users : userLimit[v].count \in Int
      /\ \A v \in Users : v # u => userLimit'[v] = userLimit[v]
  BY <1>0, <1>3 DEF ExecRelease, RedisTypeOK, LimitLoweredBy, LimitKeys
<1>5. \A v \in Users : ReleasedOnce(v)' => ReleasedOnce(v)
  BY <1>1, <1>2 DEF ReleasedOnce, Granted
<1>6. ASSUME NEW v \in Users, ReleasedOnce(v)'
      PROVE  userLimit'[v].count = SumFunctionOnSet(Lengths, HoldsOf(v)')
  <2>1. userLimit[v].count = SumFunctionOnSet(Lengths, HoldsOf(v))
    BY <1>5, <1>6, LengthFacts DEF WholeInv
  <2>2. CASE v = u
    <3>1. releases[h] = 0
      BY <1>0, <1>1, <1>2, <1>6, <2>2 DEF ReleasedOnce
    <3>2. h \in HoldsOf(v) /\ HoldsOf(v)' = HoldsOf(v) \ {h}
      BY <1>1, <1>2, <2>2, <3>1 DEF HoldsOf, Granted
    <3>3. /\ IsFiniteSet(HoldsOf(v)) /\ \A i \in HoldsOf(v) : Lengths[i] \in Int
          /\ IsFiniteSet(HoldsOf(v)') /\ \A i \in HoldsOf(v)' : Lengths[i] \in Int
      BY <3>2, LengthFacts, FS_Subset
    <3>4. SumFunctionOnSet(Lengths, HoldsOf(v))
             = Lengths[h] + SumFunctionOnSet(Lengths, HoldsOf(v) \ {h})
      BY <3>2, <3>3, SumRemove
    <3>5. SumFunctionOnSet(Lengths, HoldsOf(v)') \in Int
      BY <3>3, SumType
    <3>6. userLimit[v].count = n + SumFunctionOnSet(Lengths, HoldsOf(v)')
      BY <1>3, <2>1, <3>2, <3>4, Zenon
    <3>7. userLimit'[v].count = userLimit[v].count - n
      BY <1>4, <2>2
    <3> HIDE DEF n
    <3> QED
      BY <1>3, <3>5, <3>6, <3>7
  <2>3. CASE v # u
    <3>1. HoldsOf(v)' = HoldsOf(v)
      BY <1>1, <1>2, <2>3 DEF HoldsOf, Granted
    <3> QED
      BY <1>4, <2>1, <2>3, <3>1, Zenon
  <2> QED
    BY <2>2, <2>3
<1> QED
  BY <1>1, <1>6 DEF WholeInv, LimitWhole, Lengths, HoldsOf

LEMMA WholeStep ==
    ASSUME DayPasses = FALSE, InventoryInv, HistInv, InventoryInv', HistInv', WholeInv,
           [RedisNext]_redisVars
    PROVE  WholeInv'
<1>1. ASSUME UNCHANGED <<grant, releases, userLimit>> PROVE WholeInv'
  BY <1>1 DEF WholeInv, ReleasedOnce, LimitWhole, Granted
<1>2. ASSUME NEW h \in Granted, NEW c, NEW ss \in SeatLists, NEW k \in Orders,
             ExecCommit(h, c, ss, k)
      PROVE  UNCHANGED <<grant, releases, userLimit>>
  BY <1>2 DEF ExecCommit
<1>3. ASSUME TtlStep PROVE UNCHANGED <<grant, releases, userLimit>>
  BY <1>3 DEF TtlStep, HoldTtlFires, LimitTtlFires, LedgerTtlFires, redisVars
<1> QED
  BY <1>1, <1>2, <1>3, WholeHold, WholeRelease DEF RedisNext, TtlStep

(* Where the counter is whole it covers the seats that carry the user.     *)
LEMMA WholeCaps ==
    ASSUME InventoryInv, HistInv, NEW u \in Users, LimitWhole(u)
    PROVE  \E max \in Limits : Cardinality({s \in Seats : seat[s].heldBy = u}) <= max
<1> DEFINE H == HoldsOf(u)
           Names == [h \in Granted |-> Range(grant[h].seats)]
           Mine == {s \in Seats : seat[s].heldBy = u}
           Union == UNION {Names[h] : h \in H}
<1>1. PICK max \in Limits : userLimit[u].count <= max
  BY DEF HistInv
<1>2. /\ IsFiniteSet(H) /\ H \subseteq Granted
      /\ userLimit[u].count = SumFunctionOnSet(Lengths, H)
  BY LengthFacts
<1>3. \A h \in H : IsFiniteSet(Names[h]) /\ Lengths[h] \in Int /\ Cardinality(Names[h]) <= Lengths[h]
  BY <1>2, LengthFacts, GrantFacts, ListCount DEF InventoryInv
<1>4. Mine \subseteq Union
  <2>1. ASSUME NEW s \in Seats, seat[s].heldBy = u PROVE s \in Union
    <3>1. u # None
      BY NoneAssumption
    <3>2. seat[s].holdId # None /\ grant[seat[s].holdId].user = u /\ releases[seat[s].holdId] = 0
      BY <2>1, <3>1 DEF HistInv, SeatsCarryUsers
    <3>3. seat[s].holdId \in Granted /\ s \in Range(grant[seat[s].holdId].seats)
      BY <3>2 DEF InventoryInv, SeatsFollowGrants
    <3> QED
      BY <3>2, <3>3 DEF HoldsOf
  <2> QED
    BY <2>1
<1> HIDE DEF H, Names, Mine
<1>5. IsFiniteSet(Union) /\ Cardinality(Union) <= SumFunctionOnSet(Lengths, H)
  BY <1>2, <1>3, UnionBound
<1>6. Cardinality(Mine) <= Cardinality(Union) /\ Cardinality(Mine) \in Nat /\ Cardinality(Union) \in Nat
  <2> HIDE DEF Union
  <2> QED
    BY <1>4, <1>5, FS_Subset, FS_CardinalityType
<1>7. userLimit[u].count \in Int /\ max \in Int
  BY LimitAssumption DEF InventoryInv, RedisTypeOK, LimitKeys, Limits
<1>8. Cardinality(Mine) <= max
  <2> HIDE DEF Union
  <2> QED
    BY <1>1, <1>2, <1>5, <1>6, <1>7
<1> QED
  BY <1>1, <1>8 DEF Mine

(* Whoever has a whole counter has no more seats, held or bought, than the *)
(* larger limit that a HOLD is compared with - which reads the limit of    *)
(* the event or, when PostgreSQL fails, a default.                         *)
THEOREM TicketCapOfWholeCounters == RedisSpec => []TicketCapWhenClean
<1>1. InventoryInv /\ HistInv => TicketCapWhenClean
  BY WholeCaps DEF TicketCapWhenClean
<1> QED
  BY <1>1, HistInvariant, PTL

(* Nobody whose holds were each released once at most is over the limit.   *)
TicketCap ==
    \A u \in Users : ReleasedOnce(u) =>
        \E max \in Limits : Cardinality({s \in Seats : seat[s].heldBy = u}) <= max

(* Within 24 hours of the last HOLD the counter stays whole by itself, and *)
(* so the limit holds whatever was committed, replayed or expired.         *)
THEOREM TicketCapWithinADay ==
    ASSUME DayPasses = FALSE
    PROVE  RedisSpec => []TicketCap
<1>1. RedisInit => WholeInv
  <2> SUFFICES ASSUME RedisInit, NEW u \in Users PROVE LimitWhole(u)
    BY DEF WholeInv
  <2>1. {h \in Granted : grant[h].user = u /\ releases[h] = 0} = {}
    BY DEF RedisInit, Granted
  <2>2. userLimit[u].count = 0
    BY DEF RedisInit
  <2> QED
    BY <2>1, <2>2, SumEmpty DEF LimitWhole
<1>2. /\ InventoryInv /\ HistInv /\ InventoryInv' /\ HistInv' /\ WholeInv
      /\ [RedisNext]_redisVars
      => WholeInv'
  BY WholeStep
<1>3. InventoryInv /\ HistInv /\ WholeInv => TicketCap
  BY WholeCaps DEF TicketCap, WholeInv
<1> QED
  BY <1>1, <1>2, <1>3, HistInvariant, PTL DEF RedisSpec

----------------------------------------------------------------------------
(* 'held' and the seats that are HELD.                                     *)

SoldOf(h) == {s \in Seats : <<h, s>> \in sales}

(* What a hold that was not released still has in 'held': the names of its *)
(* list without the seats sold.                                            *)
Outstanding == [h \in Granted |-> Len(grant[h].seats) - Cardinality(SoldOf(h))]

AllClean == lapsed = {} /\ \A h \in Granted : CleanlyReleased(h)

(* 'held' adds that up, but for the repeated names that COMMIT took off it *)
(* twice.                                                                  *)
HeldInv == AllClean => Total("held") + repeats = SumFunctionOnSet(Outstanding, Unreleased)

LEMMA OutstandingFacts ==
    ASSUME InventoryInv, HistInv
    PROVE  /\ IsFiniteSet(Unreleased) /\ Unreleased \subseteq Granted
           /\ \A h \in Granted : /\ IsFiniteSet(SoldOf(h)) /\ Cardinality(SoldOf(h)) \in Nat
                                 /\ Len(grant[h].seats) \in Nat
                                 /\ Outstanding[h] = Len(grant[h].seats) - Cardinality(SoldOf(h))
                                 /\ Outstanding[h] \in Int
<1>1. Unreleased \subseteq Granted /\ IsFiniteSet(Unreleased)
  BY FS_Subset DEF Unreleased, HistInv
<1>2. \A h \in Granted : SoldOf(h) \subseteq Seats
  BY DEF SoldOf
<1>3. \A h \in Granted : IsFiniteSet(SoldOf(h)) /\ Cardinality(SoldOf(h)) \in Nat
  BY <1>2, VenueAssumption, FS_Subset, FS_CardinalityType
<1>4. \A h \in Granted : Len(grant[h].seats) \in Nat
  BY GrantFacts, ListCount DEF InventoryInv
<1> QED
  BY <1>1, <1>3, <1>4 DEF Outstanding

(* What is clean now was clean before.                                     *)
LEMMA CleanBefore ==
    ASSUME InventoryInv, InventoryInv', [RedisNext]_redisVars, AllClean'
    PROVE  AllClean
<1>0. RedisTypeOK /\ RedisTypeOK'
  BY DEF InventoryInv
<1>1. Granted \subseteq Granted' /\ sales \subseteq sales'
  <2>1. ASSUME NEW u \in Users, NEW h \in Holds, NEW c \in Categories,
               NEW ss \in SeatLists, NEW max \in Limits, ExecHold(u, h, c, ss, max)
        PROVE  Granted \subseteq Granted' /\ sales \subseteq sales'
    BY <1>0, <2>1, HoldGrants DEF ExecHold
  <2> QED
    BY <2>1 DEF RedisNext, ExecCommit, ExecRelease, HoldTtlFires, LimitTtlFires, LedgerTtlFires,
                redisVars, Granted
<1>2. lapsed \subseteq lapsed'
  BY DEF RedisNext, ExecHold, ExecCommit, ExecRelease, HoldTtlFires, LimitTtlFires,
         LedgerTtlFires, redisVars
<1>3. \A h \in Holds : releases[h] \in Nat /\ releases'[h] \in Nat /\ releases[h] <= releases'[h]
  <2>1. \A h \in Holds : releases[h] \in Nat /\ releases'[h] \in Nat
    BY <1>0, BoundAssumption DEF RedisTypeOK
  <2>2. releases' = releases \/ \E i \in Granted : releases' = [releases EXCEPT ![i] = @ + 1]
    BY DEF RedisNext, ExecHold, ExecCommit, ExecRelease, HoldTtlFires, LimitTtlFires,
           LedgerTtlFires, redisVars
  <2> QED
    BY <1>0, <2>1, <2>2 DEF RedisTypeOK
<1>4. ASSUME NEW h \in Granted PROVE CleanlyReleased(h)
  <2>1. h \in Holds /\ (releases'[h] = 0 \/ (releases'[h] = 1 /\ \A s \in Seats : <<h, s>> \notin sales'))
    BY <1>1, <1>4 DEF AllClean, CleanlyReleased, Granted
  <2> QED
    BY <1>1, <1>3, <2>1 DEF CleanlyReleased
<1> QED
  BY <1>2, <1>4 DEF AllClean

LEMMA HeldHold ==
    ASSUME InventoryInv, HistInv, InventoryInv', HistInv', AllClean, HeldInv,
           NEW u \in Users, NEW h \in Holds, NEW c \in Categories,
           NEW ss \in SeatLists, NEW max \in Limits, ExecHold(u, h, c, ss, max)
    PROVE  Total("held")' + repeats' = SumFunctionOnSet(Outstanding', Unreleased')
<1>0. RedisTypeOK
  BY DEF InventoryInv
<1>1. h \notin Granted /\ Granted' = Granted \cup {h}
  BY <1>0, HoldGrants
<1>2. /\ \A i \in Granted : grant'[i] = grant[i]
      /\ grant'[h].seats = ss /\ releases' = releases /\ releases[h] = 0 /\ sales' = sales
  BY <1>0, <1>1 DEF ExecHold, RedisTypeOK, Granted, HistInv
<1>3. Unreleased' = Unreleased \cup {h} /\ h \notin Unreleased
  BY <1>1, <1>2 DEF Unreleased
<1>4. \A i : SoldOf(i)' = SoldOf(i)
  BY <1>2 DEF SoldOf
<1>5. \A i \in Granted : Outstanding'[i] = Outstanding[i] /\ Outstanding[i] \in Int
  BY <1>1, <1>2, <1>4, OutstandingFacts DEF Outstanding
<1>6. Outstanding'[h] = Len(ss) /\ Len(ss) \in Nat
  <2>1. SoldOf(h) = {}
    BY <1>1 DEF SoldOf, InventoryInv, SalesAreOfGrants
  <2>2. Outstanding'[h] = Len(ss) - Cardinality(SoldOf(h))
    BY <1>1, <1>2, <1>4 DEF Outstanding
  <2> QED
    BY <2>1, <2>2, FS_EmptySet, ListCount
<1>7. SumFunctionOnSet(Outstanding', Unreleased) = SumFunctionOnSet(Outstanding, Unreleased)
  <2>1. IsFiniteSet(Unreleased) /\ \A i \in Unreleased : Outstanding'[i] = Outstanding[i]
    BY <1>5, OutstandingFacts
  <2> QED
    BY <2>1, SumSame
<1>8. SumFunctionOnSet(Outstanding', Unreleased') = Outstanding'[h] + SumFunctionOnSet(Outstanding', Unreleased)
  <2>1. IsFiniteSet(Unreleased \cup {h}) /\ \A i \in Unreleased \cup {h} : Outstanding'[i] \in Int
    BY <1>5, <1>6, OutstandingFacts, FS_AddElement
  <2>2. (Unreleased \cup {h}) \ {h} = Unreleased
    BY <1>3
  <2>3. SumFunctionOnSet(Outstanding', Unreleased \cup {h})
           = Outstanding'[h] + SumFunctionOnSet(Outstanding', (Unreleased \cup {h}) \ {h})
    BY <2>1, SumRemove
  <2> QED
    BY <1>3, <2>2, <2>3, Zenon
<1>9. /\ Total("held")' = Total("held") + Len(ss) /\ Total("held") \in Int
      /\ repeats' = repeats /\ repeats \in Nat
  BY <1>0, HoldTotals, TotalsAfter DEF ExecHold, RedisTypeOK
<1>10. Total("held") + repeats = SumFunctionOnSet(Outstanding, Unreleased)
  BY DEF HeldInv
<1>11. SumFunctionOnSet(Outstanding', Unreleased') = Len(ss) + (Total("held") + repeats)
  BY <1>6, <1>7, <1>8, <1>10, Zenon
<1> QED
  BY <1>6, <1>9, <1>11

LEMMA HeldCommit ==
    ASSUME InventoryInv, HistInv, InventoryInv', HistInv', AllClean, HeldInv,
           NEW h \in Granted, NEW ss \in SeatLists, NEW k \in Orders,
           ExecCommit(h, grant[h].category, ss, k)
    PROVE  Total("held")' + repeats' = SumFunctionOnSet(Outstanding', Unreleased')
<1>0. RedisTypeOK /\ grant[h].category \in Categories
  BY GrantFacts DEF InventoryInv
<1>1. /\ sales' = sales \cup ({h} \X Range(ss))
      /\ \A s \in Seats : <<h, s>> \notin sales
      /\ releases[h] = 0
  BY <1>0, CommitFlipsAll DEF AllClean
<1>2. UNCHANGED <<grant, releases>> /\ Granted' = Granted /\ Unreleased' = Unreleased
  BY DEF ExecCommit, Granted, Unreleased
<1>3. h \in Unreleased
  BY <1>1 DEF Unreleased
<1>4. \A i \in Granted : i # h => SoldOf(i)' = SoldOf(i)
  BY <1>1 DEF SoldOf
<1>5. SoldOf(h) = {} /\ SoldOf(h)' = Range(ss)
  <2>1. Range(ss) \subseteq Seats
    BY SeatListFacts
  <2> QED
    BY <1>1, <2>1 DEF SoldOf
<1>6. \A i \in Granted : i # h => Outstanding'[i] = Outstanding[i]
  BY <1>2, <1>4 DEF Outstanding
<1>7. /\ Outstanding[h] = Len(grant[h].seats)
      /\ Outstanding'[h] = Len(grant[h].seats) - Cardinality(Range(ss))
      /\ Cardinality(Range(ss)) \in Nat
      /\ Len(ss) \in Nat /\ Len(grant[h].seats) \in Nat
  <2>1. Outstanding[h] = Len(grant[h].seats) - Cardinality({})
    BY <1>5 DEF Outstanding
  <2>2. Outstanding'[h] = Len(grant[h].seats) - Cardinality(Range(ss))
    BY <1>2, <1>5 DEF Outstanding
  <2>3. Cardinality(Range(ss)) \in Nat /\ Len(ss) \in Nat /\ Cardinality({}) = 0
    BY ListCount, FS_EmptySet
  <2> QED
    BY <2>1, <2>2, <2>3, OutstandingFacts
<1>8. SumFunctionOnSet(Outstanding', Unreleased)
         = SumFunctionOnSet(Outstanding, Unreleased) + Outstanding'[h] - Outstanding[h]
  <2>1. /\ IsFiniteSet(Unreleased) /\ \A i \in Unreleased : Outstanding[i] \in Int
        /\ \A i \in Unreleased : i # h => Outstanding'[i] = Outstanding[i]
    BY <1>6, OutstandingFacts
  <2>2. Outstanding'[h] \in Int
    BY <1>7
  <2> QED
    BY <1>3, <2>1, <2>2, SumPoint
<1>9. /\ Total("held")' = Total("held") - Len(ss) /\ Total("held") \in Int
      /\ repeats' = repeats + (Len(ss) - Cardinality(Range(ss))) /\ repeats \in Nat
  BY <1>0, CommitTotals, TotalsAfter, ListCount DEF ExecCommit, RedisTypeOK
<1>10. Total("held") + repeats = SumFunctionOnSet(Outstanding, Unreleased)
  BY DEF HeldInv
<1>11. SumFunctionOnSet(Outstanding', Unreleased) = (Total("held") + repeats) - Cardinality(Range(ss))
  BY <1>7, <1>8, <1>9, <1>10
<1> QED
  BY <1>2, <1>7, <1>9, <1>11

LEMMA HeldRelease ==
    ASSUME InventoryInv, HistInv, AllClean', AllClean, HeldInv,
           NEW h \in Granted, ExecRelease(h)
    PROVE  Total("held")' + repeats' = SumFunctionOnSet(Outstanding', Unreleased')
<1>0. RedisTypeOK /\ h \in Holds
  BY DEF InventoryInv, Granted
<1> DEFINE n == Len(grant[h].seats)
<1>1. UNCHANGED <<grant, sales>> /\ Granted' = Granted /\ Outstanding' = Outstanding
  BY DEF ExecRelease, Granted, Outstanding, SoldOf
<1>2. /\ releases'[h] = releases[h] + 1 /\ \A i \in Holds : i # h => releases'[i] = releases[i]
      /\ \A i \in Holds : releases[i] \in Nat
  BY <1>0, BoundAssumption DEF ExecRelease, RedisTypeOK
<1>3. releases[h] = 0 /\ \A s \in Seats : <<h, s>> \notin sales
  BY <1>0, <1>1, <1>2 DEF AllClean, CleanlyReleased
<1>4. h \in Unreleased /\ Unreleased' = Unreleased \ {h}
  BY <1>1, <1>2, <1>3 DEF Unreleased, Granted
<1>5. Outstanding[h] = n /\ n \in Nat
  <2>1. SoldOf(h) = {}
    BY <1>3 DEF SoldOf
  <2> QED
    BY <2>1, OutstandingFacts, FS_EmptySet
<1>6. SumFunctionOnSet(Outstanding, Unreleased)
         = Outstanding[h] + SumFunctionOnSet(Outstanding, Unreleased \ {h})
  BY <1>4, OutstandingFacts, SumRemove
<1>7. SumFunctionOnSet(Outstanding, Unreleased \ {h}) \in Int
  <2>1. IsFiniteSet(Unreleased \ {h}) /\ \A i \in Unreleased \ {h} : Outstanding[i] \in Int
    BY OutstandingFacts, FS_Subset
  <2> QED
    BY <2>1, SumType
<1>8. /\ Total("held")' = Total("held") - n /\ Total("held") \in Int
      /\ repeats' = repeats /\ repeats \in Nat
  BY <1>0, ReleaseTotals, TotalsAfter DEF ExecRelease, RedisTypeOK
<1>9. Total("held") + repeats = SumFunctionOnSet(Outstanding, Unreleased)
  BY DEF HeldInv
<1>10. Total("held") + repeats = n + SumFunctionOnSet(Outstanding, Unreleased \ {h})
  BY <1>5, <1>6, <1>9, Zenon
<1> HIDE DEF n
<1>11. Total("held")' + repeats' = SumFunctionOnSet(Outstanding, Unreleased \ {h})
  BY <1>5, <1>7, <1>8, <1>10
<1> QED
  BY <1>1, <1>4, <1>11, Zenon

LEMMA HeldStep ==
    ASSUME InventoryInv, HistInv, InventoryInv', HistInv', HeldInv,
           [RedisNext]_redisVars
    PROVE  HeldInv'
<1> SUFFICES ASSUME AllClean' PROVE Total("held")' + repeats' = SumFunctionOnSet(Outstanding', Unreleased')
  BY DEF HeldInv
<1>1. AllClean
  BY CleanBefore
<1>2. ASSUME TtlStep PROVE Total("held")' + repeats' = SumFunctionOnSet(Outstanding', Unreleased')
  <2>1. UNCHANGED <<grant, sales, releases, repeats>>
    BY <1>2 DEF TtlStep, HoldTtlFires, LimitTtlFires, LedgerTtlFires, redisVars
  <2>2. Outstanding' = Outstanding /\ Unreleased' = Unreleased
    BY <2>1 DEF Outstanding, Unreleased, Granted, SoldOf
  <2>3. Total("held")' = Total("held")
    BY <1>2, TtlTotals
  <2>4. Total("held") + repeats = SumFunctionOnSet(Outstanding, Unreleased)
    BY <1>1 DEF HeldInv
  <2> QED
    BY <2>1, <2>2, <2>3, <2>4, Zenon
<1> QED
  BY <1>1, <1>2, HeldHold, HeldCommit, HeldRelease DEF RedisNext, TtlStep

(* The seats HELD for a hold, and those sold under it, are different seats *)
(* of its list.                                                            *)
LEMMA HeldOfHold ==
    ASSUME InventoryInv, HistInv, NEW h \in Unreleased
    PROVE  LET mine == {s \in Held : seat[s].holdId = h} IN
           IsFiniteSet(mine) /\ Cardinality(mine) <= Outstanding[h]
<1> DEFINE mine == {s \in Held : seat[s].holdId = h}
           R == Range(grant[h].seats)
<1>1. h \in Granted /\ releases[h] = 0 /\ h # None
  BY NoneAssumption DEF Unreleased, Granted
<1>2. mine \subseteq R
  BY <1>1 DEF Held, InventoryInv, SeatsFollowGrants
<1>3. \A s \in SoldOf(h) : seat[s].holdId = h /\ seat[s].status = "SOLD"
  <2>1. ASSUME NEW s \in SoldOf(h) PROVE seat[s].holdId = h /\ seat[s].status = "SOLD"
    <3> DEFINE q == <<h, s>>
    <3>1. q \in sales /\ q[1] = h /\ q[2] = s
      BY <2>1 DEF SoldOf
    <3> HIDE DEF q
    <3> QED
      BY <1>1, <3>1, SaleFacts DEF InventoryInv
  <2> QED
    BY <2>1
<1>4. SoldOf(h) \subseteq R /\ mine \cap SoldOf(h) = {}
  <2>1. SoldOf(h) \subseteq Seats
    BY DEF SoldOf
  <2> QED
    BY <1>1, <1>3, <2>1 DEF Held, InventoryInv, SeatsFollowGrants
<1>5. IsFiniteSet(R) /\ Cardinality(R) \in Nat /\ Cardinality(R) <= Len(grant[h].seats)
  BY <1>1, GrantFacts, ListCount DEF InventoryInv
<1> HIDE DEF mine, R
<1>6. /\ IsFiniteSet(mine) /\ Cardinality(mine) \in Nat
      /\ IsFiniteSet(SoldOf(h)) /\ Cardinality(SoldOf(h)) \in Nat
  BY <1>2, <1>4, <1>5, FS_Subset, FS_CardinalityType
<1>7. Cardinality(mine \cup SoldOf(h)) = Cardinality(mine) + Cardinality(SoldOf(h)) - Cardinality({})
  BY <1>4, <1>6, FS_Union
<1>8. /\ Cardinality(mine \cup SoldOf(h)) <= Cardinality(R)
      /\ Cardinality({}) = 0
  <2>1. mine \cup SoldOf(h) \subseteq R
    BY <1>2, <1>4
  <2> QED
    BY <1>5, <2>1, FS_Subset, FS_EmptySet
<1>9. Outstanding[h] = Len(grant[h].seats) - Cardinality(SoldOf(h)) /\ Len(grant[h].seats) \in Nat
  BY <1>1, OutstandingFacts
<1>10. Cardinality(mine) <= Outstanding[h]
  BY <1>5, <1>6, <1>7, <1>8, <1>9
<1> QED
  BY <1>6, <1>10 DEF mine

LEMMA HeldCovers == InventoryInv /\ HistInv /\ HeldInv => HeldCoversSeatsWhenClean
<1> SUFFICES ASSUME InventoryInv, HistInv, HeldInv, AllClean
             PROVE  Total("held") + repeats >= Cardinality(Held)
  BY DEF HeldCoversSeatsWhenClean, AllClean
<1> DEFINE Mine == [h \in Granted |-> {s \in Held : seat[s].holdId = h}]
           Union == UNION {Mine[h] : h \in Unreleased}
<1>1. \A h \in Unreleased : /\ IsFiniteSet(Mine[h]) /\ Outstanding[h] \in Int
                            /\ Cardinality(Mine[h]) <= Outstanding[h]
  BY HeldOfHold, OutstandingFacts
<1>2. Held \subseteq Union
  <2>1. ASSUME NEW s \in Held PROVE s \in Union
    <3>1. s \in Seats /\ seat[s].holdId # None
      BY <2>1 DEF Held, InventoryInv, SeatFieldsAgree
    <3>2. seat[s].holdId \in Unreleased /\ seat[s].holdId \in Granted
      BY <3>1 DEF HistInv, SeatsCarryUsers, InventoryInv, SeatsFollowGrants, Unreleased
    <3> QED
      BY <2>1, <3>2
  <2> QED
    BY <2>1
<1> HIDE DEF Mine
<1>3. /\ IsFiniteSet(Union)
      /\ Cardinality(Union) <= SumFunctionOnSet(Outstanding, Unreleased)
  BY <1>1, OutstandingFacts, UnionBound
<1>4. /\ Total("held") + repeats = SumFunctionOnSet(Outstanding, Unreleased)
      /\ Total("held") \in Int /\ repeats \in Nat
  BY TotalsAfter DEF HeldInv, InventoryInv, RedisTypeOK
<1>5. /\ Cardinality(Held) <= Cardinality(Union)
      /\ Cardinality(Held) \in Nat /\ Cardinality(Union) \in Nat
  <2> HIDE DEF Union
  <2> QED
    BY <1>2, <1>3, FS_Subset, FS_CardinalityType
<1> HIDE DEF Union
<1> QED
  BY <1>3, <1>4, <1>5

(* The 'held' counters cover the seats that are HELD but for the repeated  *)
(* names of COMMIT's lists, as long as nothing was released twice or after *)
(* it was sold.                                                            *)
THEOREM HeldIsCovered == RedisSpec => []HeldCoversSeatsWhenClean
<1>1. RedisInit => HeldInv
  <2> SUFFICES ASSUME RedisInit PROVE Total("held") + repeats = SumFunctionOnSet(Outstanding, Unreleased)
    BY DEF HeldInv
  <2>1. Unreleased = {}
    BY DEF RedisInit, Unreleased, Granted
  <2>2. repeats = 0
    BY DEF RedisInit
  <2> QED
    BY <2>1, <2>2, ZeroTotals, SumEmpty
<1>2. /\ InventoryInv /\ HistInv /\ InventoryInv' /\ HistInv' /\ HeldInv
      /\ [RedisNext]_redisVars
      => HeldInv'
  BY HeldStep
<1> QED
  BY <1>1, <1>2, HeldCovers, HistInvariant, PTL DEF RedisSpec
=============================================================================
