----------------------- MODULE BookingServiceProofs ------------------------
(***************************************************************************)
(* Proofs about BookingService: it implements SeatInventory, and so has    *)
(* its invariants; and what holds between Redis and the rows.              *)
(***************************************************************************)
EXTENDS BookingService, SeatInventoryProofs

ServiceInv == ServiceTypeOK /\ ServiceRefersToGrants

----------------------------------------------------------------------------
(* The service drives Redis as SeatInventory allows.                       *)

LEMMA ReleaserStepFacts ==
    ASSUME ServiceInv, NEW p \in Releasers, ReleaserStep(p)
    PROVE  (\E h \in Granted : ExecRelease(h)) \/ UNCHANGED redisVars
<1>1. rel[p].todo \subseteq Granted
  BY DEF ServiceInv, ServiceRefersToGrants
<1> QED
  BY <1>1 DEF ReleaserStep, ReleaseRun, ReleaseRetried, ReleaseFails, DropRow, DropRowFails,
              ReleaserDies

LEMMA CommitStepFacts ==
    ASSUME ServiceInv, NEW k \in Orders, CommitStep(k)
    PROVE  \/ \E h \in Granted, ss \in SeatLists : ExecCommit(h, grant[h].category, ss, k)
           \/ UNCHANGED redisVars
<1>1. CASE CommitRun(k)
  <2>1. creq[k].hold \in Granted /\ creq[k].seats \in SeatLists
    BY <1>1 DEF ServiceInv, ServiceRefersToGrants, CommitRun
  <2>2. \/ ExecCommit(creq[k].hold, grant[creq[k].hold].category, creq[k].seats, k)
        \/ UNCHANGED redisVars
    BY <1>1 DEF CommitRun
  <2> QED
    BY <2>1, <2>2
<1> QED
  BY <1>1 DEF CommitStep, CommitRejected, OrderSelect, OrderInsert, OrderInsertFails, CommitDies

LEMMA HoldCallFacts ==
    ASSUME NEW h \in Holds, HoldCall(h)
    PROVE  \E u \in Users, c \in Categories, ss \in SeatLists, max \in Limits :
               ExecHold(u, h, c, ss, max)
  BY DEF HoldCall, Limits

LEMMA InventoryStep == ServiceInv /\ [Next]_vars => [RedisNext]_redisVars
<1> SUFFICES ASSUME ServiceInv, [Next]_vars PROVE [RedisNext]_redisVars
  OBVIOUS
<1>1. ASSUME NEW h \in Holds, HoldCall(h) \/ HoldStep(h) \/ Expires(h)
      PROVE  [RedisNext]_redisVars
  BY <1>1, HoldCallFacts DEF RedisNext, HoldStep, HoldMirror, HoldMirrorFails, Expires
<1>2. ASSUME NEW k \in Orders, CommitCall(k) \/ CommitStep(k)
      PROVE  [RedisNext]_redisVars
  BY <1>2, CommitStepFacts DEF RedisNext, CommitCall
<1>3. ASSUME NEW p \in Releasers, ReleaseCall(p) \/ Sweep(p) \/ ReleaserStep(p)
      PROVE  [RedisNext]_redisVars
  BY <1>3, ReleaserStepFacts DEF RedisNext, ReleaseCall, Sweep
<1>4. CASE RedisTime
  BY <1>4 DEF RedisTime, RedisNext, Granted
<1>5. CASE UNCHANGED vars
  BY <1>5 DEF vars
<1> QED
  BY <1>1, <1>2, <1>3, <1>4, <1>5 DEF Next

----------------------------------------------------------------------------
(* The invariant of the service that InventoryStep needs.                  *)

LEMMA ServiceInvInit == Init => ServiceInv
  BY ServiceAssumption
     DEF Init, ServiceInv, ServiceTypeOK, ServiceRefersToGrants, CommitRequests, Releases,
         CommitStates, IdleCommit, IdleReleaser

(* Grants are never taken back or changed; sales are never forgotten.      *)
LEMMA HistoryGrows ==
    ASSUME RedisTypeOK, [RedisNext]_redisVars
    PROVE  /\ Granted \subseteq Granted'
           /\ \A h \in Granted : grant'[h] = grant[h]
           /\ sales \subseteq sales'
<1>1. ASSUME NEW u \in Users, NEW h \in Holds, NEW c \in Categories,
             NEW ss \in SeatLists, NEW max \in Limits, ExecHold(u, h, c, ss, max)
      PROVE  /\ Granted \subseteq Granted'
             /\ \A i \in Granted : grant'[i] = grant[i]
             /\ sales \subseteq sales'
  BY <1>1 DEF ExecHold, Granted, RedisTypeOK
<1> QED
  BY <1>1 DEF RedisNext, ExecCommit, ExecRelease, HoldTtlFires, LimitTtlFires, LedgerTtlFires,
              redisVars, Granted

(* Advancing a commit request, or a releaser, keeps its shape.             *)
LEMMA RequestFacts ==
    /\ \A r \in CommitRequests, pc \in CommitStates :
          [r EXCEPT !.pc = pc] = [pc |-> pc, hold |-> r.hold, key |-> r.key, seats |-> r.seats]
    /\ \A r \in Releases, d \in Holds \cup {None} :
          [r EXCEPT !.dropping = d] = [todo |-> r.todo, dropping |-> d]
    /\ \A r \in Releases, t \in SUBSET Holds :
          [r EXCEPT !.todo = t] = [todo |-> t, dropping |-> r.dropping]
  BY DEF CommitRequests, Releases

LEMMA CommitProgress ==
    ASSUME ServiceInv, Granted \subseteq Granted', NEW k \in Orders, NEW pc \in CommitStates,
           pc = "idle" \/ creq[k].pc # "idle",
           creq' = [creq EXCEPT ![k].pc = pc],
           UNCHANGED <<hpc, rel, due>>,
           reservations' = reservations, orders' \subseteq Orders, faults' \in 0 .. MaxFaults
    PROVE  ServiceInv'
<1>1. creq[k] \in CommitRequests
  BY DEF ServiceInv, ServiceTypeOK
<1>2. creq' = [creq EXCEPT ![k] = [pc |-> pc, hold |-> creq[k].hold, key |-> creq[k].key,
                                   seats |-> creq[k].seats]]
  BY <1>1, RequestFacts
<1>3. ServiceTypeOK'
  BY <1>2 DEF ServiceInv, ServiceTypeOK, CommitRequests
<1>4. ServiceRefersToGrants'
  BY <1>2 DEF ServiceInv, ServiceTypeOK, ServiceRefersToGrants
<1> QED
  BY <1>3, <1>4 DEF ServiceInv

LEMMA ReleaserProgress ==
    ASSUME ServiceInv, Granted \subseteq Granted', NEW p \in Releasers, NEW r \in Releases,
           r.todo \subseteq Granted,
           rel' = [rel EXCEPT ![p] = r],
           UNCHANGED <<hpc, creq, due, orders>>,
           reservations' \subseteq reservations, faults' \in 0 .. MaxFaults
    PROVE  ServiceInv'
<1>1. ServiceTypeOK'
  BY DEF ServiceInv, ServiceTypeOK
<1>2. ServiceRefersToGrants'
  BY DEF ServiceInv, ServiceTypeOK, ServiceRefersToGrants
<1> QED
  BY <1>1, <1>2 DEF ServiceInv

LEMMA FaultFacts ==
    ASSUME ServiceInv
    PROVE  /\ faults \in 0 .. MaxFaults
           /\ Fault => faults' \in 0 .. MaxFaults
  BY ServiceAssumption DEF ServiceInv, ServiceTypeOK, Fault

LEMMA ServiceInvStep == RedisTypeOK /\ ServiceInv /\ [Next]_vars => ServiceInv'
<1> SUFFICES ASSUME RedisTypeOK, ServiceInv, [Next]_vars PROVE ServiceInv'
  OBVIOUS
<1>0. Granted \subseteq Granted'
  BY InventoryStep, HistoryGrows
<1>1. ASSUME NEW h \in Holds, HoldCall(h) PROVE ServiceInv'
  <2>1. h \in Granted'
    BY <1>1, HoldCallFacts, HoldGrants
  <2>2. /\ hpc' = [hpc EXCEPT ![h] = "mirror"]
        /\ UNCHANGED <<creq, rel, reservations, due, orders>>
        /\ faults' \in 0 .. MaxFaults
    BY <1>1, FaultFacts DEF HoldCall
  <2>3. ServiceTypeOK'
    BY <2>2 DEF ServiceInv, ServiceTypeOK
  <2>4. ServiceRefersToGrants'
    BY <1>0, <2>1, <2>2 DEF ServiceInv, ServiceTypeOK, ServiceRefersToGrants
  <2> QED
    BY <2>3, <2>4 DEF ServiceInv
<1>2. ASSUME NEW h \in Holds, HoldStep(h) \/ Expires(h) PROVE ServiceInv'
  <2>1. /\ hpc' = hpc \/ (hpc' = [hpc EXCEPT ![h] = "held"] /\ hpc[h] = "mirror")
        /\ \/ reservations' = reservations
           \/ reservations' = reservations \cup {h} /\ hpc[h] = "mirror"
        /\ due' \subseteq due \cup {h}
        /\ UNCHANGED <<creq, rel, orders>>
        /\ faults' \in 0 .. MaxFaults
    BY <1>2, FaultFacts DEF HoldStep, HoldMirror, HoldMirrorFails, Expires
  <2>2. ServiceTypeOK'
    BY <2>1 DEF ServiceInv, ServiceTypeOK
  <2>3. ServiceRefersToGrants'
    BY <1>0, <2>1 DEF ServiceInv, ServiceTypeOK, ServiceRefersToGrants
  <2> QED
    BY <2>2, <2>3 DEF ServiceInv
<1>3. ASSUME NEW k \in Orders, CommitCall(k) PROVE ServiceInv'
  <2>1. PICK h \in reservations, key \in Keys, ss \in SeatLists :
           creq' = [creq EXCEPT ![k] = [pc |-> "script", hold |-> h, key |-> key, seats |-> ss]]
    BY <1>3 DEF CommitCall
  <2>2. UNCHANGED <<hpc, rel, reservations, due, orders>> /\ faults' \in 0 .. MaxFaults
    BY <1>3, FaultFacts DEF CommitCall
  <2>3. ServiceTypeOK'
    BY <2>1, <2>2 DEF ServiceInv, ServiceTypeOK, CommitRequests, CommitStates
  <2>4. ServiceRefersToGrants'
    BY <1>0, <2>1, <2>2 DEF ServiceInv, ServiceTypeOK, ServiceRefersToGrants
  <2> QED
    BY <2>3, <2>4 DEF ServiceInv
<1>4. ASSUME NEW k \in Orders, CommitRejected(k) PROVE ServiceInv'
  <2>1. /\ creq' = [creq EXCEPT ![k] = IdleCommit]
        /\ UNCHANGED <<hpc, rel, reservations, due, orders, faults>>
    BY <1>4 DEF CommitRejected
  <2>2. ServiceTypeOK'
    BY <2>1 DEF ServiceInv, ServiceTypeOK, CommitRequests, CommitStates, IdleCommit
  <2>3. ServiceRefersToGrants'
    BY <1>0, <2>1 DEF ServiceInv, ServiceTypeOK, ServiceRefersToGrants, IdleCommit
  <2> QED
    BY <2>2, <2>3 DEF ServiceInv
<1>5. ASSUME NEW k \in Orders,
             CommitRun(k) \/ OrderSelect(k) \/ OrderInsert(k) \/ OrderInsertFails(k) \/ CommitDies(k)
      PROVE  ServiceInv'
  <2>1. /\ creq[k].pc # "idle"
        /\ \E pc \in CommitStates : creq' = [creq EXCEPT ![k].pc = pc]
        /\ UNCHANGED <<hpc, rel, reservations, due>>
    BY <1>5 DEF CommitRun, OrderSelect, OrderInsert, OrderInsertFails, CommitDies, CommitStates
  <2>2. orders' \subseteq Orders /\ faults' \in 0 .. MaxFaults
    BY <1>5, FaultFacts DEF CommitRun, OrderSelect, OrderInsert, OrderInsertFails, CommitDies,
                            ServiceInv, ServiceTypeOK
  <2> QED
    BY <1>0, <2>1, <2>2, CommitProgress
<1>6. ASSUME NEW p \in Releasers, ReleaseCall(p) \/ Sweep(p) \/ ReleaserStep(p)
      PROVE  ServiceInv'
  <2>1. rel[p] \in Releases /\ rel[p].todo \subseteq Granted /\ reservations \subseteq Granted
    BY DEF ServiceInv, ServiceTypeOK, ServiceRefersToGrants
  <2>2. /\ UNCHANGED <<hpc, creq, due, orders>>
        /\ reservations' \subseteq reservations
        /\ faults' \in 0 .. MaxFaults
    BY <1>6, FaultFacts DEF ReleaseCall, Sweep, ReleaserStep, ReleaseRun, ReleaseRetried,
                            ReleaseFails, DropRow, DropRowFails, ReleaserDies
  <2>3. \E r \in Releases : r.todo \subseteq Granted /\ rel' = [rel EXCEPT ![p] = r]
    <3>1. Granted \subseteq Holds /\ IdleReleaser \in Releases /\ IdleReleaser.todo = {}
      BY DEF Granted, IdleReleaser, Releases
    <3>2. ASSUME NEW t \in SUBSET Granted, rel' = [rel EXCEPT ![p].todo = t]
          PROVE  \E r \in Releases : r.todo \subseteq Granted /\ rel' = [rel EXCEPT ![p] = r]
      <4>1. rel' = [rel EXCEPT ![p] = [todo |-> t, dropping |-> rel[p].dropping]]
        BY <2>1, <3>1, <3>2, RequestFacts
      <4>2. [todo |-> t, dropping |-> rel[p].dropping] \in Releases
        BY <2>1, <3>1 DEF Releases
      <4> QED
        BY <4>1, <4>2
    <3>3. ASSUME NEW t \in SUBSET Granted, NEW d \in Holds \cup {None},
                 rel' = [rel EXCEPT ![p] = [todo |-> t, dropping |-> d]]
          PROVE  \E r \in Releases : r.todo \subseteq Granted /\ rel' = [rel EXCEPT ![p] = r]
      <4>1. [todo |-> t, dropping |-> d] \in Releases
        BY <3>1 DEF Releases
      <4> QED
        BY <3>3, <4>1
    <3>4. CASE ReleaseCall(p)
      <4>1. PICK h \in reservations : rel' = [rel EXCEPT ![p].todo = {h}]
        BY <3>4 DEF ReleaseCall
      <4> QED
        BY <2>1, <3>2, <4>1
    <3>5. CASE Sweep(p)
      <4>1. PICK batch \in SUBSET (reservations \cap due) : rel' = [rel EXCEPT ![p].todo = batch]
        BY <3>5 DEF Sweep
      <4> QED
        BY <2>1, <3>2, <4>1
    <3>6. CASE ReleaseRun(p) \/ ReleaseFails(p)
      <4>1. \E h \in rel[p].todo, d \in Holds \cup {None} :
               rel' = [rel EXCEPT ![p] = [todo |-> rel[p].todo \ {h}, dropping |-> d]]
        BY <2>1, <3>1, <3>6 DEF ReleaseRun, ReleaseFails
      <4> QED
        BY <2>1, <3>3, <4>1
    <3>7. CASE ReleaseRetried(p)
      <4>1. rel' = [rel EXCEPT ![p] = rel[p]]
        BY <3>7 DEF ReleaseRetried, ServiceInv, ServiceTypeOK
      <4> QED
        BY <2>1, <4>1
    <3>8. CASE DropRow(p) \/ DropRowFails(p)
      <4>1. rel' = [rel EXCEPT ![p].dropping = None]
        BY <3>8 DEF DropRow, DropRowFails
      <4>2. rel' = [rel EXCEPT ![p] = [todo |-> rel[p].todo, dropping |-> None]]
        BY <2>1, <4>1, RequestFacts
      <4> QED
        BY <2>1, <3>3, <4>2
    <3>9. CASE ReleaserDies(p)
      BY <3>1, <3>9 DEF ReleaserDies
    <3> QED
      BY <1>6, <3>4, <3>5, <3>6, <3>7, <3>8, <3>9 DEF ReleaserStep
  <2> QED
    BY <1>0, <2>2, <2>3, ReleaserProgress
<1>7. CASE RedisTime \/ UNCHANGED vars
  <2>1. UNCHANGED serviceVars
    BY <1>7 DEF RedisTime, vars
  <2> QED
    BY <1>0, <2>1 DEF serviceVars, ServiceInv, ServiceTypeOK, ServiceRefersToGrants
<1> QED
  BY <1>1, <1>2, <1>3, <1>4, <1>5, <1>6, <1>7 DEF Next, CommitStep

----------------------------------------------------------------------------
(* The shape of rows and requests, and that they are about granted holds.  *)
(* RedisTypeOK travels along: HistoryGrows needs it.                       *)
THEOREM ServiceInvariant == Spec => [](RedisTypeOK /\ ServiceInv)
<1>1. Init => RedisTypeOK /\ ServiceInv
  BY RedisTypeInit, ServiceInvInit DEF Init
<1>2. RedisTypeOK /\ ServiceInv /\ [Next]_vars => (RedisTypeOK /\ ServiceInv)'
  BY RedisTypeStep, InventoryStep, ServiceInvStep
<1> QED
  BY <1>1, <1>2, PTL DEF Spec

(* Every behaviour of the handlers, the reapers and the cancellers, with   *)
(* failing calls and dying pods anywhere, is a behaviour of SeatInventory. *)
THEOREM InventoryImplemented == Spec => InventorySpec
<1>1. Init => RedisInit
  BY DEF Init
<1> QED
  BY <1>1, InventoryStep, ServiceInvariant, PTL DEF Spec, InventorySpec, RedisSpec

(* The shape of the handlers' state and of the tables.                     *)
THEOREM ServiceTypeCorrect == Spec => []ServiceTypeOK
<1>1. ServiceInv => ServiceTypeOK
  BY DEF ServiceInv
<1> QED
  BY <1>1, ServiceInvariant, PTL

(* What is proved of the scripts holds of the service.                     *)
THEOREM ServiceKeepsInventory == Spec => []InventoryInv
  BY InventoryImplemented, InventoryInvariant, PTL DEF InventorySpec

(* A client can commit a hold whose row and whose Redis key still exist.   *)
THEOREM LiveHoldsCommit == Spec => []HoldCanBeCommitted
<1>1. InventoryInv => HoldCanBeCommitted
  <2> SUFFICES ASSUME InventoryInv, NEW h \in reservations \cap holdKeys
               PROVE  /\ ledger[h] = None
                      /\ \A s \in Range(grant[h].seats) : CommittableBy(s, grant[h].user, h)
    BY DEF HoldCanBeCommitted
  <2>1. ledger[h] = None
    BY DEF InventoryInv, LiveHoldsUncommitted, Committed
  <2>2. \A s \in Range(grant[h].seats) : seat[s] = HeldSeat(grant[h].user, h)
    BY DEF InventoryInv, LiveHoldKept
  <2> QED
    BY <2>1, <2>2 DEF HeldSeat, CommittableBy
<1> QED
  BY <1>1, ServiceKeepsInventory, PTL

----------------------------------------------------------------------------
(* Orders.  A request that has written its row is finished; without that   *)
(* a second call could change the columns of the row.                      *)

Paid == \A o \in orders : creq[o].pc = "paid"

Past == {"select", "insert", "paid", "accepted", "dead"}

OrdersInv == Paid /\ OrdersAreBacked

(* What a step can do to the requests and the order rows.                  *)
LEMMA OrderStepFacts ==
    ASSUME ServiceInv, [Next]_vars
    PROVE  \/ UNCHANGED <<creq, orders>>
           \/ \E k \in Orders :
                 /\ creq[k].pc \in {"idle", "script"} /\ UNCHANGED orders
                 /\ \E r \in CommitRequests :
                       r.pc \in {"idle", "script"} /\ creq' = [creq EXCEPT ![k] = r]
           \/ \E k \in Orders : CommitRun(k) /\ UNCHANGED orders
           \/ \E k \in Orders, pc \in Past :
                 /\ creq[k].pc \in {"select", "insert"} /\ creq' = [creq EXCEPT ![k].pc = pc]
                 /\ orders' = orders \/ (pc = "paid" /\ orders' = orders \cup {k})
<1>1. ASSUME NEW h \in Holds, HoldCall(h) \/ HoldStep(h) \/ Expires(h)
      PROVE  UNCHANGED <<creq, orders>>
  BY <1>1 DEF HoldCall, HoldStep, HoldMirror, HoldMirrorFails, Expires
<1>2. ASSUME NEW k \in Orders, CommitCall(k)
      PROVE  /\ creq[k].pc \in {"idle", "script"} /\ UNCHANGED orders
             /\ \E r \in CommitRequests :
                   r.pc \in {"idle", "script"} /\ creq' = [creq EXCEPT ![k] = r]
  <2>1. PICK h \in reservations, key \in Keys, ss \in SeatLists :
           creq' = [creq EXCEPT ![k] = [pc |-> "script", hold |-> h, key |-> key, seats |-> ss]]
    BY <1>2 DEF CommitCall
  <2>2. [pc |-> "script", hold |-> h, key |-> key, seats |-> ss] \in CommitRequests
    BY DEF CommitRequests, CommitStates, ServiceInv, ServiceTypeOK
  <2> QED
    BY <1>2, <2>1, <2>2 DEF CommitCall
<1>3. ASSUME NEW k \in Orders, CommitRejected(k)
      PROVE  /\ creq[k].pc \in {"idle", "script"} /\ UNCHANGED orders
             /\ \E r \in CommitRequests :
                   r.pc \in {"idle", "script"} /\ creq' = [creq EXCEPT ![k] = r]
  <2>1. IdleCommit \in CommitRequests /\ IdleCommit.pc = "idle"
    BY DEF IdleCommit, CommitRequests, CommitStates
  <2> QED
    BY <1>3, <2>1 DEF CommitRejected
<1>4. ASSUME NEW k \in Orders, CommitRun(k) PROVE UNCHANGED orders
  BY <1>4 DEF CommitRun
<1>5. ASSUME NEW k \in Orders,
             OrderSelect(k) \/ OrderInsert(k) \/ OrderInsertFails(k) \/ CommitDies(k)
      PROVE  \E pc \in Past :
                 /\ creq[k].pc \in {"select", "insert"} /\ creq' = [creq EXCEPT ![k].pc = pc]
                 /\ orders' = orders \/ (pc = "paid" /\ orders' = orders \cup {k})
  BY <1>5 DEF OrderSelect, OrderInsert, OrderInsertFails, CommitDies, Past
<1>6. ASSUME NEW p \in Releasers, ReleaseCall(p) \/ Sweep(p) \/ ReleaserStep(p)
      PROVE  UNCHANGED <<creq, orders>>
  BY <1>6 DEF ReleaseCall, Sweep, ReleaserStep, ReleaseRun, ReleaseRetried, ReleaseFails,
              DropRow, DropRowFails, ReleaserDies
<1>7. CASE RedisTime \/ UNCHANGED vars
  BY <1>7 DEF RedisTime, vars, serviceVars
<1> QED
  BY <1>1, <1>2, <1>3, <1>4, <1>5, <1>6, <1>7 DEF Next, CommitStep

(* A COMMIT that ran, or that found the order key of its hold, leaves a    *)
(* sale of the hold.                                                       *)
LEMMA CommitRunSells ==
    ASSUME InventoryInv, InventoryInv', ServiceInv, NEW k \in Orders, CommitRun(k)
    PROVE  \E s \in Seats : <<creq[k].hold, s>> \in sales'
<1>1. creq[k].hold \in Holds
  BY DEF CommitRun, ServiceInv, ServiceRefersToGrants, Granted
<1>2. CASE ledger[creq[k].hold] # None /\ UNCHANGED redisVars
  BY <1>1, <1>2 DEF InventoryInv, CommittedHoldsSold, Committed, redisVars
<1>3. CASE ExecCommit(creq[k].hold, grant[creq[k].hold].category, creq[k].seats, k)
  <2>1. ledger'[creq[k].hold] = k
    BY <1>1, <1>3 DEF ExecCommit, InventoryInv, RedisTypeOK
  <2> QED
    BY <1>1, <2>1, NoneAssumption DEF InventoryInv, CommittedHoldsSold, Committed
<1> QED
  BY <1>2, <1>3 DEF CommitRun

LEMMA OrdersInvStep ==
    InventoryInv /\ InventoryInv' /\ ServiceInv /\ OrdersInv /\ [Next]_vars => OrdersInv'
<1> SUFFICES ASSUME InventoryInv, InventoryInv', ServiceInv, OrdersInv, [Next]_vars
             PROVE  OrdersInv'
  OBVIOUS
<1>1. sales \subseteq sales' /\ creq \in [Orders -> CommitRequests] /\ orders \subseteq Orders
  BY InventoryStep, HistoryGrows DEF InventoryInv, ServiceInv, ServiceTypeOK
<1>2. CASE UNCHANGED <<creq, orders>>
  BY <1>1, <1>2 DEF OrdersInv, Paid, OrdersAreBacked
<1>3. ASSUME NEW k \in Orders, creq[k].pc \in {"idle", "script"},
             UNCHANGED orders, NEW r \in CommitRequests,
             r.pc \in {"idle", "script"}, creq' = [creq EXCEPT ![k] = r]
      PROVE  OrdersInv'
  <2>1. k \notin orders
    BY <1>3 DEF OrdersInv, Paid
  <2>2. \A o \in Orders : o # k => creq'[o] = creq[o]
    BY <1>1, <1>3
  <2> QED
    BY <1>1, <1>3, <2>1, <2>2 DEF OrdersInv, Paid, OrdersAreBacked
<1>4. ASSUME NEW k \in Orders, CommitRun(k), UNCHANGED orders PROVE OrdersInv'
  <2>1. creq[k].pc = "script" /\ creq' = [creq EXCEPT ![k].pc = "select"]
    BY <1>4 DEF CommitRun
  <2>2. k \notin orders
    BY <2>1 DEF OrdersInv, Paid
  <2>3. creq'[k].hold = creq[k].hold /\ \A o \in Orders : o # k => creq'[o] = creq[o]
    BY <1>1, <2>1 DEF CommitRequests
  <2>4. \E s \in Seats : <<creq[k].hold, s>> \in sales'
    BY <1>4, CommitRunSells
  <2> QED
    BY <1>1, <1>4, <2>2, <2>3, <2>4 DEF OrdersInv, Paid, OrdersAreBacked
<1>5. ASSUME NEW k \in Orders, NEW pc \in Past, creq[k].pc \in {"select", "insert"},
             creq' = [creq EXCEPT ![k].pc = pc],
             orders' = orders \/ (pc = "paid" /\ orders' = orders \cup {k})
      PROVE  OrdersInv'
  <2>1. k \notin orders
    BY <1>5 DEF OrdersInv, Paid
  <2>2. /\ creq'[k].pc = pc /\ creq'[k].hold = creq[k].hold
        /\ \A o \in Orders : o # k => creq'[o] = creq[o]
    BY <1>1, <1>5 DEF CommitRequests
  <2>3. \E s \in Seats : <<creq[k].hold, s>> \in sales'
    BY <1>1, <1>5 DEF OrdersInv, OrdersAreBacked
  <2> QED
    BY <1>1, <1>5, <2>1, <2>2, <2>3 DEF OrdersInv, Paid, OrdersAreBacked
<1> QED
  BY <1>2, <1>3, <1>4, <1>5, OrderStepFacts

LEMMA OrdersInvariant == Spec => []OrdersInv
<1>1. Init => OrdersInv
  BY DEF Init, IdleCommit, OrdersInv, Paid, OrdersAreBacked
<1> QED
  BY <1>1, OrdersInvStep, ServiceInvariant, ServiceKeepsInventory, PTL DEF Spec

(* No order and no answer PAID without seats that Redis sold for its hold. *)
THEOREM OrdersBacked == Spec => []OrdersAreBacked
<1>1. OrdersInv => OrdersAreBacked
  BY DEF OrdersInv
<1> QED
  BY <1>1, OrdersInvariant, PTL

----------------------------------------------------------------------------
(* Rows of live and of sold holds.  A row is dropped only by a releaser    *)
(* that has run RELEASE for the hold, which took the hold key, and a hold  *)
(* key never comes back; a commit began when the hold had its row.         *)

ReleasedAreGone == \A h \in Holds : releases[h] # 0 => h \in Granted \ holdKeys

DroppedAreReleased ==
    \A p \in Releasers : rel[p].dropping # None =>
        /\ rel[p].dropping \in Granted
        /\ faults = 0 => releases[rel[p].dropping] # 0

CommitsHaveRows ==
    faults = 0 =>
        \A k \in Orders : creq[k].pc = "script" =>
            creq[k].hold \in reservations \/ releases[creq[k].hold] # 0

RowsInv ==
    /\ LiveHoldHasRow /\ SaleKeepsRow
    /\ ReleasedAreGone /\ DroppedAreReleased /\ CommitsHaveRows

LEMMA KeysAreFresh ==
    ASSUME [RedisNext]_redisVars
    PROVE  holdKeys' \cap Granted \subseteq holdKeys
  BY DEF RedisNext, ExecHold, ExecCommit, ExecRelease, HoldTtlFires, LimitTtlFires,
         LedgerTtlFires, redisVars

(* Releases are never forgotten, and are of granted holds.                 *)
LEMMA ReleasesCount ==
    ASSUME RedisTypeOK, [RedisNext]_redisVars, NEW h \in Holds
    PROVE  /\ releases[h] # 0 => releases'[h] # 0
           /\ releases'[h] # 0 => releases[h] # 0 \/ (h \in Granted /\ h \notin holdKeys')
<1>1. \A i \in Holds : releases[i] \in Nat
  BY BoundAssumption DEF RedisTypeOK
<1>2. ASSUME NEW i \in Granted, ExecRelease(i)
      PROVE  /\ releases[h] # 0 => releases'[h] # 0
             /\ releases'[h] # 0 => releases[h] # 0 \/ (h \in Granted /\ h \notin holdKeys')
  <2>1. /\ releases' = [releases EXCEPT ![i] = @ + 1] /\ holdKeys' = holdKeys \ {i}
        /\ releases \in [Holds -> 0 .. MaxReleases]
    BY <1>2 DEF ExecRelease, RedisTypeOK
  <2>2. CASE h = i
    BY <1>1, <2>1, <2>2
  <2>3. CASE h # i
    BY <2>1, <2>3
  <2> QED
    BY <2>2, <2>3
<1>3. UNCHANGED releases \/ \E i \in Granted : ExecRelease(i)
  BY DEF RedisNext, ExecHold, ExecCommit, HoldTtlFires, LimitTtlFires, LedgerTtlFires, redisVars
<1> QED
  BY <1>2, <1>3

LEMMA ReleasedStep ==
    RedisTypeOK /\ ReleasedAreGone /\ [RedisNext]_redisVars => ReleasedAreGone'
  BY KeysAreFresh, HistoryGrows, ReleasesCount DEF ReleasedAreGone

(* A fault is never forgotten.                                             *)
LEMMA FaultsCount ==
    ASSUME ServiceInv, [Next]_vars
    PROVE  faults' = faults \/ faults' # 0
<1>1. faults \in Nat
  BY ServiceAssumption DEF ServiceInv, ServiceTypeOK
<1>2. Fault => faults' # 0
  BY <1>1 DEF Fault
<1> QED
  BY <1>2 DEF Next, HoldCall, HoldStep, HoldMirror, HoldMirrorFails, Expires, CommitCall,
              CommitStep, CommitRun, CommitRejected, OrderSelect, OrderInsert, OrderInsertFails,
              CommitDies, ReleaseCall, Sweep, ReleaserStep, ReleaseRun, ReleaseRetried,
              ReleaseFails, DropRow, DropRowFails, ReleaserDies, RedisTime, vars, serviceVars

(* What a step does to the row a releaser is about to drop.                *)
LEMMA DroppingFacts ==
    ASSUME RedisTypeOK, ServiceInv, [Next]_vars, NEW p \in Releasers, rel'[p].dropping # None
    PROVE  \/ rel'[p].dropping = rel[p].dropping
           \/ /\ rel'[p].dropping \in rel[p].todo
              /\ faults' # 0 \/ releases'[rel'[p].dropping] # 0
<1>1. rel \in [Releasers -> Releases] /\ faults \in Nat
  BY ServiceAssumption DEF ServiceInv, ServiceTypeOK
<1>2. ASSUME NEW q \in Releasers, ReleaseCall(q) \/ Sweep(q)
      PROVE  rel'[p].dropping = rel[p].dropping
  BY <1>1, <1>2 DEF ReleaseCall, Sweep, Releases
<1>3. ASSUME NEW q \in Releasers, ReleaseRun(q)
      PROVE  \/ rel'[p].dropping = rel[p].dropping
             \/ rel'[p].dropping \in rel[p].todo /\ releases'[rel'[p].dropping] # 0
  <2>1. PICK h \in rel[q].todo :
           /\ ExecRelease(h)
           /\ rel' = [rel EXCEPT ![q] = [todo |-> rel[q].todo \ {h}, dropping |-> h]]
    BY <1>3 DEF ReleaseRun
  <2>2. h \in Holds
    BY <1>1 DEF Releases
  <2>3. releases'[h] = releases[h] + 1 /\ releases[h] \in Nat
    BY <2>1, <2>2, BoundAssumption DEF ExecRelease, RedisTypeOK
  <2> QED
    BY <1>1, <2>1, <2>3
<1>4. ASSUME NEW q \in Releasers, ReleaseFails(q)
      PROVE  \/ rel'[p].dropping = rel[p].dropping
             \/ /\ rel'[p].dropping \in rel[p].todo
                /\ faults' # 0 \/ releases'[rel'[p].dropping] # 0
  <2>1. PICK h \in rel[q].todo :
           /\ Fault \/ releases[h] = MaxReleases
           /\ rel' = [rel EXCEPT ![q] = [todo |-> rel[q].todo \ {h},
                                         dropping |-> IF q \in Reapers THEN h ELSE None]]
    BY <1>4 DEF ReleaseFails
  <2>2. releases' = releases
    BY <1>4 DEF ReleaseFails, redisVars
  <2>3. faults' # 0 \/ releases'[h] # 0
    BY <1>1, <2>1, <2>2, BoundAssumption DEF Fault
  <2> QED
    BY <1>1, <2>1, <2>3
<1>5. ASSUME NEW q \in Releasers, DropRow(q) \/ DropRowFails(q) \/ ReleaserDies(q) \/ ReleaseRetried(q)
      PROVE  rel'[p].dropping = rel[p].dropping
  BY <1>1, <1>5 DEF DropRow, DropRowFails, ReleaserDies, ReleaseRetried, IdleReleaser, Releases
<1>6. UNCHANGED rel => rel'[p].dropping = rel[p].dropping
  OBVIOUS
<1> QED
  BY <1>2, <1>3, <1>4, <1>5, <1>6
     DEF Next, HoldCall, HoldStep, HoldMirror, HoldMirrorFails, Expires, CommitCall,
         CommitStep, CommitRun, CommitRejected, OrderSelect, OrderInsert, OrderInsertFails,
         CommitDies, ReleaserStep, RedisTime, vars, serviceVars

(* A row is lost to the releaser that is about to drop it only.            *)
LEMMA LostRows ==
    ASSUME [Next]_vars, NEW h \in reservations, h \notin reservations'
    PROVE  \E p \in Releasers : rel[p].dropping = h
  BY DEF Next, HoldCall, HoldStep, HoldMirror, HoldMirrorFails, Expires, CommitCall,
         CommitStep, CommitRun, CommitRejected, OrderSelect, OrderInsert, OrderInsertFails,
         CommitDies, ReleaseCall, Sweep, ReleaserStep, ReleaseRun, ReleaseRetried,
         ReleaseFails, DropRow, DropRowFails, ReleaserDies, RedisTime, vars, serviceVars

(* A commit begins with a row, and sells under its own hold only.          *)
LEMMA CommitBegins ==
    ASSUME ServiceInv, [Next]_vars, NEW k \in Orders, creq'[k].pc = "script"
    PROVE  \/ creq'[k].hold \in reservations
           \/ creq[k].pc = "script" /\ creq'[k].hold = creq[k].hold
<1>1. creq \in [Orders -> CommitRequests]
  BY DEF ServiceInv, ServiceTypeOK
<1>2. ASSUME NEW o \in Orders, CommitCall(o)
      PROVE  creq'[k].hold \in reservations \/ creq'[k] = creq[k]
  BY <1>1, <1>2 DEF CommitCall
<1>3. ASSUME NEW o \in Orders, CommitStep(o)
      PROVE  creq'[k] = creq[k]
  BY <1>1, <1>3 DEF CommitStep, CommitRun, CommitRejected, OrderSelect, OrderInsert,
                    OrderInsertFails, CommitDies, IdleCommit, CommitRequests
<1>4. UNCHANGED creq => creq'[k] = creq[k]
  OBVIOUS
<1> QED
  BY <1>2, <1>3, <1>4
     DEF Next, HoldCall, HoldStep, HoldMirror, HoldMirrorFails, Expires, ReleaseCall, Sweep,
         ReleaserStep, ReleaseRun, ReleaseRetried, ReleaseFails, DropRow, DropRowFails,
         ReleaserDies, RedisTime, vars, serviceVars

LEMMA NewSales ==
    ASSUME [Next]_vars, NEW q \in sales', q \notin sales
    PROVE  \E k \in Orders : creq[k].pc = "script" /\ q[1] = creq[k].hold
<1>1. ASSUME NEW k \in Orders, CommitRun(k)
      PROVE  creq[k].pc = "script" /\ q[1] = creq[k].hold
  BY <1>1 DEF CommitRun, ExecCommit, redisVars
<1> QED
  BY <1>1
     DEF Next, HoldCall, ExecHold, HoldStep, HoldMirror, HoldMirrorFails, Expires, CommitCall,
         CommitStep, CommitRejected, OrderSelect, OrderInsert, OrderInsertFails,
         CommitDies, ReleaseCall, Sweep, ReleaserStep, ReleaseRun, ReleaseRetried, ExecRelease,
         ReleaseFails, DropRow, DropRowFails, ReleaserDies, RedisTime, HoldTtlFires,
         LimitTtlFires, LedgerTtlFires, vars, serviceVars, redisVars

(* What a step does to the row of an answered hold that is not due.        *)
LEMMA RowFacts ==
    ASSUME ServiceInv, [Next]_vars, NEW h \in Holds, hpc'[h] = "held", h \notin due'
    PROVE  \/ faults' # 0
           \/ h \in reservations'
           \/ hpc[h] = "held" /\ h \notin due /\ h \notin reservations
           \/ \E p \in Releasers : rel[p].dropping = h
<1>1. hpc \in [Holds -> {"idle", "mirror", "held"}] /\ faults \in Nat
  BY ServiceAssumption DEF ServiceInv, ServiceTypeOK
<1>2. ASSUME NEW i \in Holds, HoldCall(i) PROVE hpc[h] = "held" /\ UNCHANGED <<due, reservations>>
  BY <1>1, <1>2 DEF HoldCall
<1>3. ASSUME NEW i \in Holds, HoldMirror(i)
      PROVE  h \in reservations' \/ (hpc[h] = "held" /\ h \notin due /\ h \notin reservations)
  BY <1>1, <1>3 DEF HoldMirror
<1>4. ASSUME NEW i \in Holds, HoldMirrorFails(i)
      PROVE  faults' # 0 \/ (hpc[h] = "held" /\ UNCHANGED <<due, reservations>>)
  BY <1>1, <1>4 DEF HoldMirrorFails, Fault
<1>5. ASSUME NEW i \in Holds, Expires(i) PROVE UNCHANGED <<hpc, reservations>> /\ h \notin due
  BY <1>5 DEF Expires
<1>6. ASSUME NEW p \in Releasers, DropRow(p)
      PROVE  \/ rel[p].dropping = h
             \/ UNCHANGED <<hpc, due>> /\ (h \in reservations => h \in reservations')
  BY <1>6 DEF DropRow
<1>7. CASE UNCHANGED <<hpc, due, reservations>>
  BY <1>7
<1> QED
  BY <1>2, <1>3, <1>4, <1>5, <1>6, <1>7
     DEF Next, HoldStep, CommitCall, CommitStep, CommitRun, CommitRejected, OrderSelect,
         OrderInsert, OrderInsertFails, CommitDies, ReleaseCall, Sweep, ReleaserStep,
         ReleaseRun, ReleaseRetried, ReleaseFails, DropRowFails, ReleaserDies, RedisTime,
         vars, serviceVars

LEMMA RowsInvStep ==
    RedisTypeOK /\ RedisTypeOK' /\ ServiceInv /\ ServiceInv' /\ RowsInv /\ [Next]_vars => RowsInv'
<1> SUFFICES ASSUME RedisTypeOK, RedisTypeOK', ServiceInv, ServiceInv', RowsInv, [Next]_vars
             PROVE  RowsInv'
  OBVIOUS
<1>0. [RedisNext]_redisVars
  BY InventoryStep
<1>1. Granted \subseteq Granted' /\ holdKeys' \cap Granted \subseteq holdKeys
  BY <1>0, HistoryGrows, KeysAreFresh
<1>2. ReleasedAreGone'
  BY <1>0, ReleasedStep DEF RowsInv
<1>3. DroppedAreReleased'
  <2>1. ASSUME NEW p \in Releasers, rel'[p].dropping # None
        PROVE  /\ rel'[p].dropping \in Granted'
               /\ faults' = 0 => releases'[rel'[p].dropping] # 0
    <3>1. rel[p].todo \subseteq Granted /\ Granted \subseteq Holds
      BY DEF ServiceInv, ServiceRefersToGrants, Granted
    <3>2. CASE rel'[p].dropping = rel[p].dropping
      BY <1>0, <1>1, <2>1, <3>1, <3>2, FaultsCount, ReleasesCount DEF RowsInv, DroppedAreReleased
    <3>3. CASE /\ rel'[p].dropping \in rel[p].todo
               /\ faults' # 0 \/ releases'[rel'[p].dropping] # 0
      BY <1>1, <3>1, <3>3
    <3> QED
      BY <2>1, <3>2, <3>3, DroppingFacts
  <2> QED
    BY <2>1 DEF DroppedAreReleased
<1>4. ASSUME NEW p \in Releasers, rel[p].dropping \in Holds, faults' = 0
      PROVE  releases[rel[p].dropping] # 0
  <2>1. rel[p].dropping # None /\ faults = 0
    BY <1>4, NoneAssumption, FaultsCount
  <2> QED
    BY <2>1 DEF RowsInv, DroppedAreReleased
<1>5. ASSUME NEW h \in holdKeys', hpc'[h] = "held", h \notin due', faults' = 0
      PROVE  h \in reservations'
  <2>1. h \in Holds /\ faults = 0
    BY <1>5, FaultsCount DEF RedisTypeOK
  <2>2. CASE hpc[h] = "held" /\ h \notin due /\ h \notin reservations
    <3>1. h \in Granted
      BY <2>1, <2>2 DEF ServiceInv, ServiceRefersToGrants
    <3> QED
      BY <1>1, <1>5, <2>1, <2>2, <3>1 DEF RowsInv, LiveHoldHasRow
  <2>3. ASSUME NEW p \in Releasers, rel[p].dropping = h PROVE FALSE
    <3>1. releases[h] # 0
      BY <1>4, <1>5, <2>1, <2>3
    <3> QED
      BY <1>1, <1>5, <2>1, <3>1 DEF RowsInv, ReleasedAreGone
  <2> QED
    BY <1>5, <2>1, <2>2, <2>3, RowFacts
<1>6. LiveHoldHasRow'
  BY <1>5 DEF LiveHoldHasRow
<1>7. ASSUME NEW h \in Holds, faults' = 0, releases'[h] = 0
      PROVE  h \in reservations => h \in reservations'
  <2>1. ASSUME NEW p \in Releasers, rel[p].dropping = h PROVE FALSE
    BY <1>0, <1>4, <1>7, <2>1, ReleasesCount
  <2> QED
    BY <2>1, LostRows
<1>8. CommitsHaveRows'
  <2>1. ASSUME faults' = 0, NEW k \in Orders, creq'[k].pc = "script", releases'[creq'[k].hold] = 0
        PROVE  creq'[k].hold \in reservations'
    <3>1. creq'[k].hold \in Holds
      BY <2>1 DEF ServiceInv, ServiceRefersToGrants, Granted
    <3>2. creq'[k].hold \in reservations
      <4>1. faults = 0 /\ releases[creq'[k].hold] = 0
        BY <1>0, <2>1, <3>1, FaultsCount, ReleasesCount
      <4> QED
        BY <2>1, <4>1, CommitBegins DEF RowsInv, CommitsHaveRows
    <3> QED
      BY <1>7, <2>1, <3>1, <3>2
  <2> QED
    BY <2>1 DEF CommitsHaveRows
<1>9. SaleKeepsRow'
  <2>1. ASSUME faults' = 0, NEW q \in sales', releases'[q[1]] = 0
        PROVE  q[1] \in reservations'
    <3>1. q[1] \in Holds
      BY DEF RedisTypeOK
    <3>2. faults = 0 /\ releases[q[1]] = 0
      BY <1>0, <2>1, <3>1, FaultsCount, ReleasesCount
    <3>3. q[1] \in reservations
      BY <3>2, NewSales DEF RowsInv, SaleKeepsRow, CommitsHaveRows
    <3> QED
      BY <1>7, <2>1, <3>1, <3>3
  <2> QED
    BY <2>1 DEF SaleKeepsRow
<1> QED
  BY <1>2, <1>3, <1>6, <1>8, <1>9 DEF RowsInv

LEMMA RowsInvariant == Spec => []RowsInv
<1>1. Init => RowsInv
  BY DEF Init, RedisInit, IdleReleaser, IdleCommit, RowsInv, LiveHoldHasRow, SaleKeepsRow,
         ReleasedAreGone, DroppedAreReleased, CommitsHaveRows
<1> QED
  BY <1>1, RowsInvStep, ServiceInvariant, PTL DEF Spec

(* As long as nothing fails, a hold that lives in Redis and was answered   *)
(* has its row until it is due: whoever drops the row took the key first.  *)
THEOREM LiveHoldsHaveRows == Spec => []LiveHoldHasRow
<1>1. RowsInv => LiveHoldHasRow
  BY DEF RowsInv
<1> QED
  BY <1>1, RowsInvariant, PTL

(* As long as nothing fails, what Redis sold keeps the reservation row     *)
(* that its order needs, until the hold is released: no releaser that      *)
(* overtakes a commit, or is overtaken by one, drops the row alone.        *)
THEOREM SalesKeepRows == Spec => []SaleKeepsRow
<1>1. RowsInv => SaleKeepsRow
  BY DEF RowsInv
<1> QED
  BY <1>1, RowsInvariant, PTL

============================================================================
