------------------------- MODULE StorefrontProofs --------------------------
(***************************************************************************)
(* Proofs about Storefront: with the pages in front of it the service      *)
(* still drives Redis as SeatInventory allows; the phase of a home page    *)
(* fits its requests; and what a page does not lose sight of is ordered    *)
(* once, with the seats that were sold.                                    *)
(***************************************************************************)
EXTENDS Storefront, BookingServiceProofs, SeatCountProofs, SequenceTheorems

----------------------------------------------------------------------------
(* The pages drive the service as BookingService allows, and may lose an   *)
(* answer, which the service does not notice.                              *)

OnlyFault == Fault /\ UNCHANGED <<redisVars, hpc, creq, rel, reservations, due, orders>>

(* Every step is one of the service, or changes nothing of it.             *)
LEMMA StoreIsService ==
    ASSUME [StoreNext]_storeVars
    PROVE  [Next]_vars \/ OnlyFault
<1>1. ASSUME NEW p \in Pages, BuyerStep(p) PROVE [Next]_vars
  <2>1. CASE PickSeat(p) \/ TypeSeats(p) \/ Reload(p)
    BY <2>1 DEF PickSeat, TypeSeats, Reload
  <2>2. CASE ClickHold(p)
    BY <2>2 DEF ClickHold, Next
  <2>3. CASE ClickCommit(p)
    BY <2>3 DEF ClickCommit, Next
  <2> QED
    BY <1>1, <2>1, <2>2, <2>3 DEF BuyerStep
<1>2. ASSUME NEW h \in Holds, HoldReply(h) PROVE UNCHANGED vars \/ OnlyFault
  BY <1>2 DEF HoldReply, HoldAnswered, HoldAnswerLost, OnlyFault
<1>3. ASSUME NEW k \in Orders, CommitReply(k) PROVE UNCHANGED vars \/ OnlyFault
  <2>1. CASE CommitAnswered(k)
    BY <2>1 DEF CommitAnswered
  <2>2. CASE CommitAnswerLost(k)
    BY <2>2 DEF CommitAnswerLost, OnlyFault, vars, serviceVars
  <2> QED
    BY <1>3, <2>1, <2>2 DEF CommitReply
<1>4. ASSUME NEW k \in Orders, CommitRefused(k) PROVE Next
  BY <1>4 DEF CommitRefused, CommitStep, Next
<1>5. CASE ServiceStep
  <2>1. Reapers \subseteq Releasers
    BY DEF Releasers
  <2> QED
    BY <1>5, <2>1 DEF ServiceStep, OrderStep, CommitStep, Next
<1>6. CASE UNCHANGED storeVars
  BY <1>6 DEF storeVars
<1> QED
  BY <1>1, <1>2, <1>3, <1>4, <1>5, <1>6 DEF StoreNext

(* So the invariants of the scripts and of the service hold.               *)
BaseInv == InventoryInv /\ ServiceInv /\ OrdersInv

LEMMA StoreDrivesRedis ==
    ASSUME ServiceInv, [StoreNext]_storeVars
    PROVE  [RedisNext]_redisVars
  BY StoreIsService, InventoryStep DEF OnlyFault

LEMMA InventoryInvStep == InventoryInv /\ [RedisNext]_redisVars => InventoryInv'
<1> SUFFICES ASSUME InventoryInv, [RedisNext]_redisVars PROVE InventoryInv'
  OBVIOUS
<1>1. RedisTypeOK /\ CounterConservation /\ SeatInv
  BY DEF InventoryInv, SeatInv
<1>2. RedisTypeOK' /\ CounterConservation' /\ SeatInv'
  BY <1>1, RedisTypeStep, ConservationStep, SeatInvStep
<1> QED
  BY <1>2 DEF InventoryInv, SeatInv

(* What is proved of the service is inductive with the pages around it.    *)
LEMMA BaseInvStep == BaseInv /\ [StoreNext]_storeVars => BaseInv'
<1> SUFFICES ASSUME BaseInv, [StoreNext]_storeVars PROVE BaseInv'
  OBVIOUS
<1>1. InventoryInv'
  BY StoreDrivesRedis, InventoryInvStep DEF BaseInv
<1>2. CASE [Next]_vars
  <2>1. RedisTypeOK
    BY DEF BaseInv, InventoryInv
  <2> QED
    BY <1>1, <1>2, <2>1, ServiceInvStep, OrdersInvStep DEF BaseInv
<1>3. CASE OnlyFault
  <2>1. faults' \in 0 .. MaxFaults
    BY <1>3, FaultFacts DEF BaseInv, OnlyFault
  <2>2. UNCHANGED <<hpc, creq, rel, reservations, due, orders, grant, sales>>
    BY <1>3 DEF OnlyFault, redisVars
  <2>3. ServiceInv'
    BY <2>1, <2>2 DEF BaseInv, ServiceInv, ServiceTypeOK, ServiceRefersToGrants, Granted
  <2>4. OrdersInv'
    BY <2>2 DEF BaseInv, OrdersInv, Paid, OrdersAreBacked
  <2> QED
    BY <1>1, <2>3, <2>4 DEF BaseInv
<1> QED
  BY <1>2, <1>3, StoreIsService

LEMMA BaseInvInit == Init => BaseInv
<1> SUFFICES ASSUME Init PROVE BaseInv
  OBVIOUS
<1>1. RedisInit
  BY DEF Init
<1>2. InventoryInv
  <2>1. RedisTypeOK /\ SeatInv
    BY <1>1, RedisTypeInit, SeatInvInit
  <2>2. CounterConservation
    BY <1>1, QuotaAssumption DEF RedisInit, CounterConservation
  <2> QED
    BY <2>1, <2>2 DEF InventoryInv, SeatInv
<1>3. OrdersInv
  BY DEF Init, IdleCommit, OrdersInv, Paid, OrdersAreBacked
<1> QED
  BY <1>2, <1>3, ServiceInvInit DEF BaseInv

LEMMA BaseInvariant == StoreSpec => []BaseInv
  BY BaseInvInit, BaseInvStep, PTL DEF StoreSpec, StoreInit

(* Whatever the pages and their buyers do, Redis sees a behaviour of       *)
(* SeatInventory.                                                          *)
THEOREM StoreImplementsInventory == StoreSpec => InventorySpec
<1>1. StoreInit => RedisInit
  BY DEF StoreInit, Init
<1>2. BaseInv => ServiceInv
  BY DEF BaseInv
<1> QED
  BY <1>1, <1>2, BaseInvariant, StoreDrivesRedis, PTL DEF StoreSpec, InventorySpec, RedisSpec

(* What the counters say of the seats - up to the repeated names of lists, *)
(* which these pages can send - holds with any handlers, reapers, failures *)
(* and pages around the scripts.                                           *)
THEOREM CountersCoverService ==
    Spec \/ StoreSpec => [](/\ ShortByRepeatsOnly /\ SoldCountsSales
                           /\ TicketCapWhenClean /\ HeldCoversSeatsWhenClean)
<1>1. RedisSpec => []ShortByRepeatsOnly
  BY ShortfallIsRepeats
<1>2. RedisSpec => []SoldCountsSales
  BY SalesAreCounted
<1>3. RedisSpec => []HeldCoversSeatsWhenClean
  BY HeldIsCovered
<1> QED
  BY <1>1, <1>2, <1>3, TicketCapOfWholeCounters, InventoryImplemented,
     StoreImplementsInventory, PTL DEF InventorySpec

----------------------------------------------------------------------------
(* What the pages know.  A commit of h is on its way, or was.              *)
Sent(k, h) == creq[k].pc # "idle" /\ creq[k].hold = h

(* A page shows a hold that was granted, and no two pages the same; the    *)
(* hold that a page waits for is shown nowhere, and no commit of it was    *)
(* sent; a page waits for requests that were sent.                         *)
KnowInv ==
    /\ \A p \in Pages : shown[p] # None =>
          /\ shown[p] \in Granted
          /\ \A q \in Pages : shown[q] = shown[p] => q = p
    /\ \A h \in Holds : asker[h] # None =>
          /\ hpc[h] # "idle"
          /\ \A p \in Pages : shown[p] # h
          /\ \A k \in Orders : ~Sent(k, h)
    /\ \A k \in Orders : committer[k] # None => creq[k].pc # "idle"

(* The phase of a home page, without counting.                             *)
PhaseInv ==
    \A p \in Homes :
        /\ phase[p] = "holding" => \E h \in Holds : asker[h] = p
        /\ \A h \in Holds : asker[h] = p =>
              phase[p] = "holding" /\ \A i \in Holds : asker[i] = p => i = h
        /\ phase[p] = "committing" => \E k \in Orders : committer[k] = p
        /\ \A k \in Orders : committer[k] = p =>
              phase[p] = "committing" /\ \A j \in Orders : committer[j] = p => j = k
        /\ shown[p] # None <=> phase[p] \in {"held", "committing"}

LEMMA PhaseIsPhaseTells == PhaseInv => PhaseTellsRequests
<1> SUFFICES ASSUME PhaseInv, NEW p \in Homes
             PROVE  /\ Cardinality(Asking(p)) = IF phase[p] = "holding" THEN 1 ELSE 0
                    /\ Cardinality(Committing(p)) = IF phase[p] = "committing" THEN 1 ELSE 0
                    /\ shown[p] # None <=> phase[p] \in {"held", "committing"}
  BY DEF PhaseTellsRequests
<1>1. Cardinality(Asking(p)) = IF phase[p] = "holding" THEN 1 ELSE 0
  <2>1. CASE phase[p] = "holding"
    <3>1. PICK h \in Holds : Asking(p) = {h}
      BY <2>1 DEF PhaseInv, Asking
    <3> QED
      BY <2>1, <3>1, FS_Singleton
  <2>2. CASE phase[p] # "holding"
    <3>1. Asking(p) = {}
      BY <2>2 DEF PhaseInv, Asking
    <3> QED
      BY <2>2, <3>1, FS_EmptySet
  <2> QED
    BY <2>1, <2>2
<1>2. Cardinality(Committing(p)) = IF phase[p] = "committing" THEN 1 ELSE 0
  <2>1. CASE phase[p] = "committing"
    <3>1. PICK k \in Orders : Committing(p) = {k}
      BY <2>1 DEF PhaseInv, Committing
    <3> QED
      BY <2>1, <3>1, FS_Singleton
  <2>2. CASE phase[p] # "committing"
    <3>1. Committing(p) = {}
      BY <2>2 DEF PhaseInv, Committing
    <3> QED
      BY <2>2, <3>1, FS_EmptySet
  <2> QED
    BY <2>1, <2>2
<1>3. shown[p] # None <=> phase[p] \in {"held", "committing"}
  BY DEF PhaseInv
<1> QED
  BY <1>1, <1>2, <1>3

PageInv == StoreTypeOK /\ KnowInv /\ PhaseInv

(* The hold of a request that was sent was granted.                        *)
LEMMA SentFacts ==
    ASSUME BaseInv, NEW k \in Orders, creq[k].pc # "idle"
    PROVE  creq[k].hold \in Granted /\ creq[k].hold \in Holds /\ creq[k].hold # None
<1>1. creq[k].hold \in Granted
  BY DEF BaseInv, ServiceInv, ServiceRefersToGrants
<1> QED
  BY <1>1, NoneAssumption DEF Granted

(* A step of the service alone forgets no request and sends none.          *)
LEMMA ServiceStepFacts ==
    ASSUME BaseInv, ServiceStep
    PROVE  /\ UNCHANGED pageVars
           /\ \A h \in Holds : hpc[h] # "idle" => hpc'[h] # "idle"
           /\ \A k \in Orders : /\ creq'[k].pc = "idle" <=> creq[k].pc = "idle"
                                /\ creq'[k].hold = creq[k].hold
                                /\ creq'[k].seats = creq[k].seats
                                /\ creq[k].pc \in Past => creq'[k].pc \in Past
                                /\ creq'[k].pc \in Past => creq[k].pc \in Past \/ CommitRun(k)
           /\ \A h \in Holds : ledger'[h] # None =>
                 ledger[h] # None \/ \E k \in Orders : CommitRun(k) /\ creq[k].hold = h
<1>0. /\ hpc \in [Holds -> {"idle", "mirror", "held"}] /\ creq \in [Orders -> CommitRequests]
      /\ ledger \in [Holds -> Orders \cup {None}]
  BY DEF BaseInv, ServiceInv, ServiceTypeOK, InventoryInv, RedisTypeOK
<1>1. UNCHANGED pageVars
  BY DEF ServiceStep
<1> DEFINE Quiet == /\ UNCHANGED creq
                    /\ \A h \in Holds : hpc[h] # "idle" => hpc'[h] # "idle"
                    /\ \A h \in Holds : ledger'[h] # None => ledger[h] # None
           Onward(k) == /\ UNCHANGED <<hpc, ledger>> /\ creq[k].pc \in {"select", "insert"}
                        /\ \E pc \in Past : creq' = [creq EXCEPT ![k].pc = pc]
<1>2. ASSUME NEW h \in Holds, HoldStep(h) \/ Expires(h) PROVE Quiet
  BY <1>0, <1>2 DEF HoldStep, HoldMirror, HoldMirrorFails, Expires, redisVars
<1>3. ASSUME NEW p \in Reapers, Sweep(p) \/ ReleaserStep(p) PROVE Quiet
  <2>1. UNCHANGED <<hpc, creq, ledger>>
    BY <1>3 DEF Sweep, ReleaserStep, ReleaseRun, ReleaseRetried, ReleaseFails, DropRow,
                DropRowFails, ReleaserDies, ExecRelease, redisVars
  <2> QED
    BY <2>1
<1>4. ASSUME RedisTime PROVE Quiet
  <2>1. /\ UNCHANGED <<hpc, creq>>
        /\ ledger' = ledger \/ \E h \in Holds : ledger' = [ledger EXCEPT ![h] = None]
    BY <1>4 DEF RedisTime, serviceVars, HoldTtlFires, LedgerTtlFires, LimitTtlFires, Granted
  <2>2. \A h \in Holds : ledger'[h] # None => ledger[h] # None
    BY <1>0, <2>1
  <2> QED
    BY <2>1, <2>2
<1>5. ASSUME NEW k \in Orders, OrderStep(k) PROVE CommitRun(k) \/ Onward(k)
  <2>1. CASE OrderSelect(k)
    <3>1. /\ UNCHANGED <<hpc, ledger>> /\ creq[k].pc = "select"
          /\ \/ creq' = [creq EXCEPT ![k].pc = "paid"]
             \/ creq' = [creq EXCEPT ![k].pc = "insert"]
      BY <2>1 DEF OrderSelect, redisVars
    <3> QED
      BY <3>1 DEF Past
  <2>2. CASE OrderInsert(k)
    BY <2>2 DEF OrderInsert, redisVars, Past
  <2>3. CASE OrderInsertFails(k)
    BY <2>3 DEF OrderInsertFails, redisVars, Past
  <2>4. CASE CommitDies(k)
    BY <2>4 DEF CommitDies, redisVars, Past
  <2> QED
    BY <1>5, <2>1, <2>2, <2>3, <2>4 DEF OrderStep
<1>6. CASE Quiet
  BY <1>1, <1>6
<1>7. ASSUME NEW k \in Orders, Onward(k)
      PROVE  /\ UNCHANGED <<hpc, ledger>>
             /\ creq'[k].pc \in Past /\ creq[k].pc \in Past
             /\ creq'[k].hold = creq[k].hold /\ creq'[k].seats = creq[k].seats
             /\ \A j \in Orders : j # k => creq'[j] = creq[j]
  BY <1>0, <1>7 DEF Past, CommitRequests
<1>8. ASSUME NEW k \in Orders, CommitRun(k)
      PROVE  /\ UNCHANGED hpc
             /\ creq'[k].pc = "select" /\ creq[k].pc = "script"
             /\ creq'[k].hold = creq[k].hold /\ creq'[k].seats = creq[k].seats
             /\ \A j \in Orders : j # k => creq'[j] = creq[j]
             /\ \A h \in Holds : ledger'[h] # None => ledger[h] # None \/ creq[k].hold = h
  <2>1. /\ UNCHANGED hpc /\ creq[k].pc = "script"
        /\ creq' = [creq EXCEPT ![k].pc = "select"]
    BY <1>8 DEF CommitRun
  <2>2. ledger' = ledger \/ ledger' = [ledger EXCEPT ![creq[k].hold] = k]
    BY <1>8 DEF CommitRun, ExecCommit, redisVars
  <2>3. \A h \in Holds : ledger'[h] # None => ledger[h] # None \/ creq[k].hold = h
    BY <1>0, <2>2
  <2> QED
    BY <1>0, <2>1, <2>3 DEF CommitRequests
<1> HIDE DEF Quiet, Onward
<1>9. \A pc \in Past : pc # "idle"
  BY DEF Past
<1>10. ASSUME NEW k \in Orders, Onward(k) \/ CommitRun(k)
       PROVE  /\ \A h \in Holds : hpc[h] # "idle" => hpc'[h] # "idle"
              /\ \A j \in Orders : /\ creq'[j].pc = "idle" <=> creq[j].pc = "idle"
                                   /\ creq'[j].hold = creq[j].hold
                                   /\ creq'[j].seats = creq[j].seats
                                   /\ creq[j].pc \in Past => creq'[j].pc \in Past
                                   /\ creq'[j].pc \in Past => creq[j].pc \in Past \/ CommitRun(j)
              /\ \A h \in Holds : ledger'[h] # None =>
                    ledger[h] # None \/ \E j \in Orders : CommitRun(j) /\ creq[j].hold = h
  <2>1. CASE Onward(k)
    BY <1>7, <1>9, <2>1
  <2>2. CASE CommitRun(k)
    <3>1. "select" \in Past
      BY DEF Past
    <3> QED
      BY <1>8, <1>9, <2>2, <3>1
  <2> QED
    BY <1>10, <2>1, <2>2
<1>11. Quiet \/ \E k \in Orders : CommitRun(k) \/ Onward(k)
  BY <1>2, <1>3, <1>4, <1>5 DEF ServiceStep
<1> QED
  BY <1>1, <1>6, <1>10, <1>11 DEF Quiet

----------------------------------------------------------------------------
(* The clicks, in terms of the pages.                                      *)

(* A HOLD of the service: its id was not granted before.                   *)
LEMMA HoldCallKeeps ==
    ASSUME BaseInv, NEW h \in Holds, HoldCall(h)
    PROVE  /\ hpc[h] = "idle" /\ hpc' = [hpc EXCEPT ![h] = "mirror"]
           /\ h \notin Granted /\ h \in Granted' /\ UNCHANGED <<creq, ledger>>
<1>1. RedisTypeOK
  BY DEF BaseInv, InventoryInv
<1>2. PICK u \in Users, c \in Categories, ss \in SeatLists, max \in Limits :
          ExecHold(u, h, c, ss, max)
  BY HoldCallFacts
<1>3. h \notin Granted /\ h \in Granted' /\ ledger' = ledger
  BY <1>1, <1>2, HoldGrants DEF ExecHold
<1> QED
  BY <1>3 DEF HoldCall

(* The pages a phase belongs to are the home pages.                        *)
LEMMA InPhaseFacts ==
    ASSUME StoreTypeOK, NEW p \in Pages, NEW name \in {"idle", "holding", "held", "committing"}
    PROVE  /\ InPhase(p, name) \in [Pages -> {"idle", "holding", "held", "committing"}]
           /\ p \in Homes => InPhase(p, name)[p] = name
           /\ \A q \in Homes : q # p => InPhase(p, name)[q] = phase[q]
  BY DEF InPhase, StoreTypeOK, Pages

(* A click on the map picks a list of seats.                               *)
LEMMA ToggledType ==
    ASSUME NEW ss \in Seq(Seats), NEW s \in Seats
    PROVE  Toggled(ss, s) \in Seq(Seats)
<1>1. CASE s \in Range(ss)
  <2> DEFINE i == CHOOSE j \in DOMAIN ss : ss[j] = s
  <2>1. i \in 1 .. Len(ss) /\ Len(ss) \in Nat
    BY <1>1 DEF Range
  <2> HIDE DEF i
  <2>2. /\ \A k \in 1 .. i - 1 : ss[k] \in Seats
        /\ \A k \in i + 1 .. Len(ss) : ss[k] \in Seats
    BY <2>1
  <2>3. SubSeq(ss, 1, i - 1) \in Seq(Seats) /\ SubSeq(ss, i + 1, Len(ss)) \in Seq(Seats)
    BY <2>1, <2>2, SubSeqProperties
  <2>4. RemoveAt(ss, i) \in Seq(Seats)
    BY <2>3, ConcatProperties DEF RemoveAt
  <2> QED
    BY <1>1, <2>4 DEF Toggled, i
<1>2. CASE s \notin Range(ss)
  BY <1>2 DEF Toggled
<1> QED
  BY <1>1, <1>2

(* Nothing picked is a list of seats.                                      *)
LEMMA NoSeats == <<>> \in Seq(Seats)
  OBVIOUS

(* The pages' state keeps its shape.                                       *)
LEMMA StoreTypeStep == BaseInv /\ PageInv /\ [StoreNext]_storeVars => StoreTypeOK'
<1> SUFFICES ASSUME BaseInv, PageInv, [StoreNext]_storeVars PROVE StoreTypeOK'
  OBVIOUS
<1>0. StoreTypeOK /\ KnowInv
  BY DEF PageInv
<1>1. ASSUME NEW p \in Pages, PickSeat(p) PROVE StoreTypeOK'
  <2>1. picked[p] \in Seq(Seats)
    BY <1>0 DEF StoreTypeOK
  <2>2. picked' \in [Pages -> Seq(Seats)]
    <3>1. CASE \E s \in Seats : picked' = [picked EXCEPT ![p] = Toggled(@, s)]
      <4>1. PICK s \in Seats : picked' = [picked EXCEPT ![p] = Toggled(picked[p], s)]
        BY <3>1
      <4>2. Toggled(picked[p], s) \in Seq(Seats)
        BY <2>1, ToggledType
      <4> QED
        BY <1>0, <4>1, <4>2 DEF StoreTypeOK
    <3>2. CASE picked' = [picked EXCEPT ![p] = <<>>]
      BY <1>0, <3>2, NoSeats DEF StoreTypeOK
    <3> QED
      BY <1>1, <3>1, <3>2 DEF PickSeat
  <2> QED
    BY <1>0, <1>1, <2>2 DEF StoreTypeOK, PickSeat
<1>2. ASSUME NEW p \in Pages, TypeSeats(p) PROVE StoreTypeOK'
  <2>1. PICK ss \in SeatLists \cup {<<>>} : picked' = [picked EXCEPT ![p] = ss]
    BY <1>2 DEF TypeSeats
  <2>2. ss \in Seq(Seats)
    BY SeatListsAssumption, NoSeats
  <2> QED
    BY <1>0, <1>2, <2>1, <2>2 DEF StoreTypeOK, TypeSeats
<1>3. ASSUME NEW p \in Pages, Reload(p) PROVE StoreTypeOK'
  BY <1>0, <1>3, NoSeats DEF StoreTypeOK, Reload
<1>4. ASSUME NEW p \in Pages, ClickHold(p) PROVE StoreTypeOK'
  <2>1. /\ UNCHANGED <<picked, committer, doubted>>
        /\ shown' = shown \/ shown' = [shown EXCEPT ![p] = None]
        /\ phase' = InPhase(p, "holding")
        /\ \E h \in Holds : asker' = [asker EXCEPT ![h] = p]
    BY <1>4 DEF ClickHold
  <2> QED
    BY <1>0, <2>1, InPhaseFacts DEF StoreTypeOK
<1>5. ASSUME NEW p \in Pages, ClickCommit(p) PROVE StoreTypeOK'
  <2>1. /\ UNCHANGED <<picked, shown, asker>>
        /\ doubted' = doubted \/ doubted' = doubted \cup {shown[p]}
        /\ shown[p] # None /\ phase' = InPhase(p, "committing")
        /\ \E k \in Orders : committer' = [committer EXCEPT ![k] = p]
    BY <1>5 DEF ClickCommit, MayCommit
  <2>2. doubted' \subseteq Holds
    BY <1>0, <2>1 DEF StoreTypeOK
  <2> QED
    BY <1>0, <2>1, <2>2, InPhaseFacts DEF StoreTypeOK
<1>6. ASSUME NEW h \in Holds, HoldReply(h) PROVE StoreTypeOK'
  <2>1. /\ asker[h] # None /\ UNCHANGED <<picked, committer, doubted>>
        /\ shown' = shown \/ shown' = [shown EXCEPT ![asker[h]] = h]
        /\ \E name \in {"idle", "held"} : phase' = InPhase(asker[h], name)
        /\ asker' = [asker EXCEPT ![h] = None]
    BY <1>6 DEF HoldReply, HoldAnswered, HoldAnswerLost
  <2>2. asker[h] \in Pages
    BY <1>0, <2>1 DEF StoreTypeOK
  <2>3. phase' \in [Pages -> {"idle", "holding", "held", "committing"}]
    BY <1>0, <2>1, <2>2, InPhaseFacts
  <2>4. shown' \in [Pages -> Holds \cup {None}] /\ asker' \in [Holds -> Pages \cup {None}]
    BY <1>0, <2>1, <2>2 DEF StoreTypeOK
  <2> QED
    BY <1>0, <2>1, <2>3, <2>4 DEF StoreTypeOK
<1>7. ASSUME NEW k \in Orders, CommitReply(k) \/ CommitRefused(k) PROVE StoreTypeOK'
  <2> DEFINE p == committer[k]
  <2>1. /\ p # None => p \in Pages /\ creq[k].hold \in Holds
        /\ p \in Pages \cup {None}
    BY <1>0, SentFacts DEF StoreTypeOK, KnowInv
  <2>2. /\ UNCHANGED asker /\ committer' = [committer EXCEPT ![k] = None]
        /\ \/ p # None /\ \E name \in {"idle", "held"} : phase' = InPhase(p, name)
           \/ p = None /\ phase' = phase
        /\ doubted' = doubted \/ (p # None /\ doubted' = doubted \cup {creq[k].hold})
        /\ shown' = shown \/ (p # None /\ shown' = [shown EXCEPT ![p] = None])
        /\ picked' = picked \/ (p # None /\ picked' = [picked EXCEPT ![p] = <<>>])
    <3>1. CASE CommitAnswered(k)
      BY <3>1 DEF CommitAnswered, HoldForgotten
    <3>2. CASE CommitAnswerLost(k)
      BY <3>2 DEF CommitAnswerLost, AfterFailure
    <3>3. CASE CommitRefused(k)
      BY <3>3 DEF CommitRefused, AfterFailure
    <3> QED
      BY <1>7, <3>1, <3>2, <3>3 DEF CommitReply
  <2> HIDE DEF p
  <2>3. phase' \in [Pages -> {"idle", "holding", "held", "committing"}]
    BY <1>0, <2>1, <2>2, InPhaseFacts DEF StoreTypeOK
  <2>4. doubted' \subseteq Holds /\ committer' \in [Orders -> Pages \cup {None}]
    BY <1>0, <2>1, <2>2 DEF StoreTypeOK
  <2>5. shown' \in [Pages -> Holds \cup {None}]
    BY <1>0, <2>1, <2>2 DEF StoreTypeOK
  <2>6. picked' \in [Pages -> Seq(Seats)]
    BY <1>0, <2>1, <2>2, NoSeats DEF StoreTypeOK
  <2> QED
    BY <1>0, <2>2, <2>3, <2>4, <2>5, <2>6 DEF StoreTypeOK
<1>8. CASE UNCHANGED pageVars
  BY <1>0, <1>8 DEF StoreTypeOK, pageVars
<1> QED
  BY <1>1, <1>2, <1>3, <1>4, <1>5, <1>6, <1>7, <1>8
  DEF StoreNext, BuyerStep, ServiceStep, storeVars


----------------------------------------------------------------------------
(* What the pages know stays true.                                         *)
LEMMA KnowStep == BaseInv /\ BaseInv' /\ PageInv /\ [StoreNext]_storeVars => KnowInv'
<1> SUFFICES ASSUME BaseInv, BaseInv', PageInv, [StoreNext]_storeVars PROVE KnowInv'
  OBVIOUS
<1>0. /\ StoreTypeOK /\ KnowInv
      /\ hpc \in [Holds -> {"idle", "mirror", "held"}] /\ creq \in [Orders -> CommitRequests]
  BY DEF PageInv, BaseInv, ServiceInv, ServiceTypeOK
<1>1. Granted \subseteq Granted'
  BY StoreDrivesRedis, HistoryGrows DEF BaseInv, InventoryInv
(* A step that takes something away from what is shown, awaited and sent.  *)
<1>2. ASSUME \A p \in Pages : shown'[p] # None => shown'[p] = shown[p],
             \A h \in Holds : /\ asker'[h] # None => asker'[h] = asker[h]
                              /\ hpc[h] # "idle" => hpc'[h] # "idle",
             \A k \in Orders : /\ committer'[k] # None => committer'[k] = committer[k]
                               /\ creq'[k].pc # "idle" => Sent(k, creq'[k].hold)
                               /\ committer'[k] # None /\ creq[k].pc # "idle" =>
                                     creq'[k].pc # "idle"
      PROVE  KnowInv'
  <2>1. \A p \in Pages : shown'[p] # None =>
           shown'[p] \in Granted' /\ \A q \in Pages : shown'[q] = shown'[p] => q = p
    BY <1>0, <1>1, <1>2 DEF KnowInv
  <2>2. \A k \in Orders, h \in Holds : Sent(k, h)' => Sent(k, h)
    BY <1>2 DEF Sent
  <2>3. ASSUME NEW h \in Holds, asker'[h] # None
        PROVE  hpc'[h] # "idle" /\ (\A p \in Pages : shown'[p] # h) /\ \A k \in Orders : ~Sent(k, h)'
    BY <1>0, <1>2, <2>2, <2>3, NoneAssumption DEF KnowInv
  <2>4. \A k \in Orders : committer'[k] # None => creq'[k].pc # "idle"
    BY <1>0, <1>2 DEF KnowInv
  <2> QED
    BY <2>1, <2>3, <2>4 DEF KnowInv
<1>3. ASSUME NEW p \in Pages, PickSeat(p) \/ TypeSeats(p) PROVE KnowInv'
  <2>1. UNCHANGED <<shown, asker, committer, hpc, creq>>
    BY <1>3 DEF PickSeat, TypeSeats, vars, serviceVars
  <2>2. \A k \in Orders : creq'[k] = creq[k]
    BY <2>1
  <2> QED
    BY <1>2, <2>1, <2>2 DEF Sent
<1>4. ASSUME NEW p \in Pages, Reload(p) PROVE KnowInv'
  <2>1. /\ UNCHANGED <<hpc, creq>>
        /\ shown' = [shown EXCEPT ![p] = None]
        /\ asker' = [h \in Holds |-> IF asker[h] = p THEN None ELSE asker[h]]
        /\ committer' = [k \in Orders |-> IF committer[k] = p THEN None ELSE committer[k]]
    BY <1>4 DEF Reload, vars, serviceVars
  <2>2. \A q \in Pages : shown'[q] # None => shown'[q] = shown[q]
    BY <1>0, <2>1 DEF StoreTypeOK
  <2>3. /\ \A h \in Holds : asker'[h] # None => asker'[h] = asker[h]
        /\ \A k \in Orders : committer'[k] # None => committer'[k] = committer[k]
    BY <2>1
  <2> QED
    BY <1>2, <2>1, <2>2, <2>3 DEF Sent
<1>5. ASSUME NEW p \in Pages, ClickHold(p) PROVE KnowInv'
  <2>1. PICK h \in Holds : HoldCall(h) /\ asker' = [asker EXCEPT ![h] = p]
    BY <1>5 DEF ClickHold
  <2>2. /\ hpc' = [hpc EXCEPT ![h] = "mirror"]
        /\ h \notin Granted /\ UNCHANGED creq
    BY <2>1, HoldCallKeeps
  <2>3. UNCHANGED committer /\ \A q \in Pages : shown'[q] # None => shown'[q] = shown[q]
    BY <1>0, <1>5 DEF ClickHold, StoreTypeOK
  <2>4. \A q \in Pages : shown'[q] # h
    BY <1>0, <2>2, <2>3, NoneAssumption DEF KnowInv
  <2>5. \A k \in Orders : ~Sent(k, h)
    BY <2>2, SentFacts DEF Sent
  <2>6. ASSUME NEW i \in Holds, asker'[i] # None
        PROVE  hpc'[i] # "idle" /\ (\A q \in Pages : shown'[q] # i) /\ \A k \in Orders : ~Sent(k, i)'
    <3>1. CASE i = h
      BY <1>0, <2>2, <2>4, <2>5, <3>1 DEF Sent
    <3>2. CASE i # h
      <4>1. asker[i] # None /\ hpc'[i] = hpc[i]
        BY <1>0, <2>1, <2>2, <2>6, <3>2 DEF StoreTypeOK
      <4> QED
        BY <1>0, <2>2, <2>3, <4>1, NoneAssumption DEF KnowInv, Sent
    <3> QED
      BY <3>1, <3>2
  <2> QED
    BY <1>0, <1>1, <2>2, <2>3, <2>6 DEF KnowInv
<1>6. ASSUME NEW p \in Pages, ClickCommit(p) PROVE KnowInv'
  <2>0. PICK k \in Orders :
           /\ CommitCall(k) /\ committer' = [committer EXCEPT ![k] = p]
           /\ creq'[k] = [pc |-> "script", hold |-> shown[p], key |-> k, seats |-> SeatsSent(p)]
    BY <1>6 DEF ClickCommit
  <2>1. /\ creq[k].pc = "idle" /\ creq'[k].pc = "script" /\ creq'[k].hold = shown[p]
        /\ committer' = [committer EXCEPT ![k] = p]
    BY <2>0 DEF CommitCall
  <2>2. UNCHANGED <<shown, asker, hpc>>
    BY <1>6 DEF ClickCommit, CommitCall
  <2>3. \A j \in Orders : j # k => creq'[j] = creq[j] /\ committer'[j] = committer[j]
    BY <1>0, <2>0 DEF StoreTypeOK, CommitCall
  <2>4. \A i \in Holds : asker[i] # None => \A j \in Orders : ~Sent(j, i)'
    BY <1>0, <2>1, <2>3 DEF KnowInv, Sent
  <2> QED
    BY <1>0, <1>1, <2>1, <2>2, <2>3, <2>4 DEF KnowInv
<1>7. ASSUME NEW h \in Holds, HoldReply(h) PROVE KnowInv'
  <2>1. /\ asker[h] \in Pages /\ UNCHANGED <<hpc, creq, committer>>
        /\ asker' = [asker EXCEPT ![h] = None]
        /\ shown' = shown \/ (hpc[h] = "held" /\ shown' = [shown EXCEPT ![asker[h]] = h])
    BY <1>0, <1>7
    DEF HoldReply, HoldAnswered, HoldAnswerLost, vars, serviceVars, StoreTypeOK
  <2>2. CASE shown' = shown
    BY <1>0, <1>2, <2>1, <2>2 DEF Sent, StoreTypeOK
  <2>3. CASE hpc[h] = "held" /\ shown' = [shown EXCEPT ![asker[h]] = h]
    <3>1. h \in Granted /\ \A q \in Pages : shown[q] # h
      BY <1>0, <2>1, <2>3, PagesAssumption DEF BaseInv, ServiceInv, ServiceRefersToGrants, KnowInv
    <3>2. \A q \in Pages : shown'[q] = IF q = asker[h] THEN h ELSE shown[q]
      BY <1>0, <2>1, <2>3 DEF StoreTypeOK
    <3>3. \A i \in Holds : asker'[i] # None => i # h /\ asker[i] # None
      BY <1>0, <2>1 DEF StoreTypeOK
    <3>4. \A p \in Pages : shown'[p] # None =>
             shown'[p] \in Granted' /\ \A q \in Pages : shown'[q] = shown'[p] => q = p
      BY <1>0, <1>1, <3>1, <3>2 DEF KnowInv
    <3>5. \A i \in Holds : asker'[i] # None =>
             hpc'[i] # "idle" /\ (\A p \in Pages : shown'[p] # i) /\ \A k \in Orders : ~Sent(k, i)'
      BY <1>0, <2>1, <3>2, <3>3 DEF KnowInv, Sent
    <3>6. \A k \in Orders : committer'[k] # None => creq'[k].pc # "idle"
      BY <1>0, <2>1 DEF KnowInv
    <3> QED
      BY <3>4, <3>5, <3>6 DEF KnowInv
  <2> QED
    BY <2>1, <2>2, <2>3
<1>8. ASSUME NEW k \in Orders, CommitReply(k) PROVE KnowInv'
  <2>1. /\ UNCHANGED <<hpc, creq, asker>>
        /\ committer' = [committer EXCEPT ![k] = None]
        /\ shown' = shown \/ \E p : shown' = [shown EXCEPT ![p] = None]
    BY <1>8 DEF CommitReply, CommitAnswered, CommitAnswerLost, HoldForgotten, vars, serviceVars
  <2> QED
    BY <1>0, <1>2, <2>1 DEF Sent, StoreTypeOK
<1>9. ASSUME NEW k \in Orders, CommitRefused(k) PROVE KnowInv'
  <2>1. /\ UNCHANGED <<hpc, asker, shown>> /\ creq' = [creq EXCEPT ![k] = IdleCommit]
        /\ committer' = [committer EXCEPT ![k] = None]
    BY <1>9 DEF CommitRefused, CommitRejected
  <2>2. creq'[k].pc = "idle" /\ committer'[k] = None
        /\ \A j \in Orders : j # k => creq'[j] = creq[j] /\ committer'[j] = committer[j]
    BY <1>0, <2>1 DEF IdleCommit, StoreTypeOK
  <2> QED
    BY <1>2, <2>1, <2>2 DEF Sent
<1>10. CASE ServiceStep
  BY <1>2, <1>10, ServiceStepFacts DEF pageVars, Sent
<1>11. CASE UNCHANGED storeVars
  BY <1>2, <1>11 DEF storeVars, pageVars, vars, serviceVars, Sent
<1> QED
  BY <1>3, <1>4, <1>5, <1>6, <1>7, <1>8, <1>9, <1>10, <1>11 DEF StoreNext, BuyerStep

(* The phases of the home pages stay true to the requests.                 *)
LEMMA PhaseStep == BaseInv /\ PageInv /\ [StoreNext]_storeVars => PhaseInv'
<1> SUFFICES ASSUME BaseInv, PageInv, [StoreNext]_storeVars PROVE PhaseInv'
  OBVIOUS
<1>0. StoreTypeOK /\ KnowInv /\ PhaseInv
  BY DEF PageInv
<1>1. CASE UNCHANGED <<shown, phase, asker, committer>>
  BY <1>0, <1>1 DEF PhaseInv
<1>2. ASSUME NEW p \in Pages, Reload(p) PROVE PhaseInv'
  <2>1. \A q \in Pages : /\ shown'[q] = IF q = p THEN None ELSE shown[q]
                         /\ q \in Homes => phase'[q] = IF q = p THEN "idle" ELSE phase[q]
    BY <1>0, <1>2 DEF Reload, StoreTypeOK
  <2>2. \A q \in Pages, h \in Holds : asker'[h] = q <=> asker[h] = q /\ q # p
    BY <1>0, <1>2, PagesAssumption DEF Reload
  <2>3. \A q \in Pages, k \in Orders : committer'[k] = q <=> committer[k] = q /\ q # p
    BY <1>0, <1>2, PagesAssumption DEF Reload
  <2> QED
    BY <1>0, <2>1, <2>2, <2>3 DEF PhaseInv, Pages
<1>3. ASSUME NEW p \in Pages, ClickHold(p) PROVE PhaseInv'
  <2>1. PICK h \in Holds : HoldCall(h) /\ asker' = [asker EXCEPT ![h] = p]
    BY <1>3 DEF ClickHold
  <2>2. asker[h] = None
    BY <1>0, <2>1, HoldCallKeeps DEF KnowInv
  <2>3. \A i \in Holds : asker'[i] = IF i = h THEN p ELSE asker[i]
    BY <1>0, <2>1 DEF StoreTypeOK
  <2>4. UNCHANGED committer /\ phase' = InPhase(p, "holding")
    BY <1>3 DEF ClickHold
  <2>5. \A q \in Homes : q # p => shown'[q] = shown[q] /\ phase'[q] = phase[q]
    BY <1>0, <1>3, <2>4, InPhaseFacts DEF ClickHold, StoreTypeOK, Pages
  <2>6. p \in Homes => shown'[p] = None /\ phase'[p] = "holding" /\ phase[p] = "idle"
    BY <1>0, <1>3, <2>4, InPhaseFacts DEF ClickHold, MayHold, StoreTypeOK
  <2>7. ASSUME NEW q \in Homes, q # p
        PROVE  \A i \in Holds : asker'[i] = q <=> asker[i] = q
    BY <2>2, <2>3, <2>7, PagesAssumption DEF Pages
  <2>8. p \in Homes => \A i \in Holds : asker'[i] = p <=> i = h
    BY <1>0, <2>3, <2>6 DEF PhaseInv
  <2> QED
    BY <1>0, <2>4, <2>5, <2>6, <2>7, <2>8 DEF PhaseInv
<1>4. ASSUME NEW p \in Pages, ClickCommit(p) PROVE PhaseInv'
  <2>1. PICK k \in Orders : creq[k].pc = "idle" /\ committer' = [committer EXCEPT ![k] = p]
    BY <1>4 DEF ClickCommit, CommitCall
  <2>2. committer[k] = None
    BY <1>0, <2>1 DEF KnowInv
  <2>3. \A j \in Orders : committer'[j] = IF j = k THEN p ELSE committer[j]
    BY <1>0, <2>1 DEF StoreTypeOK
  <2>4. UNCHANGED <<shown, asker>> /\ phase' = InPhase(p, "committing")
    BY <1>4 DEF ClickCommit
  <2>5. \A q \in Homes : q # p => phase'[q] = phase[q]
    BY <1>0, <2>4, InPhaseFacts
  <2>6. p \in Homes => phase'[p] = "committing" /\ phase[p] = "held"
    BY <1>0, <1>4, <2>4, InPhaseFacts DEF ClickCommit, MayCommit, PhaseInv
  <2>7. ASSUME NEW q \in Homes, q # p
        PROVE  \A j \in Orders : committer'[j] = q <=> committer[j] = q
    BY <2>2, <2>3, <2>7, PagesAssumption DEF Pages
  <2>8. p \in Homes => \A j \in Orders : committer'[j] = p <=> j = k
    BY <1>0, <2>3, <2>6 DEF PhaseInv
  <2> QED
    BY <1>0, <2>4, <2>5, <2>6, <2>7, <2>8 DEF PhaseInv
<1>5. ASSUME NEW h \in Holds, HoldReply(h) PROVE PhaseInv'
  <2> DEFINE p == asker[h]
  <2>1. p \in Pages /\ UNCHANGED committer
    BY <1>0, <1>5 DEF HoldReply, HoldAnswered, HoldAnswerLost, StoreTypeOK
  <2>2. \A i \in Holds : asker'[i] = IF i = h THEN None ELSE asker[i]
    BY <1>0, <1>5 DEF HoldReply, HoldAnswered, HoldAnswerLost, StoreTypeOK
  <2>3. \/ /\ phase' = InPhase(p, "held")
           /\ \A q \in Pages : shown'[q] = IF q = p THEN h ELSE shown[q]
        \/ phase' = InPhase(p, "idle") /\ shown' = shown
    BY <1>0, <1>5 DEF HoldReply, HoldAnswered, HoldAnswerLost, StoreTypeOK
  <2>4. p \in Homes => phase[p] = "holding" /\ shown[p] = None
                       /\ \A i \in Holds : asker[i] = p => i = h
    BY <1>0 DEF PhaseInv
  <2> HIDE DEF p
  <2>5. \A q \in Homes : q # p => phase'[q] = phase[q] /\ shown'[q] = shown[q]
    BY <1>0, <2>1, <2>3, InPhaseFacts DEF Pages
  <2>6. p \in Homes => \/ phase'[p] = "held" /\ shown'[p] = h
                       \/ phase'[p] = "idle" /\ shown'[p] = None
    BY <1>0, <2>1, <2>3, <2>4, InPhaseFacts
  <2>7. ASSUME NEW q \in Homes, q # p
        PROVE  \A i \in Holds : asker'[i] = q <=> asker[i] = q
    BY <2>2, <2>7, PagesAssumption DEF Pages, p
  <2>8. p \in Homes => \A i \in Holds : asker'[i] # p
    BY <2>1, <2>2, <2>4, PagesAssumption
  <2> QED
    BY <1>0, <2>1, <2>4, <2>5, <2>6, <2>7, <2>8, NoneAssumption DEF PhaseInv
<1>6. ASSUME NEW k \in Orders, CommitReply(k) \/ CommitRefused(k) PROVE PhaseInv'
  <2> DEFINE p == committer[k]
  <2>1. p \in Pages \cup {None} /\ UNCHANGED asker
    BY <1>0, <1>6
    DEF CommitReply, CommitAnswered, CommitAnswerLost, CommitRefused, StoreTypeOK
  <2>2. \A j \in Orders : committer'[j] = IF j = k THEN None ELSE committer[j]
    BY <1>0, <1>6
    DEF CommitReply, CommitAnswered, CommitAnswerLost, CommitRefused, StoreTypeOK
  <2>3. \/ /\ p # None /\ phase' = InPhase(p, "idle")
           /\ \A q \in Pages : shown'[q] = IF q = p THEN None ELSE shown[q]
        \/ p # None /\ phase' = InPhase(p, "held") /\ shown' = shown
        \/ p = None /\ UNCHANGED <<phase, shown>>
    <3>1. CASE CommitAnswered(k)
      BY <1>0, <3>1 DEF CommitAnswered, HoldForgotten, StoreTypeOK
    <3>2. CASE CommitAnswerLost(k)
      BY <3>2 DEF CommitAnswerLost, AfterFailure
    <3>3. CASE CommitRefused(k)
      BY <3>3 DEF CommitRefused, AfterFailure
    <3> QED
      BY <1>6, <3>1, <3>2, <3>3 DEF CommitReply
  <2>4. p \in Homes => phase[p] = "committing" /\ shown[p] # None
                       /\ \A j \in Orders : committer[j] = p => j = k
    BY <1>0 DEF PhaseInv
  <2> HIDE DEF p
  <2>5. \A q \in Homes : q # p => phase'[q] = phase[q] /\ shown'[q] = shown[q]
    BY <1>0, <2>1, <2>3, InPhaseFacts DEF Pages
  <2>6. p \in Homes => \/ phase'[p] = "idle" /\ shown'[p] = None
                       \/ phase'[p] = "held" /\ shown'[p] # None
    BY <1>0, <2>1, <2>3, <2>4, InPhaseFacts, PagesAssumption DEF Pages
  <2>7. ASSUME NEW q \in Homes, q # p
        PROVE  \A j \in Orders : committer'[j] = q <=> committer[j] = q
    BY <2>2, <2>7, PagesAssumption DEF Pages, p
  <2>8. p \in Homes => \A j \in Orders : committer'[j] # p
    BY <2>2, <2>4, PagesAssumption DEF Pages
  <2> QED
    BY <1>0, <2>1, <2>4, <2>5, <2>6, <2>7, <2>8 DEF PhaseInv
<1> QED
  BY <1>1, <1>2, <1>3, <1>4, <1>5, <1>6
  DEF StoreNext, BuyerStep, PickSeat, TypeSeats, ServiceStep, pageVars, storeVars

----------------------------------------------------------------------------
(* Orders.  Of a hold that no page lost sight of one commit was sent, the  *)
(* page that shows the hold waits for it, and what got past Redis lists    *)
(* seats sold under the hold; an order key was left by a commit that got   *)
(* past Redis.                                                             *)
InSight(h) ==
    /\ \A j, k \in Orders : Sent(j, h) /\ Sent(k, h) => j = k
    /\ \A p \in Pages, k \in Orders : shown[p] = h /\ Sent(k, h) => committer[k] = p
    /\ \A k \in Orders : Sent(k, h) /\ creq[k].pc \in Past =>
          \A s \in Range(creq[k].seats) : <<h, s>> \in sales

CommitInv ==
    \A h \in Holds :
        /\ h \notin doubted => InSight(h)
        /\ ledger[h] # None => \E k \in Orders : Sent(k, h) /\ creq[k].pc \in Past

(* COMMIT sells every seat of the call that it does not find sold already  *)
(* by the same hold; a replay, which looks at no seat, needs an earlier    *)
(* commit of the hold.                                                     *)
LEMMA CommitRunSellsList ==
    ASSUME BaseInv, CommitInv, NEW k \in Orders, CommitRun(k), creq[k].hold \notin doubted,
           sales \subseteq sales'
    PROVE  \A s \in Range(creq[k].seats) : <<creq[k].hold, s>> \in sales'
<1> DEFINE h == creq[k].hold
           ss == creq[k].seats
<1>1. creq[k].pc = "script" /\ h \in Holds /\ Sent(k, h)
  BY SentFacts DEF CommitRun, Sent
<1>2. \A s \in Range(ss) : s \in Seats
  <2>1. ss \in SeatLists
    BY <1>1 DEF BaseInv, ServiceInv, ServiceRefersToGrants
  <2> QED
    BY <2>1, SeatListFacts
<1>3. CASE ExecCommit(h, grant[h].category, ss, k)
  <2>1. ASSUME NEW s \in Range(ss) PROVE <<h, s>> \in sales'
    <3>1. seat[s].status \in {"HELD", "SOLD"} /\ seat[s].holdId = h
      BY <1>3, <2>1 DEF ExecCommit, CommittableBy
    <3>2. CASE seat[s].status = "HELD"
      BY <1>3, <2>1, <3>2 DEF ExecCommit
    <3>3. CASE seat[s].status = "SOLD"
      BY <1>2, <2>1, <3>1, <3>3 DEF BaseInv, InventoryInv, SoldSeatsAreSales
    <3> QED
      BY <3>1, <3>2, <3>3
  <2> QED
    BY <2>1
<1>4. CASE ledger[h] # None
  <2>1. PICK j \in Orders : Sent(j, h) /\ creq[j].pc \in Past
    BY <1>1, <1>4 DEF CommitInv
  <2>2. j = k
    BY <1>1, <2>1 DEF CommitInv, InSight
  <2> QED
    BY <1>1, <2>1, <2>2 DEF Past
<1> QED
  BY <1>3, <1>4 DEF CommitRun

(* One step per action of the pages, and one for the service.              *)
LEMMA CommitInvStep ==
    BaseInv /\ PageInv /\ CommitInv /\ [StoreNext]_storeVars => CommitInv'
<1> SUFFICES ASSUME BaseInv, PageInv, CommitInv, [StoreNext]_storeVars PROVE CommitInv'
  OBVIOUS
<1>0. /\ StoreTypeOK /\ KnowInv
      /\ hpc \in [Holds -> {"idle", "mirror", "held"}] /\ creq \in [Orders -> CommitRequests]
  BY DEF PageInv, BaseInv, ServiceInv, ServiceTypeOK
<1>1. sales \subseteq sales'
  BY StoreDrivesRedis, HistoryGrows DEF BaseInv, InventoryInv
(* A step that sends, runs and refuses no commit.                          *)
<1>2. ASSUME doubted \subseteq doubted', UNCHANGED <<creq, ledger>>,
             \A p \in Pages, k \in Orders, h \in Holds :
                 h \notin doubted' /\ shown'[p] = h /\ Sent(k, h) => committer'[k] = p
      PROVE  CommitInv'
  <2>1. \A k, h : Sent(k, h)' <=> Sent(k, h)
    BY <1>2 DEF Sent
  <2>2. ASSUME NEW h \in Holds, h \notin doubted' PROVE InSight(h)'
    <3>1. InSight(h)
      BY <1>2, <2>2 DEF CommitInv
    <3> QED
      BY <1>1, <1>2, <2>1, <2>2, <3>1 DEF InSight
  <2> QED
    BY <1>2, <2>1, <2>2 DEF CommitInv
<1>3. ASSUME NEW p \in Pages, PickSeat(p) \/ TypeSeats(p) PROVE CommitInv'
  <2>1. UNCHANGED <<creq, ledger, shown, committer, doubted>>
    BY <1>3 DEF PickSeat, TypeSeats, vars, serviceVars, redisVars
  <2> QED
    BY <1>2, <2>1 DEF CommitInv, InSight
<1>4. ASSUME NEW p \in Pages, Reload(p) PROVE CommitInv'
  <2>1. /\ UNCHANGED <<creq, ledger, doubted>>
        /\ shown' = [shown EXCEPT ![p] = None]
        /\ committer' = [k \in Orders |-> IF committer[k] = p THEN None ELSE committer[k]]
    BY <1>4 DEF Reload, vars, serviceVars, redisVars
  <2>2. \A q \in Pages, h \in Holds : shown'[q] = h => q # p /\ shown[q] = h
    BY <1>0, <2>1, NoneAssumption DEF StoreTypeOK
  <2> QED
    BY <1>2, <2>1, <2>2 DEF CommitInv, InSight
<1>5. ASSUME NEW p \in Pages, ClickHold(p) PROVE CommitInv'
  <2>1. UNCHANGED <<creq, ledger>>
    BY <1>5, HoldCallKeeps DEF ClickHold
  <2>2. /\ UNCHANGED <<committer, doubted>>
        /\ \A q \in Pages, h \in Holds : shown'[q] = h => shown[q] = h
    BY <1>0, <1>5, NoneAssumption DEF ClickHold, StoreTypeOK
  <2> QED
    BY <1>2, <2>1, <2>2 DEF CommitInv, InSight
<1>6. ASSUME NEW p \in Pages, ClickCommit(p) PROVE CommitInv'
  <2> DEFINE g == shown[p]
  <2>1. PICK k \in Orders :
           /\ CommitCall(k) /\ committer' = [committer EXCEPT ![k] = p]
           /\ creq'[k] = [pc |-> "script", hold |-> g, key |-> k, seats |-> SeatsSent(p)]
    BY <1>6 DEF ClickCommit
  <2>2. /\ UNCHANGED <<shown, ledger>> /\ doubted \subseteq doubted'
        /\ Unanswered(g) => g \in doubted'
    BY <1>6, <2>1 DEF ClickCommit, CommitCall, redisVars
  <2>3. /\ creq[k].pc = "idle" /\ creq'[k].pc = "script" /\ creq'[k].hold = g
        /\ \A j \in Orders : j # k => creq'[j] = creq[j]
    BY <1>0, <2>1 DEF CommitCall
  <2>4. \A j \in Orders : committer'[j] = IF j = k THEN p ELSE committer[j]
    BY <1>0, <2>1 DEF StoreTypeOK
  <2> HIDE DEF g
  <2>5. \A h \in Holds, j \in Orders : Sent(j, h)' <=> Sent(j, h) \/ (j = k /\ h = g)
    BY <2>3 DEF Sent
  <2>6. "idle" \notin Past /\ "script" \notin Past
    BY DEF Past
  <2>7. ASSUME NEW h \in Holds, h \notin doubted' PROVE InSight(h)'
    <3>1. InSight(h)
      BY <2>2, <2>7 DEF CommitInv
    <3>2. CASE h = g
      <4>1. \A j \in Orders : ~Sent(j, h)
        <5>1. SUFFICES ASSUME NEW j \in Orders, Sent(j, h) PROVE FALSE
          OBVIOUS
        <5>2. committer[j] = p
          BY <3>1, <3>2, <5>1 DEF InSight, g
        <5> QED
          BY <2>2, <2>7, <3>2, <5>1, <5>2, PagesAssumption DEF Unanswered, Sent
      <4>2. \A j \in Orders : Sent(j, h)' <=> j = k
        BY <2>5, <3>2, <4>1
      <4>3. \A q \in Pages : shown'[q] = h => q = p
        BY <1>0, <2>2, <2>7, <3>2, NoneAssumption DEF KnowInv, g
      <4> QED
        BY <2>3, <2>4, <2>6, <4>2, <4>3 DEF InSight
    <3>3. CASE h # g
      <4>1. \A j \in Orders : Sent(j, h)' <=> Sent(j, h)
        BY <2>5, <3>3
      <4>2. \A j \in Orders : Sent(j, h) => j # k /\ creq'[j] = creq[j]
                                            /\ committer'[j] = committer[j]
        BY <2>3, <2>4 DEF Sent
      <4> QED
        BY <1>1, <2>2, <3>1, <4>1, <4>2 DEF InSight
    <3> QED
      BY <3>2, <3>3
  <2>8. ASSUME NEW h \in Holds, ledger'[h] # None
        PROVE  \E j \in Orders : Sent(j, h)' /\ creq'[j].pc \in Past
    <3>1. PICK j \in Orders : Sent(j, h) /\ creq[j].pc \in Past
      BY <2>2, <2>8 DEF CommitInv
    <3> QED
      BY <2>3, <2>5, <2>6, <3>1
  <2> QED
    BY <2>7, <2>8 DEF CommitInv
<1>7. ASSUME NEW h \in Holds, HoldReply(h) PROVE CommitInv'
  <2>1. /\ asker[h] # None /\ UNCHANGED <<creq, ledger, committer, doubted>>
        /\ shown' = shown \/ shown' = [shown EXCEPT ![asker[h]] = h]
    BY <1>7 DEF HoldReply, HoldAnswered, HoldAnswerLost, vars, serviceVars, redisVars
  <2>2. \A k \in Orders : ~Sent(k, h)
    BY <1>0, <2>1 DEF KnowInv
  <2>3. \A q \in Pages, i \in Holds : shown'[q] = i => shown[q] = i \/ i = h
    BY <1>0, <2>1 DEF StoreTypeOK
  <2> QED
    BY <1>2, <2>1, <2>2, <2>3 DEF CommitInv, InSight
<1>8. ASSUME NEW k \in Orders, CommitReply(k) PROVE CommitInv'
  <2>1. /\ UNCHANGED <<creq, ledger>> /\ doubted \subseteq doubted'
        /\ \A j \in Orders : j # k => committer'[j] = committer[j]
        /\ committer[k] # None
    BY <1>0, <1>8
    DEF CommitReply, CommitAnswered, CommitAnswerLost, vars, serviceVars, redisVars, StoreTypeOK
  <2>2. \/ creq[k].hold \in doubted' /\ shown' = shown
        \/ shown' = [shown EXCEPT ![committer[k]] = None]
    BY <1>8 DEF CommitReply, CommitAnswered, CommitAnswerLost, HoldForgotten
  <2>3. ASSUME NEW q \in Pages, NEW j \in Orders, NEW h \in Holds,
               h \notin doubted', shown'[q] = h, Sent(j, h)
        PROVE  committer'[j] = q
    <3>1. shown[q] = h /\ (j = k => q # committer[k])
      BY <1>0, <2>2, <2>3, NoneAssumption DEF StoreTypeOK, Sent
    <3>2. committer[j] = q
      BY <2>1, <2>3, <3>1 DEF CommitInv, InSight
    <3> QED
      BY <2>1, <3>1, <3>2
  <2> QED
    BY <1>2, <2>1, <2>3
<1>9. ASSUME NEW k \in Orders, CommitRefused(k) PROVE CommitInv'
  <2>1. /\ UNCHANGED <<ledger, shown, doubted>> /\ creq[k].pc = "script"
        /\ creq' = [creq EXCEPT ![k] = IdleCommit]
        /\ committer' = [committer EXCEPT ![k] = None]
    BY <1>9 DEF CommitRefused, CommitRejected, redisVars
  <2>2. /\ creq'[k].pc = "idle"
        /\ \A j \in Orders : j # k => creq'[j] = creq[j] /\ committer'[j] = committer[j]
    BY <1>0, <2>1 DEF IdleCommit, StoreTypeOK
  <2>3. \A j \in Orders, h \in Holds : Sent(j, h)' <=> Sent(j, h) /\ j # k
    BY <2>2 DEF Sent
  <2>4. "script" \notin Past
    BY DEF Past
  <2>5. ASSUME NEW h \in Holds, h \notin doubted' PROVE InSight(h)'
    <3>1. InSight(h)
      BY <2>1, <2>5 DEF CommitInv
    <3> QED
      BY <1>1, <2>1, <2>2, <2>3, <3>1 DEF InSight
  <2>6. ASSUME NEW h \in Holds, ledger'[h] # None
        PROVE  \E j \in Orders : Sent(j, h)' /\ creq'[j].pc \in Past
    <3>1. PICK j \in Orders : Sent(j, h) /\ creq[j].pc \in Past
      BY <2>1, <2>6 DEF CommitInv
    <3> QED
      BY <2>1, <2>2, <2>3, <2>4, <3>1
  <2> QED
    BY <2>5, <2>6 DEF CommitInv
<1>10. CASE ServiceStep
  <2>1. /\ UNCHANGED <<shown, committer, doubted>>
        /\ \A k \in Orders : /\ creq'[k].pc = "idle" <=> creq[k].pc = "idle"
                             /\ creq'[k].hold = creq[k].hold
                             /\ creq'[k].seats = creq[k].seats
                             /\ creq[k].pc \in Past => creq'[k].pc \in Past
                             /\ creq'[k].pc \in Past => creq[k].pc \in Past \/ CommitRun(k)
        /\ \A h \in Holds : ledger'[h] # None =>
              ledger[h] # None \/ \E k \in Orders : CommitRun(k) /\ creq[k].hold = h
    BY <1>10, ServiceStepFacts DEF pageVars
  <2>2. \A k \in Orders, h \in Holds : Sent(k, h)' <=> Sent(k, h)
    BY <2>1 DEF Sent
  <2>3. ASSUME NEW h \in Holds, h \notin doubted' PROVE InSight(h)'
    <3>1. InSight(h)
      BY <2>1, <2>3 DEF CommitInv
    <3>2. ASSUME NEW k \in Orders, Sent(k, h), creq'[k].pc \in Past
          PROVE  \A s \in Range(creq[k].seats) : <<h, s>> \in sales'
      <4>1. CASE creq[k].pc \in Past
        BY <1>1, <3>1, <3>2, <4>1 DEF InSight
      <4>2. CASE CommitRun(k)
        BY <1>1, <2>1, <2>3, <3>2, <4>2, CommitRunSellsList DEF Sent
      <4> QED
        BY <2>1, <3>2, <4>1, <4>2
    <3> QED
      BY <2>1, <2>2, <3>1, <3>2 DEF InSight
  <2>4. ASSUME NEW h \in Holds, ledger'[h] # None
        PROVE  \E k \in Orders : Sent(k, h)' /\ creq'[k].pc \in Past
    <3>1. CASE ledger[h] # None
      BY <2>1, <2>2, <3>1 DEF CommitInv
    <3>2. ASSUME NEW k \in Orders, CommitRun(k), creq[k].hold = h
          PROVE  Sent(k, h)' /\ creq'[k].pc \in Past
      <4>1. creq'[k].pc = "select" /\ creq[k].pc = "script"
        BY <1>0, <3>2 DEF CommitRun, CommitRequests
      <4> QED
        BY <2>1, <3>2, <4>1 DEF Past, Sent
    <3> QED
      BY <2>1, <2>4, <3>1, <3>2
  <2> QED
    BY <2>3, <2>4 DEF CommitInv
<1>11. CASE UNCHANGED storeVars
  <2>1. UNCHANGED <<creq, ledger, shown, committer, doubted>>
    BY <1>11 DEF storeVars, pageVars, vars, serviceVars, redisVars
  <2> QED
    BY <1>2, <2>1 DEF CommitInv, InSight
<1> QED
  BY <1>3, <1>4, <1>5, <1>6, <1>7, <1>8, <1>9, <1>10, <1>11 DEF StoreNext, BuyerStep

----------------------------------------------------------------------------
(* The invariants of every behaviour.                                      *)
StoreInv == PageInv /\ CommitInv

(* All of it, initially and by every step.                                 *)
LEMMA StoreInvInit == StoreInit => StoreInv
<1> SUFFICES ASSUME StoreInit PROVE StoreInv
  OBVIOUS
<1>1. StoreTypeOK
  BY NoSeats DEF StoreInit, StoreTypeOK
<1>2. /\ \A p \in Pages : shown[p] = None /\ phase[p] = "idle"
      /\ \A h \in Holds : asker[h] = None /\ ledger[h] = None
      /\ \A k \in Orders : committer[k] = None /\ creq[k].pc = "idle"
  BY DEF StoreInit, Init, RedisInit, IdleCommit
<1>3. KnowInv
  BY <1>2 DEF KnowInv
<1>4. PhaseInv
  BY <1>2, PagesAssumption DEF PhaseInv, Pages
<1>5. CommitInv
  BY <1>2 DEF CommitInv, InSight, Sent
<1> QED
  BY <1>1, <1>3, <1>4, <1>5 DEF StoreInv, PageInv

LEMMA StoreInvStep == BaseInv /\ BaseInv' /\ StoreInv /\ [StoreNext]_storeVars => StoreInv'
  BY StoreTypeStep, KnowStep, PhaseStep, CommitInvStep DEF StoreInv, PageInv

LEMMA StoreInvariant == StoreSpec => [](BaseInv /\ StoreInv)
  BY BaseInvariant, StoreInvInit, StoreInvStep, PTL DEF StoreSpec

(* The pages' state keeps its shape: nothing the service or the network    *)
(* does to a request puts a page outside its states.                       *)
THEOREM StoreTypeCorrect == StoreSpec => []StoreTypeOK
<1>1. StoreInv => StoreTypeOK
  BY DEF StoreInv, PageInv
<1> QED
  BY <1>1, StoreInvariant, PTL

(* A home page that enables and disables its buttons by phase never has    *)
(* two requests under way, waits exactly when it says so, and shows a hold *)
(* exactly when it says so, for any number of pages, holds and orders.     *)
THEOREM PhaseTruthful == StoreSpec => []PhaseTellsRequests
<1>1. StoreInv => PhaseTellsRequests
  BY PhaseIsPhaseTells DEF StoreInv, PageInv
<1> QED
  BY <1>1, StoreInvariant, PTL

(* What an order row says, as long as the hold was in sight.               *)
LEMMA OrderRowFacts ==
    ASSUME BaseInv, StoreInv, NEW o \in orders, creq[o].hold \notin doubted
    PROVE  /\ o \in Orders /\ creq[o].pc \in Past /\ Sent(o, creq[o].hold)
           /\ InSight(creq[o].hold)
<1>1. o \in Orders /\ creq[o].pc = "paid"
  BY DEF BaseInv, ServiceInv, ServiceTypeOK, OrdersInv, Paid
<1> QED
  BY <1>1, SentFacts DEF StoreInv, CommitInv, Sent, Past

(* Every click on COMMIT sends a fresh idempotency key, so the key does    *)
(* not stop a second order of a hold; the pages do, unless one of them     *)
(* lost sight of a commit.                                                 *)
THEOREM OneOrderPerHold == StoreSpec => []OneOrderPerHoldUnlessDoubted
<1>1. BaseInv /\ StoreInv => OneOrderPerHoldUnlessDoubted
  BY OrderRowFacts DEF OneOrderPerHoldUnlessDoubted, InSight
<1> QED
  BY <1>1, StoreInvariant, PTL

(* An order lists seats that were sold under its hold, although the page   *)
(* sends the seats that are picked at the time of the COMMIT, and a replay *)
(* of COMMIT looks at none - unless the page lost sight of a commit.       *)
THEOREM OrdersListSoldSeats == StoreSpec => []OrderListsSoldSeatsUnlessDoubted
<1>1. BaseInv /\ StoreInv => OrderListsSoldSeatsUnlessDoubted
  BY OrderRowFacts DEF OrderListsSoldSeatsUnlessDoubted, InSight
<1> QED
  BY <1>1, StoreInvariant, PTL
============================================================================
