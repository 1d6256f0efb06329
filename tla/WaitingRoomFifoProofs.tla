----------------------- MODULE WaitingRoomFifoProofs -----------------------
(***************************************************************************)
(* The order of the queue of WaitingRoom: joins are served first come,     *)
(* first served until the first admission.                                 *)
(***************************************************************************)
EXTENDS WaitingRoomProofs

----------------------------------------------------------------------------
(* The sorted set: its order, and the scores of its members.               *)
Scored(q, u) == q[Rank(q, u)].score

Ordered(q) ==
    \A i, j \in DOMAIN q :
        /\ q[i].user = q[j].user => i = j
        /\ i < j => q[i].score <= q[j].score

(* In an ordered set a user has one entry: its rank finds it.              *)
LEMMA ScoredFacts ==
    ASSUME NEW q \in Seq(Entry), Ordered(q), NEW i \in DOMAIN q
    PROVE  /\ q[i].user \in Members(q) /\ Rank(q, q[i].user) = i
           /\ Scored(q, q[i].user) = q[i].score
<1>1. q[i].user \in Members(q)
  BY DEF Members
<1>2. /\ Rank(q, q[i].user) \in DOMAIN q
      /\ q[Rank(q, q[i].user)].user = q[i].user
  BY <1>1, RankFacts
<1>3. Rank(q, q[i].user) = i
  BY <1>2 DEF Ordered
<1> QED
  BY <1>1, <1>3 DEF Scored

(* Every score is a number.                                                *)
LEMMA ScoredType ==
    ASSUME NEW q \in Seq(Entry), NEW u \in Members(q)
    PROVE  Scored(q, u) \in Nat
<1>1. Rank(q, u) \in DOMAIN q
  BY RankFacts
<1>2. q[Rank(q, u)] \in Entry
  BY <1>1
<1> QED
  BY <1>2 DEF Scored, Entry

(* Removing a user keeps the order and the scores of the others.           *)
LEMMA WithoutOrdered ==
    ASSUME NEW q \in Seq(Entry), Ordered(q), NEW u
    PROVE  /\ Ordered(Without(q, u)) /\ u \notin Members(Without(q, u))
           /\ Len(Without(q, u)) = IF u \in Members(q) THEN Len(q) - 1 ELSE Len(q)
           /\ \A v \in Members(q) \ {u} : Scored(Without(q, u), v) = Scored(q, v)
<1>1. CASE u \notin Members(q)
  BY <1>1 DEF Without
<1>2. CASE u \in Members(q)
  <2> DEFINE i == Rank(q, u)
             r == RemoveAt(q, i)
             h(k) == IF k < i THEN k ELSE k + 1
  <2>1. i \in DOMAIN q /\ q[i].user = u
    BY <1>2, RankFacts
  <2>2. /\ r \in Seq(Entry) /\ Len(r) = Len(q) - 1
        /\ \A k \in 1 .. Len(q) - 1 : r[k] = IF k < i THEN q[k] ELSE q[k + 1]
    <3> HIDE DEF i
    <3> QED
      BY <2>1, RemoveFacts
  <2> HIDE DEF i, r
  <2>3. \A k \in DOMAIN r : h(k) \in DOMAIN q /\ h(k) # i /\ r[k] = q[h(k)]
    BY <2>1, <2>2
  <2>4. \A j, k \in DOMAIN r : (h(j) = h(k) => j = k) /\ (j < k => h(j) < h(k))
    BY <2>1, <2>2
  <2> HIDE DEF h
  <2>5. Ordered(r)
    BY <2>3, <2>4 DEF Ordered
  <2>6. u \notin Members(r)
    BY <2>1, <2>3 DEF Members, Ordered
  <2>7. ASSUME NEW v \in Members(q) \ {u} PROVE Scored(r, v) = Scored(q, v)
    <3>1. v \in Members(r)
      <4>1. Members(q) \ {u} \subseteq Members(Without(q, u))
        BY WithoutFacts
      <4> QED
        BY <1>2, <4>1 DEF Without, r, i
    <3>2. Rank(r, v) \in DOMAIN r /\ r[Rank(r, v)].user = v
      BY <2>2, <3>1, RankFacts
    <3>3. Scored(q, v) = q[h(Rank(r, v))].score
      BY <2>3, <3>2, ScoredFacts
    <3> QED
      BY <2>3, <3>2, <3>3 DEF Scored
  <2> QED
    BY <1>2, <2>2, <2>5, <2>6, <2>7 DEF Without, r, i
<1> QED
  BY <1>1, <1>2

(* ZADD keeps the order and the scores of the others.                      *)
LEMMA ZaddOrdered ==
    ASSUME NEW q \in Seq(Entry), Ordered(q), NEW u \in Users, NEW score \in Nat,
           NEW q2 \in Zadd(q, u, score)
    PROVE  /\ Ordered(q2) /\ Scored(q2, u) = score
           /\ Len(q2) = IF u \in Members(q) THEN Len(q) ELSE Len(q) + 1
           /\ \A v \in Members(q) \ {u} : Scored(q2, v) = Scored(q, v)
<1> DEFINE r == Without(q, u)
           e == [user |-> u, score |-> score]
<1>1. /\ r \in Seq(Entry) /\ Members(q) \ {u} \subseteq Members(r)
      /\ Ordered(r) /\ u \notin Members(r)
      /\ Len(r) = IF u \in Members(q) THEN Len(q) - 1 ELSE Len(q)
      /\ \A v \in Members(q) \ {u} : Scored(r, v) = Scored(q, v)
  BY WithoutFacts, WithoutOrdered
<1>2. PICK i \in 1 .. Len(r) + 1 :
          /\ q2 = InsertAt(r, i, e)
          /\ \A k \in DOMAIN r : IF k < i THEN r[k].score <= score ELSE r[k].score >= score
  BY DEF Zadd, Without
<1>3. e \in Entry /\ e.user = u /\ e.score = score
  BY DEF Entry
<1> HIDE DEF r, e
<1>4. /\ q2 \in Seq(Entry) /\ Len(q2) = Len(r) + 1
      /\ \A k \in 1 .. Len(r) + 1 :
            q2[k] = IF k < i THEN r[k] ELSE IF k = i THEN e ELSE r[k - 1]
  <2> DEFINE E == Entry
  <2>1. r \in Seq(E) /\ e \in E
    BY <1>1, <1>3
  <2> HIDE DEF E
  <2>2. /\ InsertAt(r, i, e) \in Seq(E) /\ Len(InsertAt(r, i, e)) = Len(r) + 1
        /\ \A k \in 1 .. Len(r) + 1 :
              InsertAt(r, i, e)[k] = IF k < i THEN r[k] ELSE IF k = i THEN e ELSE r[k - 1]
    BY <2>1, InsertFacts
  <2> QED
    BY <1>2, <2>2 DEF E
<1> DEFINE h(k) == IF k < i THEN k ELSE k - 1
<1>5. /\ i \in DOMAIN q2 /\ q2[i] = e
      /\ \A k \in DOMAIN q2 : k # i => h(k) \in DOMAIN r /\ q2[k] = r[h(k)]
  <2>1. DOMAIN q2 = 1 .. Len(r) + 1 /\ i \in Nat /\ Len(r) \in Nat
    BY <1>1, <1>4
  <2>2. i \in DOMAIN q2 /\ q2[i] = e
    BY <1>4, <2>1
  <2>3. ASSUME NEW k \in DOMAIN q2, k # i PROVE h(k) \in DOMAIN r /\ q2[k] = r[h(k)]
    <3>1. CASE k < i
      <4>1. h(k) = k /\ k \in DOMAIN r
        BY <1>1, <2>1, <3>1
      <4> QED
        BY <1>4, <2>1, <3>1, <4>1
    <3>2. CASE k > i
      <4>1. h(k) = k - 1 /\ k - 1 \in DOMAIN r /\ ~(k < i)
        BY <1>1, <2>1, <3>2
      <4> QED
        BY <1>4, <2>1, <2>3, <4>1
    <3> QED
      BY <2>1, <2>3, <3>1, <3>2
  <2> QED
    BY <2>2, <2>3
<1>6. \A j, k \in DOMAIN q2 \ {i} : (h(j) = h(k) => j = k) /\ (j < k => h(j) < h(k))
  BY <1>1, <1>4
<1>7. \A k \in DOMAIN q2 \ {i} : /\ k < i => q2[k].score <= score
                                 /\ i < k => q2[k].score >= score
  <2> SUFFICES ASSUME NEW k \in DOMAIN q2 \ {i}
               PROVE  (k < i => q2[k].score <= score) /\ (i < k => q2[k].score >= score)
    OBVIOUS
  <2>1. CASE k < i
    <3>1. h(k) = k /\ h(k) < i
      BY <2>1
    <3> QED
      BY <1>2, <1>4, <1>5, <2>1, <3>1
  <2>2. CASE i < k
    <3>1. ~(h(k) < i)
      BY <1>4, <2>2
    <3> QED
      BY <1>2, <1>4, <1>5, <2>2, <3>1
  <2> QED
    BY <2>1, <2>2
<1> HIDE DEF h
<1>8. \A k \in DOMAIN q2 \ {i} : q2[k].user # u
  BY <1>1, <1>5 DEF Members
<1>9. Ordered(q2)
  <2> SUFFICES ASSUME NEW j \in DOMAIN q2, NEW k \in DOMAIN q2
               PROVE  /\ q2[j].user = q2[k].user => j = k
                      /\ j < k => q2[j].score <= q2[k].score
    BY DEF Ordered
  <2>1. CASE j # i /\ k # i
    BY <1>1, <1>5, <1>6, <2>1 DEF Ordered
  <2>2. CASE j = i /\ k # i
    BY <1>3, <1>5, <1>7, <1>8, <2>2
  <2>3. CASE j # i /\ k = i
    BY <1>3, <1>5, <1>7, <1>8, <2>3
  <2>4. CASE j = i /\ k = i
    BY <1>4, <2>4
  <2> QED
    BY <2>1, <2>2, <2>3, <2>4
<1>10. Scored(q2, u) = score
  BY <1>3, <1>4, <1>5, <1>9, ScoredFacts
<1>11. ASSUME NEW v \in Members(q) \ {u} PROVE Scored(q2, v) = Scored(q, v)
  <2>1. v \in Members(q2)
    BY ZaddFacts
  <2>2. Rank(q2, v) \in DOMAIN q2 /\ q2[Rank(q2, v)].user = v
    BY <1>4, <2>1, RankFacts
  <2>3. Rank(q2, v) # i
    BY <1>3, <1>5, <2>2
  <2>4. Scored(r, v) = r[h(Rank(q2, v))].score
    BY <1>1, <1>5, <2>2, <2>3, ScoredFacts
  <2> QED
    BY <1>1, <1>5, <2>2, <2>3, <2>4 DEF Scored
<1> QED
  BY <1>1, <1>4, <1>9, <1>10, <1>11

(* A queue has no more members than entries.                               *)
LEMMA MembersFinite ==
    ASSUME NEW q \in Seq(Entry)
    PROVE  /\ IsFiniteSet(Members(q)) /\ Cardinality(Members(q)) \in Nat
           /\ Cardinality(Members(q)) <= Len(q)
<1> DEFINE f == [i \in DOMAIN q |-> q[i].user]
<1>1. f \in Surjection(1 .. Len(q), Members(q))
  BY DEF Surjection, Members
<1>2. IsFiniteSet(1 .. Len(q)) /\ Cardinality(1 .. Len(q)) = Len(q)
  <2>1. Len(q) \in Nat
    OBVIOUS
  <2> QED
    BY <2>1, FS_Interval
<1> HIDE DEF f
<1>3. IsFiniteSet(Members(q)) /\ Cardinality(Members(q)) <= Len(q)
  BY <1>1, <1>2, FS_Surjection
<1> QED
  BY <1>3, FS_CardinalityType

----------------------------------------------------------------------------
(* The users that a shuffle has yet to add are different ones, and its     *)
(* scores, one more for each user it has added, are ahead of the latest    *)
(* clock by no more than the users it has put into the queue.              *)
AddingInv ==
    \A p \in Runs : run[p].pc = "adding" =>
        /\ \A i, j \in DOMAIN run[p].todo : run[p].todo[i] = run[p].todo[j] => i = j
        /\ \E D \in SUBSET Members(active) :
              D \cap Range(run[p].todo) = {} /\ run[p].stamp <= now + MaxSkew + Cardinality(D)

(* What a join under way has read is no later than the latest clock, and   *)
(* whoever it has to stand behind is in the queue.                         *)
AheadInv ==
    \A v \in Users :
        /\ \A u \in ahead[v] : u \in Members(active) \ again /\ u # v /\ join[u].pc = "idle"
        /\ join[v].pc = "pool" => ahead[v] = {}
        /\ join[v].pc \in {"count", "queue"} => join[v].stamp <= now + MaxSkew
        /\ join[v].pc = "queue" => join[v].len <= Len(active)

(* The score of a user is below the one that a join gets which counts the  *)
(* queue now by the latest clock, from MaxSkew after its own join on by    *)
(* any clock, and below that of a join which has counted.                  *)
BelowNow == \A u \in Members(active) \ again : Scored(active, u) < 2 * (now + MaxSkew + Len(active))

SinceInv ==
    \A u \in (joined \ again) \cap Members(active) :
        join[u].pc # "tidy" => Scored(active, u) < 2 * (since[u] + MaxSkew + Len(active))

BelowJoin(v) ==
    \A u \in ahead[v] :
        /\ join[v].pc = "count" => Scored(active, u) < 2 * (join[v].stamp + Len(active))
        /\ join[v].pc = "queue" => /\ join[v].len > 0
                                   /\ Scored(active, u) < 2 * (join[v].stamp + join[v].len)
        /\ join[v].pc \in {"idle", "tidy"} /\ v \in Members(active) =>
              Scored(active, u) < Scored(active, v)

FifoParts ==
    /\ Ordered(active) /\ AddingInv /\ AheadInv /\ BelowNow /\ SinceInv
    /\ \A v \in Users : BelowJoin(v)

FifoInv == pops = 0 => FifoParts

(* It orders the queue as FifoUntilAdmission says.                         *)
LEMMA FifoSuffices == ShapeInv /\ FifoInv => FifoUntilAdmission
<1> SUFFICES ASSUME ShapeInv, FifoInv, pops = 0,
                    NEW v \in Members(active), NEW u \in ahead[v] \cap Members(active),
                    join[v].pc = "idle"
             PROVE  Rank(active, u) < Rank(active, v)
  BY DEF FifoUntilAdmission, InOrder
<1>1. active \in Seq(Entry) /\ Ordered(active)
  BY DEF ShapeInv, QueueType, FifoInv, FifoParts
<1>2. /\ Rank(active, u) \in DOMAIN active /\ Rank(active, v) \in DOMAIN active
      /\ active[Rank(active, u)].user = u /\ active[Rank(active, v)].user = v
  BY <1>1, RankFacts
<1>3. v \in Users
  <2>1. active[Rank(active, v)] \in Entry
    BY <1>1, <1>2
  <2> QED
    BY <1>2, <2>1 DEF Entry
<1>4. Scored(active, u) < Scored(active, v)
  BY <1>3 DEF FifoInv, FifoParts, BelowJoin
<1>5. Scored(active, u) \in Nat /\ Scored(active, v) \in Nat
  BY <1>1, ScoredType
<1>6. \A i, j \in DOMAIN active : i <= j => active[i].score <= active[j].score
  <2>1. \A i \in DOMAIN active : active[i].score \in Nat
    <3>1. \A i \in DOMAIN active : active[i] \in Entry
      BY <1>1
    <3> QED
      BY <3>1 DEF Entry
  <2> QED
    BY <1>1, <2>1 DEF Ordered
<1>7. ~(Rank(active, v) <= Rank(active, u))
  BY <1>2, <1>4, <1>5, <1>6 DEF Scored
<1> QED
  BY <1>1, <1>2, <1>7

(* Steps that leave the queue, the time and the joins alone.               *)
LEMMA FifoQuiet ==
    ASSUME FifoParts, UNCHANGED <<now, active, join, ahead, again, joined, since>>,
           \A p \in Runs : run'[p].pc = "adding" => run'[p] = run[p]
    PROVE  FifoParts'
<1>1. Ordered(active)'
  BY DEF FifoParts, Ordered
<1>2. AddingInv'
  BY DEF FifoParts, AddingInv, Members
<1>3. AheadInv'
  BY DEF FifoParts, AheadInv, Members
<1>4. BelowNow' /\ \A v \in Users : BelowJoin(v)'
  BY DEF FifoParts, BelowNow, BelowJoin
<1>5. SinceInv'
  BY DEF FifoParts, SinceInv
<1> QED
  BY <1>1, <1>2, <1>3, <1>4, <1>5 DEF FifoParts

(* The types that the steps below rest on.                                 *)
LEMMA FifoTypes ==
    ASSUME ShapeInv
    PROVE  /\ now \in Nat /\ active \in Seq(Entry) /\ Len(active) \in Nat
           /\ \A v \in Members(active) : v \in Users /\ Scored(active, v) \in Nat
           /\ \A v \in Users : join[v].stamp \in Nat /\ join[v].len \in Nat
           /\ ahead \in [Users -> SUBSET Users] /\ MaxSkew \in Nat
           /\ \A v \in Users : since[v] \in Nat
<1>1. active \in Seq(Entry) /\ now \in Nat /\ Len(active) \in Nat
  BY TimeAssumption DEF ShapeInv, QueueType, TimeType
<1>2. ASSUME NEW v \in Members(active) PROVE v \in Users /\ Scored(active, v) \in Nat
  <2>1. Rank(active, v) \in DOMAIN active /\ active[Rank(active, v)].user = v
    BY <1>1, RankFacts
  <2>2. active[Rank(active, v)] \in Entry
    BY <1>1, <2>1
  <2> QED
    BY <1>1, <2>1, <2>2, ScoredType DEF Entry
<1>3. \A v \in Users : join[v].stamp \in Nat /\ join[v].len \in Nat
  BY TimesFacts DEF ShapeInv, JoinType, JoinRecord
<1>4. MaxSkew \in Nat /\ \A v \in Users : since[v] \in Nat
  BY TimeAssumption DEF ShapeInv, HistoryType
<1> QED
  BY <1>1, <1>2, <1>3, <1>4 DEF ShapeInv, HistoryType

(* Time passes.                                                            *)
LEMMA FifoTick ==
    ASSUME ShapeInv, FifoParts, Tick
    PROVE  FifoParts'
<1>1. now' = now + 1 /\ UNCHANGED <<active, join, ahead, again, run, joined, since>>
  BY DEF Tick, queues, requests, history
<1>2. Ordered(active)'
  BY <1>1 DEF FifoParts, Ordered
<1>3. AddingInv'
  <2> SUFFICES ASSUME NEW p \in Runs, run[p].pc = "adding"
               PROVE  \E D \in SUBSET Members(active) :
                         D \cap Range(run[p].todo) = {} /\ run[p].stamp <= now + 1 + MaxSkew + Cardinality(D)
    BY <1>1 DEF AddingInv, FifoParts, Members
  <2>1. PICK D \in SUBSET Members(active) :
                D \cap Range(run[p].todo) = {} /\ run[p].stamp <= now + MaxSkew + Cardinality(D)
    BY DEF FifoParts, AddingInv
  <2>2. Cardinality(D) \in Nat
    BY FifoTypes, MembersFinite, FS_Subset, FS_CardinalityType
  <2> QED
    BY <2>1, <2>2, FifoTypes, RunFacts
<1>4. AheadInv'
  BY <1>1, FifoTypes DEF FifoParts, AheadInv, Members
<1>5. BelowNow'
  <2>1. ASSUME NEW u \in Members(active) \ again
        PROVE  Scored(active, u) < 2 * (now + 1 + MaxSkew + Len(active))
    BY FifoTypes DEF FifoParts, BelowNow
  <2> QED
    BY <1>1, <2>1 DEF BelowNow, Scored, Rank, Members
<1>6. \A v \in Users : BelowJoin(v)'
  BY <1>1 DEF FifoParts, BelowJoin
<1>7. SinceInv'
  BY <1>1 DEF FifoParts, SinceInv
<1> QED
  BY <1>2, <1>3, <1>4, <1>5, <1>6, <1>7 DEF FifoParts

(* A queue that only gains users leaves the shuffles under way alone.      *)
LEMMA AddingKept ==
    ASSUME AddingInv, now' = now, NEW P \in SUBSET Runs,
           Members(active) \subseteq Members(active'),
           \A p \in P : run'[p].pc = "adding" => run'[p] = run[p]
    PROVE  \A p \in P : run'[p].pc = "adding" =>
               /\ \A i, j \in DOMAIN run'[p].todo : run'[p].todo[i] = run'[p].todo[j] => i = j
               /\ \E D \in SUBSET Members(active') :
                     D \cap Range(run'[p].todo) = {} /\ run'[p].stamp <= now' + MaxSkew + Cardinality(D)
<1> SUFFICES ASSUME NEW p \in P, run'[p].pc = "adding"
             PROVE  /\ \A i, j \in DOMAIN run[p].todo : run[p].todo[i] = run[p].todo[j] => i = j
                    /\ \E D \in SUBSET Members(active') :
                          D \cap Range(run[p].todo) = {} /\ run[p].stamp <= now + MaxSkew + Cardinality(D)
  OBVIOUS
<1>1. run[p].pc = "adding" /\ p \in Runs
  OBVIOUS
<1>2. PICK D \in SUBSET Members(active) :
          D \cap Range(run[p].todo) = {} /\ run[p].stamp <= now + MaxSkew + Cardinality(D)
  BY <1>1 DEF AddingInv
<1>3. D \in SUBSET Members(active')
  OBVIOUS
<1> QED
  BY <1>1, <1>2, <1>3 DEF AddingInv

(* A join begins behind the users of the queue.                            *)
LEMMA FifoJoinCall ==
    ASSUME ShapeInv, FifoParts, NEW u \in Users, JoinCall(u)
    PROVE  FifoParts'
<1>1. /\ UNCHANGED <<now, active, run, again, joined, since>> /\ join[u].pc = "idle"
      /\ join'[u].pc = "count" /\ join'[u].stamp \in Readings
      /\ \A v \in Users : v # u => join'[v] = join[v]
  <2>1. PICK stamp \in Readings, lost \in SUBSET {"meta", "index"} :
           join' = [join EXCEPT ![u] =
              [pc |-> "count", stamp |-> stamp, len |-> 0,
               pre |-> "meta" \notin lost /\ PreSale(stamp)]]
    BY DEF JoinCall
  <2>2. join'[u] = [pc |-> "count", stamp |-> stamp, len |-> 0,
                    pre |-> "meta" \notin lost /\ PreSale(stamp)]
    BY <2>1, RestOfJoins
  <2> QED
    BY <2>1, <2>2, RestOfJoins DEF JoinCall
<1>2. /\ ahead'[u] = Settled \ {u}
      /\ \A v \in Users : v # u => ahead'[v] = ahead[v] \ {u}
  BY DEF JoinCall, Forgotten
<1>3. \A w \in ahead'[u] : w \in Members(active) \ again /\ w # u /\ join[w].pc = "idle" /\ w \in Users
  BY <1>2, FifoTypes DEF Settled
<1>4. Ordered(active)' /\ BelowNow' /\ SinceInv'
  <2>1. \A w \in Users : join'[w].pc # "tidy" => join[w].pc # "tidy"
    BY <1>1
  <2>2. \A w \in Members(active) : w \in Users
    BY FifoTypes
  <2> QED
    BY <1>1, <2>1, <2>2 DEF FifoParts, BelowNow, SinceInv
<1>8. now <= join'[u].stamp /\ join'[u].stamp <= now + MaxSkew /\ join'[u].stamp \in Nat
  BY <1>1, FifoTypes DEF Readings
<1>9. ASSUME NEW w \in ahead'[u]
      PROVE  Scored(active, w) < 2 * (join'[u].stamp + Len(active))
  <2>1. /\ w \in Settled /\ w \in Users /\ w \in Members(active)
        /\ now >= since[w] + MaxSkew
        /\ Scored(active, w) < 2 * (since[w] + MaxSkew + Len(active))
    BY <1>2, <1>3, <1>9 DEF Settled, FifoParts, SinceInv
  <2>2. Scored(active, w) \in Nat /\ since[w] \in Nat
    BY <2>1, FifoTypes
  <2> QED
    BY <1>8, <2>1, <2>2, FifoTypes
<1>5. AddingInv'
  BY <1>1, AddingKept DEF FifoParts, AddingInv
<1>6. AheadInv'
  <2> SUFFICES ASSUME NEW v \in Users
               PROVE  /\ \A w \in ahead'[v] : w \in Members(active) \ again /\ w # v /\ join'[w].pc = "idle"
                      /\ join'[v].pc = "pool" => ahead'[v] = {}
                      /\ join'[v].pc \in {"count", "queue"} => join'[v].stamp <= now + MaxSkew
                      /\ join'[v].pc = "queue" => join'[v].len <= Len(active)
    BY <1>1 DEF AheadInv
  <2>1. CASE v = u
    BY <1>1, <1>3, <1>8, <2>1, FifoTypes
  <2>2. CASE v # u
    BY <1>1, <1>2, <2>2, FifoTypes DEF FifoParts, AheadInv
  <2> QED
    BY <2>1, <2>2
<1>7. ASSUME NEW v \in Users PROVE BelowJoin(v)'
  <2>1. CASE v = u
    BY <1>1, <1>9, <2>1 DEF BelowJoin
  <2>2. CASE v # u
    BY <1>1, <1>2, <2>2 DEF FifoParts, BelowJoin
  <2> QED
    BY <2>1, <2>2
<1> QED
  BY <1>4, <1>5, <1>6, <1>7 DEF FifoParts

(* It counts the queue.                                                    *)
LEMMA FifoJoinCount ==
    ASSUME ShapeInv, FifoParts, NEW u \in Users, JoinCount(u)
    PROVE  FifoParts'
<1> DEFINE next == IF active # <<>> \/ ~join[u].pre THEN "queue" ELSE "pool"
<1>1. UNCHANGED <<now, active, run, again, ahead, joined, since>> /\ join[u].pc = "count"
  BY DEF JoinCount, queues, history
<1>2. join'[u] = [join[u] EXCEPT !.len = Len(active), !.pc = next]
  BY DEF JoinCount, ShapeInv, JoinType
<1>3. /\ join'[u].stamp = join[u].stamp /\ join'[u].len = Len(active) /\ join'[u].pc = next
      /\ \A v \in Users : v # u => join'[v] = join[v]
  BY <1>2 DEF JoinCount, ShapeInv, JoinType, JoinRecord
<1>4. next = "pool" => active = <<>> /\ Members(active) = {} /\ ahead[u] = {}
  BY DEF FifoParts, AheadInv, Members
<1>5. next \in {"pool", "queue"}
  OBVIOUS
<1> HIDE DEF next
<1>6. Ordered(active)' /\ BelowNow' /\ SinceInv'
  <2>1. \A w \in Users : join'[w].pc # "tidy" => join[w].pc # "tidy"
    BY <1>1, <1>3
  <2>2. \A w \in Members(active) : w \in Users
    BY FifoTypes
  <2> QED
    BY <1>1, <2>1, <2>2 DEF FifoParts, BelowNow, SinceInv
<1>7. AddingInv'
  BY <1>1, AddingKept DEF FifoParts, AddingInv
<1>8. AheadInv'
  <2> SUFFICES ASSUME NEW v \in Users
               PROVE  /\ \A w \in ahead[v] : w \in Members(active) \ again /\ w # v /\ join'[w].pc = "idle"
                      /\ join'[v].pc = "pool" => ahead[v] = {}
                      /\ join'[v].pc \in {"count", "queue"} => join'[v].stamp <= now + MaxSkew
                      /\ join'[v].pc = "queue" => join'[v].len <= Len(active)
    BY <1>1 DEF AheadInv
  <2>1. \A w \in ahead[v] : w \in Members(active) \ again /\ w # v /\ join'[w].pc = "idle"
    BY <1>1, <1>3, FifoTypes DEF FifoParts, AheadInv
  <2>2. CASE v = u
    BY <1>1, <1>3, <1>4, <2>1, <2>2, FifoTypes DEF FifoParts, AheadInv
  <2>3. CASE v # u
    BY <1>3, <2>1, <2>3 DEF FifoParts, AheadInv
  <2> QED
    BY <2>2, <2>3
<1>9. ASSUME NEW v \in Users PROVE BelowJoin(v)'
  <2>1. CASE v = u
    <3>1. ASSUME NEW w \in ahead[u]
          PROVE  Len(active) > 0 /\ Scored(active, w) < 2 * (join[u].stamp + Len(active))
      <4>1. active # <<>>
        BY <3>1 DEF FifoParts, AheadInv, Members
      <4> QED
        BY <1>1, <3>1, <4>1, FifoTypes DEF FifoParts, BelowJoin
    <3> QED
      BY <1>1, <1>3, <1>5, <2>1, <3>1 DEF BelowJoin
  <2>2. CASE v # u
    BY <1>1, <1>3, <2>2 DEF FifoParts, BelowJoin
  <2> QED
    BY <2>1, <2>2
<1> QED
  BY <1>6, <1>7, <1>8, <1>9 DEF FifoParts

(* It puts its user into the queue, with a score above theirs.             *)
LEMMA FifoJoinQueue ==
    ASSUME ShapeInv, FifoParts, NEW u \in Users, JoinQueue(u)
    PROVE  FifoParts'
<1> DEFINE r == join[u]
           score == TailScore(r.stamp, r.len)
           found == u \in Members(active)
<1>0. active \in Seq(Entry) /\ Ordered(active) /\ score \in Nat /\ active' \in Zadd(active, u, score)
  BY FifoTypes, JoinQueueFacts DEF JoinQueue, FifoParts
<1>1. /\ UNCHANGED <<now, run, joined, since>> /\ r.pc = "queue"
      /\ join'[u].pc = "tidy"
      /\ \A v \in Users : v # u => join'[v] = join[v]
  <2>1. [IdleJoin EXCEPT !.pc = "tidy"].pc = "tidy"
    BY DEF IdleJoin
  <2> QED
    BY <2>1, RestOfJoins DEF JoinQueue
<1>2. /\ found => again' = again \cup {u} /\ ahead' = [ahead EXCEPT ![u] = {}]
      /\ ~found => again' = again \ {u} /\ ahead' = ahead
  BY DEF JoinQueue
<1>3. /\ active' \in Seq(Entry) /\ Members(active') = Members(active) \cup {u}
      /\ Ordered(active') /\ Scored(active', u) = score
      /\ Len(active') = IF found THEN Len(active) ELSE Len(active) + 1
      /\ \A v \in Members(active) \ {u} : Scored(active', v) = Scored(active, v)
  <2> HIDE DEF score
  <2> QED
    BY <1>0, ZaddFacts, ZaddOrdered
<1>4. \A v \in Users : u \notin ahead[v]
  BY <1>1 DEF FifoParts, AheadInv
<1>5. /\ ahead'[u] = IF found THEN {} ELSE ahead[u]
      /\ \A v \in Users : v # u => ahead'[v] = ahead[v]
  BY <1>2, FifoTypes
<1>6. /\ r.stamp <= now + MaxSkew /\ r.len <= Len(active) /\ r.stamp \in Nat /\ r.len \in Nat
      /\ now \in Nat /\ Len(active) \in Nat /\ MaxSkew \in Nat
  BY <1>1, FifoTypes DEF FifoParts, AheadInv
<1>7. score = IF r.len = 0 THEN 2 * r.stamp + 1 ELSE 2 * (r.stamp + r.len)
  BY DEF TailScore
<1>8. Len(active') \in Nat /\ Len(active') >= Len(active)
  BY <1>3, <1>6
<1>9. ASSUME NEW v \in Users, NEW w \in ahead[v]
      PROVE  /\ w \in Members(active) \ again /\ w # v /\ w # u /\ w \in Users
             /\ join'[w].pc = "idle" /\ Scored(active, w) \in Nat
             /\ Scored(active', w) = Scored(active, w)
  <2>1. w \in Members(active) \ again /\ w # v /\ w # u /\ join[w].pc = "idle"
    BY <1>4 DEF FifoParts, AheadInv
  <2> QED
    BY <1>1, <1>3, <2>1, FifoTypes
<1> HIDE DEF r, score, found
<1>10. AddingInv'
  BY <1>1, <1>3, AddingKept DEF FifoParts, AddingInv
<1>11. AheadInv'
  <2> SUFFICES ASSUME NEW v \in Users
               PROVE  /\ \A w \in ahead'[v] : w \in Members(active') \ again' /\ w # v /\ join'[w].pc = "idle"
                      /\ join'[v].pc = "pool" => ahead'[v] = {}
                      /\ join'[v].pc \in {"count", "queue"} => join'[v].stamp <= now' + MaxSkew
                      /\ join'[v].pc = "queue" => join'[v].len <= Len(active')
    BY DEF AheadInv
  <2>1. \A w \in ahead'[v] : w \in Members(active') \ again' /\ w # v /\ join'[w].pc = "idle"
    BY <1>2, <1>3, <1>5, <1>9
  <2>2. CASE v = u
    BY <1>1, <2>1, <2>2
  <2>3. CASE v # u
    <3>1. /\ join[v].pc = "pool" => ahead[v] = {}
          /\ join[v].pc \in {"count", "queue"} => join[v].stamp <= now + MaxSkew
          /\ join[v].pc = "queue" => join[v].len <= Len(active)
      BY DEF FifoParts, AheadInv
    <3>2. join[v].len \in Nat
      BY FifoTypes
    <3> QED
      BY <1>1, <1>5, <1>6, <1>8, <2>1, <2>3, <3>1, <3>2
  <2> QED
    BY <2>2, <2>3
<1>12. BelowNow'
  <2>1. ASSUME NEW w \in Members(active') \ again'
        PROVE  Scored(active', w) < 2 * (now + MaxSkew + Len(active'))
    <3>1. CASE w = u
      <4>1. Len(active') = Len(active) + 1
        BY <1>2, <1>3, <2>1, <3>1
      <4>2. Scored(active', w) = score
        BY <1>3, <3>1
      <4>3. score < 2 * (now + MaxSkew + (Len(active) + 1))
        <5> DEFINE n == Len(active)
        <5>1. n \in Nat /\ r.len <= n
          BY <1>6
        <5> HIDE DEF n
        <5>2. score < 2 * (now + MaxSkew + (n + 1))
          BY <1>6, <1>7, <5>1
        <5> QED
          BY <5>2 DEF n
      <4> QED
        BY <4>1, <4>2, <4>3
    <3>2. CASE w # u
      <4>1. w \in Members(active) \ again /\ Scored(active', w) = Scored(active, w)
        BY <1>2, <1>3, <2>1, <3>2
      <4>2. Scored(active, w) < 2 * (now + MaxSkew + Len(active)) /\ Scored(active, w) \in Nat
        BY <4>1, FifoTypes DEF FifoParts, BelowNow
      <4> QED
        BY <1>6, <1>8, <4>1, <4>2
    <3> QED
      BY <3>1, <3>2
  <2> QED
    BY <1>1, <2>1 DEF BelowNow
<1>14. SinceInv'
  <2>1. ASSUME NEW w \in (joined \ again') \cap Members(active'), join'[w].pc # "tidy"
        PROVE  Scored(active', w) < 2 * (since[w] + MaxSkew + Len(active'))
    <3>1. w # u /\ w \in Users
      BY <1>1, <2>1, FifoTypes DEF ShapeInv, HistoryType
    <3>2. /\ w \in (joined \ again) \cap Members(active) /\ join[w].pc # "tidy"
          /\ Scored(active', w) = Scored(active, w)
      BY <1>1, <1>2, <1>3, <2>1, <3>1
    <3>3. Scored(active, w) < 2 * (since[w] + MaxSkew + Len(active)) /\ Scored(active, w) \in Nat
      BY <3>2, FifoTypes DEF FifoParts, SinceInv
    <3> QED
      BY <1>6, <1>8, <3>1, <3>2, <3>3, FifoTypes
  <2> QED
    BY <1>1, <2>1 DEF SinceInv
<1>13. ASSUME NEW v \in Users PROVE BelowJoin(v)'
  <2>1. ASSUME NEW w \in ahead'[v]
        PROVE  /\ join'[v].pc = "count" => Scored(active', w) < 2 * (join'[v].stamp + Len(active'))
               /\ join'[v].pc = "queue" => /\ join'[v].len > 0
                                           /\ Scored(active', w) < 2 * (join'[v].stamp + join'[v].len)
               /\ join'[v].pc \in {"idle", "tidy"} /\ v \in Members(active') =>
                     Scored(active', w) < Scored(active', v)
    <3>0. w \in ahead[v]
      BY <1>5, <2>1
    <3>1. CASE v = u
      <4>1. r.len > 0 /\ Scored(active, w) < 2 * (r.stamp + r.len)
        BY <1>1, <3>0, <3>1 DEF FifoParts, BelowJoin, r
      <4>2. Scored(active', w) < Scored(active', u)
        BY <1>3, <1>6, <1>7, <1>9, <3>0, <4>1
      <4> QED
        BY <1>1, <3>1, <4>2
    <3>2. CASE v # u
      <4>1. /\ join[v].pc = "count" => Scored(active, w) < 2 * (join[v].stamp + Len(active))
            /\ join[v].pc = "queue" => /\ join[v].len > 0
                                       /\ Scored(active, w) < 2 * (join[v].stamp + join[v].len)
            /\ join[v].pc \in {"idle", "tidy"} /\ v \in Members(active) =>
                  Scored(active, w) < Scored(active, v)
        BY <3>0 DEF FifoParts, BelowJoin
      <4>2. /\ v \in Members(active') => v \in Members(active) /\ Scored(active', v) = Scored(active, v)
            /\ join[v].stamp \in Nat /\ Scored(active', w) = Scored(active, w)
            /\ Scored(active, w) \in Nat /\ join'[v] = join[v]
        BY <1>1, <1>3, <1>9, <3>0, <3>2, FifoTypes
      <4> QED
        BY <1>6, <1>8, <4>1, <4>2
    <3> QED
      BY <3>1, <3>2
  <2> QED
    BY <2>1 DEF BelowJoin
<1> QED
  BY <1>3, <1>10, <1>11, <1>12, <1>13, <1>14 DEF FifoParts

(* It ends, or fails: nobody is sent behind a user that has left it.       *)
LEMMA FifoJoinEnds ==
    ASSUME ShapeInv, FifoParts, NEW u \in Users, JoinTidy(u) \/ JoinPool(u) \/ JoinFails(u)
    PROVE  FifoParts'
<1>1. UNCHANGED <<now, active, run, again>>
  BY DEF JoinTidy, JoinPool, JoinFails
<1>2. /\ join'[u].pc = "idle" /\ \A v \in Users : v # u => join'[v] = join[v]
  <2>1. join' = [join EXCEPT ![u] = IdleJoin] /\ IdleJoin.pc = "idle"
    BY DEF JoinTidy, JoinPool, JoinFails, IdleJoin
  <2> QED
    BY <2>1, RestOfJoins
<1>3. /\ \A v \in Users : v # u => ahead'[v] = ahead[v]
      /\ ahead'[u] # {} => join[u].pc = "tidy" /\ ahead'[u] = ahead[u]
  <2>1. CASE JoinTidy(u)
    BY <2>1 DEF JoinTidy
  <2>2. CASE JoinPool(u)
    BY <2>2 DEF JoinPool, FifoParts, AheadInv
  <2>3. CASE JoinFails(u)
    BY <2>3, FifoTypes DEF JoinFails
  <2> QED
    BY <2>1, <2>2, <2>3
<1>4. Ordered(active)' /\ BelowNow'
  BY <1>1 DEF FifoParts, BelowNow
<1>5. AddingInv'
  BY <1>1, AddingKept DEF FifoParts, AddingInv
<1>6. AheadInv'
  <2> SUFFICES ASSUME NEW v \in Users
               PROVE  /\ \A w \in ahead'[v] : w \in Members(active) \ again /\ w # v /\ join'[w].pc = "idle"
                      /\ join'[v].pc = "pool" => ahead'[v] = {}
                      /\ join'[v].pc \in {"count", "queue"} => join'[v].stamp <= now + MaxSkew
                      /\ join'[v].pc = "queue" => join'[v].len <= Len(active)
    BY <1>1 DEF AheadInv
  <2>1. \A w \in ahead'[v] : w \in ahead[v] /\ w \in Users
    BY <1>3, FifoTypes
  <2>2. \A w \in ahead'[v] : w \in Members(active) \ again /\ w # v /\ join'[w].pc = "idle"
    BY <1>2, <2>1 DEF FifoParts, AheadInv
  <2>3. CASE v = u
    BY <1>2, <2>2, <2>3
  <2>4. CASE v # u
    BY <1>2, <1>3, <2>2, <2>4 DEF FifoParts, AheadInv
  <2> QED
    BY <2>3, <2>4
<1>7. ASSUME NEW v \in Users PROVE BelowJoin(v)'
  <2>1. CASE v = u
    BY <1>1, <1>2, <1>3, <2>1 DEF FifoParts, BelowJoin
  <2>2. CASE v # u
    BY <1>1, <1>2, <1>3, <2>2 DEF FifoParts, BelowJoin
  <2> QED
    BY <2>1, <2>2
<1>8. SinceInv'
  <2>1. /\ u \in joined' => since'[u] = now
        /\ \A w \in Users : w # u => since'[w] = since[w] /\ (w \in joined' => w \in joined)
    BY DEF JoinTidy, JoinPool, JoinFails, ShapeInv, HistoryType
  <2>2. ASSUME NEW w \in (joined' \ again) \cap Members(active), join'[w].pc # "tidy"
        PROVE  Scored(active, w) < 2 * (since'[w] + MaxSkew + Len(active))
    <3>1. CASE w = u
      BY <2>1, <2>2, <3>1 DEF FifoParts, BelowNow
    <3>2. CASE w # u
      BY <1>2, <2>1, <2>2, <3>2, FifoTypes DEF FifoParts, SinceInv
    <3> QED
      BY <3>1, <3>2
  <2> QED
    BY <1>1, <2>2 DEF SinceInv
<1> QED
  BY <1>4, <1>5, <1>6, <1>7, <1>8 DEF FifoParts

(* A shuffle reads the pool: nobody twice; its scores begin at its clock.  *)
LEMMA FifoShuffleRead ==
    ASSUME ShapeInv, FifoParts, NEW p \in Runs, ShuffleRead(p)
    PROVE  FifoParts'
<1>1. UNCHANGED <<now, active, join, ahead, again, joined, since>>
  BY DEF ShuffleRead, queues, history
<1>2. CASE run' = [run EXCEPT ![p] = Shuffled(p)]
  BY <1>1, <1>2, RestOfRuns, ShuffledFacts, FifoQuiet
<1>3. ASSUME NEW order \in SetToSeqs(pool), NEW stamp \in Readings,
             run' = [run EXCEPT ![p].pc = "adding", ![p].todo = order, ![p].stamp = stamp]
      PROVE  FifoParts'
  <2>1. /\ run'[p] = [run[p] EXCEPT !.pc = "adding", !.todo = order, !.stamp = stamp]
        /\ \A q \in Runs : q # p => run'[q] = run[q]
    BY <1>3 DEF ShapeInv, RunType
  <2>2. run'[p].todo = order /\ run'[p].stamp = stamp
    BY <2>1, RunFacts DEF RunRecord
  <2>3. \A i, j \in DOMAIN order : order[i] = order[j] => i = j
    BY DEF SetToSeqs, IsInjective
  <2>4. AddingInv'
    <3>1. ASSUME NEW q \in Runs, run'[q].pc = "adding"
          PROVE  /\ \A i, j \in DOMAIN run'[q].todo : run'[q].todo[i] = run'[q].todo[j] => i = j
                 /\ \E D \in SUBSET Members(active') :
                       D \cap Range(run'[q].todo) = {} /\ run'[q].stamp <= now' + MaxSkew + Cardinality(D)
      <4>1. CASE q = p
        <5>1. {} \in SUBSET Members(active') /\ stamp <= now' + MaxSkew + Cardinality({})
          BY <1>1, FS_EmptySet, FifoTypes DEF Readings
        <5>2. {} \cap Range(order) = {}
          OBVIOUS
        <5> QED
          BY <2>2, <2>3, <4>1, <5>1, <5>2
      <4>2. CASE q # p
        <5>1. \A s \in Runs \ {p} : run'[s].pc = "adding" => run'[s] = run[s]
          BY <2>1
        <5> QED
          BY <1>1, <3>1, <4>2, <5>1, AddingKept DEF FifoParts
      <4> QED
        BY <4>1, <4>2
    <3> QED
      BY <3>1 DEF AddingInv
  <2>5. /\ Ordered(active)' /\ AheadInv' /\ BelowNow' /\ SinceInv'
        /\ \A v \in Users : BelowJoin(v)'
    BY <1>1 DEF FifoParts, AheadInv, BelowNow, SinceInv, BelowJoin
  <2> QED
    BY <2>4, <2>5 DEF FifoParts
<1> QED
  BY <1>2, <1>3 DEF ShuffleRead

(* It adds a user with a score that no later join goes below.              *)
LEMMA FifoShuffleAdd ==
    ASSUME ShapeInv, FifoParts, NEW p \in Runs, ShuffleAdd(p)
    PROVE  FifoParts'
<1> DEFINE todo == run[p].todo
           stamp == run[p].stamp
           u == Head(todo)
<1>1. /\ todo \in Seq(Users) /\ todo # <<>> /\ stamp \in Nat /\ run[p].pc = "adding"
      /\ UNCHANGED <<now, join, again, joined>>
  BY RunFacts DEF ShuffleAdd
<1>2. active \in Seq(Entry) /\ Ordered(active) /\ active' \in Zadd(active, u, 2 * stamp)
  BY FifoTypes DEF ShuffleAdd, FifoParts
<1>3. ahead' = [v \in Users |-> IF v = u THEN {} ELSE ahead[v] \ {u}]
  BY DEF ShuffleAdd
<1>4. /\ run'[p] = [run[p] EXCEPT !.todo = Tail(@), !.stamp = @ + 1]
      /\ \A q \in Runs : q # p => run'[q] = run[q]
  BY DEF ShuffleAdd, ShapeInv, RunType
<1>5. run'[p].todo = Tail(todo) /\ run'[p].stamp = stamp + 1
  BY <1>4, RunFacts DEF RunRecord
<1>6. \A i, j \in DOMAIN todo : todo[i] = todo[j] => i = j
  BY <1>1 DEF FifoParts, AddingInv
<1>7. PICK D \in SUBSET Members(active) : D \cap Range(todo) = {} /\ stamp <= now + MaxSkew + Cardinality(D)
  BY <1>1 DEF FifoParts, AddingInv
<1> HIDE DEF todo, stamp
<1>8. /\ u \in Users /\ u \in Range(todo) /\ Len(todo) \in Nat /\ Len(todo) > 0
      /\ Len(Tail(todo)) = Len(todo) - 1
      /\ \A i \in 1 .. Len(Tail(todo)) : Tail(todo)[i] = todo[i + 1]
      /\ todo[1] = u /\ Tail(todo) \in Seq(Users)
  <2>1. /\ u \in Users /\ Len(Tail(todo)) = Len(todo) - 1 /\ Tail(todo) \in Seq(Users)
        /\ \A i \in 1 .. Len(Tail(todo)) : Tail(todo)[i] = todo[i + 1]
    BY <1>1, HeadTailProperties
  <2>2. todo[1] = u /\ 1 \in DOMAIN todo
    BY <1>1
  <2> QED
    BY <1>1, <2>1, <2>2 DEF Range
<1>19. since' = [since EXCEPT ![u] = now]
  BY DEF ShuffleAdd, todo, u
<1> HIDE DEF u
<1>9. /\ active' \in Seq(Entry) /\ Members(active') = Members(active) \cup {u}
      /\ Ordered(active') /\ Scored(active', u) = 2 * stamp
      /\ Len(active') = IF u \in Members(active) THEN Len(active) ELSE Len(active) + 1
      /\ \A v \in Members(active) \ {u} : Scored(active', v) = Scored(active, v)
  <2>1. 2 * stamp \in Nat
    BY <1>1
  <2> QED
    BY <1>2, <1>8, <2>1, ZaddFacts, ZaddOrdered
<1>10. /\ now \in Nat /\ MaxSkew \in Nat
       /\ Len(active) \in Nat /\ Len(active') \in Nat /\ Len(active') >= Len(active)
  BY <1>9, FifoTypes
<1>11. u \notin D /\ D \cup {u} \subseteq Members(active')
  BY <1>7, <1>8, <1>9
<1>12. Cardinality(D) \in Nat /\ Cardinality(D \cup {u}) = Cardinality(D) + 1
  <2>1. IsFiniteSet(D)
    BY <1>2, MembersFinite, FS_Subset
  <2> QED
    BY <1>11, <2>1, FS_CardinalityType, FS_AddElement
<1>13. Cardinality(D) + 1 <= Len(active')
  <2>1. /\ IsFiniteSet(Members(active')) /\ Cardinality(Members(active')) \in Nat
        /\ Cardinality(Members(active')) <= Len(active')
    BY <1>9, MembersFinite
  <2>2. Cardinality(D \cup {u}) <= Cardinality(Members(active'))
    BY <1>11, <2>1, FS_Subset
  <2> QED
    BY <1>10, <1>12, <2>1, <2>2
<1>14. AddingInv'
  <2>1. \A i, j \in DOMAIN Tail(todo) : Tail(todo)[i] = Tail(todo)[j] => i = j
    <3> SUFFICES ASSUME NEW i \in DOMAIN Tail(todo), NEW j \in DOMAIN Tail(todo),
                        Tail(todo)[i] = Tail(todo)[j]
                 PROVE  i = j
      OBVIOUS
    <3>1. /\ i \in 1 .. Len(Tail(todo)) /\ j \in 1 .. Len(Tail(todo))
          /\ i + 1 \in DOMAIN todo /\ j + 1 \in DOMAIN todo
      BY <1>1, <1>8
    <3>2. todo[i + 1] = todo[j + 1]
      BY <1>8, <3>1
    <3>3. i + 1 = j + 1
      BY <1>6, <3>1, <3>2
    <3> QED
      BY <3>1, <3>3
  <2>2. (D \cup {u}) \cap Range(Tail(todo)) = {}
    <3> SUFFICES ASSUME NEW i \in DOMAIN Tail(todo) PROVE Tail(todo)[i] \notin D \cup {u}
      BY DEF Range
    <3>1. i \in 1 .. Len(Tail(todo)) /\ i + 1 \in DOMAIN todo /\ 1 \in DOMAIN todo /\ i + 1 # 1
      BY <1>1, <1>8
    <3>2. Tail(todo)[i] = todo[i + 1]
      BY <1>8, <3>1
    <3>3. todo[i + 1] # u
      BY <1>6, <1>8, <3>1
    <3>4. todo[i + 1] \notin D
      BY <1>7, <3>1 DEF Range
    <3> QED
      BY <3>2, <3>3, <3>4
  <2>3. stamp + 1 <= now' + MaxSkew + Cardinality(D \cup {u})
    BY <1>1, <1>7, <1>10, <1>12
  <2>4. \A s \in Runs \ {p} : run'[s].pc = "adding" => run'[s] = run[s]
    BY <1>4
  <2>5. Members(active) \subseteq Members(active') /\ Runs \ {p} \subseteq Runs
    BY <1>9
  <2>6. ASSUME NEW q \in Runs, run'[q].pc = "adding"
        PROVE  /\ \A i, j \in DOMAIN run'[q].todo : run'[q].todo[i] = run'[q].todo[j] => i = j
               /\ \E E \in SUBSET Members(active') :
                     E \cap Range(run'[q].todo) = {} /\ run'[q].stamp <= now' + MaxSkew + Cardinality(E)
    <3>1. CASE q = p
      BY <1>5, <1>11, <2>1, <2>2, <2>3, <3>1
    <3>2. CASE q # p
      BY <1>1, <2>4, <2>5, <2>6, <3>2, AddingKept DEF FifoParts
    <3> QED
      BY <3>1, <3>2
  <2> QED
    BY <2>6 DEF AddingInv
<1>15. ASSUME NEW v \in Users, NEW w \in ahead'[v]
       PROVE  /\ v # u /\ w \in ahead[v] /\ w # u /\ w # v /\ join[w].pc = "idle"
              /\ w \in Members(active) \ again /\ w \in Users
              /\ Scored(active, w) \in Nat /\ Scored(active', w) = Scored(active, w)
  <2>1. v # u /\ w \in ahead[v] /\ w # u
    BY <1>3
  <2>2. w \in Members(active) \ again /\ w # v /\ join[w].pc = "idle"
    BY <2>1 DEF FifoParts, AheadInv
  <2> QED
    BY <1>9, <2>1, <2>2, FifoTypes
<1>16. AheadInv'
  <2> SUFFICES ASSUME NEW v \in Users
               PROVE  /\ \A w \in ahead'[v] : w \in Members(active') \ again /\ w # v /\ join[w].pc = "idle"
                      /\ join[v].pc = "pool" => ahead'[v] = {}
                      /\ join[v].pc \in {"count", "queue"} => join[v].stamp <= now + MaxSkew
                      /\ join[v].pc = "queue" => join[v].len <= Len(active')
    BY <1>1 DEF AheadInv
  <2>1. \A w \in ahead'[v] : w \in Members(active') \ again /\ w # v /\ join[w].pc = "idle"
    BY <1>9, <1>15
  <2>2. /\ join[v].pc = "pool" => ahead[v] = {}
        /\ join[v].pc \in {"count", "queue"} => join[v].stamp <= now + MaxSkew
        /\ join[v].pc = "queue" => join[v].len <= Len(active)
        /\ join[v].len \in Nat
    BY FifoTypes DEF FifoParts, AheadInv
  <2>3. join[v].pc = "pool" => ahead'[v] = {}
    BY <1>3, <2>2
  <2> QED
    BY <1>10, <2>1, <2>2, <2>3
<1>17. BelowNow'
  <2>1. ASSUME NEW w \in Members(active') \ again
        PROVE  Scored(active', w) < 2 * (now + MaxSkew + Len(active'))
    <3>1. CASE w = u
      <4> DEFINE top == now + MaxSkew + Len(active')
      <4>1. stamp < top /\ top \in Nat
        BY <1>1, <1>7, <1>10, <1>12, <1>13
      <4>2. Scored(active', w) = 2 * stamp
        BY <1>9, <3>1
      <4> HIDE DEF top
      <4>3. Scored(active', w) < 2 * top
        BY <1>1, <4>1, <4>2
      <4> QED
        BY <4>3 DEF top
    <3>2. CASE w # u
      <4>1. /\ Scored(active', w) = Scored(active, w) /\ Scored(active, w) \in Nat
            /\ Scored(active, w) < 2 * (now + MaxSkew + Len(active))
        BY <1>9, <2>1, <3>2, FifoTypes DEF FifoParts, BelowNow
      <4> QED
        BY <1>10, <4>1
    <3> QED
      BY <3>1, <3>2
  <2> QED
    BY <1>1, <2>1 DEF BelowNow
<1>20. SinceInv'
  <2>1. since'[u] = now /\ \A w \in Users : w # u => since'[w] = since[w]
    BY <1>8, <1>19 DEF ShapeInv, HistoryType
  <2>2. ASSUME NEW w \in (joined \ again) \cap Members(active'), join[w].pc # "tidy"
        PROVE  Scored(active', w) < 2 * (since'[w] + MaxSkew + Len(active'))
    <3>1. CASE w = u
      BY <1>1, <1>17, <2>1, <2>2, <3>1 DEF BelowNow
    <3>2. CASE w # u
      <4>1. /\ w \in Users /\ w \in (joined \ again) \cap Members(active)
            /\ Scored(active', w) = Scored(active, w)
        BY <1>9, <2>2, <3>2, FifoTypes
      <4>2. Scored(active, w) < 2 * (since[w] + MaxSkew + Len(active)) /\ Scored(active, w) \in Nat
        BY <2>2, <4>1, FifoTypes DEF FifoParts, SinceInv
      <4> QED
        BY <1>10, <2>1, <3>2, <4>1, <4>2, FifoTypes
    <3> QED
      BY <3>1, <3>2
  <2> QED
    BY <1>1, <2>2 DEF SinceInv
<1>18. ASSUME NEW v \in Users PROVE BelowJoin(v)'
  <2>1. ASSUME NEW w \in ahead'[v]
        PROVE  /\ join[v].pc = "count" => Scored(active', w) < 2 * (join[v].stamp + Len(active'))
               /\ join[v].pc = "queue" => /\ join[v].len > 0
                                          /\ Scored(active', w) < 2 * (join[v].stamp + join[v].len)
               /\ join[v].pc \in {"idle", "tidy"} /\ v \in Members(active') =>
                     Scored(active', w) < Scored(active', v)
    <3>1. /\ join[v].pc = "count" => Scored(active, w) < 2 * (join[v].stamp + Len(active))
          /\ join[v].pc = "queue" => /\ join[v].len > 0
                                     /\ Scored(active, w) < 2 * (join[v].stamp + join[v].len)
          /\ join[v].pc \in {"idle", "tidy"} /\ v \in Members(active) =>
                Scored(active, w) < Scored(active, v)
      BY <1>15, <2>1 DEF FifoParts, BelowJoin
    <3>2. /\ v \in Members(active') => v \in Members(active) /\ Scored(active', v) = Scored(active, v)
          /\ join[v].stamp \in Nat
          /\ Scored(active', w) = Scored(active, w) /\ Scored(active, w) \in Nat
      BY <1>9, <1>15, <2>1, FifoTypes
    <3> QED
      BY <1>10, <3>1, <3>2
  <2> QED
    BY <1>1, <2>1 DEF BelowJoin
<1> QED
  BY <1>9, <1>14, <1>16, <1>17, <1>18, <1>20 DEF FifoParts

(* A pop that takes nobody changes nothing.                                *)
LEMMA PopOfNobody ==
    ASSUME ShapeInv, NEW n \in Nat, pops + Cardinality(FirstOf(n)) = 0
    PROVE  SubSeq(active, n + 1, Len(active)) = active
<1>1. active \in Seq(Entry) /\ pops \in Nat /\ Len(active) \in Nat
  BY DEF ShapeInv, QueueType, HistoryType
<1>2. IsFiniteSet(FirstOf(n)) /\ Cardinality(FirstOf(n)) \in Nat
  BY <1>1, FirstFacts
<1>3. FirstOf(n) = {}
  <2>1. Cardinality(FirstOf(n)) = 0
    BY <1>1, <1>2
  <2> QED
    BY <1>2, <2>1, FS_EmptySet
<1>4. n = 0 \/ Len(active) = 0
  <2> SUFFICES ASSUME n > 0, Len(active) > 0 PROVE FALSE
    BY <1>1
  <2>1. 1 \in 1 .. Min({n, Len(active)})
    BY <1>1, MinFacts
  <2> QED
    BY <1>3, <2>1 DEF FirstOf
<1> QED
  BY <1>1, <1>4

(* No step but a pop that takes somebody disturbs the order.               *)
LEMMA FifoByPop ==
    ASSUME ShapeInv, FifoParts, pops' = 0, NEW p \in Runs,
           Pop(p) \/ PopReplyLost(p) \/ PopOne(p)
    PROVE  FifoParts'
<1>0. pops \in Nat
  BY DEF ShapeInv, HistoryType
<1>1. UNCHANGED <<now, join, ahead, again, joined, since>>
  BY DEF Pop, PopReplyLost, PopOne
<1>2. active' = active
  <2>1. CASE Pop(p)
    BY <2>1, RunFacts, PopOfNobody DEF Pop
  <2>2. CASE PopReplyLost(p)
    <3>1. PICK n \in {0, run[p].want} : /\ active' = SubSeq(active, n + 1, Len(active))
                                        /\ pops' = pops + Cardinality(FirstOf(n))
      BY <2>2 DEF PopReplyLost
    <3> QED
      BY <3>1, RunFacts, PopOfNobody
  <2>3. CASE PopOne(p)
    BY <1>0, <2>3 DEF PopOne
  <2> QED
    BY <2>1, <2>2, <2>3
<1>3. run'[p].pc # "adding" /\ \A q \in Runs : q # p => run'[q] = run[q]
  BY RunFacts DEF Pop, PopReplyLost, PopOne, ShapeInv, RunType, RunRecord
<1> QED
  BY <1>1, <1>2, <1>3, FifoQuiet

(* Once somebody was popped, pops never is 0 again.                        *)
LEMMA PopsGrow ==
    ASSUME ShapeInv, [Next]_vars, pops' = 0
    PROVE  pops = 0
<1>0. pops \in Nat /\ active \in Seq(Entry)
  BY DEF ShapeInv, HistoryType, QueueType
<1>1. ASSUME NEW u \in Users, JoinCall(u) \/ JoinStep(u) \/ StatusRank(u) \/ StatusWatermark(u)
      PROVE  pops' = pops
  BY <1>1 DEF JoinCall, JoinStep, JoinCount, JoinQueue, JoinTidy, JoinPool, JoinFails,
              StatusRank, StatusWatermark, history
<1>2. ASSUME NEW p \in Runs, Pop(p) \/ PopReplyLost(p) \/ PopOne(p) PROVE pops = 0
  <2>1. ASSUME NEW n \in Nat, pops' = pops + Cardinality(FirstOf(n)) PROVE pops = 0
    BY <1>0, <2>1, FirstFacts
  <2> QED
    BY <1>0, <1>2, <2>1, RunFacts DEF Pop, PopReplyLost, PopOne
<1>3. ASSUME NEW p \in Runs, ShuffleRead(p) \/ ShuffleAdd(p) \/ ShuffleDrop(p)
      PROVE  pops' = pops
  BY <1>3 DEF ShuffleRead, ShuffleAdd, ShuffleDrop, history
<1>4. CASE Tick \/ UNCHANGED vars
  BY <1>4 DEF Tick, vars, history
<1> QED
  BY <1>1, <1>2, <1>3, <1>4, QuietFacts DEF Next, ShuffleStep, AdmitStep, Runs

(* Every step keeps the order, until somebody is popped.                   *)
LEMMA FifoStep == ShapeInv /\ FifoInv /\ [Next]_vars => FifoInv'
<1> SUFFICES ASSUME ShapeInv, FifoInv, [Next]_vars, pops' = 0 PROVE FifoParts'
  BY DEF FifoInv
<1>0. FifoParts
  BY PopsGrow DEF FifoInv
<1>1. ASSUME NEW u \in Users, JoinCall(u) \/ JoinStep(u) \/ StatusRank(u) \/ StatusWatermark(u)
      PROVE  FifoParts'
  <2>1. CASE StatusRank(u) \/ StatusWatermark(u)
    BY <1>0, <2>1, FifoQuiet DEF StatusRank, StatusWatermark, queues, history
  <2> QED
    BY <1>0, <1>1, <2>1, FifoJoinCall, FifoJoinCount, FifoJoinQueue, FifoJoinEnds DEF JoinStep
<1>2. ASSUME NEW p \in Runs,
             AdmitCall(p) \/ CronCall(p) \/ ShuffleStep(p) \/ AdmitStep(p) \/ RunFails(p)
      PROVE  FifoParts'
  <2>1. CASE ShuffleRead(p) \/ ShuffleAdd(p)
    BY <1>0, <2>1, FifoShuffleRead, FifoShuffleAdd
  <2>2. CASE ShuffleDrop(p)
    <3>1. run' = [run EXCEPT ![p] = [IdleRun EXCEPT !.pc = "reset"]]
      BY <2>2 DEF ShuffleDrop
    <3>2. [IdleRun EXCEPT !.pc = "reset"].pc = "reset"
      BY DEF IdleRun
    <3>3. \A q \in Runs : run'[q].pc = "adding" => run'[q] = run[q]
      BY <3>1, <3>2, RestOfRuns
    <3> QED
      BY <1>0, <2>2, <3>3, FifoQuiet DEF ShuffleDrop, history
  <2>3. CASE Pop(p) \/ PopReplyLost(p) \/ PopOne(p)
    BY <1>0, <2>3, FifoByPop
  <2>4. CASE \/ AdmitCall(p) \/ CronCall(p) \/ RunFails(p) \/ SecondSize(p)
             \/ ShuffleReset(p) \/ AdmitSize(p) \/ BucketRead(p) \/ BucketWrite(p)
             \/ GetMark(p) \/ SetMark(p)
    BY <1>0, <2>4, QuietFacts, FifoQuiet
  <2> QED
    BY <1>2, <2>1, <2>2, <2>3, <2>4 DEF ShuffleStep, AdmitStep
<1>3. CASE Tick
  BY <1>0, <1>3, FifoTick
<1>4. CASE UNCHANGED vars
  BY <1>0, <1>4, FifoQuiet DEF vars, requests, queues, history
<1> QED
  BY <1>1, <1>2, <1>3, <1>4 DEF Next, Runs

(* Before the first admission nobody stands ahead of a user whose join was *)
(* answered, or whom a shuffle put into the queue, MaxSkew or more before  *)
(* its own began: for any interleaving of joins, shuffles and admissions   *)
(* and clocks that differ by up to MaxSkew, although the length of the     *)
(* queue that a score is made of is read a command before the score is     *)
(* written.                                                                *)
THEOREM FirstComeFirstServed == Spec => []FifoUntilAdmission
<1>1. Init => FifoInv
  <2> SUFFICES ASSUME Init PROVE FifoParts
    BY DEF FifoInv
  <2>1. active = <<>> /\ Members(active) = {}
    BY DEF Init, Members
  <2>2. Ordered(active) /\ BelowNow /\ SinceInv
    BY <2>1 DEF Ordered, BelowNow, SinceInv
  <2>3. AddingInv
    BY DEF Init, AddingInv, Runs, IdleRun
  <2>4. AheadInv /\ \A v \in Users : BelowJoin(v)
    BY DEF Init, AheadInv, BelowJoin, IdleJoin
  <2> QED
    BY <2>2, <2>3, <2>4 DEF FifoParts
<1>2. Spec => []FifoInv
  BY <1>1, ShapeAlways, FifoStep, PTL DEF Spec
<1> QED
  BY <1>2, ShapeAlways, FifoSuffices, PTL

============================================================================
