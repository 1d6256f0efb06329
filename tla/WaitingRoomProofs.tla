------------------------- MODULE WaitingRoomProofs -------------------------
(***************************************************************************)
(* Proofs about WaitingRoom: for any users, admissions and scheduled runs, *)
(* any bucket, and any length of a behaviour.                              *)
(***************************************************************************)
EXTENDS WaitingRoom, Sums, SequenceTheorems

Runs == Admitters \cup Crons
Entry == [user : Users, score : Nat]

----------------------------------------------------------------------------
(* The sequence operators of the sorted set, element by element.           *)
LEMMA RemoveFacts ==
    ASSUME NEW S, NEW s \in Seq(S), NEW i \in DOMAIN s
    PROVE  /\ RemoveAt(s, i) \in Seq(S)
           /\ Len(RemoveAt(s, i)) = Len(s) - 1
           /\ \A k \in 1 .. Len(s) - 1 : RemoveAt(s, i)[k] = IF k < i THEN s[k] ELSE s[k + 1]
<1> DEFINE a == SubSeq(s, 1, i - 1)
           b == SubSeq(s, i + 1, Len(s))
<1>1. i \in 1 .. Len(s) /\ Len(s) \in Nat
  OBVIOUS
<1>2. /\ a \in Seq(S) /\ Len(a) = i - 1
      /\ \A k \in 1 .. i - 1 : a[k] = s[k]
  <2>1. \A k \in 1 .. i - 1 : s[k] \in S
    BY <1>1
  <2> QED
    BY <1>1, <2>1, SubSeqProperties
<1>3. /\ b \in Seq(S) /\ Len(b) = Len(s) - i
      /\ \A k \in 1 .. Len(s) - i : b[k] = s[i + k]
  <2>1. \A k \in i + 1 .. Len(s) : s[k] \in S
    BY <1>1
  <2> QED
    BY <1>1, <2>1, SubSeqProperties
<1>4. RemoveAt(s, i) = a \o b
  BY DEF RemoveAt
<1> HIDE DEF a, b
<1>5. /\ a \o b \in Seq(S) /\ Len(a \o b) = Len(a) + Len(b)
      /\ \A k \in 1 .. Len(a) + Len(b) :
            (a \o b)[k] = IF k <= Len(a) THEN a[k] ELSE b[k - Len(a)]
  BY <1>2, <1>3, ConcatProperties
<1>6. Len(a \o b) = Len(s) - 1
  BY <1>1, <1>2, <1>3, <1>5
<1>7. ASSUME NEW k \in 1 .. Len(s) - 1
      PROVE  (a \o b)[k] = IF k < i THEN s[k] ELSE s[k + 1]
  <2>0. k \in Int /\ 1 <= k /\ k <= Len(s) - 1
    BY <1>1
  <2>9. k \in 1 .. Len(a) + Len(b)
    BY <1>1, <1>2, <1>3, <2>0
  <2>1. (a \o b)[k] = IF k <= i - 1 THEN a[k] ELSE b[k - (i - 1)]
    <3>1. (a \o b)[k] = IF k <= Len(a) THEN a[k] ELSE b[k - Len(a)]
      BY <1>5, <2>9, Zenon
    <3>2. Len(a) = i - 1
      BY <1>2
    <3> QED
      BY <3>1, <3>2, Zenon
  <2>2. CASE k < i
    <3>1. k \in 1 .. i - 1 /\ k <= i - 1
      BY <1>1, <2>0, <2>2
    <3>2. (a \o b)[k] = a[k] /\ a[k] = s[k]
      BY <1>2, <2>1, <3>1
    <3> QED
      BY <2>2, <3>2
  <2>3. CASE k >= i
    <3>1. k - (i - 1) \in 1 .. Len(s) - i /\ i + (k - (i - 1)) = k + 1
      BY <1>1, <2>0, <2>3
    <3>2. b[k - (i - 1)] = s[k + 1]
      BY <1>3, <3>1
    <3>3. ~(k <= i - 1) /\ ~(k < i)
      BY <1>1, <2>0, <2>3
    <3> QED
      BY <2>1, <3>2, <3>3
  <2>4. k < i \/ k >= i
    BY <1>1, <2>0
  <2> QED
    BY <2>2, <2>3, <2>4, Zenon
<1> QED
  BY <1>4, <1>5, <1>6, <1>7

(* Inserting an entry moves those behind it up by one.                     *)
LEMMA InsertFacts ==
    ASSUME NEW S, NEW s \in Seq(S), NEW i \in 1 .. Len(s) + 1, NEW e \in S
    PROVE  /\ InsertAt(s, i, e) \in Seq(S)
           /\ Len(InsertAt(s, i, e)) = Len(s) + 1
           /\ \A k \in 1 .. Len(s) + 1 :
                 InsertAt(s, i, e)[k] = IF k < i THEN s[k] ELSE IF k = i THEN e ELSE s[k - 1]
<1> DEFINE a == SubSeq(s, 1, i - 1)
           b == SubSeq(s, i, Len(s))
           c == a \o <<e>>
<1>1. i \in Nat \ {0} /\ i - 1 <= Len(s) /\ Len(s) \in Nat
  OBVIOUS
<1>2. /\ a \in Seq(S) /\ Len(a) = i - 1
      /\ \A k \in 1 .. i - 1 : a[k] = s[k]
  <2>1. \A k \in 1 .. i - 1 : s[k] \in S
    BY <1>1
  <2> QED
    BY <1>1, <2>1, SubSeqProperties
<1>3. /\ b \in Seq(S) /\ Len(b) = Len(s) - i + 1
      /\ \A k \in 1 .. Len(s) - i + 1 : b[k] = s[i + k - 1]
  <2>1. \A k \in i .. Len(s) : s[k] \in S
    BY <1>1
  <2> QED
    BY <1>1, <2>1, SubSeqProperties
<1>4. InsertAt(s, i, e) = c \o b
  BY DEF InsertAt
<1>5. /\ c \in Seq(S) /\ Len(c) = i
      /\ \A k \in 1 .. i : c[k] = IF k < i THEN a[k] ELSE e
  <2> HIDE DEF a
  <2>1. <<e>> \in Seq(S) /\ Len(<<e>>) = 1 /\ <<e>>[1] = e
    OBVIOUS
  <2> QED
    BY <1>1, <1>2, <2>1, ConcatProperties
<1> HIDE DEF a, b, c
<1>6. /\ c \o b \in Seq(S) /\ Len(c \o b) = Len(c) + Len(b)
      /\ \A k \in 1 .. Len(c) + Len(b) :
            (c \o b)[k] = IF k <= Len(c) THEN c[k] ELSE b[k - Len(c)]
  BY <1>3, <1>5, ConcatProperties
<1>7. Len(c \o b) = Len(s) + 1
  BY <1>1, <1>3, <1>5, <1>6
<1>8. ASSUME NEW k \in 1 .. Len(s) + 1
      PROVE  (c \o b)[k] = IF k < i THEN s[k] ELSE IF k = i THEN e ELSE s[k - 1]
  <2>1. (c \o b)[k] = IF k <= i THEN c[k] ELSE b[k - i]
    BY <1>1, <1>3, <1>5, <1>6
  <2>2. CASE k < i
    <3>1. k \in 1 .. i - 1 /\ k \in 1 .. i /\ k <= i
      BY <1>1, <2>2
    <3> QED
      BY <1>2, <1>5, <2>1, <2>2, <3>1
  <2>4. CASE k = i
    <3>1. k \in 1 .. i /\ k <= i /\ ~(k < i)
      BY <1>1, <2>4
    <3> QED
      BY <1>5, <2>1, <2>4, <3>1
  <2>3. CASE k > i
    <3>1. k - i \in 1 .. Len(s) - i + 1 /\ i + (k - i) - 1 = k - 1
      BY <1>1, <2>3
    <3>2. b[k - i] = s[k - 1]
      BY <1>3, <3>1
    <3>3. ~(k <= i) /\ ~(k < i) /\ k # i
      BY <1>1, <2>3
    <3> QED
      BY <2>1, <3>2, <3>3
  <2>5. k < i \/ k = i \/ k > i
    BY <1>1
  <2> QED
    BY <2>2, <2>3, <2>4, <2>5, Zenon
<1> QED
  BY <1>4, <1>6, <1>7, <1>8

(* A member's rank is an entry of that user.                               *)
LEMMA RankFacts ==
    ASSUME NEW q \in Seq(Entry), NEW u \in Members(q)
    PROVE  Rank(q, u) \in DOMAIN q /\ q[Rank(q, u)].user = u
  BY DEF Members, Rank

(* What is left of a sorted set without one user.                          *)
Without(q, u) == IF u \in Members(q) THEN RemoveAt(q, Rank(q, u)) ELSE q

(* It has the other users.                                                 *)
LEMMA WithoutFacts ==
    ASSUME NEW q \in Seq(Entry), NEW u
    PROVE  /\ Without(q, u) \in Seq(Entry)
           /\ Members(Without(q, u)) \subseteq Members(q)
           /\ Members(q) \ {u} \subseteq Members(Without(q, u))
<1>1. CASE u \notin Members(q)
  BY <1>1 DEF Without
<1>2. CASE u \in Members(q)
  <2> DEFINE i == Rank(q, u)
             r == RemoveAt(q, i)
  <2>1. i \in DOMAIN q /\ q[i].user = u
    BY <1>2, RankFacts
  <2>2. /\ r \in Seq(Entry) /\ Len(r) = Len(q) - 1
        /\ \A k \in 1 .. Len(q) - 1 : r[k] = IF k < i THEN q[k] ELSE q[k + 1]
    <3> HIDE DEF i
    <3> QED
      BY <2>1, RemoveFacts
  <2> HIDE DEF i, r
  <2>3. Members(r) \subseteq Members(q)
    BY <2>1, <2>2 DEF Members
  <2>4. ASSUME NEW v \in Members(q), v # u PROVE v \in Members(r)
    <3>1. PICK k \in DOMAIN q : q[k].user = v
      BY DEF Members
    <3>2. CASE k < i
      <4>1. k \in DOMAIN r /\ r[k] = q[k]
        BY <2>1, <2>2, <3>2
      <4> QED
        BY <3>1, <4>1 DEF Members
    <3>3. CASE k > i
      <4>1. k - 1 \in DOMAIN r /\ r[k - 1] = q[k]
        BY <2>1, <2>2, <3>3
      <4> QED
        BY <3>1, <4>1 DEF Members
    <3> QED
      BY <2>1, <2>4, <3>1, <3>2, <3>3
  <2> QED
    BY <1>2, <2>2, <2>3, <2>4 DEF Without, i, r
<1> QED
  BY <1>1, <1>2

(* ZADD adds the user and drops nobody.                                    *)
LEMMA ZaddFacts ==
    ASSUME NEW q \in Seq(Entry), NEW u \in Users, NEW score \in Nat,
           NEW q2 \in Zadd(q, u, score)
    PROVE  q2 \in Seq(Entry) /\ Members(q2) = Members(q) \cup {u}
<1> DEFINE r == Without(q, u)
           e == [user |-> u, score |-> score]
<1>1. r \in Seq(Entry) /\ Members(r) \subseteq Members(q) /\ Members(q) \ {u} \subseteq Members(r)
  BY WithoutFacts
<1>2. PICK i \in 1 .. Len(r) + 1 : q2 = InsertAt(r, i, e)
  BY DEF Zadd, Without
<1>3. e \in Entry /\ e.user = u
  BY DEF Entry
<1> HIDE DEF r, e
<1>4. /\ q2 \in Seq(Entry) /\ Len(q2) = Len(r) + 1
      /\ \A k \in 1 .. Len(r) + 1 :
            q2[k] = IF k < i THEN r[k] ELSE IF k = i THEN e ELSE r[k - 1]
  <2> DEFINE E == Entry
  <2>1. r \in Seq(E) /\ e \in E
    BY <1>1, <1>3
  <2> HIDE DEF E
  <2>2. /\ InsertAt(r, i, e) \in Seq(E) /\ Len(InsertAt(r, i, e)) = Len(r) + 1
        /\ \A k \in 1 .. Len(r) + 1 :
              InsertAt(r, i, e)[k] = IF k < i THEN r[k] ELSE IF k = i THEN e ELSE r[k - 1]
    BY <2>1, InsertFacts
  <2> QED
    BY <1>2, <2>2 DEF E
<1>5. ASSUME NEW v \in Members(q2) PROVE v \in Members(r) \cup {u}
  <2>1. PICK k \in 1 .. Len(r) + 1 : q2[k].user = v
    BY <1>1, <1>4 DEF Members
  <2>2. k < i => k \in DOMAIN r /\ q2[k] = r[k]
    BY <1>1, <1>4
  <2>3. k > i => k - 1 \in DOMAIN r /\ q2[k] = r[k - 1]
    BY <1>1, <1>4
  <2> QED
    BY <1>3, <1>4, <2>1, <2>2, <2>3 DEF Members
<1>6. u \in Members(q2)
  BY <1>1, <1>3, <1>4 DEF Members
<1>7. ASSUME NEW v \in Members(r) PROVE v \in Members(q2)
  <2>1. PICK k \in DOMAIN r : r[k].user = v
    BY DEF Members
  <2>2. CASE k < i
    <3>1. k \in DOMAIN q2 /\ q2[k] = r[k]
      BY <1>1, <1>4, <2>1, <2>2
    <3> QED
      BY <2>1, <3>1 DEF Members
  <2>3. CASE k >= i
    <3>1. k + 1 \in DOMAIN q2 /\ q2[k + 1] = r[k]
      BY <1>1, <1>4, <2>1, <2>3
    <3> QED
      BY <2>1, <3>1 DEF Members
  <2> QED
    BY <1>1, <2>1, <2>2, <2>3
<1>8. u \in Members(q) \/ u \notin Members(q)
  OBVIOUS
<1> QED
  BY <1>1, <1>4, <1>5, <1>6, <1>7

(* The smaller of two numbers.                                             *)
LEMMA MinFacts ==
    ASSUME NEW a \in Int, NEW b \in Int
    PROVE  Min({a, b}) = IF a <= b THEN a ELSE b
<1> DEFINE m == IF a <= b THEN a ELSE b
<1>1. m \in {a, b} /\ \A y \in {a, b} : m <= y
  OBVIOUS
<1>2. \A x \in {a, b} : (\A y \in {a, b} : x <= y) => x = m
  OBVIOUS
<1> QED
  BY <1>1, <1>2 DEF Min

(* The larger of two numbers.                                              *)
LEMMA MaxFacts ==
    ASSUME NEW a \in Int, NEW b \in Int
    PROVE  Max({a, b}) = IF a >= b THEN a ELSE b
<1> DEFINE m == IF a >= b THEN a ELSE b
<1>1. m \in {a, b} /\ \A y \in {a, b} : m >= y
  OBVIOUS
<1>2. \A x \in {a, b} : (\A y \in {a, b} : x >= y) => x = m
  OBVIOUS
<1> QED
  BY <1>1, <1>2 DEF Max

(* Taking users from the front splits the members.                         *)
LEMMA PopFacts ==
    ASSUME active \in Seq(Entry), NEW n \in Nat
    PROVE  /\ SubSeq(active, n + 1, Len(active)) \in Seq(Entry)
           /\ Members(active) = Members(SubSeq(active, n + 1, Len(active))) \cup FirstOf(n)
           /\ FirstOf(n) \subseteq Users
<1> DEFINE r == SubSeq(active, n + 1, Len(active))
           m == IF n <= Len(active) THEN n ELSE Len(active)
<1>1. Len(active) \in Nat
  OBVIOUS
<1>2. /\ r \in Seq(Entry)
      /\ Len(r) = IF n + 1 <= Len(active) THEN Len(active) - n ELSE 0
      /\ \A k \in 1 .. Len(active) - n : r[k] = active[n + k]
  <2>1. \A k \in n + 1 .. Len(active) : active[k] \in Entry
    BY <1>1
  <2> HIDE DEF Entry
  <2> QED
    BY <1>1, <2>1, SubSeqProperties
<1>3. FirstOf(n) = {active[k].user : k \in 1 .. m}
  BY <1>1, MinFacts DEF FirstOf
<1> HIDE DEF r
<1>4. FirstOf(n) \subseteq Members(active)
  BY <1>1, <1>3 DEF Members
<1>5. Members(r) \subseteq Members(active)
  <2>1. ASSUME NEW v \in Members(r) PROVE v \in Members(active)
    <3>1. PICK k \in DOMAIN r : r[k].user = v
      BY DEF Members
    <3>2. k \in 1 .. Len(active) - n
      BY <1>1, <1>2, <3>1
    <3>3. n + k \in DOMAIN active /\ active[n + k].user = v
      BY <1>1, <1>2, <3>1, <3>2
    <3> QED
      BY <3>3 DEF Members
  <2> QED
    BY <2>1
<1>6. ASSUME NEW v \in Members(active) PROVE v \in Members(r) \cup FirstOf(n)
  <2>1. PICK k \in DOMAIN active : active[k].user = v
    BY DEF Members
  <2>2. CASE k <= m
    BY <1>1, <1>3, <2>1, <2>2
  <2>3. CASE k > m
    <3>1. k - n \in DOMAIN r /\ r[k - n] = active[k]
      BY <1>1, <1>2, <2>1, <2>3
    <3> QED
      BY <2>1, <3>1 DEF Members
  <2> QED
    BY <1>1, <2>1, <2>2, <2>3
<1>7. Members(active) \subseteq Users
  <2>1. \A k \in DOMAIN active : active[k] \in Entry
    OBVIOUS
  <2> QED
    BY <2>1 DEF Members, Entry
<1> QED
  BY <1>2, <1>4, <1>5, <1>6, <1>7 DEF r

(* The order of a shuffle is one of the users of the pool.                 *)
LEMMA OrderFacts ==
    ASSUME NEW S, IsFiniteSet(S), NEW order \in SetToSeqs(S)
    PROVE  order \in Seq(S) /\ Range(order) = S
<1> DEFINE n == Cardinality(S)
<1>1. n \in Nat
  BY FS_CardinalityType
<1>2. order \in Injection(1 .. n, S)
  BY DEF SetToSeqs, Injection, IsInjective
<1>3. Cardinality(1 .. n) = n
  BY <1>1, FS_Interval
<1>4. order \in Surjection(1 .. n, S)
  <2> HIDE DEF n
  <2> QED
    BY <1>2, <1>3, FS_Injection DEF n
<1> QED
  BY <1>1, <1>4 DEF Surjection, Range

(* The times that requests can read.                                       *)
LEMMA TimesFacts ==
    /\ Times = 0 .. MaxTime + MaxSkew /\ MaxTime + MaxSkew \in Nat /\ Times \subseteq Nat
    /\ 0 \in Times /\ \A t \in 0 .. MaxTime : t .. t + MaxSkew \subseteq Times
    /\ \A t1, t2 \in Times : t1 .. t2 \subseteq Times
  BY TimeAssumption DEF Times

----------------------------------------------------------------------------
(* The parts of the shape.                                                 *)
JoinRecord == [pc : {"idle", "count", "queue", "tidy", "pool"}, stamp : Times, len : Nat,
               pre : BOOLEAN]
RunRecord == [pc : RunStates, todo : Seq(Users), stamp : Nat, want : 0 .. BatchMax,
              seen : Buckets, got : SUBSET Users, mark : Nat]

TimeType == now \in 0 .. MaxTime /\ bucket \in Buckets
QueueType ==
    /\ pool \subseteq Users /\ IsFiniteSet(pool) /\ indexed \in BOOLEAN
    /\ active \in Seq(Entry) /\ watermark \in Nat
JoinType == join \in [Users -> JoinRecord] /\ joins \in 0 .. MaxJoins
PollType ==
    /\ poll \in [Users -> Nat \cup {None}]
    /\ \A u \in Users : poll[u] # None => poll[u] > 0
RunType == run \in [Runs -> RunRecord] /\ faults \in 0 .. MaxFaults
HistoryType ==
    /\ joined \subseteq Users /\ taken \subseteq Users /\ strayed \subseteq Users
    /\ pops \in Nat /\ ahead \in [Users -> SUBSET Users] /\ again \subseteq Users
    /\ since \in [Users -> 0 .. MaxTime]
    /\ spent \in [Times -> Nat] /\ calm \in Nat /\ polled \subseteq Users

(* The bucket is asked with a time that was read; a run has taken users    *)
(* only once it popped.                                                    *)
RunInv ==
    \A p \in Runs :
        /\ run[p].pc \in {"read", "write"} => run[p].stamp <= now + MaxSkew
        /\ run[p].pc \notin {"popone", "getmark", "setmark"} => run[p].got = {}
        /\ IsFiniteSet(run[p].got)

ShapeInv == TimeType /\ QueueType /\ JoinType /\ PollType /\ RunType /\ RunInv /\ HistoryType

(* The shape is the type invariant, and a little more.                     *)
LEMMA ShapeIsTypeOK == ShapeInv => TypeOK
  BY DEF ShapeInv, TypeOK, TimeType, QueueType, JoinType, PollType, RunType, HistoryType,
         Entry, Runs, JoinRecord, RunRecord

(* Nothing in progress is a legal record.                                  *)
LEMMA IdleFacts == IdleJoin \in JoinRecord /\ IdleRun \in RunRecord
<1>1. <<>> \in Seq(Users) /\ 0 \in 0 .. BatchMax /\ 0 \in Times
  BY BucketAssumption, TimesFacts
<1> QED
  BY <1>1 DEF IdleJoin, IdleRun, JoinRecord, RunRecord, RunStates, Buckets

(* The shape holds at the start.                                           *)
LEMMA ShapeInit == Init => ShapeInv
<1> SUFFICES ASSUME Init PROVE ShapeInv
  OBVIOUS
<1>1. /\ 0 \in 0 .. MaxTime /\ 0 \in 0 .. MaxJoins /\ 0 \in 0 .. MaxFaults
      /\ active \in Seq(Entry) /\ IsFiniteSet(pool)
  BY TimeAssumption, FS_EmptySet DEF Init
<1>2. TimeType /\ QueueType
  BY <1>1 DEF Init, TimeType, QueueType, Buckets
<1>3. JoinType /\ PollType
  BY <1>1, IdleFacts DEF Init, JoinType, PollType
<1>4. RunType
  BY <1>1, IdleFacts DEF Init, RunType, Runs
<1>5. RunInv
  BY FS_EmptySet DEF Init, RunInv, Runs, IdleRun
<1>6. HistoryType
  BY <1>1 DEF Init, HistoryType
<1> QED
  BY <1>2, <1>3, <1>4, <1>5, <1>6 DEF ShapeInv

(* What the fields of a run are.                                           *)
LEMMA RunFacts ==
    ASSUME ShapeInv, NEW p \in Runs
    PROVE  /\ run[p] \in RunRecord /\ run[p].todo \in Seq(Users) /\ run[p].stamp \in Nat
           /\ run[p].want \in 0 .. BatchMax /\ run[p].want \in Nat
           /\ run[p].seen \in Buckets /\ run[p].got \subseteq Users /\ run[p].mark \in Nat
  BY BucketAssumption DEF ShapeInv, RunType, RunRecord

(* A run that is done with the shuffle goes on, or ends.                   *)
LEMMA ShuffledFacts ==
    ASSUME NEW p \in Runs
    PROVE  /\ Shuffled(p) \in RunRecord /\ Shuffled(p).got = {}
           /\ Shuffled(p).pc \in {"idle", "size"}
<1>1. /\ [IdleRun EXCEPT !.pc = "size"] \in RunRecord
      /\ [IdleRun EXCEPT !.pc = "size"].got = {}
      /\ [IdleRun EXCEPT !.pc = "size"].pc = "size"
      /\ IdleRun.got = {} /\ IdleRun.pc = "idle"
  BY IdleFacts DEF RunRecord, RunStates, IdleRun
<1> QED
  BY <1>1, IdleFacts DEF Shuffled

(* The users at the front are no more than were asked for.                 *)
LEMMA FirstFacts ==
    ASSUME active \in Seq(Entry), NEW n \in Nat
    PROVE  /\ IsFiniteSet(FirstOf(n)) /\ Cardinality(FirstOf(n)) \in Nat
           /\ Cardinality(FirstOf(n)) <= n
<1> DEFINE m == IF n <= Len(active) THEN n ELSE Len(active)
           f == [i \in 1 .. m |-> active[i].user]
<1>1. m \in Nat /\ m <= n
  OBVIOUS
<1>2. FirstOf(n) = {active[k].user : k \in 1 .. m}
  BY MinFacts DEF FirstOf
<1>3. f \in Surjection(1 .. m, FirstOf(n))
  BY <1>2 DEF Surjection
<1>4. IsFiniteSet(1 .. m) /\ Cardinality(1 .. m) = m
  BY <1>1, FS_Interval
<1> HIDE DEF m, f
<1>5. IsFiniteSet(FirstOf(n)) /\ Cardinality(FirstOf(n)) <= m
  BY <1>3, <1>4, FS_Surjection
<1>6. Cardinality(FirstOf(n)) \in Nat
  BY <1>5, FS_CardinalityType
<1> QED
  BY <1>1, <1>5, <1>6

(* The bucket that an update starts from, and what it holds then.          *)
Found(r) == IF r.seen = None THEN [tokens |-> Capacity, last |-> r.stamp] ELSE r.seen

(* A refill fills the bucket up to its size, and at its rate.              *)
LEMMA RefilledFacts ==
    ASSUME NEW s \in [tokens : 0 .. Capacity, last : Times], NEW t \in Nat
    PROVE  /\ Refilled(s, t) \in 0 .. Capacity
           /\ t >= s.last => Refilled(s, t) <= s.tokens + Refill * (t - s.last)
<1> DEFINE gap == Max({0, t - s.last})
<1>1. /\ s.tokens \in Nat /\ s.last \in Nat /\ Capacity \in Nat /\ Refill \in Nat
      /\ s.tokens <= Capacity
  BY BucketAssumption, TimesFacts
<1>2. gap = IF 0 >= t - s.last THEN 0 ELSE t - s.last
  BY <1>1, MaxFacts
<1>3. gap \in Nat /\ (t >= s.last => gap = t - s.last)
  BY <1>1, <1>2
<1> HIDE DEF gap
<1>4. Refill * gap \in Nat
  BY <1>1, <1>3
<1>5. Refilled(s, t) = Min({Capacity, s.tokens + Refill * gap})
  BY DEF Refilled, gap
<1>6. Refilled(s, t) = IF Capacity <= s.tokens + Refill * gap THEN Capacity
                       ELSE s.tokens + Refill * gap
  <2> DEFINE gained == Refill * gap
  <2> HIDE DEF gained
  <2>1. gained \in Nat /\ Refilled(s, t) = Min({Capacity, s.tokens + gained})
    BY <1>4, <1>5 DEF gained
  <2>2. Refilled(s, t) = IF Capacity <= s.tokens + gained THEN Capacity ELSE s.tokens + gained
    BY <1>1, <2>1, MinFacts
  <2> QED
    BY <2>2 DEF gained
<1> QED
  BY <1>1, <1>3, <1>4, <1>6

(* An update of the bucket starts from a bucket and leaves one.            *)
LEMMA WriteFacts ==
    ASSUME ShapeInv, NEW p \in Runs, BucketWrite(p)
    PROVE  /\ run[p].stamp \in Times /\ run[p].want \in Nat
           /\ Found(run[p]) \in [tokens : 0 .. Capacity, last : Times]
           /\ bucket' \in Buckets \ {None}
<1> DEFINE r == run[p]
           s == Found(r)
           tokens == Refilled(s, r.stamp)
<1>1. r.stamp \in Times /\ r.want \in Nat
  BY RunFacts, TimesFacts, TimeAssumption DEF BucketWrite, ShapeInv, RunInv, TimeType
<1>2. s \in [tokens : 0 .. Capacity, last : Times]
  BY <1>1, RunFacts, BucketAssumption DEF Found, Buckets
<1> HIDE DEF s
<1>3. tokens \in 0 .. Capacity
  BY <1>1, <1>2, TimesFacts, RefilledFacts
<1>4. \/ bucket' = [tokens |-> tokens, last |-> r.stamp]
      \/ tokens >= r.want /\ bucket' = [tokens |-> tokens - r.want, last |-> r.stamp]
  BY DEF BucketWrite, NewBucket, Allowed, s, Found
<1>5. bucket' \in [tokens : 0 .. Capacity, last : Times]
  <2> HIDE DEF tokens, r
  <2> QED
    BY <1>1, <1>3, <1>4, BucketAssumption
<1>6. bucket' # None
  BY <1>5, NoneAssumption, BucketAssumption, TimesFacts
<1> QED
  BY <1>1, <1>2, <1>5, <1>6 DEF Buckets, s

(* The larger of three numbers is none smaller.                            *)
LEMMA MaxOfThree ==
    ASSUME NEW a \in Nat, NEW b \in Nat, NEW c \in Nat
    PROVE  /\ Max({a, b} \cup {c}) \in Nat /\ a <= Max({a, b} \cup {c})
           /\ b <= Max({a, b} \cup {c}) /\ c <= Max({a, b} \cup {c})
<1> DEFINE ab == IF a >= b THEN a ELSE b
           m == IF ab >= c THEN ab ELSE c
           S == {a, b} \cup {c}
<1>1. m \in S /\ \A y \in S : m >= y
  OBVIOUS
<1>2. Max(S) \in S /\ \A y \in S : Max(S) >= y
  <2> HIDE DEF m, S
  <2> QED
    BY <1>1 DEF Max
<1> QED
  BY <1>2

(* An update that was one step leaves the calm time; a trouble puts it off *)
(* beyond the times it was about.                                          *)
LEMMA TroubledFacts ==
    ASSUME ShapeInv, NEW p \in Runs, BucketWrite(p)
    PROVE  /\ calm \in Nat /\ calm' \in Nat
           /\ bucket = run[p].seen /\ Found(run[p]).last <= run[p].stamp => calm' = calm
           /\ ~(bucket = run[p].seen /\ Found(run[p]).last <= run[p].stamp) =>
                 /\ calm <= calm' /\ run[p].stamp < calm'
                 /\ bucket # None => bucket.last < calm'
<1>1. calm \in Nat /\ run[p].stamp \in Nat /\ run[p].stamp + 1 \in Nat
  BY RunFacts DEF ShapeInv, HistoryType
<1>2. calm' = Troubled(run[p], Found(run[p]))
  BY DEF BucketWrite, Found
<1>3. CASE bucket = run[p].seen /\ Found(run[p]).last <= run[p].stamp
  BY <1>1, <1>2, <1>3 DEF Troubled
<1>4. CASE ~(bucket = run[p].seen /\ Found(run[p]).last <= run[p].stamp)
  <2>1. CASE bucket = None
    <3>1. calm' = Max({calm, run[p].stamp + 1})
      BY <1>2, <1>4, <2>1 DEF Troubled
    <3>2. calm' = IF calm >= run[p].stamp + 1 THEN calm ELSE run[p].stamp + 1
      BY <1>1, <3>1, MaxFacts
    <3> QED
      BY <1>1, <1>4, <2>1, <3>2
  <2>2. CASE bucket # None
    <3>1. bucket.last \in Nat
      BY <2>2, TimesFacts DEF ShapeInv, TimeType, Buckets
    <3>2. calm' = Max({calm, run[p].stamp + 1} \cup {bucket.last + 1})
      BY <1>2, <1>4, <2>2 DEF Troubled
    <3>3. /\ calm' \in Nat /\ calm <= calm' /\ run[p].stamp + 1 <= calm'
          /\ bucket.last + 1 <= calm'
      <4> DEFINE b == run[p].stamp + 1
                 c == bucket.last + 1
      <4>1. b \in Nat /\ c \in Nat /\ calm' = Max({calm, b} \cup {c})
        BY <1>1, <3>1, <3>2
      <4> HIDE DEF b, c
      <4>2. calm' \in Nat /\ calm <= calm' /\ b <= calm' /\ c <= calm'
        BY <1>1, <4>1, MaxOfThree
      <4> QED
        BY <4>2 DEF b, c
    <3> QED
      BY <1>1, <1>4, <3>1, <3>3
  <2> QED
    BY <2>1, <2>2
<1> QED
  BY <1>3, <1>4

(* The size that is read first leads to the other, to the admission, or to *)
(* the end.                                                                *)
LEMMA FirstSizeFacts ==
    ASSUME ShapeInv, NEW p \in Runs, run[p].pc = "idle", FirstSize(p)
    PROVE  /\ run' \in [Runs -> RunRecord] /\ \A q \in Runs : q # p => run'[q] = run[q]
           /\ run'[p].pc \in {"idle", "size", "cardqueue", "cardpool"}
           /\ run'[p].got = {} /\ IsFiniteSet(run'[p].got)
<1>1. PICK r \in RunRecord :
          /\ run' = [run EXCEPT ![p] = r]
          /\ r.pc \in {"idle", "size", "cardqueue", "cardpool"} /\ r.got = {}
  <2>1. CASE run' = [run EXCEPT ![p] = Shuffled(p)]
    BY <2>1, ShuffledFacts
  <2>2. ASSUME NEW s \in {"cardqueue", "cardpool"}, run' = [run EXCEPT ![p].pc = s]
        PROVE  \E r \in RunRecord :
                  /\ run' = [run EXCEPT ![p] = r]
                  /\ r.pc \in {"idle", "size", "cardqueue", "cardpool"} /\ r.got = {}
    <3> DEFINE r == [run[p] EXCEPT !.pc = s]
    <3>1. r \in RunRecord /\ r.pc = s /\ r.got = run[p].got
      BY RunFacts DEF RunRecord, RunStates
    <3>2. run' = [run EXCEPT ![p] = r]
      BY <2>2
    <3>3. run[p].got = {}
      BY DEF ShapeInv, RunInv
    <3> HIDE DEF r
    <3> QED
      BY <3>1, <3>2, <3>3
  <2> QED
    BY <2>1, <2>2 DEF FirstSize
<1>2. run'[p] = r /\ \A q \in Runs : q # p => run'[q] = run[q]
  BY <1>1 DEF ShapeInv, RunType
<1> QED
  BY <1>1, <1>2, FS_EmptySet DEF ShapeInv, RunType

(* The other size decides.                                                 *)
LEMMA SecondSizeFacts ==
    ASSUME ShapeInv, NEW p \in Runs, SecondSize(p)
    PROVE  /\ run' \in [Runs -> RunRecord] /\ \A q \in Runs : q # p => run'[q] = run[q]
           /\ run'[p].pc \in {"idle", "size", "range"}
           /\ run'[p].got = {} /\ IsFiniteSet(run'[p].got)
<1> DEFINE range == [IdleRun EXCEPT !.pc = "range"]
<1>1. range \in RunRecord /\ range.pc = "range" /\ range.got = {}
  BY IdleFacts DEF RunRecord, RunStates, IdleRun
<1> HIDE DEF range
<1>2. PICK r \in {range, Shuffled(p)} : run' = [run EXCEPT ![p] = r]
  BY DEF SecondSize, range
<1>3. run'[p] = r /\ \A q \in Runs : q # p => run'[q] = run[q]
  BY <1>2 DEF ShapeInv, RunType
<1> QED
  BY <1>1, <1>2, <1>3, ShuffledFacts, FS_EmptySet DEF ShapeInv, RunType

(* JoinCall keeps the shape.                                               *)
LEMMA ShapeJoinCall ==
    ASSUME ShapeInv, NEW u \in Users, JoinCall(u)
    PROVE  ShapeInv'
<1>0. PICK stamp \in Readings, lost \in SUBSET {"meta", "index"} :
          /\ faults' = faults + Cardinality(lost) /\ faults' <= MaxFaults
          /\ indexed' = (indexed \/ "index" \notin lost)
          /\ join' = [join EXCEPT ![u] =
                [pc |-> "count", stamp |-> stamp, len |-> 0,
                 pre |-> "meta" \notin lost /\ PreSale(stamp)]]
  BY DEF JoinCall
<1>1. TimeType'
  BY DEF JoinCall, ShapeInv, TimeType, Buckets
<1>2. QueueType'
  BY <1>0 DEF JoinCall, ShapeInv, QueueType
<1>3. JoinType'
  <2>1. stamp \in Times
    BY TimesFacts DEF Readings, ShapeInv, TimeType
  <2>2. [pc |-> "count", stamp |-> stamp, len |-> 0,
         pre |-> "meta" \notin lost /\ PreSale(stamp)] \in JoinRecord
    BY <2>1 DEF JoinRecord, PreSale
  <2> QED
    BY <1>0, <2>2, TimeAssumption DEF JoinCall, ShapeInv, JoinType
<1>4. PollType'
  BY DEF JoinCall, ShapeInv, PollType
<1>5. RunType'
  <2>1. Cardinality(lost) \in Nat
    <3>1. IsFiniteSet({"meta", "index"})
      <4>1. IsFiniteSet({} \cup {"meta"} \cup {"index"})
        BY FS_EmptySet, FS_AddElement
      <4>2. {} \cup {"meta"} \cup {"index"} = {"meta", "index"}
        OBVIOUS
      <4> QED
        BY <4>1, <4>2
    <3> QED
      BY <3>1, FS_Subset, FS_CardinalityType
  <2> QED
    BY <1>0, <2>1, TimeAssumption DEF JoinCall, ShapeInv, RunType
<1>6. RunInv'
  BY DEF JoinCall, ShapeInv, RunInv
<1>7. HistoryType'
  BY DEF JoinCall, ShapeInv, HistoryType, Forgotten, Settled
<1> QED
  BY <1>1, <1>2, <1>3, <1>4, <1>5, <1>6, <1>7 DEF ShapeInv

(* JoinCount keeps the shape.                                              *)
LEMMA ShapeJoinCount ==
    ASSUME ShapeInv, NEW u \in Users, JoinCount(u)
    PROVE  ShapeInv'
<1>1. TimeType'
  BY TimeAssumption DEF JoinCount, ShapeInv, TimeType, queues, requests, history, Fault, Buckets
<1>2. QueueType'
  BY TimeAssumption DEF JoinCount, ShapeInv, QueueType, queues, requests, history, Fault
<1>3. JoinType'
  BY TimeAssumption DEF JoinCount, ShapeInv, JoinType, queues, requests, history, Fault, JoinRecord, IdleJoin
<1>4. PollType'
  BY TimeAssumption DEF JoinCount, ShapeInv, PollType, queues, requests, history, Fault
<1>5. RunType'
  BY TimeAssumption DEF JoinCount, ShapeInv, RunType, queues, requests, history, Fault, RunRecord, IdleRun, RunStates, Runs
<1>6. RunInv'
  BY TimeAssumption, FS_EmptySet DEF JoinCount, ShapeInv, RunInv, queues, requests, history, Fault, RunType, RunRecord, IdleRun, RunStates, TimeType
<1>7. HistoryType'
  BY TimeAssumption DEF JoinCount, ShapeInv, HistoryType, queues, requests, history, Fault, JoinType, RunType, RunRecord
<1> QED
  BY <1>1, <1>2, <1>3, <1>4, <1>5, <1>6, <1>7 DEF ShapeInv

(* JoinQueue keeps the shape.                                              *)
LEMMA ShapeJoinQueue ==
    ASSUME ShapeInv, NEW u \in Users, JoinQueue(u)
    PROVE  ShapeInv'
<1>1. TimeType'
  BY TimeAssumption DEF JoinQueue, ShapeInv, TimeType, queues, requests, history, Fault, Buckets
<1>2. QueueType'
  <2>1. join[u].stamp \in Nat /\ join[u].len \in Nat /\ active \in Seq(Entry)
    BY TimesFacts DEF ShapeInv, JoinType, JoinRecord, QueueType
  <2>2. TailScore(join[u].stamp, join[u].len) \in Nat
    BY <2>1 DEF TailScore
  <2>3. active' \in Seq(Entry)
    BY <2>1, <2>2, ZaddFacts DEF JoinQueue
  <2> QED
    BY <2>3 DEF JoinQueue, ShapeInv, QueueType
<1>3. JoinType'
  BY TimesFacts DEF JoinQueue, ShapeInv, JoinType, queues, requests, history, Fault, JoinRecord, IdleJoin
<1>4. PollType'
  BY TimeAssumption DEF JoinQueue, ShapeInv, PollType, queues, requests, history, Fault
<1>5. RunType'
  BY TimeAssumption DEF JoinQueue, ShapeInv, RunType, queues, requests, history, Fault, RunRecord, IdleRun, RunStates, Runs
<1>6. RunInv'
  BY TimeAssumption, FS_EmptySet DEF JoinQueue, ShapeInv, RunInv, queues, requests, history, Fault, RunType, RunRecord, IdleRun, RunStates, TimeType
<1>7. HistoryType'
  BY TimeAssumption DEF JoinQueue, ShapeInv, HistoryType, queues, requests, history, Fault, JoinType, RunType, RunRecord
<1> QED
  BY <1>1, <1>2, <1>3, <1>4, <1>5, <1>6, <1>7 DEF ShapeInv

(* JoinTidy keeps the shape.                                               *)
LEMMA ShapeJoinTidy ==
    ASSUME ShapeInv, NEW u \in Users, JoinTidy(u)
    PROVE  ShapeInv'
<1>1. TimeType'
  BY TimeAssumption DEF JoinTidy, ShapeInv, TimeType, queues, requests, history, Fault, Buckets
<1>2. QueueType'
  BY FS_RemoveElement DEF JoinTidy, ShapeInv, QueueType
<1>3. JoinType'
  BY TimesFacts DEF JoinTidy, ShapeInv, JoinType, queues, requests, history, Fault, JoinRecord, IdleJoin
<1>4. PollType'
  BY TimeAssumption DEF JoinTidy, ShapeInv, PollType, queues, requests, history, Fault
<1>5. RunType'
  BY TimeAssumption DEF JoinTidy, ShapeInv, RunType, queues, requests, history, Fault, RunRecord, IdleRun, RunStates, Runs
<1>6. RunInv'
  BY TimeAssumption, FS_EmptySet DEF JoinTidy, ShapeInv, RunInv, queues, requests, history, Fault, RunType, RunRecord, IdleRun, RunStates, TimeType
<1>7. HistoryType'
  BY TimeAssumption DEF JoinTidy, ShapeInv, HistoryType, TimeType, queues, requests, history, Fault, JoinType, RunType, RunRecord
<1> QED
  BY <1>1, <1>2, <1>3, <1>4, <1>5, <1>6, <1>7 DEF ShapeInv

(* JoinPool keeps the shape.                                               *)
LEMMA ShapeJoinPool ==
    ASSUME ShapeInv, NEW u \in Users, JoinPool(u)
    PROVE  ShapeInv'
<1>1. TimeType'
  BY TimeAssumption DEF JoinPool, ShapeInv, TimeType, queues, requests, history, Fault, Buckets
<1>2. QueueType'
  BY FS_AddElement DEF JoinPool, ShapeInv, QueueType
<1>3. JoinType'
  BY TimesFacts DEF JoinPool, ShapeInv, JoinType, queues, requests, history, Fault, JoinRecord, IdleJoin
<1>4. PollType'
  BY TimeAssumption DEF JoinPool, ShapeInv, PollType, queues, requests, history, Fault
<1>5. RunType'
  BY TimeAssumption DEF JoinPool, ShapeInv, RunType, queues, requests, history, Fault, RunRecord, IdleRun, RunStates, Runs
<1>6. RunInv'
  BY TimeAssumption, FS_EmptySet DEF JoinPool, ShapeInv, RunInv, queues, requests, history, Fault, RunType, RunRecord, IdleRun, RunStates, TimeType
<1>7. HistoryType'
  BY TimeAssumption DEF JoinPool, ShapeInv, HistoryType, TimeType, queues, requests, history, Fault, JoinType, RunType, RunRecord
<1> QED
  BY <1>1, <1>2, <1>3, <1>4, <1>5, <1>6, <1>7 DEF ShapeInv

(* JoinFails keeps the shape.                                              *)
LEMMA ShapeJoinFails ==
    ASSUME ShapeInv, NEW u \in Users, JoinFails(u)
    PROVE  ShapeInv'
<1>1. TimeType'
  BY TimeAssumption DEF JoinFails, ShapeInv, TimeType, queues, requests, history, Fault, Buckets
<1>2. QueueType'
  BY FS_RemoveElement, FS_AddElement DEF JoinFails, ShapeInv, QueueType
<1>3. JoinType'
  BY TimesFacts DEF JoinFails, ShapeInv, JoinType, queues, requests, history, Fault, JoinRecord, IdleJoin
<1>4. PollType'
  BY TimeAssumption DEF JoinFails, ShapeInv, PollType, queues, requests, history, Fault
<1>5. RunType'
  BY TimeAssumption DEF JoinFails, ShapeInv, RunType, queues, requests, history, Fault, RunRecord, IdleRun, RunStates, Runs
<1>6. RunInv'
  BY TimeAssumption, FS_EmptySet DEF JoinFails, ShapeInv, RunInv, queues, requests, history, Fault, RunType, RunRecord, IdleRun, RunStates, TimeType
<1>7. HistoryType'
  BY TimeAssumption DEF JoinFails, ShapeInv, HistoryType, queues, requests, history, Fault, JoinType, RunType, RunRecord
<1> QED
  BY <1>1, <1>2, <1>3, <1>4, <1>5, <1>6, <1>7 DEF ShapeInv

(* StatusRank keeps the shape.                                             *)
LEMMA ShapeStatusRank ==
    ASSUME ShapeInv, NEW u \in Users, StatusRank(u)
    PROVE  ShapeInv'
<1>1. TimeType'
  BY TimeAssumption DEF StatusRank, ShapeInv, TimeType, queues, requests, history, Fault, Buckets
<1>2. QueueType'
  BY TimeAssumption DEF StatusRank, ShapeInv, QueueType, queues, requests, history, Fault
<1>3. JoinType'
  BY TimeAssumption DEF StatusRank, ShapeInv, JoinType, queues, requests, history, Fault, JoinRecord, IdleJoin
<1>4. PollType'
  <2>1. Rank(active, u) \in Nat \ {0}
    BY RankFacts DEF StatusRank, ShapeInv, QueueType
  <2> QED
    BY <2>1 DEF StatusRank, ShapeInv, PollType
<1>5. RunType'
  BY TimeAssumption DEF StatusRank, ShapeInv, RunType, queues, requests, history, Fault, RunRecord, IdleRun, RunStates, Runs
<1>6. RunInv'
  BY TimeAssumption, FS_EmptySet DEF StatusRank, ShapeInv, RunInv, queues, requests, history, Fault, RunType, RunRecord, IdleRun, RunStates, TimeType
<1>7. HistoryType'
  BY TimeAssumption DEF StatusRank, ShapeInv, HistoryType, queues, requests, history, Fault, JoinType, RunType, RunRecord
<1> QED
  BY <1>1, <1>2, <1>3, <1>4, <1>5, <1>6, <1>7 DEF ShapeInv

(* StatusWatermark keeps the shape.                                        *)
LEMMA ShapeStatusWatermark ==
    ASSUME ShapeInv, NEW u \in Users, StatusWatermark(u)
    PROVE  ShapeInv'
<1>1. TimeType'
  BY TimeAssumption DEF StatusWatermark, ShapeInv, TimeType, queues, requests, history, Fault, Buckets
<1>2. QueueType'
  BY TimeAssumption DEF StatusWatermark, ShapeInv, QueueType, queues, requests, history, Fault
<1>3. JoinType'
  BY TimeAssumption DEF StatusWatermark, ShapeInv, JoinType, queues, requests, history, Fault, JoinRecord, IdleJoin
<1>4. PollType'
  BY TimeAssumption DEF StatusWatermark, ShapeInv, PollType, queues, requests, history, Fault
<1>5. RunType'
  BY TimeAssumption DEF StatusWatermark, ShapeInv, RunType, queues, requests, history, Fault, RunRecord, IdleRun, RunStates, Runs
<1>6. RunInv'
  BY TimeAssumption, FS_EmptySet DEF StatusWatermark, ShapeInv, RunInv, queues, requests, history, Fault, RunType, RunRecord, IdleRun, RunStates, TimeType
<1>7. HistoryType'
  BY TimeAssumption DEF StatusWatermark, ShapeInv, HistoryType, queues, requests, history, Fault, JoinType, RunType, RunRecord
<1> QED
  BY <1>1, <1>2, <1>3, <1>4, <1>5, <1>6, <1>7 DEF ShapeInv

(* AdmitCall keeps the shape.                                              *)
LEMMA ShapeAdmitCall ==
    ASSUME ShapeInv, NEW p \in Runs, AdmitCall(p)
    PROVE  ShapeInv'
<1>1. TimeType'
  BY TimeAssumption DEF AdmitCall, ShapeInv, TimeType, queues, requests, history, Fault, Buckets
<1>2. QueueType'
  BY TimeAssumption DEF AdmitCall, ShapeInv, QueueType, queues, requests, history, Fault
<1>3. JoinType'
  BY TimeAssumption DEF AdmitCall, ShapeInv, JoinType, queues, requests, history, Fault, JoinRecord, IdleJoin
<1>4. PollType'
  BY TimeAssumption DEF AdmitCall, ShapeInv, PollType, queues, requests, history, Fault
<1>5. RunType'
  BY FirstSizeFacts DEF AdmitCall, ShapeInv, RunType
<1>6. RunInv'
  BY FirstSizeFacts DEF AdmitCall, ShapeInv, RunInv
<1>7. HistoryType'
  BY TimeAssumption DEF AdmitCall, ShapeInv, HistoryType, queues, requests, history, Fault, JoinType, RunType, RunRecord
<1> QED
  BY <1>1, <1>2, <1>3, <1>4, <1>5, <1>6, <1>7 DEF ShapeInv

(* CronCall keeps the shape.                                               *)
LEMMA ShapeCronCall ==
    ASSUME ShapeInv, NEW p \in Runs, CronCall(p)
    PROVE  ShapeInv'
<1>1. TimeType'
  BY TimeAssumption DEF CronCall, ShapeInv, TimeType, queues, requests, history, Fault, Buckets
<1>2. QueueType'
  BY TimeAssumption DEF CronCall, ShapeInv, QueueType, queues, requests, history, Fault
<1>3. JoinType'
  BY TimeAssumption DEF CronCall, ShapeInv, JoinType, queues, requests, history, Fault, JoinRecord, IdleJoin
<1>4. PollType'
  BY TimeAssumption DEF CronCall, ShapeInv, PollType, queues, requests, history, Fault
<1>5. RunType'
  BY FirstSizeFacts DEF CronCall, ShapeInv, RunType
<1>6. RunInv'
  BY FirstSizeFacts DEF CronCall, ShapeInv, RunInv
<1>7. HistoryType'
  BY TimeAssumption DEF CronCall, ShapeInv, HistoryType, queues, requests, history, Fault, JoinType, RunType, RunRecord
<1> QED
  BY <1>1, <1>2, <1>3, <1>4, <1>5, <1>6, <1>7 DEF ShapeInv

(* SecondSize keeps the shape.                                             *)
LEMMA ShapeSecondSize ==
    ASSUME ShapeInv, NEW p \in Runs, SecondSize(p)
    PROVE  ShapeInv'
<1>1. TimeType'
  BY TimeAssumption DEF SecondSize, ShapeInv, TimeType, queues, requests, history, Fault, Buckets
<1>2. QueueType'
  BY TimeAssumption DEF SecondSize, ShapeInv, QueueType, queues, requests, history, Fault
<1>3. JoinType'
  BY TimeAssumption DEF SecondSize, ShapeInv, JoinType, queues, requests, history, Fault, JoinRecord, IdleJoin
<1>4. PollType'
  BY TimeAssumption DEF SecondSize, ShapeInv, PollType, queues, requests, history, Fault
<1>5. RunType'
  BY SecondSizeFacts DEF SecondSize, ShapeInv, RunType
<1>6. RunInv'
  BY SecondSizeFacts DEF SecondSize, ShapeInv, RunInv
<1>7. HistoryType'
  BY TimeAssumption DEF SecondSize, ShapeInv, HistoryType, queues, requests, history, Fault, JoinType, RunType, RunRecord
<1> QED
  BY <1>1, <1>2, <1>3, <1>4, <1>5, <1>6, <1>7 DEF ShapeInv

(* ShuffleRead keeps the shape.                                            *)
LEMMA ShapeShuffleRead ==
    ASSUME ShapeInv, NEW p \in Runs, ShuffleRead(p)
    PROVE  ShapeInv'
<1>1. TimeType'
  BY TimeAssumption DEF ShuffleRead, ShapeInv, TimeType, queues, requests, history, Fault, Buckets
<1>2. QueueType'
  BY TimeAssumption DEF ShuffleRead, ShapeInv, QueueType, queues, requests, history, Fault
<1>3. JoinType'
  BY TimeAssumption DEF ShuffleRead, ShapeInv, JoinType, queues, requests, history, Fault, JoinRecord, IdleJoin
<1>4. PollType'
  BY TimeAssumption DEF ShuffleRead, ShapeInv, PollType, queues, requests, history, Fault
<1>5. RunType'
  <2>1. CASE run' = [run EXCEPT ![p] = Shuffled(p)]
    BY <2>1, ShuffledFacts DEF ShuffleRead, ShapeInv, RunType
  <2>2. ASSUME NEW order \in SetToSeqs(pool), NEW stamp \in Readings,
               run' = [run EXCEPT ![p].pc = "adding", ![p].todo = order, ![p].stamp = stamp]
        PROVE  run' \in [Runs -> RunRecord]
    <3>1. order \in Seq(pool) /\ pool \subseteq Users
      BY OrderFacts DEF ShapeInv, QueueType
    <3>2. order \in Seq(Users) /\ stamp \in Nat
      BY <3>1, SeqMonotonic, TimesFacts DEF ShapeInv, TimeType, Readings
    <3> QED
      <4> DEFINE r == [run[p] EXCEPT !.pc = "adding", !.todo = order, !.stamp = stamp]
      <4>1. r \in RunRecord
        BY <3>2, RunFacts DEF RunRecord, RunStates
      <4>2. run' = [run EXCEPT ![p] = r]
        BY <2>2
      <4> HIDE DEF r
      <4> QED
        BY <4>1, <4>2 DEF ShapeInv, RunType
  <2> QED
    BY <2>1, <2>2 DEF ShuffleRead, ShapeInv, RunType
<1>6. RunInv'
  <2>1. CASE run' = [run EXCEPT ![p] = Shuffled(p)]
    BY <2>1, ShuffledFacts, FS_EmptySet DEF ShuffleRead, ShapeInv, RunType, RunInv
  <2>2. CASE run' # [run EXCEPT ![p] = Shuffled(p)]
    <3>1. \A q \in Runs : q # p => run'[q] = run[q]
      BY <2>2 DEF ShuffleRead, ShapeInv, RunType
    <3>4. PICK order, stamp :
               run' = [run EXCEPT ![p].pc = "adding", ![p].todo = order, ![p].stamp = stamp]
      BY <2>2 DEF ShuffleRead
    <3>5. run'[p] = [run[p] EXCEPT !.pc = "adding", !.todo = order, !.stamp = stamp]
      BY <3>4 DEF ShapeInv, RunType
    <3>2. run'[p].pc = "adding" /\ run'[p].got = run[p].got /\ run[p].pc = "range"
      BY <3>5, RunFacts DEF ShuffleRead, RunRecord
    <3> QED
      BY <3>1, <3>2 DEF ShuffleRead, ShapeInv, RunInv
  <2> QED
    BY <2>1, <2>2
<1>7. HistoryType'
  BY TimeAssumption DEF ShuffleRead, ShapeInv, HistoryType, queues, requests, history, Fault, JoinType, RunType, RunRecord
<1> QED
  BY <1>1, <1>2, <1>3, <1>4, <1>5, <1>6, <1>7 DEF ShapeInv

(* ShuffleAdd keeps the shape.                                             *)
LEMMA ShapeShuffleAdd ==
    ASSUME ShapeInv, NEW p \in Runs, ShuffleAdd(p)
    PROVE  ShapeInv'
<1>1. TimeType'
  BY TimeAssumption DEF ShuffleAdd, ShapeInv, TimeType, queues, requests, history, Fault, Buckets
<1>2. QueueType'
  <2>1. run[p].todo \in Seq(Users) /\ run[p].stamp \in Nat
    BY DEF ShapeInv, RunType, RunRecord
  <2>2. Head(run[p].todo) \in Users /\ 2 * run[p].stamp \in Nat
    BY <2>1 DEF ShuffleAdd
  <2>3. active' \in Seq(Entry)
    BY <2>2, ZaddFacts DEF ShuffleAdd, ShapeInv, QueueType
  <2> QED
    BY <2>3 DEF ShuffleAdd, ShapeInv, QueueType
<1>3. JoinType'
  BY TimeAssumption DEF ShuffleAdd, ShapeInv, JoinType, queues, requests, history, Fault, JoinRecord, IdleJoin
<1>4. PollType'
  BY TimeAssumption DEF ShuffleAdd, ShapeInv, PollType, queues, requests, history, Fault
<1>5. RunType'
  <2>1. Tail(run[p].todo) \in Seq(Users) /\ run[p].stamp + 1 \in Nat
    BY DEF ShuffleAdd, ShapeInv, RunType, RunRecord
  <2> QED
    BY <2>1 DEF ShuffleAdd, ShapeInv, RunType, RunRecord
<1>6. RunInv'
  BY TimeAssumption, FS_EmptySet DEF ShuffleAdd, ShapeInv, RunInv, queues, requests, history, Fault, RunType, RunRecord, IdleRun, RunStates, TimeType
<1>7. HistoryType'
  <2> DEFINE u == Head(run[p].todo)
  <2>1. now \in 0 .. MaxTime /\ since \in [Users -> 0 .. MaxTime]
    BY DEF ShapeInv, HistoryType, TimeType
  <2>2. since' = [since EXCEPT ![u] = now] /\ ahead' \in [Users -> SUBSET Users]
    BY DEF ShuffleAdd, ShapeInv, HistoryType
  <2> HIDE DEF u
  <2>3. since' \in [Users -> 0 .. MaxTime]
    BY <2>1, <2>2
  <2> QED
    BY <2>2, <2>3 DEF ShuffleAdd, ShapeInv, HistoryType
<1> QED
  BY <1>1, <1>2, <1>3, <1>4, <1>5, <1>6, <1>7 DEF ShapeInv

(* ShuffleDrop keeps the shape.                                            *)
LEMMA ShapeShuffleDrop ==
    ASSUME ShapeInv, NEW p \in Runs, ShuffleDrop(p)
    PROVE  ShapeInv'
<1>1. TimeType'
  BY TimeAssumption DEF ShuffleDrop, ShapeInv, TimeType, queues, requests, history, Fault, Buckets
<1>2. QueueType'
  BY FS_EmptySet DEF ShuffleDrop, ShapeInv, QueueType
<1>3. JoinType'
  BY TimeAssumption DEF ShuffleDrop, ShapeInv, JoinType, queues, requests, history, Fault, JoinRecord, IdleJoin
<1>4. PollType'
  BY TimeAssumption DEF ShuffleDrop, ShapeInv, PollType, queues, requests, history, Fault
<1>5. RunType'
  <2>1. [IdleRun EXCEPT !.pc = "reset"] \in RunRecord
    BY IdleFacts DEF RunRecord, RunStates
  <2> QED
    BY <2>1 DEF ShuffleDrop, ShapeInv, RunType
<1>6. RunInv'
  BY TimeAssumption, FS_EmptySet DEF ShuffleDrop, ShapeInv, RunInv, queues, requests, history, Fault, RunType, RunRecord, IdleRun, RunStates, TimeType
<1>7. HistoryType'
  BY TimeAssumption DEF ShuffleDrop, ShapeInv, HistoryType, queues, requests, history, Fault, JoinType, RunType, RunRecord
<1> QED
  BY <1>1, <1>2, <1>3, <1>4, <1>5, <1>6, <1>7 DEF ShapeInv

(* ShuffleReset keeps the shape.                                           *)
LEMMA ShapeShuffleReset ==
    ASSUME ShapeInv, NEW p \in Runs, ShuffleReset(p)
    PROVE  ShapeInv'
<1>1. TimeType'
  BY TimeAssumption DEF ShuffleReset, ShapeInv, TimeType, queues, requests, history, Fault, Buckets
<1>2. QueueType'
  BY TimeAssumption DEF ShuffleReset, ShapeInv, QueueType, queues, requests, history, Fault
<1>3. JoinType'
  BY TimeAssumption DEF ShuffleReset, ShapeInv, JoinType, queues, requests, history, Fault, JoinRecord, IdleJoin
<1>4. PollType'
  BY TimeAssumption DEF ShuffleReset, ShapeInv, PollType, queues, requests, history, Fault
<1>5. RunType'
  BY ShuffledFacts DEF ShuffleReset, ShapeInv, RunType
<1>6. RunInv'
  BY ShuffledFacts, FS_EmptySet DEF ShuffleReset, ShapeInv, RunType, RunInv
<1>7. HistoryType'
  BY TimeAssumption DEF ShuffleReset, ShapeInv, HistoryType, queues, requests, history, Fault, JoinType, RunType, RunRecord
<1> QED
  BY <1>1, <1>2, <1>3, <1>4, <1>5, <1>6, <1>7 DEF ShapeInv

(* AdmitSize keeps the shape.                                              *)
LEMMA ShapeAdmitSize ==
    ASSUME ShapeInv, NEW p \in Runs, AdmitSize(p)
    PROVE  ShapeInv'
<1>1. TimeType'
  BY TimeAssumption DEF AdmitSize, ShapeInv, TimeType, queues, requests, history, Fault, Buckets
<1>2. QueueType'
  BY TimeAssumption DEF AdmitSize, ShapeInv, QueueType, queues, requests, history, Fault
<1>3. JoinType'
  BY TimeAssumption DEF AdmitSize, ShapeInv, JoinType, queues, requests, history, Fault, JoinRecord, IdleJoin
<1>4. PollType'
  BY TimeAssumption DEF AdmitSize, ShapeInv, PollType, queues, requests, history, Fault
<1>5. RunType'
  <2>1. CASE run' = [run EXCEPT ![p] = IdleRun]
    BY <2>1, IdleFacts DEF AdmitSize, ShapeInv, RunType
  <2>2. ASSUME NEW want \in 1 .. Min({BatchMax, Len(active)}), NEW stamp \in Readings,
               run' = [run EXCEPT ![p].pc = "read", ![p].want = want, ![p].stamp = stamp]
        PROVE  run' \in [Runs -> RunRecord]
    <3>1. Len(active) \in Nat /\ stamp \in Nat
      BY TimesFacts DEF ShapeInv, QueueType, TimeType, Readings
    <3>2. want \in 0 .. BatchMax
      BY <3>1, MinFacts, BucketAssumption
    <3> QED
      <4> DEFINE r == [run[p] EXCEPT !.pc = "read", !.want = want, !.stamp = stamp]
      <4>1. r \in RunRecord
        BY <3>1, <3>2, RunFacts DEF RunRecord, RunStates
      <4>2. run' = [run EXCEPT ![p] = r]
        BY <2>2
      <4> HIDE DEF r
      <4> QED
        BY <4>1, <4>2 DEF ShapeInv, RunType
  <2> QED
    BY <2>1, <2>2 DEF AdmitSize, ShapeInv, RunType
<1>6. RunInv'
  <2>1. now \in Nat /\ MaxSkew \in Nat
    BY TimeAssumption DEF ShapeInv, TimeType
  <2>2. \A q \in Runs : q # p => run'[q] = run[q]
    BY DEF AdmitSize, ShapeInv, RunType
  <2>3. \/ run'[p] = IdleRun
        \/ run'[p].pc = "read" /\ run'[p].stamp \in Readings /\ run'[p].got = run[p].got
    <3>1. CASE run' = [run EXCEPT ![p] = IdleRun]
      BY <3>1 DEF ShapeInv, RunType
    <3>2. ASSUME NEW want, NEW stamp \in Readings,
                 run' = [run EXCEPT ![p].pc = "read", ![p].want = want, ![p].stamp = stamp]
          PROVE  run'[p].pc = "read" /\ run'[p].stamp \in Readings /\ run'[p].got = run[p].got
      BY <3>2 DEF ShapeInv, RunType, RunRecord
    <3> QED
      BY <3>1, <3>2 DEF AdmitSize
  <2>4. run[p].got = {} /\ now' = now
    BY DEF AdmitSize, ShapeInv, RunInv
  <2> QED
    <3>1. IdleRun.pc = "idle" /\ IdleRun.got = {}
      BY DEF IdleRun
    <3>2. ASSUME NEW q \in Runs
          PROVE  /\ run'[q].pc \in {"read", "write"} => run'[q].stamp <= now + MaxSkew
                 /\ run'[q].pc \notin {"popone", "getmark", "setmark"} => run'[q].got = {}
                 /\ IsFiniteSet(run'[q].got)
      <4>1. CASE q = p
        BY <2>1, <2>3, <2>4, <3>1, <4>1, FS_EmptySet DEF Readings
      <4>2. CASE q # p
        BY <2>2, <4>2 DEF ShapeInv, RunInv
      <4> QED
        BY <4>1, <4>2
    <3> QED
      BY <2>4, <3>2 DEF RunInv
<1>7. HistoryType'
  BY TimeAssumption DEF AdmitSize, ShapeInv, HistoryType, queues, requests, history, Fault, JoinType, RunType, RunRecord
<1> QED
  BY <1>1, <1>2, <1>3, <1>4, <1>5, <1>6, <1>7 DEF ShapeInv

(* BucketRead keeps the shape.                                             *)
LEMMA ShapeBucketRead ==
    ASSUME ShapeInv, NEW p \in Runs, BucketRead(p)
    PROVE  ShapeInv'
<1>1. TimeType'
  BY TimeAssumption DEF BucketRead, ShapeInv, TimeType, queues, requests, history, Fault, Buckets
<1>2. QueueType'
  BY TimeAssumption DEF BucketRead, ShapeInv, QueueType, queues, requests, history, Fault
<1>3. JoinType'
  BY TimeAssumption DEF BucketRead, ShapeInv, JoinType, queues, requests, history, Fault, JoinRecord, IdleJoin
<1>4. PollType'
  BY TimeAssumption DEF BucketRead, ShapeInv, PollType, queues, requests, history, Fault
<1>5. RunType'
  <2>1. bucket \in Buckets /\ None \in Buckets
    BY DEF ShapeInv, TimeType, Buckets
  <2>2. \/ run' = [run EXCEPT ![p].pc = "write", ![p].seen = bucket]
        \/ run' = [run EXCEPT ![p].pc = "write", ![p].seen = None]
    BY DEF BucketRead
  <2>3. ASSUME NEW b \in Buckets,
               run' = [run EXCEPT ![p].pc = "write", ![p].seen = b]
        PROVE  run' \in [Runs -> RunRecord]
    <3> DEFINE r == [run[p] EXCEPT !.pc = "write", !.seen = b]
    <3>1. r \in RunRecord
      BY RunFacts DEF RunRecord, RunStates
    <3>2. run' = [run EXCEPT ![p] = r]
      BY <2>3
    <3> HIDE DEF r
    <3> QED
      BY <3>1, <3>2 DEF ShapeInv, RunType
  <2> QED
    BY <2>1, <2>2, <2>3, TimeAssumption DEF BucketRead, ShapeInv, RunType, Fault
<1>6. RunInv'
  <2>1. \A q \in Runs : q # p => run'[q] = run[q]
    BY DEF BucketRead, ShapeInv, RunType
  <2>2. run'[p].pc = "write" /\ run'[p].stamp = run[p].stamp /\ run'[p].got = run[p].got
    BY DEF BucketRead, ShapeInv, RunType, RunRecord
  <2> QED
    BY <2>1, <2>2 DEF BucketRead, ShapeInv, RunInv
<1>7. HistoryType'
  BY TimeAssumption DEF BucketRead, ShapeInv, HistoryType, queues, requests, history, Fault, JoinType, RunType, RunRecord
<1> QED
  BY <1>1, <1>2, <1>3, <1>4, <1>5, <1>6, <1>7 DEF ShapeInv

(* BucketWrite keeps the shape.                                            *)
LEMMA ShapeBucketWrite ==
    ASSUME ShapeInv, NEW p \in Runs, BucketWrite(p)
    PROVE  ShapeInv'
<1>1. TimeType'
  BY WriteFacts DEF BucketWrite, ShapeInv, TimeType
<1>2. QueueType'
  BY TimeAssumption DEF BucketWrite, ShapeInv, QueueType, queues, requests, history, Fault
<1>3. JoinType'
  BY TimeAssumption DEF BucketWrite, ShapeInv, JoinType, queues, requests, history, Fault, JoinRecord, IdleJoin
<1>4. PollType'
  BY TimeAssumption DEF BucketWrite, ShapeInv, PollType, queues, requests, history, Fault
<1>5. RunType'
  <2>1. [IdleRun EXCEPT !.pc = "pop", !.want = run[p].want] \in RunRecord
    BY IdleFacts DEF ShapeInv, RunType, RunRecord, RunStates
  <2> QED
    BY <2>1, IdleFacts DEF BucketWrite, ShapeInv, RunType
<1>6. RunInv'
  <2>1. \A q \in Runs : q # p => run'[q] = run[q]
    BY DEF BucketWrite, ShapeInv, RunType
  <2>2. run'[p].pc \in {"idle", "pop"} /\ run'[p].got = {}
    <3>1. run'[p] \in {IdleRun, [IdleRun EXCEPT !.pc = "pop", !.want = run[p].want]}
      BY DEF BucketWrite, ShapeInv, RunType
    <3>2. /\ IdleRun.pc = "idle" /\ IdleRun.got = {}
          /\ [IdleRun EXCEPT !.pc = "pop", !.want = run[p].want].pc = "pop"
          /\ [IdleRun EXCEPT !.pc = "pop", !.want = run[p].want].got = {}
      BY DEF IdleRun
    <3> QED
      BY <3>1, <3>2
  <2> QED
    BY <2>1, <2>2, FS_EmptySet DEF BucketWrite, ShapeInv, RunInv
<1>7. HistoryType'
  <2>1. run[p].stamp \in Times /\ run[p].want \in Nat
    BY WriteFacts DEF BucketWrite
  <2>2. spent' \in [Times -> Nat]
    BY <2>1 DEF BucketWrite, ShapeInv, HistoryType
  <2>3. calm' \in Nat
    BY TroubledFacts DEF ShapeInv, HistoryType
  <2> QED
    BY <2>2, <2>3 DEF BucketWrite, ShapeInv, HistoryType
<1> QED
  BY <1>1, <1>2, <1>3, <1>4, <1>5, <1>6, <1>7 DEF ShapeInv

(* Pop keeps the shape.                                                    *)
LEMMA ShapePop ==
    ASSUME ShapeInv, NEW p \in Runs, Pop(p)
    PROVE  ShapeInv'
<1>1. TimeType'
  BY TimeAssumption DEF Pop, ShapeInv, TimeType, queues, requests, history, Fault, Buckets
<1>2. QueueType'
  <2>1. run[p].want \in Nat
    BY RunFacts
  <2>2. active' \in Seq(Entry)
    BY <2>1, PopFacts DEF Pop, ShapeInv, QueueType
  <2> QED
    BY <2>2 DEF Pop, ShapeInv, QueueType
<1>3. JoinType'
  BY TimeAssumption DEF Pop, ShapeInv, JoinType, queues, requests, history, Fault, JoinRecord, IdleJoin
<1>4. PollType'
  BY TimeAssumption DEF Pop, ShapeInv, PollType, queues, requests, history, Fault
<1>5. RunType'
  <2>1. FirstOf(run[p].want) \in SUBSET Users
    BY RunFacts, PopFacts DEF ShapeInv, QueueType
  <2> QED
    BY <2>1 DEF Pop, ShapeInv, RunType, RunRecord, RunStates
<1>6. RunInv'
  <2>1. \A q \in Runs : q # p => run'[q] = run[q]
    BY DEF Pop, ShapeInv, RunType
  <2>2. run'[p].pc = "getmark" /\ run'[p].got = FirstOf(run[p].want)
    BY DEF Pop, ShapeInv, RunType, RunRecord
  <2>3. IsFiniteSet(run'[p].got)
    BY <2>2, RunFacts, FirstFacts DEF ShapeInv, QueueType
  <2> QED
    BY <2>1, <2>2, <2>3 DEF Pop, ShapeInv, RunInv
<1>7. HistoryType'
  <2>1. FirstOf(run[p].want) \in SUBSET Users /\ Cardinality(FirstOf(run[p].want)) \in Nat
    BY RunFacts, PopFacts, FirstFacts DEF ShapeInv, QueueType
  <2> QED
    BY <2>1 DEF Pop, ShapeInv, HistoryType
<1> QED
  BY <1>1, <1>2, <1>3, <1>4, <1>5, <1>6, <1>7 DEF ShapeInv

(* PopReplyLost keeps the shape.                                           *)
LEMMA ShapePopReplyLost ==
    ASSUME ShapeInv, NEW p \in Runs, PopReplyLost(p)
    PROVE  ShapeInv'
<1>1. TimeType'
  BY TimeAssumption DEF PopReplyLost, ShapeInv, TimeType, queues, requests, history, Fault, Buckets
<1>2. QueueType'
  <2>1. PICK n \in {0, run[p].want} : active' = SubSeq(active, n + 1, Len(active))
    BY DEF PopReplyLost
  <2>2. n \in Nat
    BY RunFacts
  <2>3. active' \in Seq(Entry)
    BY <2>1, <2>2, PopFacts DEF ShapeInv, QueueType
  <2> QED
    BY <2>3 DEF PopReplyLost, ShapeInv, QueueType
<1>3. JoinType'
  BY TimeAssumption DEF PopReplyLost, ShapeInv, JoinType, queues, requests, history, Fault, JoinRecord, IdleJoin
<1>4. PollType'
  BY TimeAssumption DEF PopReplyLost, ShapeInv, PollType, queues, requests, history, Fault
<1>5. RunType'
  <2>1. run' \in [Runs -> RunRecord]
    BY DEF PopReplyLost, ShapeInv, RunType, RunRecord, RunStates
  <2> QED
    BY <2>1, TimeAssumption DEF PopReplyLost, ShapeInv, RunType, Fault
<1>6. RunInv'
  BY TimeAssumption, FS_EmptySet DEF PopReplyLost, ShapeInv, RunInv, queues, requests, history, Fault, RunType, RunRecord, IdleRun, RunStates, TimeType
<1>7. HistoryType'
  <2>1. PICK n \in {0, run[p].want} :
             strayed' = strayed \cup FirstOf(n) /\ pops' = pops + Cardinality(FirstOf(n))
    BY DEF PopReplyLost
  <2>2. n \in Nat
    BY RunFacts
  <2>3. FirstOf(n) \in SUBSET Users /\ Cardinality(FirstOf(n)) \in Nat
    BY <2>2, PopFacts, FirstFacts DEF ShapeInv, QueueType
  <2> QED
    BY <2>1, <2>3 DEF PopReplyLost, ShapeInv, HistoryType
<1> QED
  BY <1>1, <1>2, <1>3, <1>4, <1>5, <1>6, <1>7 DEF ShapeInv

(* PopOne keeps the shape.                                                 *)
LEMMA ShapePopOne ==
    ASSUME ShapeInv, NEW p \in Runs, PopOne(p)
    PROVE  ShapeInv'
<1>1. TimeType'
  BY TimeAssumption DEF PopOne, ShapeInv, TimeType, queues, requests, history, Fault, Buckets
<1>2. QueueType'
  <2>1. active' \in Seq(Entry)
    BY HeadTailProperties DEF PopOne, ShapeInv, QueueType
  <2> QED
    BY <2>1 DEF PopOne, ShapeInv, QueueType
<1>3. JoinType'
  BY TimeAssumption DEF PopOne, ShapeInv, JoinType, queues, requests, history, Fault, JoinRecord, IdleJoin
<1>4. PollType'
  BY TimeAssumption DEF PopOne, ShapeInv, PollType, queues, requests, history, Fault
<1>5. RunType'
  <2>1. FirstOf(1) \in SUBSET Users
    BY PopFacts DEF ShapeInv, QueueType
  <2>2. run[p].want > 0 => run[p].want - 1 \in 0 .. BatchMax
    BY RunFacts, BucketAssumption DEF ShapeInv, RunType, RunRecord
  <2>3. \/ run' = [run EXCEPT ![p].pc = "getmark"]
        \/ /\ run' = [run EXCEPT ![p].want = @ - 1, ![p].got = @ \cup FirstOf(1)]
           /\ run[p].want > 0
    BY DEF PopOne
  <2>4. run' \in [Runs -> RunRecord]
    <3> DEFINE r1 == [run[p] EXCEPT !.pc = "getmark"]
               r2 == [run[p] EXCEPT !.want = @ - 1, !.got = @ \cup FirstOf(1)]
    <3>1. r1 \in RunRecord
      BY RunFacts DEF RunRecord, RunStates
    <3>2. run[p].want > 0 => r2 \in RunRecord
      BY <2>1, <2>2, RunFacts DEF RunRecord
    <3>3. run' = [run EXCEPT ![p] = r1] \/ (run' = [run EXCEPT ![p] = r2] /\ run[p].want > 0)
      BY <2>3
    <3> HIDE DEF r1, r2
    <3> QED
      BY <3>1, <3>2, <3>3 DEF ShapeInv, RunType
  <2> QED
    BY <2>4 DEF PopOne, ShapeInv, RunType
<1>6. RunInv'
  <2>1. \A q \in Runs : q # p => run'[q] = run[q]
    BY DEF PopOne, ShapeInv, RunType
  <2>2. run'[p].pc \in {"popone", "getmark"}
    BY DEF PopOne, ShapeInv, RunType, RunRecord
  <2>3. run'[p].got \in {run[p].got, run[p].got \cup FirstOf(1)}
    BY DEF PopOne, ShapeInv, RunType, RunRecord
  <2>5. IsFiniteSet(run[p].got) /\ IsFiniteSet(FirstOf(1))
    BY FirstFacts DEF ShapeInv, RunInv, QueueType
  <2>6. IsFiniteSet(run[p].got \cup FirstOf(1))
    BY <2>5, FS_Union
  <2>4. IsFiniteSet(run'[p].got)
    BY <2>3, <2>5, <2>6
  <2> QED
    BY <2>1, <2>2, <2>4 DEF PopOne, ShapeInv, RunInv
<1>7. HistoryType'
  <2>1. FirstOf(1) \in SUBSET Users
    BY PopFacts DEF ShapeInv, QueueType
  <2> QED
    BY <2>1 DEF PopOne, ShapeInv, HistoryType
<1> QED
  BY <1>1, <1>2, <1>3, <1>4, <1>5, <1>6, <1>7 DEF ShapeInv

(* GetMark keeps the shape.                                                *)
LEMMA ShapeGetMark ==
    ASSUME ShapeInv, NEW p \in Runs, GetMark(p)
    PROVE  ShapeInv'
<1>1. TimeType'
  BY TimeAssumption DEF GetMark, ShapeInv, TimeType, queues, requests, history, Fault, Buckets
<1>2. QueueType'
  BY TimeAssumption DEF GetMark, ShapeInv, QueueType, queues, requests, history, Fault
<1>3. JoinType'
  BY TimeAssumption DEF GetMark, ShapeInv, JoinType, queues, requests, history, Fault, JoinRecord, IdleJoin
<1>4. PollType'
  BY TimeAssumption DEF GetMark, ShapeInv, PollType, queues, requests, history, Fault
<1>5. RunType'
  BY DEF GetMark, ShapeInv, RunType, RunRecord, RunStates, QueueType
<1>6. RunInv'
  BY TimeAssumption, FS_EmptySet DEF GetMark, ShapeInv, RunInv, queues, requests, history, Fault, RunType, RunRecord, IdleRun, RunStates, TimeType
<1>7. HistoryType'
  BY TimeAssumption DEF GetMark, ShapeInv, HistoryType, queues, requests, history, Fault, JoinType, RunType, RunRecord
<1> QED
  BY <1>1, <1>2, <1>3, <1>4, <1>5, <1>6, <1>7 DEF ShapeInv

(* SetMark keeps the shape.                                                *)
LEMMA ShapeSetMark ==
    ASSUME ShapeInv, NEW p \in Runs, SetMark(p)
    PROVE  ShapeInv'
<1>1. TimeType'
  BY TimeAssumption DEF SetMark, ShapeInv, TimeType, queues, requests, history, Fault, Buckets
<1>2. QueueType'
  <2>1. IsFiniteSet(run[p].got)
    BY DEF ShapeInv, RunInv
  <2> QED
    BY <2>1, RunFacts, FS_CardinalityType DEF SetMark, ShapeInv, QueueType
<1>3. JoinType'
  BY TimeAssumption DEF SetMark, ShapeInv, JoinType, queues, requests, history, Fault, JoinRecord, IdleJoin
<1>4. PollType'
  BY TimeAssumption DEF SetMark, ShapeInv, PollType, queues, requests, history, Fault
<1>5. RunType'
  BY IdleFacts DEF SetMark, ShapeInv, RunType
<1>6. RunInv'
  BY TimeAssumption, FS_EmptySet DEF SetMark, ShapeInv, RunInv, queues, requests, history, Fault, RunType, RunRecord, IdleRun, RunStates, TimeType
<1>7. HistoryType'
  BY TimeAssumption DEF SetMark, ShapeInv, HistoryType, queues, requests, history, Fault, JoinType, RunType, RunRecord
<1> QED
  BY <1>1, <1>2, <1>3, <1>4, <1>5, <1>6, <1>7 DEF ShapeInv

(* RunFails keeps the shape.                                               *)
LEMMA ShapeRunFails ==
    ASSUME ShapeInv, NEW p \in Runs, RunFails(p)
    PROVE  ShapeInv'
<1>1. TimeType'
  BY TimeAssumption DEF RunFails, ShapeInv, TimeType, queues, requests, history, Fault, Buckets
<1>2. QueueType'
  BY TimeAssumption DEF RunFails, ShapeInv, QueueType, queues, requests, history, Fault
<1>3. JoinType'
  BY TimeAssumption DEF RunFails, ShapeInv, JoinType, queues, requests, history, Fault, JoinRecord, IdleJoin
<1>4. PollType'
  BY TimeAssumption DEF RunFails, ShapeInv, PollType, queues, requests, history, Fault
<1>5. RunType'
  <2>1. run' \in [Runs -> RunRecord]
    BY IdleFacts DEF RunFails, ShapeInv, RunType
  <2> QED
    BY <2>1, TimeAssumption DEF RunFails, ShapeInv, RunType, Fault
<1>6. RunInv'
  BY TimeAssumption, FS_EmptySet DEF RunFails, ShapeInv, RunInv, queues, requests, history, Fault, RunType, RunRecord, IdleRun, RunStates, TimeType
<1>7. HistoryType'
  BY TimeAssumption DEF RunFails, ShapeInv, HistoryType, queues, requests, history, Fault, JoinType, RunType, RunRecord
<1> QED
  BY <1>1, <1>2, <1>3, <1>4, <1>5, <1>6, <1>7 DEF ShapeInv

(* Tick keeps the shape.                                                   *)
LEMMA ShapeTick ==
    ASSUME ShapeInv, Tick
    PROVE  ShapeInv'
<1>1. TimeType'
  BY TimeAssumption DEF Tick, ShapeInv, TimeType, queues, requests, history, Fault, Buckets
<1>2. QueueType'
  BY TimeAssumption DEF Tick, ShapeInv, QueueType, queues, requests, history, Fault
<1>3. JoinType'
  BY TimeAssumption DEF Tick, ShapeInv, JoinType, queues, requests, history, Fault, JoinRecord, IdleJoin
<1>4. PollType'
  BY TimeAssumption DEF Tick, ShapeInv, PollType, queues, requests, history, Fault
<1>5. RunType'
  BY TimeAssumption DEF Tick, ShapeInv, RunType, queues, requests, history, Fault, RunRecord, IdleRun, RunStates, Runs
<1>6. RunInv'
  BY TimeAssumption, FS_EmptySet DEF Tick, ShapeInv, RunInv, queues, requests, history, Fault, RunType, RunRecord, IdleRun, RunStates, TimeType
<1>7. HistoryType'
  BY TimeAssumption DEF Tick, ShapeInv, HistoryType, queues, requests, history, Fault, JoinType, RunType, RunRecord
<1> QED
  BY <1>1, <1>2, <1>3, <1>4, <1>5, <1>6, <1>7 DEF ShapeInv

(* Every step keeps the shape.                                             *)
LEMMA ShapeStep == ShapeInv /\ [Next]_vars => ShapeInv'
<1> SUFFICES ASSUME ShapeInv, [Next]_vars PROVE ShapeInv'
  OBVIOUS
<1>1. ASSUME NEW u \in Users, JoinCall(u) \/ JoinStep(u) \/ StatusRank(u) \/ StatusWatermark(u)
      PROVE  ShapeInv'
  BY <1>1, ShapeJoinCall, ShapeJoinCount, ShapeJoinQueue, ShapeJoinTidy, ShapeJoinPool,
     ShapeJoinFails, ShapeStatusRank, ShapeStatusWatermark DEF JoinStep
<1>2. ASSUME NEW p \in Runs,
             AdmitCall(p) \/ CronCall(p) \/ ShuffleStep(p) \/ AdmitStep(p) \/ RunFails(p)
      PROVE  ShapeInv'
  <2>1. CASE AdmitCall(p) \/ CronCall(p) \/ RunFails(p)
    BY <2>1, ShapeAdmitCall, ShapeCronCall, ShapeRunFails
  <2>2. CASE ShuffleStep(p)
    BY <2>2, ShapeSecondSize, ShapeShuffleRead, ShapeShuffleAdd, ShapeShuffleDrop,
       ShapeShuffleReset DEF ShuffleStep
  <2>3. CASE AdmitStep(p)
    BY <2>3, ShapeAdmitSize, ShapeBucketRead, ShapeBucketWrite, ShapePop, ShapePopReplyLost,
       ShapePopOne, ShapeGetMark, ShapeSetMark DEF AdmitStep
  <2> QED
    BY <1>2, <2>1, <2>2, <2>3
<1>3. CASE Tick
  BY <1>3, ShapeTick
<1>4. CASE UNCHANGED vars
  BY <1>4 DEF vars, queues, requests, history, ShapeInv, TimeType, QueueType, JoinType,
              PollType, RunType, RunInv, HistoryType
<1> QED
  BY <1>1, <1>2, <1>3, <1>4 DEF Next, Runs

(* The shape of the state, always.                                         *)
LEMMA ShapeAlways == Spec => []ShapeInv
  BY ShapeInit, ShapeStep, PTL DEF Spec

(* The keys and the requests in progress keep the shape TypeOK says.       *)
THEOREM WaitingRoomTypeCorrect == Spec => []TypeOK
  BY ShapeAlways, ShapeIsTypeOK, PTL

----------------------------------------------------------------------------
(* Where a user may be that has left the pool.                             *)
Stored == Members(active) \cup taken \cup strayed

(* A join removes its user from the pool when the user is in the queue.    *)
TidyInv == \A u \in Users : join[u].pc = "tidy" => u \in Stored

(* Before a shuffle deletes the pool, every user that joined is one that it*)
(* will still add, or is stored elsewhere.                                 *)
ShuffleInv ==
    \A p \in Runs : run[p].pc = "adding" =>
        \A u \in joined : u \in Range(run[p].todo) \cup Stored

KeptInv == QueuedUntilAdmitted /\ TidyInv /\ ShuffleInv

(* Steps that only add places for users.                                   *)
LEMMA KeptByGrowth ==
    ASSUME KeptInv,
           Stored \subseteq Stored', pool \subseteq pool', joined' \subseteq joined,
           \A u \in Users : join'[u].pc = "tidy" => join[u].pc = "tidy",
           \A p \in Runs : run'[p].pc = "adding" =>
               run[p].pc = "adding" /\ run'[p].todo = run[p].todo
    PROVE  KeptInv'
  BY DEF KeptInv, QueuedUntilAdmitted, TidyInv, ShuffleInv, Stored

(* A step of a run leaves the others alone.                                *)
LEMMA RestOfRuns ==
    ASSUME ShapeInv, NEW p \in Runs, NEW r, run' = [run EXCEPT ![p] = r]
    PROVE  run'[p] = r /\ \A q \in Runs : q # p => run'[q] = run[q]
  BY DEF ShapeInv, RunType

(* A step of a join leaves the others alone.                               *)
LEMMA RestOfJoins ==
    ASSUME ShapeInv, NEW u \in Users, NEW r, join' = [join EXCEPT ![u] = r]
    PROVE  join'[u] = r /\ \A v \in Users : v # u => join'[v] = join[v]
  BY DEF ShapeInv, JoinType

(* The ZADD of a join puts its user into the queue.                        *)
LEMMA JoinQueueFacts ==
    ASSUME ShapeInv, NEW u \in Users, JoinQueue(u)
    PROVE  /\ TailScore(join[u].stamp, join[u].len) \in Nat
           /\ active' \in Seq(Entry) /\ Members(active') = Members(active) \cup {u}
<1>1. join[u].stamp \in Nat /\ join[u].len \in Nat /\ active \in Seq(Entry)
  BY TimesFacts DEF ShapeInv, JoinType, JoinRecord, QueueType
<1>2. TailScore(join[u].stamp, join[u].len) \in Nat
  BY <1>1 DEF TailScore
<1> QED
  BY <1>1, <1>2, ZaddFacts DEF JoinQueue

(* The steps of a user lose nobody.                                        *)
LEMMA KeptByUser ==
    ASSUME ShapeInv, KeptInv, NEW u \in Users,
           JoinCall(u) \/ JoinStep(u) \/ StatusRank(u) \/ StatusWatermark(u)
    PROVE  KeptInv'
<1>1. CASE JoinCall(u)
  <2>1. \A v \in Users : join'[v].pc = "tidy" => join[v].pc = "tidy"
    BY <1>1 DEF JoinCall, ShapeInv, JoinType
  <2> QED
    BY <1>1, <2>1, KeptByGrowth DEF JoinCall, Stored
<1>2. CASE JoinCount(u)
  <2>1. \A v \in Users : join'[v].pc = "tidy" => join[v].pc = "tidy"
    BY <1>2 DEF JoinCount, ShapeInv, JoinType, JoinRecord
  <2> QED
    BY <1>2, <2>1, KeptByGrowth DEF JoinCount, Stored, queues, history
<1>3. CASE JoinQueue(u)
  <2>1. Members(active') = Members(active) \cup {u}
    BY <1>3, JoinQueueFacts
  <2>2. Stored' = Stored \cup {u}
    BY <1>3, <2>1 DEF JoinQueue, Stored
  <2>3. \A v \in Users : v # u => join'[v] = join[v]
    BY <1>3 DEF JoinQueue, ShapeInv, JoinType
  <2> QED
    BY <1>3, <2>2, <2>3 DEF JoinQueue, KeptInv, QueuedUntilAdmitted, TidyInv, ShuffleInv, Stored
<1>4. CASE JoinTidy(u)
  <2>1. u \in Stored /\ Stored' = Stored
    BY <1>4 DEF JoinTidy, KeptInv, TidyInv, Stored
  <2>2. \A v \in Users : join'[v].pc = "tidy" => join[v].pc = "tidy"
    BY <1>4 DEF JoinTidy, ShapeInv, JoinType, IdleJoin
  <2> QED
    BY <1>4, <2>1, <2>2
    DEF JoinTidy, KeptInv, QueuedUntilAdmitted, TidyInv, ShuffleInv, Stored
<1>5. CASE JoinPool(u)
  <2>1. Stored \ {u} \subseteq Stored' /\ (Shuffling => u \in Stored')
    BY <1>5 DEF JoinPool, Stored
  <2>2. \A v \in Users : join'[v].pc = "tidy" => join[v].pc = "tidy" /\ v # u
    BY <1>5 DEF JoinPool, ShapeInv, JoinType, IdleJoin
  <2>3. \A p \in Runs : run[p].pc = "adding" => Shuffling
    BY DEF Shuffling, Runs
  <2>4. run' = run /\ joined' = joined \cup {u} /\ pool' = pool \cup {u}
    BY <1>5 DEF JoinPool
  <2>5. QueuedUntilAdmitted'
    BY <2>1, <2>4 DEF KeptInv, QueuedUntilAdmitted, Stored
  <2>6. TidyInv'
    BY <2>1, <2>2 DEF KeptInv, TidyInv
  <2>7. ShuffleInv'
    BY <2>1, <2>3, <2>4 DEF KeptInv, ShuffleInv
  <2> QED
    BY <2>5, <2>6, <2>7 DEF KeptInv
<1>6. CASE JoinFails(u)
  <2>1. Stored' = Stored /\ run' = run /\ joined' = joined \ {u} /\ pool \ {u} \subseteq pool'
    BY <1>6 DEF JoinFails, Stored
  <2>2. \A v \in Users : join'[v].pc = "tidy" => join[v].pc = "tidy"
    BY <1>6 DEF JoinFails, ShapeInv, JoinType, IdleJoin
  <2> QED
    BY <2>1, <2>2 DEF KeptInv, QueuedUntilAdmitted, TidyInv, ShuffleInv, Stored
<1>7. CASE StatusRank(u) \/ StatusWatermark(u)
  BY <1>7, KeptByGrowth DEF StatusRank, StatusWatermark, Stored, queues, history
<1> QED
  BY <1>1, <1>2, <1>3, <1>4, <1>5, <1>6, <1>7 DEF JoinStep

(* Steps of a run that touch neither the queues nor the pool and do not    *)
(* begin a shuffle.                                                        *)
LEMMA QuietFacts ==
    ASSUME ShapeInv, NEW p \in Runs,
           \/ AdmitCall(p) \/ CronCall(p) \/ RunFails(p) \/ SecondSize(p)
           \/ ShuffleReset(p) \/ AdmitSize(p) \/ BucketRead(p) \/ BucketWrite(p)
           \/ GetMark(p) \/ SetMark(p)
    PROVE  /\ UNCHANGED <<active, pool, taken, strayed, joined, join, now, ahead, again, since,
                       pops>>
           /\ run'[p].pc # "adding" /\ \A q \in Runs : q # p => run'[q] = run[q]
<1>1. UNCHANGED <<active, pool, taken, strayed, joined, join, now, ahead, again, since,
                       pops>>
  BY DEF AdmitCall, CronCall, SecondSize, RunFails, ShuffleReset, AdmitSize, BucketRead, BucketWrite,
         GetMark, SetMark, queues, history
<1>2. run'[p].pc # "adding" /\ \A q \in Runs : q # p => run'[q] = run[q]
  <2>1. CASE GetMark(p)
    BY <2>1 DEF GetMark, ShapeInv, RunType, RunRecord
  <2>6. CASE AdmitCall(p) \/ CronCall(p) \/ SecondSize(p)
    BY <2>6, FirstSizeFacts, SecondSizeFacts DEF AdmitCall, CronCall
  <2>2. CASE RunFails(p) \/ SetMark(p) \/ ShuffleReset(p)
    BY <2>2, ShuffledFacts DEF RunFails, SetMark, ShuffleReset, ShapeInv, RunType, IdleRun
  <2>3. CASE AdmitSize(p)
    <3>1. CASE run' = [run EXCEPT ![p] = IdleRun]
      BY <3>1 DEF ShapeInv, RunType, IdleRun
    <3>2. ASSUME NEW want, NEW stamp,
                 run' = [run EXCEPT ![p].pc = "read", ![p].want = want, ![p].stamp = stamp]
          PROVE  run'[p].pc # "adding" /\ \A q \in Runs : q # p => run'[q] = run[q]
      BY <3>2 DEF ShapeInv, RunType, RunRecord
    <3> QED
      BY <2>3, <3>1, <3>2 DEF AdmitSize
  <2>5. CASE BucketRead(p)
    <3>1. PICK b : run' = [run EXCEPT ![p].pc = "write", ![p].seen = b]
      BY <2>5 DEF BucketRead
    <3> QED
      BY <3>1 DEF ShapeInv, RunType, RunRecord
  <2>4. CASE BucketWrite(p)
    <3>1. /\ run'[p] \in {IdleRun, [IdleRun EXCEPT !.pc = "pop", !.want = run[p].want]}
          /\ \A q \in Runs : q # p => run'[q] = run[q]
      BY <2>4 DEF BucketWrite, ShapeInv, RunType
    <3>2. /\ IdleRun.pc = "idle"
          /\ [IdleRun EXCEPT !.pc = "pop", !.want = run[p].want].pc = "pop"
      BY DEF IdleRun
    <3> QED
      BY <3>1, <3>2
  <2> QED
    BY <2>1, <2>2, <2>3, <2>4, <2>5, <2>6
<1> QED
  BY <1>1, <1>2

(* They lose nobody.                                                       *)
LEMMA QuietRuns ==
    ASSUME ShapeInv, KeptInv, NEW p \in Runs,
           \/ AdmitCall(p) \/ CronCall(p) \/ RunFails(p) \/ SecondSize(p)
           \/ ShuffleReset(p) \/ AdmitSize(p) \/ BucketRead(p) \/ BucketWrite(p)
           \/ GetMark(p) \/ SetMark(p)
    PROVE  KeptInv'
  BY QuietFacts, KeptByGrowth DEF Stored

(* A shuffle moves its users before it deletes the pool.                   *)
LEMMA KeptByShuffle ==
    ASSUME ShapeInv, KeptInv, NEW p \in Runs, ShuffleStep(p)
    PROVE  KeptInv'
<1>1. CASE ShuffleRead(p)
  <2>1. UNCHANGED <<active, pool, taken, strayed, joined, join>>
    BY <1>1 DEF ShuffleRead, queues, history
  <2>2. CASE run' = [run EXCEPT ![p] = Shuffled(p)]
    <3>1. run'[p].pc # "adding" /\ \A q \in Runs : q # p => run'[q] = run[q]
      BY <2>2, RestOfRuns, ShuffledFacts
    <3> QED
      BY <2>1, <3>1, KeptByGrowth DEF Stored
  <2>3. ASSUME NEW order \in SetToSeqs(pool), NEW stamp \in Readings,
               run' = [run EXCEPT ![p].pc = "adding", ![p].todo = order, ![p].stamp = stamp]
        PROVE  KeptInv'
    <3>1. Range(order) = pool
      BY OrderFacts DEF ShapeInv, QueueType
    <3>2. /\ run'[p] = [run[p] EXCEPT !.pc = "adding", !.todo = order, !.stamp = stamp]
          /\ \A q \in Runs : q # p => run'[q] = run[q]
      BY <2>3 DEF ShapeInv, RunType
    <3>3. run'[p].todo = order
      BY <3>2, RunFacts DEF RunRecord
    <3>4. Stored' = Stored
      BY <2>1 DEF Stored
    <3>5. \A u \in joined : u \in Range(order) \cup Stored
      BY <3>1 DEF KeptInv, QueuedUntilAdmitted, Stored
    <3>6. ShuffleInv'
      BY <2>1, <3>2, <3>3, <3>4, <3>5 DEF KeptInv, ShuffleInv
    <3> QED
      BY <2>1, <3>6 DEF KeptInv, QueuedUntilAdmitted, TidyInv, Stored
  <2> QED
    BY <1>1, <2>2, <2>3 DEF ShuffleRead
<1>2. CASE ShuffleAdd(p)
  <2> DEFINE todo == run[p].todo
             u == Head(todo)
  <2>1. todo \in Seq(Users) /\ todo # <<>> /\ run[p].stamp \in Nat
    BY <1>2, RunFacts DEF ShuffleAdd
  <2>2. u \in Users /\ Range(todo) \subseteq {u} \cup Range(Tail(todo))
    <3> HIDE DEF todo
    <3>1. /\ u \in Users /\ Len(Tail(todo)) = Len(todo) - 1 /\ Tail(todo) \in Seq(Users)
          /\ \A i \in 1 .. Len(Tail(todo)) : Tail(todo)[i] = todo[i + 1]
      BY <2>1, HeadTailProperties
    <3>2. ASSUME NEW i \in DOMAIN todo, i # 1 PROVE todo[i] \in Range(Tail(todo))
      <4>1. i - 1 \in DOMAIN Tail(todo) /\ Tail(todo)[i - 1] = todo[i]
        <5>1. i - 1 \in 1 .. Len(Tail(todo)) /\ (i - 1) + 1 = i
          BY <2>1, <3>1, <3>2
        <5> QED
          BY <3>1, <5>1
      <4> QED
        BY <4>1 DEF Range
    <3>3. todo[1] = u
      BY <2>1
    <3> QED
      BY <3>1, <3>2, <3>3 DEF Range
  <2>3. Members(active') = Members(active) \cup {u}
    <3>1. 2 * run[p].stamp \in Nat /\ active' \in Zadd(active, u, 2 * run[p].stamp)
      BY <1>2, <2>1 DEF ShuffleAdd
    <3> HIDE DEF u, todo
    <3> QED
      BY <2>2, <3>1, ZaddFacts DEF ShapeInv, QueueType
  <2>4. Stored' = Stored \cup {u}
    BY <1>2, <2>3 DEF ShuffleAdd, Stored
  <2>5. /\ run'[p] = [run[p] EXCEPT !.todo = Tail(@), !.stamp = @ + 1]
        /\ \A q \in Runs : q # p => run'[q] = run[q]
    BY <1>2 DEF ShuffleAdd, ShapeInv, RunType
  <2>6. run'[p].todo = Tail(todo)
    BY <2>5, RunFacts DEF RunRecord
  <2>7. UNCHANGED <<pool, joined, join>> /\ run[p].pc = "adding"
    BY <1>2 DEF ShuffleAdd
  <2>8. ShuffleInv'
    <3>1. ASSUME NEW q \in Runs, run'[q].pc = "adding", NEW v \in joined
          PROVE  v \in Range(run'[q].todo) \cup Stored'
      <4>1. CASE q = p
        BY <2>2, <2>4, <2>6, <2>7, <4>1 DEF KeptInv, ShuffleInv
      <4>2. CASE q # p
        BY <2>4, <2>5, <3>1, <4>2 DEF KeptInv, ShuffleInv
      <4> QED
        BY <4>1, <4>2
    <3> QED
      BY <2>7, <3>1 DEF ShuffleInv
  <2> QED
    BY <2>4, <2>7, <2>8 DEF KeptInv, QueuedUntilAdmitted, TidyInv, Stored
<1>3. CASE ShuffleDrop(p)
  <2>1. \A u \in joined : u \in Stored
    <3>1. Range(<<>>) = {}
      BY DEF Range
    <3> QED
      BY <1>3, <3>1 DEF ShuffleDrop, KeptInv, ShuffleInv
  <2>2. Stored' = Stored /\ UNCHANGED <<joined, join>>
    BY <1>3 DEF ShuffleDrop, history, Stored
  <2>3. run' = [run EXCEPT ![p] = [IdleRun EXCEPT !.pc = "reset"]]
    BY <1>3 DEF ShuffleDrop
  <2>4. \A q \in Runs : run'[q].pc = "adding" => run'[q] = run[q]
    BY <2>3 DEF ShapeInv, RunType, IdleRun
  <2> QED
    BY <2>1, <2>2, <2>4 DEF KeptInv, QueuedUntilAdmitted, TidyInv, ShuffleInv, Stored
<1>4. CASE ShuffleReset(p) \/ SecondSize(p)
  BY <1>4, QuietRuns
<1> QED
  BY <1>1, <1>2, <1>3, <1>4 DEF ShuffleStep

(* An admission answers for those that it takes.                           *)
LEMMA KeptByAdmission ==
    ASSUME ShapeInv, KeptInv, NEW p \in Runs, AdmitStep(p)
    PROVE  KeptInv'
<1>1. CASE Pop(p)
  <2>1. Members(active) = Members(active') \cup FirstOf(run[p].want)
    BY <1>1, RunFacts, PopFacts DEF Pop, ShapeInv, QueueType
  <2>2. \A q \in Runs : run'[q].pc = "adding" => run'[q] = run[q]
    BY <1>1 DEF Pop, ShapeInv, RunType, RunRecord
  <2> QED
    BY <1>1, <2>1, <2>2, KeptByGrowth DEF Pop, Stored
<1>2. CASE PopReplyLost(p)
  <2>1. PICK n \in {0, run[p].want} : /\ active' = SubSeq(active, n + 1, Len(active))
                                      /\ strayed' = strayed \cup FirstOf(n)
    BY <1>2 DEF PopReplyLost
  <2>2. Members(active) = Members(active') \cup FirstOf(n)
    BY <2>1, RunFacts, PopFacts DEF ShapeInv, QueueType
  <2>3. \A q \in Runs : run'[q].pc = "adding" => run'[q] = run[q]
    BY <1>2 DEF PopReplyLost, ShapeInv, RunType, RunRecord
  <2> QED
    BY <1>2, <2>1, <2>2, <2>3, KeptByGrowth DEF PopReplyLost, Stored
<1>3. CASE PopOne(p)
  <2>1. /\ Members(active) \cup taken \subseteq Members(active') \cup taken'
        /\ taken \subseteq taken'
    <3>1. CASE UNCHANGED <<active, taken>>
      BY <3>1
    <3>2. CASE active # <<>> /\ active' = Tail(active) /\ taken' = taken \cup FirstOf(1)
      <4>1. active' = SubSeq(active, 2, Len(active))
        BY <3>2, TailIsSubSeq DEF ShapeInv, QueueType
      <4>2. Members(active) = Members(SubSeq(active, 2, Len(active))) \cup FirstOf(1)
        BY PopFacts DEF ShapeInv, QueueType
      <4> QED
        BY <3>2, <4>1, <4>2
    <3> QED
      BY <1>3, <3>1, <3>2 DEF PopOne
  <2>2. \A q \in Runs : run'[q].pc = "adding" => run'[q] = run[q]
    BY <1>3 DEF PopOne, ShapeInv, RunType, RunRecord
  <2> QED
    BY <1>3, <2>1, <2>2, KeptByGrowth DEF PopOne, Stored
<1> QED
  BY <1>1, <1>2, <1>3, QuietRuns DEF AdmitStep

(* Every step loses nobody.                                                *)
LEMMA KeptStep == ShapeInv /\ KeptInv /\ [Next]_vars => KeptInv'
<1> SUFFICES ASSUME ShapeInv, KeptInv, [Next]_vars PROVE KeptInv'
  OBVIOUS
<1>1. CASE Tick \/ UNCHANGED vars
  BY <1>1, KeptByGrowth DEF Tick, vars, queues, requests, history, Stored
<1> QED
  BY <1>1, KeptByUser, QuietRuns, KeptByShuffle, KeptByAdmission DEF Next, Runs

(* For any number of joins, shuffles and admissions at once, nobody who    *)
(* joined disappears before an admission takes it, but in the two races    *)
(* that QueuedUntilAdmitted names: a join into the pool between the ZRANGE *)
(* and the DEL of a shuffle, for which nothing has to fail, and a ZPOPMIN  *)
(* whose reply is lost.                                                    *)
THEOREM NobodyDisappears == Spec => []QueuedUntilAdmitted
<1>1. Init => KeptInv
  BY DEF Init, KeptInv, QueuedUntilAdmitted, TidyInv, ShuffleInv, IdleJoin, IdleRun, Runs
<1>2. Spec => []KeptInv
  BY <1>1, ShapeAlways, KeptStep, PTL DEF Spec
<1>3. KeptInv => QueuedUntilAdmitted
  BY DEF KeptInv
<1> QED
  BY <1>2, <1>3, PTL

----------------------------------------------------------------------------
(* What the pending runs have taken and not yet told the watermark.        *)
Taking == [p \in Runs |-> Cardinality(run[p].got)]
Pending == SumFunctionOnSet(Taking, Runs)

(* What every run has taken is told to the watermark at most once: the     *)
(* watermark, and the value that a run has read of it, leave room for all  *)
(* that is pending.                                                        *)
MarkInv ==
    /\ watermark + Pending <= pops
    /\ \A p \in Runs : run[p].pc = "setmark" => run[p].mark + Pending <= pops
    /\ polled # {} => pops > 0

(* They are numbers.                                                       *)
LEMMA TakingFacts ==
    ASSUME ShapeInv
    PROVE  (\A p \in Runs : Taking[p] \in Nat /\ Taking[p] = Cardinality(run[p].got))
           /\ Pending \in Nat
<1>1. \A p \in Runs : Taking[p] \in Nat /\ Taking[p] = Cardinality(run[p].got)
  BY FS_CardinalityType DEF Taking, ShapeInv, RunInv
<1>2. IsFiniteSet(Runs)
  BY RequestAssumption DEF Runs
<1> QED
  BY <1>1, <1>2, SumOfNaturals DEF Pending

(* A step of one run moves the sum by what it moves.                       *)
LEMMA PendingPoint ==
    ASSUME ShapeInv, ShapeInv', NEW p \in Runs,
           \A q \in Runs : q # p => run'[q].got = run[q].got
    PROVE  Pending' = Pending + Cardinality(run'[p].got) - Cardinality(run[p].got)
<1> DEFINE f == Taking
           g == Taking'
<1>1. IsFiniteSet(Runs)
  BY RequestAssumption DEF Runs
<1>2. \A q \in Runs : f[q] \in Int /\ f[q] = Cardinality(run[q].got)
  BY TakingFacts
<1>3. \A q \in Runs : g[q] = Cardinality(run'[q].got)
  BY DEF Taking
<1>4. g[p] \in Int
  BY <1>3, FS_CardinalityType DEF ShapeInv, RunInv
<1>5. \A q \in Runs : q # p => g[q] = f[q]
  BY <1>2, <1>3
<1>6. Pending = SumFunctionOnSet(f, Runs) /\ Pending' = SumFunctionOnSet(g, Runs)
  BY DEF Pending
<1> HIDE DEF f, g
<1> QED
  BY <1>1, <1>2, <1>3, <1>4, <1>5, <1>6, SumPoint

(* Steps that tell less than is known: a run ends, or a shuffle resets.    *)
LEMMA MarkByShrink ==
    ASSUME ShapeInv, ShapeInv', MarkInv, NEW p \in Runs,
           watermark' \in Nat, watermark' <= watermark, pops' = pops, polled' = polled,
           \A q \in Runs : q # p => run'[q] = run[q],
           run'[p].pc # "setmark", run'[p].got = {}
    PROVE  MarkInv'
<1>1. /\ Cardinality(run[p].got) \in Nat /\ Cardinality(run'[p].got) \in Nat
      /\ Cardinality(run'[p].got) <= Cardinality(run[p].got)
  <2>1. Cardinality(run[p].got) \in Nat
    BY TakingFacts
  <2> QED
    BY <2>1, FS_EmptySet
<1>2. Pending' = Pending + Cardinality(run'[p].got) - Cardinality(run[p].got)
  BY PendingPoint
<1>3. Pending' \in Int /\ Pending \in Int /\ Pending' <= Pending
  BY <1>1, <1>2, TakingFacts
<1>4. watermark \in Nat /\ pops \in Nat /\ \A q \in Runs : run[q].mark \in Nat
  BY RunFacts DEF ShapeInv, QueueType, HistoryType
<1>6. watermark' + Pending' <= pops'
  <2>1. \A w, x, y, z, n \in Int : w <= x /\ y <= z /\ x + z <= n => w + y <= n
    OBVIOUS
  <2>2. /\ watermark' <= watermark /\ watermark + Pending <= pops
        /\ watermark' \in Int /\ watermark \in Int /\ pops \in Int
    BY <1>4 DEF MarkInv
  <2> QED
    BY <1>3, <2>1, <2>2, Zenon
<1>7. ASSUME NEW q \in Runs, run'[q].pc = "setmark" PROVE run'[q].mark + Pending' <= pops'
  BY <1>3, <1>4, <1>7 DEF MarkInv
<1> QED
  BY <1>6, <1>7 DEF MarkInv

(* Steps that touch none of it.                                            *)
LEMMA MarkUnchanged ==
    ASSUME MarkInv, UNCHANGED <<run, watermark, pops, polled>>
    PROVE  MarkInv'
  BY DEF MarkInv, Pending, Taking

(* Where a run is that has popped nobody.                                  *)
NotPopped ==
    {"idle", "cardqueue", "cardpool", "range", "adding", "reset", "size", "read", "write", "pop"}

(* Until its ZPOPMIN, and when it fails, a run is in one of these states.  *)
LEMMA BeforePop ==
    ASSUME ShapeInv, NEW p \in Runs,
           \/ AdmitCall(p) \/ CronCall(p) \/ RunFails(p)
           \/ ShuffleStep(p) \/ AdmitSize(p) \/ BucketRead(p) \/ BucketWrite(p)
    PROVE  /\ run'[p].pc \in NotPopped
           /\ \A q \in Runs : q # p => run'[q] = run[q]
<1>1. CASE AdmitCall(p) \/ CronCall(p) \/ SecondSize(p)
  BY <1>1, FirstSizeFacts, SecondSizeFacts DEF AdmitCall, CronCall, NotPopped
<1>2. CASE RunFails(p) \/ ShuffleReset(p) \/ ShuffleDrop(p)
  BY <1>2, ShuffledFacts DEF RunFails, ShuffleReset, ShuffleDrop, ShapeInv, RunType, IdleRun, NotPopped
<1>3. CASE ShuffleRead(p)
  <2>1. CASE run' = [run EXCEPT ![p] = Shuffled(p)]
    BY <2>1, ShuffledFacts DEF ShapeInv, RunType, NotPopped
  <2>2. ASSUME NEW order, NEW stamp,
               run' = [run EXCEPT ![p].pc = "adding", ![p].todo = order, ![p].stamp = stamp]
        PROVE  run'[p].pc = "adding" /\ \A q \in Runs : q # p => run'[q] = run[q]
    BY <2>2 DEF ShapeInv, RunType, RunRecord
  <2> QED
    <3>1. \/ run' = [run EXCEPT ![p] = Shuffled(p)]
          \/ \E order, stamp :
                run' = [run EXCEPT ![p].pc = "adding", ![p].todo = order, ![p].stamp = stamp]
      BY <1>3 DEF ShuffleRead
    <3> QED
      BY <2>1, <2>2, <3>1 DEF NotPopped
<1>4. CASE ShuffleAdd(p)
  BY <1>4 DEF ShuffleAdd, ShapeInv, RunType, RunRecord, NotPopped
<1>5. CASE AdmitSize(p)
  <2>1. CASE run' = [run EXCEPT ![p] = IdleRun]
    BY <2>1 DEF ShapeInv, RunType, IdleRun, NotPopped
  <2>2. ASSUME NEW want, NEW stamp,
               run' = [run EXCEPT ![p].pc = "read", ![p].want = want, ![p].stamp = stamp]
        PROVE  run'[p].pc = "read" /\ \A q \in Runs : q # p => run'[q] = run[q]
    BY <2>2 DEF ShapeInv, RunType, RunRecord
  <2> QED
    <3>1. \/ run' = [run EXCEPT ![p] = IdleRun]
          \/ \E want, stamp :
                run' = [run EXCEPT ![p].pc = "read", ![p].want = want, ![p].stamp = stamp]
      BY <1>5 DEF AdmitSize
    <3> QED
      BY <2>1, <2>2, <3>1 DEF NotPopped
<1>6. CASE BucketRead(p)
  <2>1. PICK b : run' = [run EXCEPT ![p].pc = "write", ![p].seen = b]
    BY <1>6 DEF BucketRead
  <2> QED
    BY <2>1 DEF ShapeInv, RunType, RunRecord, NotPopped
<1>7. CASE BucketWrite(p)
  <2>1. /\ run'[p] \in {IdleRun, [IdleRun EXCEPT !.pc = "pop", !.want = run[p].want]}
        /\ \A q \in Runs : q # p => run'[q] = run[q]
    BY <1>7 DEF BucketWrite, ShapeInv, RunType
  <2>2. /\ IdleRun.pc = "idle"
        /\ [IdleRun EXCEPT !.pc = "pop", !.want = run[p].want].pc = "pop"
    BY DEF IdleRun
  <2> QED
    BY <2>1, <2>2 DEF NotPopped
<1> QED
  BY <1>1, <1>2, <1>3, <1>4, <1>5, <1>6, <1>7 DEF ShuffleStep, NotPopped

(* Before its ZPOPMIN a run has taken nobody; a run that fails forgets.    *)
LEMMA MarkByRun ==
    ASSUME ShapeInv, ShapeInv', MarkInv, NEW p \in Runs,
           \/ AdmitCall(p) \/ CronCall(p) \/ RunFails(p)
           \/ ShuffleStep(p) \/ AdmitSize(p) \/ BucketRead(p) \/ BucketWrite(p)
    PROVE  MarkInv'
<1>1. (watermark' = 0 \/ watermark' = watermark) /\ pops' = pops /\ polled' = polled
  BY DEF AdmitCall, CronCall, RunFails, ShuffleStep, SecondSize, ShuffleRead, ShuffleAdd,
         ShuffleDrop, ShuffleReset, AdmitSize, BucketRead, BucketWrite, queues, history
<1>2. /\ run'[p].pc \in NotPopped
      /\ \A q \in Runs : q # p => run'[q] = run[q]
  BY BeforePop
<1>3. run'[p].got = {}
  BY <1>2 DEF ShapeInv, RunInv, NotPopped
<1>4. watermark' \in Nat /\ watermark' <= watermark
  BY <1>1 DEF ShapeInv, QueueType
<1> QED
  BY <1>1, <1>2, <1>3, <1>4, MarkByShrink DEF NotPopped

(* A pop takes users before it tells the watermark.                        *)
LEMMA MarkByPop ==
    ASSUME ShapeInv, ShapeInv', MarkInv, NEW p \in Runs,
           Pop(p) \/ PopReplyLost(p) \/ PopOne(p)
    PROVE  MarkInv'
<1>1. /\ run'[p].pc # "setmark" /\ watermark' = watermark /\ polled' = polled
      /\ \A q \in Runs : q # p => run'[q] = run[q]
  <2>1. CASE Pop(p)
    BY <2>1 DEF Pop, ShapeInv, RunType, RunRecord
  <2>2. CASE PopReplyLost(p)
    BY <2>2 DEF PopReplyLost, ShapeInv, RunType, RunRecord
  <2>3. CASE PopOne(p)
    BY <2>3 DEF PopOne, ShapeInv, RunType, RunRecord
  <2> QED
    BY <2>1, <2>2, <2>3
<1>2. pops \in Nat /\ pops' \in Nat /\ Pending \in Nat /\ Cardinality(run[p].got) \in Nat
      /\ Cardinality(run'[p].got) \in Nat
  BY TakingFacts, FS_CardinalityType DEF ShapeInv, HistoryType, RunInv
<1>3. Cardinality(run'[p].got) - Cardinality(run[p].got) <= pops' - pops /\ pops <= pops'
  <2>1. CASE Pop(p)
    <3>1. /\ run'[p].got = FirstOf(run[p].want) /\ run[p].got = {}
          /\ pops' = pops + Cardinality(FirstOf(run[p].want))
      BY <2>1 DEF Pop, ShapeInv, RunType, RunRecord, RunInv
    <3> QED
      BY <1>2, <3>1, FS_EmptySet
  <2>2. CASE PopReplyLost(p)
    <3>1. run'[p].got = run[p].got
      BY <2>2 DEF PopReplyLost, ShapeInv, RunType, RunRecord
    <3>2. PICK n \in {0, run[p].want} : pops' = pops + Cardinality(FirstOf(n))
      BY <2>2 DEF PopReplyLost
    <3>3. Cardinality(FirstOf(n)) \in Nat
      BY RunFacts, FirstFacts DEF ShapeInv, QueueType
    <3> QED
      BY <1>2, <3>1, <3>2, <3>3
  <2>3. CASE PopOne(p)
    <3>1. \/ run'[p].got = run[p].got /\ pops' = pops
          \/ run'[p].got = run[p].got \cup FirstOf(1) /\ pops' = pops + 1
      BY <2>3 DEF PopOne, ShapeInv, RunType, RunRecord
    <3>2. /\ IsFiniteSet(FirstOf(1)) /\ Cardinality(FirstOf(1)) \in Nat
          /\ Cardinality(FirstOf(1)) <= 1 /\ IsFiniteSet(run[p].got)
      BY FirstFacts DEF ShapeInv, QueueType, RunInv
    <3>3. Cardinality(run[p].got \cup FirstOf(1)) <= Cardinality(run[p].got) + 1
      <4>1. /\ Cardinality(run[p].got \cap FirstOf(1)) \in Nat
            /\ Cardinality(run[p].got \cup FirstOf(1)) =
                   Cardinality(run[p].got) + Cardinality(FirstOf(1))
                       - Cardinality(run[p].got \cap FirstOf(1))
        BY <3>2, FS_Union, FS_Intersection, FS_CardinalityType
      <4> QED
        BY <1>2, <3>2, <4>1
    <3>4. CASE run'[p].got = run[p].got /\ pops' = pops
      BY <1>2, <3>4
    <3>5. CASE run'[p].got = run[p].got \cup FirstOf(1) /\ pops' = pops + 1
      BY <1>2, <3>3, <3>5
    <3> QED
      BY <3>1, <3>4, <3>5
  <2> QED
    BY <2>1, <2>2, <2>3
<1>4. Pending' = Pending + Cardinality(run'[p].got) - Cardinality(run[p].got)
  BY <1>1, PendingPoint
<1>5. watermark \in Nat /\ \A q \in Runs : run[q].mark \in Nat
  BY RunFacts DEF ShapeInv, QueueType
<1>6. watermark' + Pending' <= pops'
  BY <1>1, <1>2, <1>3, <1>4, <1>5 DEF MarkInv
<1>7. ASSUME NEW q \in Runs, run'[q].pc = "setmark" PROVE run'[q].mark + Pending' <= pops'
  <2>1. run'[q] = run[q] /\ run[q].mark + Pending <= pops
    BY <1>1, <1>7 DEF MarkInv
  <2> QED
    BY <1>2, <1>3, <1>4, <1>5, <2>1
<1> QED
  BY <1>1, <1>2, <1>3, <1>6, <1>7 DEF MarkInv

(* The watermark is read and written by what was taken.                    *)
LEMMA MarkByMark ==
    ASSUME ShapeInv, ShapeInv', MarkInv, NEW p \in Runs, GetMark(p) \/ SetMark(p)
    PROVE  MarkInv'
<1>1. /\ pops' = pops /\ polled' = polled
      /\ \A q \in Runs : q # p => run'[q] = run[q]
  BY DEF GetMark, SetMark, queues, history, ShapeInv, RunType
<1>2. /\ pops \in Nat /\ Pending \in Nat /\ Cardinality(run[p].got) \in Nat
      /\ watermark \in Nat /\ \A q \in Runs : run[q].mark \in Nat
  BY TakingFacts, RunFacts DEF ShapeInv, HistoryType, QueueType
<1>3. Pending' = Pending + Cardinality(run'[p].got) - Cardinality(run[p].got)
  BY <1>1, PendingPoint
<1>4. CASE GetMark(p)
  <2>1. run'[p].got = run[p].got /\ run'[p].mark = watermark /\ watermark' = watermark
    BY <1>4 DEF GetMark, queues, ShapeInv, RunType, RunRecord
  <2>2. Pending' = Pending
    BY <1>2, <1>3, <2>1
  <2> QED
    BY <1>1, <2>1, <2>2 DEF MarkInv
<1>5. CASE SetMark(p)
  <2>1. /\ run'[p] = IdleRun /\ run[p].pc = "setmark"
        /\ watermark' = run[p].mark + Cardinality(run[p].got)
    BY <1>5 DEF SetMark, ShapeInv, RunType
  <2>2. run'[p].got = {} /\ run'[p].pc # "setmark"
    BY <2>1 DEF IdleRun
  <2>3. Pending' = Pending - Cardinality(run[p].got)
    BY <1>2, <1>3, <2>2, FS_EmptySet
  <2>4. watermark' + Pending' <= pops'
    BY <1>1, <1>2, <2>1, <2>3 DEF MarkInv
  <2>5. ASSUME NEW q \in Runs, run'[q].pc = "setmark" PROVE run'[q].mark + Pending' <= pops'
    <3>1. run'[q] = run[q] /\ run[q].mark + Pending <= pops
      BY <1>1, <2>2, <2>5 DEF MarkInv
    <3> QED
      BY <1>1, <1>2, <2>3, <3>1
  <2> QED
    BY <1>1, <2>4, <2>5 DEF MarkInv
<1> QED
  BY <1>4, <1>5

(* A poll gives a token only below the watermark.                          *)
LEMMA MarkByUser ==
    ASSUME ShapeInv, MarkInv, NEW u \in Users,
           JoinCall(u) \/ JoinStep(u) \/ StatusRank(u) \/ StatusWatermark(u)
    PROVE  MarkInv'
<1>1. UNCHANGED <<run, watermark, pops>>
  BY DEF JoinCall, JoinStep, JoinCount, JoinQueue, JoinTidy, JoinPool, JoinFails, StatusRank,
         StatusWatermark, queues, history
<1>2. CASE StatusWatermark(u)
  <2>1. poll[u] <= watermark => pops > 0
    <3>1. poll[u] \in Nat /\ poll[u] > 0
      BY <1>2 DEF StatusWatermark, ShapeInv, PollType
    <3>2. watermark \in Nat /\ Pending \in Nat /\ pops \in Nat
      BY TakingFacts DEF ShapeInv, QueueType, HistoryType
    <3> QED
      BY <3>1, <3>2 DEF MarkInv
  <2>2. polled' # {} => polled # {} \/ poll[u] <= watermark
    BY <1>2 DEF StatusWatermark, Admitted
  <2>3. Pending' = Pending
    BY <1>1 DEF Pending, Taking
  <2> QED
    BY <1>1, <2>1, <2>2, <2>3 DEF MarkInv
<1>3. CASE ~StatusWatermark(u)
  <2>1. polled' = polled
    BY <1>3 DEF JoinCall, JoinStep, JoinCount, JoinQueue, JoinTidy, JoinPool, JoinFails,
                StatusRank, history
  <2> QED
    BY <1>1, <2>1, MarkUnchanged
<1> QED
  BY <1>2, <1>3

(* Every step keeps it.                                                    *)
LEMMA MarkStep == ShapeInv /\ ShapeInv' /\ MarkInv /\ [Next]_vars => MarkInv'
<1> SUFFICES ASSUME ShapeInv, ShapeInv', MarkInv, [Next]_vars PROVE MarkInv'
  OBVIOUS
<1>1. CASE Tick \/ UNCHANGED vars
  BY <1>1, MarkUnchanged DEF Tick, vars, queues, requests, history
<1> QED
  BY <1>1, MarkByUser, MarkByRun, MarkByPop, MarkByMark DEF Next, Runs, AdmitStep

(* The watermark never exceeds the number of users popped, whatever the    *)
(* read and write of concurrent admissions and the resets of shuffles do,  *)
(* and no poll gives a token before the first admission.                   *)
THEOREM WatermarkNeverAhead == Spec => []WatermarkBehindAdmissions
<1>1. Init => MarkInv
  <2> SUFFICES ASSUME Init PROVE MarkInv
    OBVIOUS
  <2>1. \A p \in Runs : Taking[p] = 0 /\ run[p].pc # "setmark"
    BY FS_EmptySet DEF Init, Taking, IdleRun, Runs
  <2>2. Pending = 0
    BY <2>1, RequestAssumption, SumOfZeros DEF Pending, Runs
  <2> QED
    BY <2>1, <2>2 DEF Init, MarkInv
<1>2. Spec => []MarkInv
  BY <1>1, ShapeAlways, MarkStep, PTL DEF Spec
<1>3. ShapeInv /\ MarkInv => WatermarkBehindAdmissions
  <2> SUFFICES ASSUME ShapeInv, MarkInv PROVE WatermarkBehindAdmissions
    OBVIOUS
  <2>1. watermark \in Nat /\ Pending \in Nat /\ pops \in Nat
    BY TakingFacts DEF ShapeInv, QueueType, HistoryType
  <2> QED
    BY <2>1 DEF MarkInv, WatermarkBehindAdmissions
<1> QED
  BY <1>2, <1>3, ShapeAlways, PTL

----------------------------------------------------------------------------
(* The tokens granted to requests of an interval of time.                  *)
Given(t1, t2) == SumFunctionOnSet(spent, t1 .. t2)

(* For the times since the last trouble: nothing is granted after the last *)
(* update, and what was granted in an interval around it, with the tokens  *)
(* that are left, does not exceed what the bucket held and gained.         *)
BucketInv ==
    /\ bucket = None => \A t \in Times : spent[t] = 0
    /\ bucket # None =>
          /\ \A t \in Times : calm <= t /\ t > bucket.last => spent[t] = 0
          /\ \A t1, t2 \in Times :
                calm <= t1 /\ t1 <= bucket.last /\ bucket.last <= t2 =>
                    Given(t1, t2) + bucket.tokens <= Capacity + Refill * (bucket.last - t1)
    /\ \A t1, t2 \in Times :
          calm <= t1 /\ t1 <= t2 => Given(t1, t2) <= Capacity + Refill * (t2 - t1)

(* The products that the refill is made of.                                *)
LEMMA RateFacts ==
    /\ \A r, x, y \in Nat : r * x + r * y = r * (x + y)
    /\ \A r, x, y \in Nat : x <= y => r * x <= r * y
    /\ \A r, x \in Nat : r * x \in Nat
<1>1. \A r, x, y \in Nat : r * x + r * y = r * (x + y)
  OBVIOUS
<1>2. \A r, x \in Nat : r * x \in Nat
  OBVIOUS
<1>3. ASSUME NEW r \in Nat, NEW x \in Nat, NEW y \in Nat, x <= y PROVE r * x <= r * y
  <2>1. y - x \in Nat /\ x + (y - x) = y
    BY <1>3
  <2>2. r * x + r * (y - x) = r * y /\ r * (y - x) \in Nat /\ r * x \in Nat
    BY <1>1, <1>2, <2>1
  <2> QED
    BY <2>2
<1> QED
  BY <1>1, <1>2, <1>3

(* What was granted in an interval is a number.                            *)
LEMMA GivenFacts ==
    ASSUME ShapeInv, NEW t1 \in Times, NEW t2 \in Times
    PROVE  /\ Given(t1, t2) \in Nat /\ IsFiniteSet(t1 .. t2)
           /\ t1 .. t2 \subseteq Times
           /\ (\A t \in t1 .. t2 : spent[t] = 0) => Given(t1, t2) = 0
<1>1. t1 \in Int /\ t2 \in Int /\ t1 .. t2 \subseteq Times
  BY TimesFacts
<1>2. IsFiniteSet(t1 .. t2)
  BY <1>1, FS_Interval
<1>3. \A t \in t1 .. t2 : spent[t] \in Nat
  BY <1>1 DEF ShapeInv, HistoryType
<1> QED
  BY <1>1, <1>2, <1>3, SumOfNaturals, SumOfZeros DEF Given

(* A grant adds its tokens to the intervals that its time lies in.         *)
LEMMA GivenPoint ==
    ASSUME ShapeInv, NEW t \in Times, NEW w \in Nat,
           spent' = [spent EXCEPT ![t] = @ + w],
           NEW t1 \in Times, NEW t2 \in Times
    PROVE  Given(t1, t2)' = IF t \in t1 .. t2 THEN Given(t1, t2) + w ELSE Given(t1, t2)
<1> DEFINE S == t1 .. t2
           f == spent
           g == spent'
<1>1. IsFiniteSet(S) /\ S \subseteq Times
  BY GivenFacts
<1>2. spent \in [Times -> Nat]
  BY DEF ShapeInv, HistoryType
<1>3. \A s \in S : f[s] \in Int /\ (s # t => g[s] = f[s])
  BY <1>1, <1>2
<1>4. g[t] = f[t] + w /\ f[t] \in Int /\ g[t] \in Int
  BY <1>2
<1>5. Given(t1, t2) = SumFunctionOnSet(f, S) /\ Given(t1, t2)' = SumFunctionOnSet(g, S)
  BY DEF Given
<1>6. SumFunctionOnSet(f, S) \in Int
  BY <1>5, GivenFacts
<1> HIDE DEF f, g, S
<1>7. CASE t \in S
  <2>1. SumFunctionOnSet(g, S) = SumFunctionOnSet(f, S) + g[t] - f[t]
    BY <1>1, <1>3, <1>4, <1>7, SumPoint
  <2> QED
    BY <1>4, <1>5, <1>6, <1>7, <2>1 DEF S
<1>8. CASE t \notin S
  <2>1. \A s \in S : f[s] = g[s]
    BY <1>3, <1>8
  <2>2. SumFunctionOnSet(f, S) = SumFunctionOnSet(g, S)
    BY <1>1, <2>1, SumSame
  <2> QED
    BY <1>5, <1>8, <2>2 DEF S
<1> QED
  BY <1>7, <1>8

(* What the refilled bucket holds respects the bound, before tokens are    *)
(* taken from it.                                                          *)
LEMMA RefilledBound ==
    ASSUME ShapeInv, BucketInv, NEW r \in RunRecord,
           r.stamp \in Times, bucket = r.seen, Found(r).last <= r.stamp,
           NEW t1 \in Times, NEW t2 \in Times,
           calm <= t1, t1 <= r.stamp, r.stamp <= t2
    PROVE  Given(t1, t2) + Refilled(Found(r), r.stamp) <= Capacity + Refill * (r.stamp - t1)
<1> DEFINE s == Found(r)
           tokens == Refilled(s, r.stamp)
<1>1. s \in [tokens : 0 .. Capacity, last : Times]
  BY BucketAssumption DEF Found, RunRecord, Buckets
<1>2. /\ tokens \in 0 .. Capacity
      /\ r.stamp >= s.last => tokens <= s.tokens + Refill * (r.stamp - s.last)
  <2>1. r.stamp \in Nat
    BY TimesFacts
  <2> HIDE DEF s
  <2> QED
    BY <1>1, <2>1, RefilledFacts
<1>3. /\ t1 \in Nat /\ t2 \in Nat /\ r.stamp \in Nat /\ s.last \in Nat /\ s.tokens \in Nat
      /\ tokens \in Nat /\ tokens <= Capacity /\ Capacity \in Nat /\ Refill \in Nat
      /\ Given(t1, t2) \in Nat /\ r.stamp - t1 \in Nat
  <2>1. t1 \in Nat /\ t2 \in Nat /\ r.stamp \in Nat /\ r.stamp - t1 \in Nat
    BY TimesFacts
  <2>2. s.last \in Nat /\ s.tokens \in Nat
    BY <1>1, TimesFacts, BucketAssumption
  <2>3. tokens \in Nat /\ tokens <= Capacity /\ Capacity \in Nat /\ Refill \in Nat
    BY <1>2, BucketAssumption
  <2> QED
    BY <2>1, <2>2, <2>3, GivenFacts
<1>4. Refill * (r.stamp - t1) \in Nat
  BY <1>3, RateFacts
<1> SUFFICES Given(t1, t2) + tokens <= Capacity + Refill * (r.stamp - t1)
  OBVIOUS
<1>5. CASE Given(t1, t2) = 0
  <2> HIDE DEF tokens
  <2> QED
    BY <1>3, <1>4, <1>5
<1>6. CASE Given(t1, t2) # 0
  <2>1. PICK t \in t1 .. t2 : spent[t] # 0
    BY <1>6, GivenFacts
  <2>2. t \in Times /\ t1 <= t /\ calm <= t
    BY <1>3, <2>1, TimesFacts DEF ShapeInv, HistoryType
  <2>3. bucket # None /\ s = bucket
    BY <2>1, <2>2 DEF BucketInv, Found
  <2>4. ~(t > bucket.last)
    BY <2>1, <2>2, <2>3 DEF BucketInv
  <2>5. t1 <= s.last /\ s.last <= t2 /\ s.last <= r.stamp
    BY <1>3, <2>2, <2>3, <2>4
  <2>6. Given(t1, t2) + s.tokens <= Capacity + Refill * (s.last - t1)
    BY <2>3, <2>5 DEF BucketInv
  <2>7. /\ s.last - t1 \in Nat /\ r.stamp - s.last \in Nat
        /\ (s.last - t1) + (r.stamp - s.last) = r.stamp - t1
    BY <1>3, <2>5
  <2>8. /\ Refill * (s.last - t1) + Refill * (r.stamp - s.last) = Refill * (r.stamp - t1)
        /\ Refill * (s.last - t1) \in Nat /\ Refill * (r.stamp - s.last) \in Nat
    BY <1>3, <2>7, RateFacts
  <2>9. tokens <= s.tokens + Refill * (r.stamp - s.last)
    BY <1>2, <2>5
  <2> HIDE DEF tokens, s
  <2> QED
    BY <1>3, <1>4, <2>6, <2>8, <2>9
<1> QED
  BY <1>5, <1>6

(* What an update does: it takes w of the refilled tokens, or none.        *)
LEMMA WriteTakes ==
    ASSUME ShapeInv, NEW p \in Runs, BucketWrite(p)
    PROVE  \E w \in Nat :
              /\ w <= Refilled(Found(run[p]), run[p].stamp)
              /\ Refilled(Found(run[p]), run[p].stamp) \in 0 .. Capacity
              /\ bucket' = [tokens |-> Refilled(Found(run[p]), run[p].stamp) - w,
                            last |-> run[p].stamp]
              /\ spent' = [spent EXCEPT ![run[p].stamp] = @ + w]
<1> DEFINE r == run[p]
           s == Found(r)
           tokens == Refilled(s, r.stamp)
<1>1. r.stamp \in Times /\ r.want \in Nat /\ s \in [tokens : 0 .. Capacity, last : Times]
  BY WriteFacts
<1>2. tokens \in 0 .. Capacity
  <2> HIDE DEF s, r
  <2> QED
    BY <1>1, TimesFacts, RefilledFacts
<1>3. CASE ~Allowed(tokens, r.want)
  <2>1. bucket' = [tokens |-> tokens, last |-> r.stamp] /\ spent' = spent
    BY <1>3 DEF BucketWrite, NewBucket, Found
  <2>2. spent = [spent EXCEPT ![r.stamp] = @ + 0]
    BY <1>1 DEF ShapeInv, HistoryType
  <2>3. tokens - 0 = tokens /\ 0 <= tokens
    BY <1>2, BucketAssumption
  <2> HIDE DEF tokens, r, s
  <2>4. /\ 0 \in Nat /\ 0 <= tokens /\ bucket' = [tokens |-> tokens - 0, last |-> r.stamp]
        /\ spent' = [spent EXCEPT ![r.stamp] = @ + 0]
    BY <2>1, <2>2, <2>3
  <2> QED
    BY <1>2, <2>4 DEF tokens, r, s
<1>4. CASE Allowed(tokens, r.want)
  <2>1. /\ r.want <= tokens /\ bucket' = [tokens |-> tokens - r.want, last |-> r.stamp]
        /\ spent' = [spent EXCEPT ![r.stamp] = @ + r.want]
    BY <1>1, <1>2, <1>4, BucketAssumption DEF BucketWrite, NewBucket, Found, Allowed
  <2> QED
    BY <1>1, <1>2, <2>1
<1> QED
  BY <1>3, <1>4

(* A troubled update begins a new account, for later times.                *)
LEMMA BucketByTrouble ==
    ASSUME ShapeInv, BucketInv, NEW p \in Runs, BucketWrite(p),
           ~(bucket = run[p].seen /\ Found(run[p]).last <= run[p].stamp)
    PROVE  BucketInv'
<1> DEFINE r == run[p]
<1>1. /\ calm \in Nat /\ calm' \in Nat /\ calm <= calm' /\ r.stamp < calm'
      /\ bucket # None => bucket.last < calm'
  BY TroubledFacts
<1>2. PICK w \in Nat, n \in Nat : /\ bucket' = [tokens |-> n, last |-> r.stamp]
                                  /\ spent' = [spent EXCEPT ![r.stamp] = @ + w]
  BY WriteTakes, BucketAssumption
<1>3. r.stamp \in Times /\ r.stamp \in Nat /\ bucket' # None /\ bucket'.last = r.stamp
  BY <1>2, WriteFacts, TimesFacts
<1>4. bucket # None => bucket.last \in Nat
  BY TimesFacts DEF ShapeInv, TimeType, Buckets
<1>5. \A t \in Times : calm' <= t => spent'[t] = 0
  <2> TAKE t \in Times
  <2> HAVE calm' <= t
  <2>1. t # r.stamp /\ calm <= t /\ (bucket # None => t > bucket.last)
    BY <1>1, <1>3, <1>4, TimesFacts
  <2>2. spent'[t] = spent[t]
    BY <1>2, <2>1 DEF ShapeInv, HistoryType
  <2> QED
    BY <2>1, <2>2 DEF BucketInv
<1>6. ASSUME NEW t1 \in Times, NEW t2 \in Times, calm' <= t1, t1 <= t2
      PROVE  Given(t1, t2)' <= Capacity + Refill * (t2 - t1)
  <2>1. r.stamp \notin t1 .. t2 /\ calm <= t1
    BY <1>1, <1>3, <1>6, TimesFacts
  <2> HIDE DEF r
  <2>2. Given(t1, t2)' = Given(t1, t2)
    BY <1>2, <1>3, <2>1, GivenPoint
  <2> QED
    BY <1>6, <2>1, <2>2 DEF BucketInv
<1>7. \A t1 \in Times : ~(calm' <= t1 /\ t1 <= bucket'.last)
  BY <1>1, <1>3, TimesFacts
<1> QED
  BY <1>3, <1>5, <1>6, <1>7 DEF BucketInv

(* An update that was one step keeps the account.                          *)
LEMMA BucketByUpdate ==
    ASSUME ShapeInv, BucketInv, NEW p \in Runs, BucketWrite(p),
           bucket = run[p].seen, Found(run[p]).last <= run[p].stamp
    PROVE  BucketInv'
<1> DEFINE r == run[p]
           s == Found(r)
           tokens == Refilled(s, r.stamp)
<1>1. calm' = calm /\ calm \in Nat
  BY TroubledFacts
<1>2. /\ r \in RunRecord /\ r.stamp \in Times /\ r.want \in Nat
      /\ s \in [tokens : 0 .. Capacity, last : Times] /\ bucket' # None
  BY RunFacts, WriteFacts
<1>3. PICK w \in Nat : /\ w <= tokens /\ tokens \in 0 .. Capacity
                       /\ bucket' = [tokens |-> tokens - w, last |-> r.stamp]
                       /\ spent' = [spent EXCEPT ![r.stamp] = @ + w]
  BY WriteTakes
<1>4. s.last <= r.stamp /\ bucket = r.seen
  OBVIOUS
<1> HIDE DEF tokens, s
<1>5. /\ tokens \in Nat /\ r.stamp \in Nat /\ Capacity \in Nat /\ Refill \in Nat
      /\ bucket'.last = r.stamp /\ bucket'.tokens = tokens - w
  BY <1>2, <1>3, BucketAssumption, TimesFacts
<1>6. \A t \in Times : calm <= t /\ t > r.stamp => spent'[t] = 0
  <2> TAKE t \in Times
  <2> HAVE calm <= t /\ t > r.stamp
  <2>1. spent'[t] = spent[t]
    BY <1>3, <1>5 DEF ShapeInv, HistoryType
  <2>2. CASE bucket = None
    BY <2>1, <2>2 DEF BucketInv
  <2>3. CASE bucket # None
    <3>1. s = bucket /\ s.last \in Nat
      BY <1>2, <1>4, <2>3, TimesFacts DEF s, Found
    <3>2. t > bucket.last
      BY <1>4, <1>5, <3>1, TimesFacts
    <3> QED
      BY <2>1, <2>3, <3>2 DEF BucketInv
  <2> QED
    BY <2>2, <2>3
<1>7. ASSUME NEW t1 \in Times, NEW t2 \in Times, calm <= t1, t1 <= r.stamp, r.stamp <= t2
      PROVE  Given(t1, t2)' + bucket'.tokens <= Capacity + Refill * (r.stamp - t1)
  <2>1. Given(t1, t2) + tokens <= Capacity + Refill * (r.stamp - t1)
    <3> HIDE DEF r
    <3> QED
      BY <1>2, <1>4, <1>7, RefilledBound DEF tokens, s
  <2>2. r.stamp \in t1 .. t2 /\ r.stamp - t1 \in Nat
    BY <1>5, <1>7, TimesFacts
  <2>3. Given(t1, t2)' = Given(t1, t2) + w
    BY <1>2, <1>3, <2>2, GivenPoint
  <2>4. Given(t1, t2) \in Nat /\ Refill * (r.stamp - t1) \in Nat
    BY <1>5, <2>2, GivenFacts, RateFacts
  <2>5. Given(t1, t2)' + bucket'.tokens = Given(t1, t2) + tokens
    BY <1>3, <1>5, <2>3, <2>4
  <2> QED
    BY <2>1, <2>5
<1>8. ASSUME NEW t1 \in Times, NEW t2 \in Times, calm <= t1, t1 <= t2
      PROVE  Given(t1, t2)' <= Capacity + Refill * (t2 - t1)
  <2>1. CASE r.stamp \in t1 .. t2
    <3>1. t1 <= r.stamp /\ r.stamp <= t2 /\ r.stamp - t1 \in Nat /\ t2 - t1 \in Nat
          /\ r.stamp - t1 <= t2 - t1
      BY <1>5, <2>1, TimesFacts
    <3>2. Given(t1, t2)' + bucket'.tokens <= Capacity + Refill * (r.stamp - t1)
      BY <1>7, <1>8, <3>1
    <3>3. Refill * (r.stamp - t1) <= Refill * (t2 - t1)
      BY <1>5, <3>1, RateFacts
    <3>4. /\ Given(t1, t2)' \in Nat /\ bucket'.tokens \in Nat
          /\ Refill * (r.stamp - t1) \in Nat /\ Refill * (t2 - t1) \in Nat
      <4>1. Given(t1, t2)' = Given(t1, t2) + w
        BY <1>2, <1>3, <2>1, GivenPoint
      <4>2. Given(t1, t2) \in Nat /\ w \in Nat
        BY GivenFacts
      <4>3. bucket'.tokens \in Nat
        BY <1>3, <1>5
      <4>4. Refill * (r.stamp - t1) \in Nat /\ Refill * (t2 - t1) \in Nat
        BY <1>5, <3>1, RateFacts
      <4> QED
        BY <4>1, <4>2, <4>3, <4>4
    <3> QED
      BY <1>5, <3>2, <3>3, <3>4
  <2>2. CASE r.stamp \notin t1 .. t2
    <3>1. Given(t1, t2)' = Given(t1, t2)
      BY <1>2, <1>3, <2>2, GivenPoint
    <3> QED
      BY <1>8, <3>1 DEF BucketInv
  <2> QED
    BY <2>1, <2>2
<1> QED
  BY <1>1, <1>2, <1>5, <1>6, <1>7, <1>8 DEF BucketInv

(* So do steps that do not touch it.                                       *)
LEMMA BucketKept ==
    ASSUME BucketInv, UNCHANGED <<bucket, spent, calm>>
    PROVE  BucketInv'
  BY DEF BucketInv, Given

(* Every step keeps the account.                                           *)
LEMMA BucketStep == ShapeInv /\ BucketInv /\ [Next]_vars => BucketInv'
<1> SUFFICES ASSUME ShapeInv, BucketInv, [Next]_vars PROVE BucketInv'
  OBVIOUS
<1>1. ASSUME NEW u \in Users, JoinCall(u) \/ JoinStep(u) \/ StatusRank(u) \/ StatusWatermark(u)
      PROVE  UNCHANGED <<bucket, spent, calm>>
  BY <1>1 DEF JoinCall, JoinStep, JoinCount, JoinQueue, JoinTidy, JoinPool, JoinFails,
              StatusRank, StatusWatermark, history
<1>2. ASSUME NEW p \in Runs, AdmitCall(p) \/ CronCall(p) \/ ShuffleStep(p) \/ RunFails(p)
      PROVE  UNCHANGED <<bucket, spent, calm>>
  BY <1>2 DEF AdmitCall, CronCall, ShuffleStep, SecondSize, ShuffleRead, ShuffleAdd,
              ShuffleDrop, ShuffleReset, RunFails, history
<1>3. ASSUME NEW p \in Runs, AdmitStep(p), ~BucketWrite(p)
      PROVE  UNCHANGED <<bucket, spent, calm>>
  BY <1>3 DEF AdmitStep, AdmitSize, BucketRead, Pop, PopReplyLost, PopOne, GetMark, SetMark,
              history
<1>4. CASE Tick \/ UNCHANGED vars
  BY <1>4, BucketKept DEF Tick, vars, history
<1> QED
  BY <1>1, <1>2, <1>3, <1>4, BucketKept, BucketByTrouble, BucketByUpdate DEF Next, Runs

(* No interval of time after the last troubled update has more tokens      *)
(* granted than the bucket holds and gains in it: for any bucket, any rate,*)
(* any clocks and any number of admissions.                                *)
THEOREM BucketNeverExceeded == Spec => []BucketHonoured
<1>1. Init => BucketInv
  <2> SUFFICES ASSUME Init PROVE BucketInv
    OBVIOUS
  <2>1. bucket = None /\ \A t \in Times : spent[t] = 0
    BY DEF Init
  <2>2. ASSUME NEW t1 \in Times, NEW t2 \in Times, t1 <= t2
        PROVE  Given(t1, t2) <= Capacity + Refill * (t2 - t1)
    <3>1. Given(t1, t2) = 0
      BY <2>1, ShapeInit, GivenFacts
    <3>2. t2 - t1 \in Nat
      BY <2>2, TimesFacts
    <3> QED
      BY <3>1, <3>2, RateFacts, BucketAssumption
  <2> QED
    BY <2>1, <2>2 DEF BucketInv
<1>2. Spec => []BucketInv
  BY <1>1, ShapeAlways, BucketStep, PTL DEF Spec
<1>3. BucketInv => BucketHonoured
  BY DEF BucketInv, BucketHonoured, Given
<1> QED
  BY <1>2, <1>3, PTL
=============================================================================
