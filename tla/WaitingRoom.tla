---------------------------- MODULE WaitingRoom ----------------------------
(***************************************************************************)
(* The edge waiting room of one event (edge/waiting-room/src/index.ts),    *)
(* with Redis: users join a pool before the sale and a queue after it, the *)
(* pool is shuffled into the queue, admissions take users from its front   *)
(* as a token bucket allows, and users poll for their queue token.         *)
(*                                                                         *)
(* A request is a sequence of Redis commands over HTTP, each awaited; the  *)
(* worker keeps nothing between requests.  Each command that matters is    *)
(* one action, and the code up to the next one belongs to it.  Rate limit, *)
(* Turnstile and the admit secret only turn requests away; the requests    *)
(* here are those that passed.  A user has one join and one poll in        *)
(* flight, and time is in milliseconds.  Every request runs on an edge     *)
(* machine with a clock of its own: what it reads is the time or up to     *)
(* MaxSkew later.  Scores are in half milliseconds, so that the random     *)
(* fraction of a first score is the odd half.                              *)
(***************************************************************************)
EXTENDS Integers, SequencesExt

CONSTANTS
    Users,
    Admitters,      \* POST /queue/admit requests in progress
    Crons,          \* runs of the scheduled handler
    OnSaleAt,       \* meta on_sale_at, or None when the event has no meta
    MaxSkew,        \* what the clocks of two machines may differ by
    Capacity,       \* size of the token bucket: one second of the rate
    Refill,         \* tokens per tick
    BatchMax,       \* DEFAULT_BATCH
    MaxTime,        \* bound: ticks
    MaxJoins,       \* bound: joins in a behaviour
    MaxFaults,      \* bound: failed commands and died requests
    None

ASSUME BucketAssumption == Capacity \in Nat /\ Refill \in Nat /\ BatchMax \in Nat \ {0}
ASSUME TimeAssumption ==
    /\ OnSaleAt \in Nat \cup {None}
    /\ MaxSkew \in Nat /\ MaxTime \in Nat /\ MaxJoins \in Nat /\ MaxFaults \in Nat
ASSUME NoneAssumption == None \notin Nat /\ None \notin [tokens : Nat, last : Nat]
ASSUME RequestAssumption == IsFiniteSet(Admitters \cup Crons) /\ Admitters \cap Crons = {}

VARIABLES
    now,
    pool,           \* members of waiting:pool; their order is never used
    active,         \* queue:active by score, [user, score]; a tie is open
    watermark,      \* queue:admitted
    bucket,         \* bucket -> tokens, last; None: no such key
    indexed,        \* the event is in waiting:index
    join,           \* join[u]: the join request of u
    poll,           \* poll[u]: the rank that the status request of u has read
    run,            \* run[p]: the admission or scheduled run p
    joins, faults,
    joined,         \* history: users whose last join was answered
    taken,          \* history: users taken from the queue since they joined
    strayed,        \* history: users that met a race or failure named below
    pops,           \* history: users ever taken from the queue
    ahead,          \* history: users queued before the last join of u began
    again,          \* history: users whose last join found them in the queue
    since,          \* history: when the last join of u was answered or a
                    \* shuffle put u into the queue, whichever was later
    spent,          \* history: spent[t]: tokens granted to requests of time t
    calm,           \* history: every bucket update from this time on is one step
    polled          \* history: users that got a token from status

requests == <<join, poll, run, joins, faults>>
queues == <<pool, active, watermark, indexed>>
history == <<joined, taken, strayed, pops, ahead, again, since, spent, calm, polled>>
vars == <<now, queues, bucket, requests, history>>

(* What Date.now() may return to a request.                                *)
Readings == now .. now + MaxSkew
Times == 0 .. MaxTime + MaxSkew

IdleJoin == [pc |-> "idle", stamp |-> 0, len |-> 0, pre |-> FALSE]
IdleRun == [pc |-> "idle", todo |-> <<>>, stamp |-> 0, want |-> 0, seen |-> None,
            got |-> {}, mark |-> 0]

Fault == faults < MaxFaults /\ faults' = faults + 1

Members(q) == {q[i].user : i \in DOMAIN q}
Rank(q, u) == CHOOSE i \in DOMAIN q : q[i].user = u

(* What ZADD can make of a sorted set.                                     *)
Zadd(q, u, score) ==
    LET rest == IF u \in Members(q) THEN RemoveAt(q, Rank(q, u)) ELSE q
    IN  {InsertAt(rest, i, [user |-> u, score |-> score]) :
            i \in {j \in 1 .. Len(rest) + 1 :
                      \A k \in DOMAIN rest : IF k < j THEN rest[k].score <= score
                                                      ELSE rest[k].score >= score}}

----------------------------------------------------------------------------
(* Faulty variants of definitions below: each is a slip the worker could   *)
(* have had, and shows a property that it would break.                     *)
TailScoreOfTime(stamp, len) == 2 * stamp + 1

AdmittedSoon(position) == position <= watermark + BatchMax

AllowedByAnyToken(tokens, want) == tokens > 0

KeepsLast(state, stamp, tokens) == [tokens |-> tokens, last |-> state.last]

SetMarkByWant(p) ==
    /\ run[p].pc = "setmark"
    /\ watermark' = run[p].mark + run[p].want
    /\ run' = [run EXCEPT ![p] = IdleRun]
    /\ UNCHANGED <<now, pool, active, indexed, bucket, join, poll, joins, faults, history>>

ShuffleReadDropsPool(p) ==
    /\ run[p].pc = "range" /\ pool # {}
    /\ \E order \in SetToSeqs(pool), stamp \in Readings :
          run' = [run EXCEPT ![p].pc = "adding", ![p].todo = order, ![p].stamp = stamp]
    /\ pool' = {}
    /\ UNCHANGED <<now, active, watermark, indexed, bucket, join, poll, joins, faults, history>>

----------------------------------------------------------------------------
(* POST /queue/join.                                                       *)

PreSale(stamp) == OnSaleAt # None /\ stamp < OnSaleAt

(* Score of a join that found len users in the queue.                      *)
TailScore(stamp, len) == IF len = 0 THEN 2 * stamp + 1 ELSE 2 * (stamp + len)

(* Whoever stands in the queue for as long as the clocks may differ.       *)
Settled == {w \in (joined \ again) \cap Members(active) :
               join[w].pc = "idle" /\ now >= since[w] + MaxSkew}

Forgotten(u) ==     \* u starts anew: nobody waits behind its old place
    [v \in Users |-> IF v = u THEN Settled \ {u} ELSE ahead[v] \ {u}]

(* The meta, whose reading may fail: the event is then taken to be on      *)
(* sale.  The time, and SADD waiting:index, which is not awaited and may   *)
(* fail too.                                                               *)
JoinCall(u) ==
    /\ join[u].pc = "idle"
    /\ joins < MaxJoins /\ joins' = joins + 1
    /\ \E stamp \in Readings, lost \in SUBSET {"meta", "index"} :
          /\ faults' = faults + Cardinality(lost) /\ faults' <= MaxFaults
          /\ indexed' = (indexed \/ "index" \notin lost)
          /\ join' = [join EXCEPT ![u] =
                [pc |-> "count", stamp |-> stamp, len |-> 0,
                 pre |-> "meta" \notin lost /\ PreSale(stamp)]]
    /\ ahead' = Forgotten(u)
    /\ UNCHANGED <<now, pool, active, watermark, bucket, poll, run,
                   joined, taken, strayed, pops, again, since, spent, calm, polled>>

JoinCount(u) ==
    /\ join[u].pc = "count"
    /\ join' = [join EXCEPT ![u].len = Len(active),
                            ![u].pc = IF active # <<>> \/ ~join[u].pre
                                      THEN "queue" ELSE "pool"]
    /\ UNCHANGED <<now, queues, bucket, poll, run, joins, faults, history>>

JoinQueue(u) ==
    /\ join[u].pc = "queue"
    /\ active' \in Zadd(active, u, TailScore(join[u].stamp, join[u].len))
    /\ join' = [join EXCEPT ![u] = [IdleJoin EXCEPT !.pc = "tidy"]]
    /\ taken' = taken \ {u} /\ strayed' = strayed \ {u}
    /\ IF u \in Members(active)
       THEN again' = again \cup {u} /\ ahead' = [ahead EXCEPT ![u] = {}]
       ELSE again' = again \ {u} /\ UNCHANGED ahead
    /\ UNCHANGED <<now, pool, watermark, indexed, bucket, poll, run, joins, faults,
                   joined, pops, since, spent, calm, polled>>

(* ZREM from the pool, and the answer.                                     *)
JoinTidy(u) ==
    /\ join[u].pc = "tidy"
    /\ pool' = pool \ {u}
    /\ join' = [join EXCEPT ![u] = IdleJoin]
    /\ joined' = joined \cup {u} /\ since' = [since EXCEPT ![u] = now]
    /\ UNCHANGED <<now, active, watermark, indexed, bucket, poll, run, joins, faults,
                   taken, strayed, pops, ahead, again, spent, calm, polled>>

(* The pool of a shuffle that has read it is about to be deleted.          *)
Shuffling == \E p \in Admitters \cup Crons : run[p].pc = "adding"

JoinPool(u) ==
    /\ join[u].pc = "pool"
    /\ pool' = pool \cup {u}
    /\ join' = [join EXCEPT ![u] = IdleJoin]
    /\ joined' = joined \cup {u} /\ since' = [since EXCEPT ![u] = now]
    /\ taken' = taken \ {u}
    /\ strayed' = IF Shuffling THEN strayed \cup {u} ELSE strayed \ {u}
    /\ UNCHANGED <<now, active, watermark, indexed, bucket, poll, run, joins, faults,
                   pops, ahead, again, spent, calm, polled>>

(* A command fails, perhaps after it was executed: 500, and the user has   *)
(* to join again.                                                          *)
JoinFails(u) ==
    /\ join[u].pc # "idle"
    /\ Fault
    /\ \/ UNCHANGED pool
       \/ join[u].pc = "pool" /\ pool' = pool \cup {u}
       \/ join[u].pc = "tidy" /\ pool' = pool \ {u}
    /\ join' = [join EXCEPT ![u] = IdleJoin]
    /\ joined' = joined \ {u}
    /\ ahead' = [ahead EXCEPT ![u] = {}]
    /\ UNCHANGED <<now, active, watermark, indexed, bucket, poll, run, joins,
                   taken, strayed, pops, again, since, spent, calm, polled>>

----------------------------------------------------------------------------
(* GET /queue/status: the rank, then the watermark; a token is signed for  *)
(* every user whose position does not exceed it, the bucket is not asked.  *)

Admitted(position) == position <= watermark

StatusRank(u) ==
    /\ poll[u] = None
    /\ u \in Members(active)
    /\ poll' = [poll EXCEPT ![u] = Rank(active, u)]
    /\ UNCHANGED <<now, queues, bucket, join, run, joins, faults, history>>

StatusWatermark(u) ==
    /\ poll[u] # None
    /\ polled' = IF Admitted(poll[u]) THEN polled \cup {u} ELSE polled
    /\ poll' = [poll EXCEPT ![u] = None]
    /\ UNCHANGED <<now, queues, bucket, join, run, joins, faults,
                   joined, taken, strayed, pops, ahead, again, since, spent, calm>>

----------------------------------------------------------------------------
(* maybeShufflePool, by an admission (at any time) or by the cron run (from *)
(* T-0 on).  It asks for the sizes of pool and queue at once: they are read *)
(* one after the other, in either order.  The pipeline is one request and   *)
(* not atomic.                                                              *)

Shuffled(p) == IF p \in Admitters THEN [IdleRun EXCEPT !.pc = "size"] ELSE IdleRun

(* The size read first decides against the shuffle, or leaves it to the    *)
(* other.                                                                  *)
FirstSize(p) ==
    \/ /\ pool = {} \/ active # <<>>
       /\ run' = [run EXCEPT ![p] = Shuffled(p)]
    \/ pool # {} /\ run' = [run EXCEPT ![p].pc = "cardqueue"]
    \/ active = <<>> /\ run' = [run EXCEPT ![p].pc = "cardpool"]

AdmitCall(p) ==
    /\ p \in Admitters /\ run[p].pc = "idle"
    /\ FirstSize(p)
    /\ UNCHANGED <<now, queues, bucket, join, poll, joins, faults, history>>

CronCall(p) ==
    /\ p \in Crons /\ run[p].pc = "idle"
    /\ indexed /\ OnSaleAt # None /\ \E stamp \in Readings : ~PreSale(stamp)
    /\ FirstSize(p)
    /\ UNCHANGED <<now, queues, bucket, join, poll, joins, faults, history>>

SecondSize(p) ==
    /\ run[p].pc \in {"cardqueue", "cardpool"}
    /\ LET wanted == IF run[p].pc = "cardqueue" THEN active = <<>> ELSE pool # {} IN
          run' = [run EXCEPT ![p] = IF wanted THEN [IdleRun EXCEPT !.pc = "range"]
                                    ELSE Shuffled(p)]
    /\ UNCHANGED <<now, queues, bucket, join, poll, joins, faults, history>>

ShuffleRead(p) ==
    /\ run[p].pc = "range"
    /\ \/ /\ pool = {}
          /\ run' = [run EXCEPT ![p] = Shuffled(p)]
       \/ \E order \in SetToSeqs(pool), stamp \in Readings :
             /\ order # <<>>
             /\ run' = [run EXCEPT ![p].pc = "adding", ![p].todo = order, ![p].stamp = stamp]
    /\ UNCHANGED <<now, queues, bucket, join, poll, joins, faults, history>>

(* One ZADD of the pipeline.                                               *)
ShuffleAdd(p) ==
    /\ run[p].pc = "adding" /\ run[p].todo # <<>>
    /\ LET u == Head(run[p].todo) IN
          /\ active' \in Zadd(active, u, 2 * run[p].stamp)
          /\ ahead' = [v \in Users |-> IF v = u THEN {} ELSE ahead[v] \ {u}]
          /\ since' = [since EXCEPT ![u] = now]
    /\ run' = [run EXCEPT ![p].todo = Tail(@), ![p].stamp = @ + 1]
    /\ UNCHANGED <<now, pool, watermark, indexed, bucket, join, poll, joins, faults,
                   joined, taken, strayed, pops, again, spent, calm, polled>>

ShuffleDrop(p) ==
    /\ run[p].pc = "adding" /\ run[p].todo = <<>>
    /\ pool' = {}
    /\ run' = [run EXCEPT ![p] = [IdleRun EXCEPT !.pc = "reset"]]
    /\ UNCHANGED <<now, active, watermark, indexed, bucket, join, poll, joins, faults, history>>

ShuffleReset(p) ==
    /\ run[p].pc = "reset"
    /\ watermark' = 0
    /\ run' = [run EXCEPT ![p] = Shuffled(p)]
    /\ UNCHANGED <<now, pool, active, indexed, bucket, join, poll, joins, faults, history>>

----------------------------------------------------------------------------
(* POST /queue/admit.                                                      *)

AdmitSize(p) ==
    /\ run[p].pc = "size"
    /\ \/ /\ active = <<>>
          /\ run' = [run EXCEPT ![p] = IdleRun]
       \/ \E want \in 1 .. Min({BatchMax, Len(active)}), stamp \in Readings :
             run' = [run EXCEPT ![p].pc = "read", ![p].want = want, ![p].stamp = stamp]
    /\ UNCHANGED <<now, queues, bucket, join, poll, joins, faults, history>>

(* GET of the bucket; an error is taken for a missing key.                 *)
BucketRead(p) ==
    /\ run[p].pc = "read"
    /\ \/ run' = [run EXCEPT ![p].pc = "write", ![p].seen = bucket] /\ UNCHANGED faults
       \/ run' = [run EXCEPT ![p].pc = "write", ![p].seen = None] /\ Fault
    /\ UNCHANGED <<now, queues, bucket, join, poll, joins, history>>

Refilled(state, stamp) ==
    Min({Capacity, state.tokens + Refill * Max({0, stamp - state.last})})

NewBucket(state, stamp, tokens) == [tokens |-> tokens, last |-> stamp]

Allowed(tokens, want) == tokens >= want

(* An update that wrote over another, or with an older time, troubles the  *)
(* bucket up to the times it was about.                                    *)
Troubled(r, state) ==
    IF bucket = r.seen /\ state.last <= r.stamp THEN calm
    ELSE Max({calm, r.stamp + 1} \cup IF bucket = None THEN {} ELSE {bucket.last + 1})

(* The SET of tokenBucketConsume: refill, and take want tokens or none.    *)
BucketWrite(p) ==
    LET r == run[p]
        state == IF r.seen = None THEN [tokens |-> Capacity, last |-> r.stamp] ELSE r.seen
        tokens == Refilled(state, r.stamp)
    IN
    /\ r.pc = "write"
    /\ \/ /\ ~Allowed(tokens, r.want)
          /\ bucket' = NewBucket(state, r.stamp, tokens)
          /\ run' = [run EXCEPT ![p] = IdleRun]
          /\ UNCHANGED spent
       \/ /\ Allowed(tokens, r.want)
          /\ bucket' = NewBucket(state, r.stamp, tokens - r.want)
          /\ run' = [run EXCEPT ![p] = [IdleRun EXCEPT !.pc = "pop", !.want = r.want]]
          /\ spent' = [spent EXCEPT ![r.stamp] = @ + r.want]
    /\ calm' = Troubled(r, state)
    /\ UNCHANGED <<now, queues, join, poll, joins, faults,
                   joined, taken, strayed, pops, ahead, again, since, polled>>

FirstOf(n) == {active[i].user : i \in 1 .. Min({n, Len(active)})}

(* ZPOPMIN want.                                                           *)
Pop(p) ==
    /\ run[p].pc = "pop"
    /\ active' = SubSeq(active, run[p].want + 1, Len(active))
    /\ run' = [run EXCEPT ![p].pc = "getmark", ![p].got = FirstOf(run[p].want)]
    /\ taken' = taken \cup FirstOf(run[p].want)
    /\ pops' = pops + Cardinality(FirstOf(run[p].want))
    /\ UNCHANGED <<now, pool, watermark, indexed, bucket, join, poll, joins, faults,
                   joined, strayed, ahead, again, since, spent, calm, polled>>

(* Its reply is lost, perhaps after it was executed: whoever it took is in *)
(* no queue, and the fallback takes want users again, one by one.          *)
PopReplyLost(p) ==
    /\ run[p].pc = "pop"
    /\ Fault
    /\ \E n \in {0, run[p].want} :
          /\ active' = SubSeq(active, n + 1, Len(active))
          /\ strayed' = strayed \cup FirstOf(n)
          /\ pops' = pops + Cardinality(FirstOf(n))
    /\ run' = [run EXCEPT ![p].pc = "popone"]
    /\ UNCHANGED <<now, pool, watermark, indexed, bucket, join, poll, joins,
                   joined, taken, ahead, again, since, spent, calm, polled>>

PopOne(p) ==
    /\ run[p].pc = "popone"
    /\ \/ /\ active = <<>> \/ run[p].want = 0
          /\ run' = [run EXCEPT ![p].pc = "getmark"]
          /\ UNCHANGED <<active, taken, pops>>
       \/ /\ active # <<>> /\ run[p].want > 0
          /\ active' = Tail(active)
          /\ run' = [run EXCEPT ![p].want = @ - 1, ![p].got = @ \cup FirstOf(1)]
          /\ taken' = taken \cup FirstOf(1)
          /\ pops' = pops + 1
    /\ UNCHANGED <<now, pool, watermark, indexed, bucket, join, poll, joins, faults,
                   joined, strayed, ahead, again, since, spent, calm, polled>>

GetMark(p) ==
    /\ run[p].pc = "getmark"
    /\ run' = [run EXCEPT ![p].pc = "setmark", ![p].mark = watermark]
    /\ UNCHANGED <<now, queues, bucket, join, poll, joins, faults, history>>

(* The SET, and then a token for every user taken, in the answer to the    *)
(* admission: no more of the state modelled here changes.                  *)
SetMark(p) ==
    /\ run[p].pc = "setmark"
    /\ watermark' = run[p].mark + Cardinality(run[p].got)
    /\ run' = [run EXCEPT ![p] = IdleRun]
    /\ UNCHANGED <<now, pool, active, indexed, bucket, join, poll, joins, faults, history>>

(* A command fails, or the worker is stopped; a pipeline that was sent is  *)
(* executed to its end.                                                    *)
RunFails(p) ==
    /\ run[p].pc \notin {"idle", "adding", "reset"}
    /\ Fault
    /\ run' = [run EXCEPT ![p] = IdleRun]
    /\ UNCHANGED <<now, queues, bucket, join, poll, joins, history>>

Tick ==
    /\ now < MaxTime
    /\ now' = now + 1
    /\ UNCHANGED <<queues, bucket, requests, history>>

----------------------------------------------------------------------------
Init ==
    /\ now = 0
    /\ pool = {} /\ active = <<>> /\ watermark = 0 /\ bucket = None /\ indexed = FALSE
    /\ join = [u \in Users |-> IdleJoin]
    /\ poll = [u \in Users |-> None]
    /\ run = [p \in Admitters \cup Crons |-> IdleRun]
    /\ joins = 0 /\ faults = 0
    /\ joined = {} /\ taken = {} /\ strayed = {} /\ pops = 0
    /\ ahead = [u \in Users |-> {}] /\ again = {} /\ since = [u \in Users |-> 0]
    /\ spent = [t \in Times |-> 0]
    /\ calm = 0 /\ polled = {}

JoinStep(u) == JoinCount(u) \/ JoinQueue(u) \/ JoinTidy(u) \/ JoinPool(u) \/ JoinFails(u)
ShuffleStep(p) ==
    \/ SecondSize(p) \/ ShuffleRead(p)
    \/ ShuffleAdd(p) \/ ShuffleDrop(p) \/ ShuffleReset(p)
AdmitStep(p) ==
    \/ AdmitSize(p) \/ BucketRead(p) \/ BucketWrite(p)
    \/ Pop(p) \/ PopReplyLost(p) \/ PopOne(p)
    \/ GetMark(p) \/ SetMark(p)

Next ==
    \/ \E u \in Users : JoinCall(u) \/ JoinStep(u) \/ StatusRank(u) \/ StatusWatermark(u)
    \/ \E p \in Admitters \cup Crons :
          AdmitCall(p) \/ CronCall(p) \/ ShuffleStep(p) \/ AdmitStep(p) \/ RunFails(p)
    \/ Tick

Spec == Init /\ [][Next]_vars

----------------------------------------------------------------------------
RunStates == {"idle", "cardqueue", "cardpool", "range", "adding", "reset", "size", "read",
              "write", "pop", "popone", "getmark", "setmark"}
Buckets == [tokens : 0 .. Capacity, last : Times] \cup {None}

(* The shape of the keys and of the requests in progress.                  *)
TypeOK ==
    /\ now \in 0 .. MaxTime
    /\ pool \subseteq Users /\ indexed \in BOOLEAN
    /\ active \in Seq([user : Users, score : Nat])
    /\ watermark \in Nat
    /\ bucket \in Buckets
    /\ join \in [Users -> [pc : {"idle", "count", "queue", "tidy", "pool"},
                           stamp : Times, len : Nat, pre : BOOLEAN]]
    /\ poll \in [Users -> Nat \cup {None}]
    /\ run \in [Admitters \cup Crons ->
                   [pc : RunStates, todo : Seq(Users), stamp : Nat, want : 0 .. BatchMax,
                    seen : Buckets, got : SUBSET Users, mark : Nat]]
    /\ joins \in 0 .. MaxJoins /\ faults \in 0 .. MaxFaults
    /\ joined \subseteq Users /\ taken \subseteq Users /\ strayed \subseteq Users
    /\ pops \in Nat /\ ahead \in [Users -> SUBSET Users] /\ again \subseteq Users
    /\ since \in [Users -> 0 .. MaxTime]
    /\ spent \in [Times -> Nat] /\ calm \in Nat /\ polled \subseteq Users

(* A user whose join was answered waits in the pool or in the queue until  *)
(* an admission takes it, whatever joins, shuffles and admissions run at   *)
(* once.  Two steps can lose a user, and only these: a join put it into    *)
(* the pool between the ZRANGE and the DEL of a shuffle, or the reply to   *)
(* the ZPOPMIN that took it was lost.                                      *)
QueuedUntilAdmitted ==
    \A u \in joined : u \in pool \cup Members(active) \cup taken \cup strayed

(* The watermark that status compares positions with never runs ahead of   *)
(* the users really admitted, although it is read and written in two       *)
(* steps and reset by shuffles; so before the first admission status gives *)
(* no token.                                                               *)
WatermarkBehindAdmissions ==
    /\ watermark <= pops
    /\ polled # {} => pops > 0

(* In no interval of the time that the admissions read are more tokens     *)
(* granted than the bucket holds and gains, if the interval begins after   *)
(* the last bucket update that wrote over another one, missed the bucket   *)
(* by a failed GET or had an older time than the one before it.            *)
BucketHonoured ==
    \A t1, t2 \in Times :
        calm <= t1 /\ t1 <= t2 =>
            SumFunctionOnSet(spent, t1 .. t2) <= Capacity + Refill * (t2 - t1)

InOrder ==
    \A v \in Members(active) : \A u \in ahead[v] \cap Members(active) :
        join[v].pc = "idle" => Rank(active, u) < Rank(active, v)

(* Joins to the queue are served in their order until the first admission, *)
(* as far as the clocks can tell: whoever begins to join MaxSkew or more   *)
(* after another was answered, or was put into the queue by a shuffle,     *)
(* stands behind it, unless either was in the queue already when it joined.*)
FifoUntilAdmission == pops = 0 => InOrder

----------------------------------------------------------------------------
(* What the repository says of the program and the code does not do.       *)

(* index.ts:410 "score = maxScore + 1 to keep FIFO", README.md:242         *)
(* "Post-sale -> FIFO admission": the order holds throughout.              *)
FifoAlways == InOrder

(* index.ts:539 "if user at front of active queue and bucket allows, issue *)
(* token eagerly": no more users get a token by polling than the bucket    *)
(* granted.                                                                *)
PollsWithinBucket ==
    Cardinality(polled) <= SumFunctionOnSet(spent, Times)

============================================================================
