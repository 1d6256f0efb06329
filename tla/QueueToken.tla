---------------------------- MODULE QueueToken -----------------------------
(***************************************************************************)
(* The life of a queue token: signed by the waiting room                   *)
(* (edge/waiting-room/src/index.ts) for a status request or an admission,  *)
(* or by a page itself (frontend/app/page.tsx and checkout/page.tsx); kept *)
(* by Redis as a jti key, by a browser in localStorage and in a cookie;    *)
(* checked by edge/middleware.ts.  The booking service checks tokens too   *)
(* (internal/middleware/queue_auth.go), keeps nothing of them and looks at *)
(* no jti key: it has no step here.                                        *)
(*                                                                         *)
(* A token is its claims: the signature says that one of the signers above *)
(* made it.  Time is in seconds, and every clock that reads it floors.     *)
(* Signers may be off by `skew' from the checkers.  Redis EX counts        *)
(* seconds and has no clock that could be off.  One browser is modelled,   *)
(* with its tabs; which user the worker signs for is any.  Redis is        *)
(* configured; a JWT_SECRET is, too.                                       *)
(***************************************************************************)
EXTENDS Integers, Sequences, FiniteSetsExt

CONSTANTS
    Users, Events,
    Workers,        \* requests of status and admit in progress
    Homes,          \* tabs with the home page
    Checkouts,      \* tabs with the checkout page
    FirstEvent,     \* the event a page opens with
    Ttl,            \* JWT_TTL_SEC, 45
    Grace,          \* by how much a jti key outlives its token, 10
    Leeway,         \* leeway of both checkers, 5
    CookieMin,      \* least max-age of the cookie, 5
    PageTtl,        \* life of a token signed by a page, 600
    MaxSkew,        \* signers' clocks are at most this far off
    MaxTime,        \* bound: seconds
    MaxTokens,      \* bound: tokens signed in a behaviour
    MaxFaults,      \* bound: failed commands
    None

Tabs == Homes \cup Checkouts

ASSUME LifeAssumption ==
    /\ Ttl \in Nat /\ Leeway \in Nat /\ CookieMin \in Nat /\ PageTtl \in Nat
    /\ Grace \in Nat /\ MaxSkew \in Nat
    /\ Grace > Leeway + MaxSkew
ASSUME BrowserAssumption ==
    /\ FirstEvent \in Events /\ Homes \cap Checkouts = {}
    /\ None \notin Users \cup Events \cup Int
ASSUME BoundAssumption == MaxTime \in Nat /\ MaxTokens \in Nat /\ MaxFaults \in Nat

VARIABLES
    now,
    skew,           \* signers' clocks minus checkers' clocks
    signed,         \* the tokens ever signed; a token is an index of it
    keyUntil,       \* keyUntil[t]: the second its jti key ends; None: no key
    work,           \* work[w]: the status or admit request w
    known,          \* tokens that an answer has carried to a client
    popped,         \* users whom a finished or running admission has taken
    faults,
    userId,         \* localStorage tiket_user_id
    stored,         \* localStorage queue_token
    tab,            \* tab[p]: the token in the state of page p
    chosen,         \* chosen[p]: the event of page p
    joining,        \* joining[p]: the events p has asked to join, no answer yet
    cookie,         \* cookie queue_token and its end
    consumed        \* history: tokens that the middleware called consumed

serverVars == <<signed, keyUntil, work, known, popped>>
pageVars == <<userId, stored, tab, chosen, joining>>
edgeVars == <<cookie, consumed>>
vars == <<now, skew, serverVars, faults, pageVars, edgeVars>>

(* What verifies is what was signed: a token is an index of `signed'.      *)
Tokens == 1 .. Len(signed)
NoCookie == [token |-> None, until |-> 0]

(* A request of the worker: what is to sign, the token whose key is being  *)
(* stored, and those that are done.                                        *)
Request(by, event, todo, making, made) ==
    [by |-> by, event |-> event, todo |-> todo, making |-> making, made |-> made]
Idle == Request(None, None, {}, None, {})
Signing(w) == work[w].by # None /\ work[w].making = None
Keeping(w) == work[w].making # None

Fault == faults < MaxFaults /\ faults' = faults + 1

----------------------------------------------------------------------------
(* Faulty variants of definitions below: each is a slip the code could     *)
(* have had, and shows a property that it would break.                     *)
KeyEndsWithToken(t) == now + Ttl

CookieAgeOfWholeLife(t) == Max({CookieMin, signed[t].exp - signed[t].iat})

AnswersAfterOneToken(w) ==
    /\ Signing(w) /\ work[w].made # {}
    /\ known' = known \cup work[w].made
    /\ work' = [work EXCEPT ![w] = Idle]
    /\ UNCHANGED <<now, skew, signed, keyUntil, popped, faults, pageVars, edgeVars>>

ResetForgetsUser(p) ==
    /\ stored' = None
    /\ tab' = [tab EXCEPT ![p] = None]
    /\ userId' = None
    /\ UNCHANGED <<now, skew, serverVars, faults, chosen, joining, edgeVars>>

IndexFromZero == Len(signed)

----------------------------------------------------------------------------
(* Signing.                                                                *)

Claims(user, event, life, by) ==
    [user |-> user, event |-> event, iat |-> now + skew, exp |-> now + skew + life, by |-> by]

NextToken == Len(signed) + 1

Sign(claims) ==
    /\ Len(signed) < MaxTokens
    /\ signed' = Append(signed, claims)

KeyEnd(t) == now + Ttl + Grace

(* GET /queue/status for a user within the watermark (see WaitingRoom);    *)
(* every poll makes a new token.                                           *)
StatusCall(w) ==
    /\ work[w] = Idle
    /\ \E u \in Users, e \in Events :
          work' = [work EXCEPT ![w] = Request("status", e, {u}, None, {})]
    /\ UNCHANGED <<now, skew, signed, keyUntil, known, popped, faults, pageVars, edgeVars>>

(* POST /queue/admit, from the moment the users left the queue for good.   *)
AdmitCall(w) ==
    /\ work[w] = Idle
    /\ \E us \in (SUBSET Users) \ {{}}, e \in Events :
          /\ work' = [work EXCEPT ![w] = Request("admit", e, us, None, {})]
          /\ popped' = popped \cup (us \X {e})
    /\ UNCHANGED <<now, skew, signed, keyUntil, known, faults, pageVars, edgeVars>>

(* signQueueToken for the next user; the status request checks at once     *)
(* what it has signed, which is always in order.                           *)
SignFor(w) ==
    /\ Signing(w)
    /\ \E u \in work[w].todo :
          /\ Sign(Claims(u, work[w].event, Ttl, work[w].by))
          /\ work' = [work EXCEPT ![w] = Request(@.by, @.event, @.todo \ {u}, NextToken, @.made)]
    /\ keyUntil' = Append(keyUntil, None)
    /\ UNCHANGED <<now, skew, known, popped, faults, pageVars, edgeVars>>

Made(w) ==
    [work EXCEPT ![w] = Request(@.by, @.event, @.todo, None, @.made \cup {@.making})]

(* SET jti:{event}:jti EX ttl + 10.                                        *)
Keep(w) ==
    LET t == work[w].making IN
    /\ Keeping(w)
    /\ keyUntil' = [keyUntil EXCEPT ![t] = KeyEnd(t)]
    /\ work' = Made(w)
    /\ UNCHANGED <<now, skew, signed, known, popped, faults, pageVars, edgeVars>>

(* The SET fails, perhaps after it was executed.  Status goes on and gives *)
(* the token away; an admission throws, and no answer carries any of its   *)
(* tokens.                                                                 *)
KeepFails(w) ==
    LET t == work[w].making IN
    /\ Keeping(w)
    /\ Fault
    /\ keyUntil' \in {keyUntil, [keyUntil EXCEPT ![t] = KeyEnd(t)]}
    /\ work' = IF work[w].by = "status" THEN Made(w) ELSE [work EXCEPT ![w] = Idle]
    /\ UNCHANGED <<now, skew, signed, known, popped, pageVars, edgeVars>>

(* The answer, with the tokens of all users of the request, or its loss.   *)
Answer(w) ==
    /\ Signing(w) /\ work[w].todo = {}
    /\ \/ known' = known \cup work[w].made /\ UNCHANGED faults
       \/ Fault /\ UNCHANGED known
    /\ work' = [work EXCEPT ![w] = Idle]
    /\ UNCHANGED <<now, skew, signed, keyUntil, popped, pageVars, edgeVars>>

----------------------------------------------------------------------------
(* The pages.                                                              *)

(* joinQueue up to its request: an id is made up once per browser.         *)
JoinClick(p) ==
    /\ p \in Homes
    /\ IF userId = None THEN userId' \in Users ELSE UNCHANGED userId
    /\ joining' = [joining EXCEPT ![p] = @ \cup {chosen[p]}]
    /\ UNCHANGED <<now, skew, serverVars, faults, stored, tab, chosen, edgeVars>>

(* The worker answers: an answer to a join carries no token.               *)
JoinAnswered(p) ==
    /\ \E e \in joining[p] : joining' = [joining EXCEPT ![p] = @ \ {e}]
    /\ UNCHANGED <<now, skew, serverVars, faults, userId, stored, tab, chosen, edgeVars>>

SignInPage(p, user, event) ==
    /\ Sign(Claims(user, event, PageTtl, "page"))
    /\ keyUntil' = Append(keyUntil, None)
    /\ stored' = NextToken
    /\ tab' = [tab EXCEPT ![p] = NextToken]

(* The worker is away or refuses: signDevQueueToken, for the event that    *)
(* was selected at the click.                                              *)
JoinFallsBack(p) ==
    /\ \E e \in joining[p] :
          /\ SignInPage(p, userId, e)
          /\ joining' = [joining EXCEPT ![p] = @ \ {e}]
    /\ UNCHANGED <<now, skew, work, known, popped, faults, userId, chosen, edgeVars>>

(* ensureToken of the checkout page, before a hold or a commit.            *)
EnsureToken(p) ==
    /\ p \in Checkouts /\ tab[p] = None
    /\ IF userId = None THEN userId' \in Users ELSE UNCHANGED userId
    /\ SignInPage(p, userId', chosen[p])
    /\ UNCHANGED <<now, skew, work, known, popped, faults, chosen, joining, edgeVars>>

SelectEvent(p) ==
    /\ p \in Homes
    /\ \E e \in Events : chosen' = [chosen EXCEPT ![p] = e]
    /\ UNCHANGED <<now, skew, serverVars, faults, userId, stored, tab, joining, edgeVars>>

(* CLEAR TOKEN.                                                            *)
ResetToken(p) ==
    /\ stored' = None
    /\ tab' = [tab EXCEPT ![p] = None]
    /\ UNCHANGED <<now, skew, serverVars, faults, userId, chosen, joining, edgeVars>>

(* A page is opened anew; the event of a checkout page is in its URL.      *)
Open(p) ==
    /\ tab' = [tab EXCEPT ![p] = stored]
    /\ joining' = [joining EXCEPT ![p] = {}]
    /\ IF p \in Homes THEN chosen' = [chosen EXCEPT ![p] = FirstEvent]
       ELSE \E e \in Events : chosen' = [chosen EXCEPT ![p] = e]
    /\ UNCHANGED <<now, skew, serverVars, faults, userId, stored, edgeVars>>

----------------------------------------------------------------------------
(* The middleware.                                                         *)

EdgeTimely(t) ==
    /\ now <= signed[t].exp + Leeway
    /\ now + Leeway >= signed[t].iat

EventFits(t, event) == event # None => signed[t].event = event

KeyLives(t) == keyUntil[t] # None /\ now < keyUntil[t]

Cookie == IF now < cookie.until THEN cookie.token ELSE None

FirstGiven(header, query) ==
    IF header # None THEN header ELSE IF Cookie # None THEN Cookie ELSE query

InTabs == ({stored} \cup {tab[p] : p \in Tabs}) \ {None}
Given == known \cup InTabs
Presented == {FirstGiven(header, query) : header, query \in Given \cup {None}} \ {None}

CookieAge(t) == Max({CookieMin, signed[t].exp - now})

(* The cookie is only set where there is none.                             *)
CookieAfter(t) ==
    IF Cookie = None THEN [token |-> t, until |-> now + CookieAge(t)] ELSE cookie

(* A request to /checkout or /api/hold, with a token in a header, in the   *)
(* query, or not, for an event named in it, or not.  Any other is sent to  *)
(* the waiting room or answered 401 or 403, which changes nothing.  An     *)
(* error of Redis lets a request through.                                  *)
Visit ==
    /\ \E t \in Presented, event \in Events \cup {None} :
          /\ EdgeTimely(t) /\ EventFits(t, event)
          /\ \/ KeyLives(t) /\ cookie' = CookieAfter(t) /\ UNCHANGED <<consumed, faults>>
             \/ ~KeyLives(t) /\ consumed' = consumed \cup {t} /\ UNCHANGED <<cookie, faults>>
             \/ Fault /\ cookie' = CookieAfter(t) /\ UNCHANGED consumed
    /\ UNCHANGED <<now, skew, serverVars, pageVars>>

Tick ==
    /\ now < MaxTime
    /\ now' = now + 1
    /\ UNCHANGED <<skew, serverVars, faults, pageVars, edgeVars>>

----------------------------------------------------------------------------
Init ==
    /\ now = 0 /\ skew \in -MaxSkew .. MaxSkew
    /\ signed = <<>> /\ keyUntil = <<>>
    /\ work = [w \in Workers |-> Idle]
    /\ known = {} /\ popped = {} /\ faults = 0
    /\ userId = None /\ stored = None
    /\ tab = [p \in Tabs |-> None]
    /\ chosen = [p \in Tabs |-> FirstEvent]
    /\ joining = [p \in Tabs |-> {}]
    /\ cookie = NoCookie /\ consumed = {}

WorkerStep(w) ==
    StatusCall(w) \/ AdmitCall(w) \/ SignFor(w) \/ Keep(w) \/ KeepFails(w) \/ Answer(w)
PageStep(p) ==
    \/ JoinClick(p) \/ JoinAnswered(p) \/ JoinFallsBack(p) \/ EnsureToken(p)
    \/ SelectEvent(p) \/ ResetToken(p) \/ Open(p)

Next ==
    \/ \E w \in Workers : WorkerStep(w)
    \/ \E p \in Tabs : PageStep(p)
    \/ Visit
    \/ Tick

Spec == Init /\ [][Next]_vars

----------------------------------------------------------------------------
MaybeToken == Tokens \cup {None}
Requests == [by : {"status", "admit", None}, event : Events \cup {None}, todo : SUBSET Users,
             making : MaybeToken, made : SUBSET Tokens]
ClaimSet == [user : Users, event : Events, iat : Int, exp : Int, by : {"status", "admit", "page"}]

(* The shape of the state; whatever refers to a token refers to a signed   *)
(* one.                                                                    *)
TypeOK ==
    /\ now \in Nat /\ skew \in -MaxSkew .. MaxSkew /\ faults \in 0 .. MaxFaults
    /\ signed \in Seq(ClaimSet)
    /\ keyUntil \in Seq(Int \cup {None}) /\ Len(keyUntil) = Len(signed)
    /\ work \in [Workers -> Requests]
    /\ known \subseteq Tokens /\ popped \subseteq Users \X Events
    /\ userId \in Users \cup {None} /\ stored \in MaybeToken
    /\ tab \in [Tabs -> MaybeToken]
    /\ chosen \in [Tabs -> Events] /\ joining \in [Tabs -> SUBSET Events]
    /\ cookie \in [token : MaybeToken, until : Int]
    /\ consumed \subseteq Tokens

(* A token in force is called consumed only if its page signed it, or its  *)
(* status request failed to store the jti key: a key outlives its token,   *)
(* the leeway, and the skew of the clock that signed it.                   *)
ConsumedOnlyWithoutKey ==
    \A t \in consumed :
        \/ signed[t].by = "page"
        \/ signed[t].by = "status" /\ faults > 0

(* The cookie comes before the token of a link, so a dead token in it      *)
(* locks a fresh link out: no longer than CookieMin after the leeway, even *)
(* if the cookie was set in the last second of that.                       *)
DeadCookieIsShort ==
    Cookie # None => now < signed[Cookie].exp + Leeway + CookieMin

(* Nobody taken from the queue is left without a token, once no request is *)
(* working and as long as nothing has failed: the answer has a token, with *)
(* its key, for everyone.                                                  *)
PoppedGetTokens ==
    faults = 0 /\ (\A w \in Workers : work[w] = Idle) =>
        \A x \in popped : \E t \in known :
            /\ signed[t].by = "admit" /\ keyUntil[t] # None
            /\ signed[t].user = x[1] /\ signed[t].event = x[2]

(* All tabs of a browser hold tokens of one user, although they sign for   *)
(* themselves, reset each other's tokens and reload at any time: the limit *)
(* per user is one limit per browser.                                      *)
TabsAreOneUser ==
    \A t \in InTabs : signed[t].user = userId

============================================================================
