------------------------- MODULE QueueTokenProofs --------------------------
(***************************************************************************)
(* Proofs about QueueToken: for any number of users, tabs, requests of the *)
(* worker and seconds, and any lifetimes in the relation of LifeAssumption.*)
(***************************************************************************)
EXTENDS QueueToken, TLAPS

(* A request that is working has an event, and what it is storing the key  *)
(* of is its own; a join that was asked for has a user.                    *)
RequestsInv ==
    /\ \A w \in Workers :
          /\ work[w].by # None => work[w].event \in Events
          /\ work[w].making # None =>
                /\ work[w].by # None
                /\ signed[work[w].making].by = work[w].by
                /\ signed[work[w].making].event = work[w].event
    /\ \A p \in Tabs : joining[p] # {} => userId # None

ShapeInv == TypeOK /\ RequestsInv

----------------------------------------------------------------------------
(* A new token is the next index; the older ones and their keys stay.      *)
LEMMA SignFacts ==
    ASSUME TypeOK, NEW c \in ClaimSet, Sign(c), keyUntil' = Append(keyUntil, None)
    PROVE  /\ signed' \in Seq(ClaimSet) /\ keyUntil' \in Seq(Int \cup {None})
           /\ Len(keyUntil') = Len(signed')
           /\ Tokens' = Tokens \cup {NextToken} /\ NextToken \notin Tokens
           /\ NextToken \in Nat
           /\ \A t \in Tokens : signed'[t] = signed[t] /\ keyUntil'[t] = keyUntil[t]
           /\ signed'[NextToken] = c /\ keyUntil'[NextToken] = None
  BY DEF TypeOK, Sign, Tokens, NextToken

LEMMA ClaimsFacts ==
    ASSUME TypeOK, NEW u \in Users, NEW e \in Events, NEW life \in Nat,
           NEW by \in {"status", "admit", "page"}
    PROVE  /\ Claims(u, e, life, by) \in ClaimSet
           /\ Claims(u, e, life, by).user = u /\ Claims(u, e, life, by).event = e
           /\ Claims(u, e, life, by).by = by
           /\ Claims(u, e, life, by).exp = now + skew + life
<1>1. now \in Int /\ skew \in Int
  BY LifeAssumption DEF TypeOK
<1> QED
  BY <1>1 DEF Claims, ClaimSet

LEMMA KeyFacts ==
    ASSUME TypeOK, NEW t \in Tokens, keyUntil' = [keyUntil EXCEPT ![t] = KeyEnd(t)]
    PROVE  /\ keyUntil' \in Seq(Int \cup {None}) /\ Len(keyUntil') = Len(keyUntil)
           /\ keyUntil'[t] = now + Ttl + Grace
           /\ \A s \in Tokens : s # t => keyUntil'[s] = keyUntil[s]
<1>1. now + Ttl + Grace \in Int
  BY LifeAssumption DEF TypeOK
<1> QED
  BY <1>1 DEF TypeOK, KeyEnd, Tokens

LEMMA FaultFacts ==
    ASSUME TypeOK
    PROVE  /\ faults \in Nat
           /\ Fault => faults' \in 0 .. MaxFaults /\ faults' = faults + 1
  BY BoundAssumption DEF TypeOK, Fault

LEMMA CookieAgeFacts ==
    ASSUME TypeOK, NEW t \in Tokens
    PROVE  /\ CookieAge(t) \in Int
           /\ CookieAge(t) = CookieMin \/ CookieAge(t) = signed[t].exp - now
<1> DEFINE S == {CookieMin, signed[t].exp - now}
<1>0. signed[t] \in ClaimSet /\ now \in Int
  BY DEF TypeOK, Tokens
<1>1. CookieMin \in Int /\ signed[t].exp - now \in Int
  BY <1>0, LifeAssumption DEF ClaimSet
<1>2. \E x \in S : \A y \in S : x >= y
  <2>1. CASE CookieMin >= signed[t].exp - now
    BY <1>1, <2>1
  <2>2. CASE ~(CookieMin >= signed[t].exp - now)
    BY <1>1, <2>2
  <2> QED
    BY <2>1, <2>2
<1>3. Max(S) \in S
  BY <1>2 DEF Max
<1> QED
  BY <1>1, <1>3 DEF CookieAge

LEMMA PresentedFacts ==
    ASSUME TypeOK, NEW t \in Presented
    PROVE  /\ t \in Tokens
           /\ t \in known \cup InTabs \/ (t = cookie.token /\ cookie.token # None)
<1>1. InTabs \subseteq Tokens /\ known \subseteq Tokens
  BY DEF TypeOK, InTabs, MaybeToken
<1>2. Cookie \in MaybeToken
  BY DEF TypeOK, Cookie, MaybeToken
<1>3. PICK header \in Given \cup {None}, query \in Given \cup {None} :
          t = FirstGiven(header, query)
  BY DEF Presented
<1>4. t # None
  BY DEF Presented
<1>5. t \in known \cup InTabs \/ (t = Cookie /\ Cookie # None)
  BY <1>3, <1>4 DEF FirstGiven, Given
<1> QED
  BY <1>1, <1>2, <1>5 DEF Cookie, MaybeToken

----------------------------------------------------------------------------
(* The shape of the state.                                                 *)

LEMMA ShapeInit == Init => ShapeInv
  BY LifeAssumption, BrowserAssumption, BoundAssumption
     DEF Init, ShapeInv, TypeOK, RequestsInv, Idle, Request, Requests, NoCookie, Tokens,
         MaybeToken

(* What a step of the worker leaves to show.                               *)
LEMMA ShapeOfWork ==
    ASSUME ShapeInv, NEW w \in Workers, NEW r \in Requests',
           work' = [work EXCEPT ![w] = r],
           r.by # None => r.event \in Events,
           r.making # None => /\ r.by # None
                              /\ signed'[r.making].by = r.by
                              /\ signed'[r.making].event = r.event,
           signed' \in Seq(ClaimSet), keyUntil' \in Seq(Int \cup {None}),
           Len(keyUntil') = Len(signed'),
           Tokens \subseteq Tokens', \A t \in Tokens : signed'[t] = signed[t],
           known' \subseteq Tokens', popped' \subseteq Users \X Events,
           faults' \in 0 .. MaxFaults, UNCHANGED <<now, skew, pageVars, edgeVars>>
    PROVE  ShapeInv'
<1>1. Requests \subseteq Requests' /\ MaybeToken \subseteq MaybeToken'
  BY DEF Requests, MaybeToken
<1>2. TypeOK'
  BY <1>1 DEF ShapeInv, TypeOK, pageVars, edgeVars, MaybeToken
<1>3. ASSUME NEW v \in Workers
      PROVE  /\ work'[v].by # None => work'[v].event \in Events
             /\ work'[v].making # None =>
                   /\ work'[v].by # None
                   /\ signed'[work'[v].making].by = work'[v].by
                   /\ signed'[work'[v].making].event = work'[v].event
  <2>1. CASE v = w
    BY <2>1 DEF ShapeInv, TypeOK
  <2>2. CASE v # w
    <3>1. work'[v] = work[v] /\ work[v] \in Requests
      BY <2>2 DEF ShapeInv, TypeOK
    <3>2. work[v].making # None => work[v].making \in Tokens
      BY <3>1 DEF Requests, MaybeToken
    <3> QED
      BY <3>1, <3>2 DEF ShapeInv, RequestsInv
  <2> QED
    BY <2>1, <2>2
<1>4. RequestsInv'
  BY <1>3 DEF ShapeInv, RequestsInv, pageVars
<1> QED
  BY <1>2, <1>4 DEF ShapeInv

(* What a step of a page, of the middleware or of time leaves to show.     *)
LEMMA ShapeOfPages ==
    ASSUME ShapeInv, UNCHANGED <<work, known, popped, skew>>,
           signed' \in Seq(ClaimSet), keyUntil' \in Seq(Int \cup {None}),
           Len(keyUntil') = Len(signed'),
           Tokens \subseteq Tokens', \A t \in Tokens : signed'[t] = signed[t],
           now' \in Nat, faults' \in 0 .. MaxFaults,
           userId' \in Users \cup {None}, stored' \in MaybeToken',
           tab' \in [Tabs -> MaybeToken'],
           chosen' \in [Tabs -> Events], joining' \in [Tabs -> SUBSET Events],
           \A p \in Tabs : joining'[p] # {} => userId' # None,
           cookie' \in [token : MaybeToken, until : Int], consumed' \subseteq Tokens
    PROVE  ShapeInv'
<1>1. Requests \subseteq Requests' /\ MaybeToken \subseteq MaybeToken'
  BY DEF Requests, MaybeToken
<1>2. TypeOK'
  BY <1>1 DEF ShapeInv, TypeOK
<1>3. ASSUME NEW v \in Workers, work[v].making # None
      PROVE  work[v].making \in Tokens
  BY <1>3 DEF ShapeInv, TypeOK, Requests, MaybeToken
<1>4. RequestsInv'
  BY <1>3 DEF ShapeInv, RequestsInv
<1> QED
  BY <1>2, <1>4 DEF ShapeInv

LEMMA NothingSigned ==
    ASSUME TypeOK, UNCHANGED <<signed, keyUntil>>
    PROVE  /\ signed' \in Seq(ClaimSet) /\ keyUntil' \in Seq(Int \cup {None})
           /\ Len(keyUntil') = Len(signed') /\ Tokens' = Tokens
           /\ MaybeToken' = MaybeToken /\ Requests' = Requests
           /\ \A t \in Tokens : signed'[t] = signed[t] /\ keyUntil'[t] = keyUntil[t]
  BY DEF TypeOK, Tokens, MaybeToken, Requests

LEMMA ShapeOfWorkerStep ==
    ASSUME ShapeInv, NEW w \in Workers, WorkerStep(w)
    PROVE  ShapeInv'
<1> USE DEF serverVars
<1>0. TypeOK /\ work \in [Workers -> Requests] /\ work[w] \in Requests
  BY DEF ShapeInv, TypeOK
<1>1. CASE StatusCall(w)
  <2>1. PICK u \in Users, e \in Events :
            work' = [work EXCEPT ![w] = Request("status", e, {u}, None, {})]
    BY <1>1 DEF StatusCall
  <2>2. Request("status", e, {u}, None, {}) \in Requests
    BY DEF Request, Requests, MaybeToken
  <2> QED
    BY <1>0, <1>1, <2>1, <2>2, NothingSigned, ShapeOfWork
       DEF StatusCall, Request, TypeOK
<1>2. CASE AdmitCall(w)
  <2>1. PICK us \in (SUBSET Users) \ {{}}, e \in Events :
            /\ work' = [work EXCEPT ![w] = Request("admit", e, us, None, {})]
            /\ popped' = popped \cup (us \X {e})
    BY <1>2 DEF AdmitCall
  <2>2. Request("admit", e, us, None, {}) \in Requests
    BY DEF Request, Requests, MaybeToken
  <2>3. popped' \subseteq Users \X Events
    BY <1>0, <2>1 DEF TypeOK
  <2> QED
    BY <1>0, <1>2, <2>1, <2>2, <2>3, NothingSigned, ShapeOfWork
       DEF AdmitCall, Request, TypeOK
<1>3. CASE SignFor(w)
  <2>1. PICK u \in work[w].todo :
            /\ Sign(Claims(u, work[w].event, Ttl, work[w].by))
            /\ work' = [work EXCEPT ![w] = Request(work[w].by, work[w].event,
                            work[w].todo \ {u}, NextToken, work[w].made)]
    BY <1>0, <1>3 DEF SignFor
  <2>2. /\ work[w].event \in Events /\ u \in Users
        /\ work[w].by # None /\ work[w].by \in {"status", "admit"}
    BY <1>0, <1>3, <2>1 DEF SignFor, Signing, ShapeInv, RequestsInv, Requests
  <2>3. /\ Claims(u, work[w].event, Ttl, work[w].by) \in ClaimSet
        /\ Claims(u, work[w].event, Ttl, work[w].by).by = work[w].by
        /\ Claims(u, work[w].event, Ttl, work[w].by).event = work[w].event
    BY <1>0, <2>2, ClaimsFacts, LifeAssumption
  <2>4. keyUntil' = Append(keyUntil, None)
    BY <1>3 DEF SignFor
  <2>5. /\ signed' \in Seq(ClaimSet) /\ keyUntil' \in Seq(Int \cup {None})
        /\ Len(keyUntil') = Len(signed')
        /\ Tokens' = Tokens \cup {NextToken}
        /\ \A t \in Tokens : signed'[t] = signed[t]
        /\ signed'[NextToken].by = work[w].by /\ signed'[NextToken].event = work[w].event
    BY <1>0, <2>1, <2>3, <2>4, SignFacts
  <2>6. Request(work[w].by, work[w].event, work[w].todo \ {u}, NextToken, work[w].made)
            \in Requests'
    BY <1>0, <2>5 DEF Request, Requests, MaybeToken
  <2> DEFINE r == Request(work[w].by, work[w].event, work[w].todo \ {u}, NextToken, work[w].made)
  <2>7. r.by = work[w].by /\ r.event = work[w].event /\ r.making = NextToken
    BY DEF Request
  <2>8. /\ UNCHANGED <<now, skew, pageVars, edgeVars>>
        /\ known' \subseteq Tokens' /\ popped' \subseteq Users \X Events
        /\ faults' \in 0 .. MaxFaults
    BY <1>0, <1>3, <2>5 DEF SignFor, TypeOK
  <2>9. work' = [work EXCEPT ![w] = r] /\ r \in Requests'
    BY <2>1, <2>6
  <2>10. /\ r.by # None => r.event \in Events
         /\ r.making # None => /\ r.by # None
                               /\ signed'[r.making].by = r.by
                               /\ signed'[r.making].event = r.event
    BY <2>2, <2>5, <2>7
  <2>11. Tokens \subseteq Tokens' /\ \A t \in Tokens : signed'[t] = signed[t]
    BY <2>5
  <2> HIDE DEF r
  <2> QED
    BY <2>5, <2>8, <2>9, <2>10, <2>11, ShapeOfWork
<1>4. ASSUME Keeping(w)
      PROVE  /\ work[w].making \in Tokens
             /\ Request(work[w].by, work[w].event, work[w].todo, None,
                        work[w].made \cup {work[w].making}) \in Requests
  BY <1>0, <1>4 DEF Keeping, Request, Requests, MaybeToken
<1>5. Made(w) = [work EXCEPT ![w] = Request(work[w].by, work[w].event, work[w].todo, None,
                                            work[w].made \cup {work[w].making})]
  BY <1>0 DEF Made
<1>6. ASSUME Keeping(w), keyUntil' = [keyUntil EXCEPT ![work[w].making] = KeyEnd(work[w].making)],
             UNCHANGED signed
      PROVE  /\ keyUntil' \in Seq(Int \cup {None}) /\ Len(keyUntil') = Len(signed')
             /\ Tokens' = Tokens /\ Requests' = Requests
  BY <1>0, <1>4, <1>6, KeyFacts DEF TypeOK, Tokens, Requests, MaybeToken
<1>7. Idle \in Requests /\ Idle.by = None /\ Idle.making = None
  BY DEF Idle, Request, Requests, MaybeToken
<1>8. CASE Keep(w)
  BY <1>0, <1>4, <1>5, <1>6, <1>8, ShapeOfWork DEF Keep, Request, ShapeInv, RequestsInv, TypeOK
<1>9. CASE KeepFails(w)
  <2>1. faults' \in 0 .. MaxFaults
    BY <1>0, <1>9, FaultFacts DEF KeepFails
  <2>2. /\ keyUntil' \in Seq(Int \cup {None}) /\ Len(keyUntil') = Len(signed')
        /\ Tokens' = Tokens /\ Requests' = Requests
    BY <1>0, <1>6, <1>9, NothingSigned DEF KeepFails
  <2>3. CASE work[w].by = "status"
    BY <1>0, <1>4, <1>5, <1>9, <2>1, <2>2, <2>3, ShapeOfWork
       DEF KeepFails, Request, ShapeInv, RequestsInv, TypeOK
  <2>4. CASE work[w].by # "status"
    BY <1>0, <1>7, <1>9, <2>1, <2>2, <2>4, ShapeOfWork DEF KeepFails, TypeOK
  <2> QED
    BY <2>3, <2>4
<1>10. CASE Answer(w)
  <2>1. faults' \in 0 .. MaxFaults /\ known' \subseteq Tokens
    BY <1>0, <1>10, FaultFacts DEF Answer, TypeOK, Requests
  <2> QED
    BY <1>0, <1>7, <1>10, <2>1, NothingSigned, ShapeOfWork DEF Answer, TypeOK
<1> QED
  BY <1>1, <1>2, <1>3, <1>8, <1>9, <1>10 DEF WorkerStep

LEMMA SignInPageFacts ==
    ASSUME TypeOK, NEW p \in Tabs, NEW u \in Users, NEW e \in Events, SignInPage(p, u, e)
    PROVE  /\ signed' \in Seq(ClaimSet) /\ keyUntil' \in Seq(Int \cup {None})
           /\ Len(keyUntil') = Len(signed')
           /\ Tokens' = Tokens \cup {NextToken} /\ NextToken \notin Tokens
           /\ \A t \in Tokens : signed'[t] = signed[t] /\ keyUntil'[t] = keyUntil[t]
           /\ signed'[NextToken].user = u /\ signed'[NextToken].by = "page"
           /\ keyUntil'[NextToken] = None
           /\ stored' = NextToken /\ tab' = [tab EXCEPT ![p] = NextToken]
<1>1. /\ Claims(u, e, PageTtl, "page") \in ClaimSet
      /\ Claims(u, e, PageTtl, "page").user = u /\ Claims(u, e, PageTtl, "page").by = "page"
  BY ClaimsFacts, LifeAssumption
<1> QED
  BY <1>1, SignFacts DEF SignInPage

LEMMA ShapeOfPageStep ==
    ASSUME ShapeInv, NEW p \in Tabs, PageStep(p)
    PROVE  ShapeInv'
<1> USE DEF serverVars, edgeVars
<1>0. TypeOK
  BY DEF ShapeInv
<1>1. CASE JoinClick(p)
  <2>1. userId' \in Users
    BY <1>0, <1>1 DEF JoinClick, TypeOK
  <2>2. joining' \in [Tabs -> SUBSET Events]
    BY <1>0, <1>1 DEF JoinClick, TypeOK
  <2> QED
    BY <1>0, <1>1, <2>1, <2>2, NothingSigned, ShapeOfPages, BrowserAssumption
       DEF JoinClick, TypeOK
<1>2. ASSUME NEW e \in joining[p]
      PROVE  userId \in Users /\ e \in Events
  BY <1>0, <1>2 DEF ShapeInv, RequestsInv, TypeOK
<1>3. CASE JoinAnswered(p)
  <2>1. joining' \in [Tabs -> SUBSET Events] /\ userId' \in Users
    BY <1>0, <1>2, <1>3 DEF JoinAnswered, TypeOK
  <2> QED
    BY <1>0, <1>3, <2>1, NothingSigned, ShapeOfPages, BrowserAssumption
       DEF JoinAnswered, TypeOK
<1>4. ASSUME NEW u \in Users, NEW e \in Events, SignInPage(p, u, e)
      PROVE  /\ stored' \in MaybeToken' /\ tab' \in [Tabs -> MaybeToken']
             /\ MaybeToken \subseteq MaybeToken'
  <2>1. MaybeToken' = MaybeToken \cup {NextToken}
    BY <1>0, <1>4, SignInPageFacts DEF MaybeToken
  <2> QED
    BY <1>0, <1>4, <2>1, SignInPageFacts DEF TypeOK, MaybeToken
<1>5. CASE JoinFallsBack(p)
  <2>1. PICK e \in joining[p] :
            SignInPage(p, userId, e) /\ joining' = [joining EXCEPT ![p] = @ \ {e}]
    BY <1>5 DEF JoinFallsBack
  <2>2. joining' \in [Tabs -> SUBSET Events] /\ userId \in Users /\ e \in Events
    BY <1>0, <1>2, <2>1 DEF TypeOK
  <2> QED
    BY <1>0, <1>4, <1>5, <2>1, <2>2, SignInPageFacts, ShapeOfPages, BrowserAssumption
       DEF JoinFallsBack, TypeOK
<1>6. CASE EnsureToken(p)
  <2>1. userId' \in Users /\ chosen[p] \in Events
    BY <1>0, <1>6 DEF EnsureToken, TypeOK
  <2>2. SignInPage(p, userId', chosen[p])
    BY <1>6 DEF EnsureToken
  <2>3. UNCHANGED <<now, skew, work, known, popped, faults, chosen, joining, cookie, consumed>>
    BY <1>6 DEF EnsureToken
  <2> HIDE DEF serverVars, edgeVars
  <2> QED
    BY <1>0, <1>4, <2>1, <2>2, <2>3, SignInPageFacts, ShapeOfPages, BrowserAssumption DEF TypeOK
<1>7. CASE SelectEvent(p)
  BY <1>0, <1>7, NothingSigned, ShapeOfPages DEF SelectEvent, TypeOK, ShapeInv, RequestsInv
<1>8. CASE ResetToken(p)
  BY <1>0, <1>8, NothingSigned, ShapeOfPages
     DEF ResetToken, TypeOK, ShapeInv, RequestsInv, MaybeToken
<1>9. CASE Open(p)
  <2>1. tab' \in [Tabs -> MaybeToken] /\ joining' \in [Tabs -> SUBSET Events]
    BY <1>0, <1>9 DEF Open, TypeOK
  <2>2. chosen' \in [Tabs -> Events]
    BY <1>0, <1>9, BrowserAssumption DEF Open, TypeOK
  <2>3. \A q \in Tabs : joining'[q] # {} => userId' # None
    BY <1>0, <1>9 DEF Open, TypeOK, ShapeInv, RequestsInv
  <2> QED
    BY <1>0, <1>9, <2>1, <2>2, <2>3, NothingSigned, ShapeOfPages DEF Open, TypeOK
<1> QED
  BY <1>1, <1>3, <1>5, <1>6, <1>7, <1>8, <1>9 DEF PageStep

LEMMA ShapeStep == ShapeInv /\ [Next]_vars => ShapeInv'
<1> SUFFICES ASSUME ShapeInv, [Next]_vars PROVE ShapeInv'
  OBVIOUS
<1>0. TypeOK
  BY DEF ShapeInv
<1>1. CASE Visit
  <2>1. PICK t \in Presented :
            /\ cookie' = CookieAfter(t) \/ UNCHANGED cookie
            /\ consumed' \subseteq consumed \cup {t}
            /\ Fault \/ UNCHANGED faults
    BY <1>1 DEF Visit
  <2>2. t \in Tokens
    BY <1>0, PresentedFacts
  <2>3. cookie' \in [token : MaybeToken, until : Int]
    BY <1>0, <2>1, <2>2, CookieAgeFacts DEF CookieAfter, TypeOK, MaybeToken
  <2>4. faults' \in 0 .. MaxFaults
    BY <1>0, <2>1, FaultFacts DEF TypeOK
  <2> QED
    BY <1>0, <1>1, <2>1, <2>2, <2>3, <2>4, NothingSigned, ShapeOfPages
       DEF Visit, serverVars, pageVars, TypeOK, ShapeInv, RequestsInv
<1>2. CASE Tick
  BY <1>0, <1>2, NothingSigned, ShapeOfPages
     DEF Tick, serverVars, pageVars, edgeVars, TypeOK, ShapeInv, RequestsInv
<1>3. CASE UNCHANGED vars
  BY <1>0, <1>3, NothingSigned, ShapeOfPages
     DEF vars, serverVars, pageVars, edgeVars, TypeOK, ShapeInv, RequestsInv
<1> QED
  BY <1>1, <1>2, <1>3, ShapeOfWorkerStep, ShapeOfPageStep DEF Next

(* TypeOK: whatever refers to a token - a tab, the cookie, a request in    *)
(* progress, an answer - refers to one that somebody signed.               *)
THEOREM TokensShape == Spec => []TypeOK
<1>1. Init => ShapeInv
  BY ShapeInit
<1>2. ShapeInv /\ [Next]_vars => ShapeInv'
  BY ShapeStep
<1>3. ShapeInv => TypeOK
  BY DEF ShapeInv
<1> QED
  BY <1>1, <1>2, <1>3, PTL DEF Spec

----------------------------------------------------------------------------
(* Tokens, keys and faults only come up.                                   *)

Later ==
    /\ Tokens \subseteq Tokens'
    /\ \A t \in Tokens : /\ signed'[t] = signed[t]
                         /\ keyUntil[t] # None => keyUntil'[t] # None
    /\ faults' >= faults

LEMMA LaterOfWorkerStep ==
    ASSUME ShapeInv, NEW w \in Workers, WorkerStep(w)
    PROVE  Later
<1>0. TypeOK /\ faults \in Nat /\ work[w] \in Requests
  BY FaultFacts DEF ShapeInv, TypeOK
<1>1. CASE SignFor(w)
  <2>1. PICK u \in work[w].todo : Sign(Claims(u, work[w].event, Ttl, work[w].by))
    BY <1>1 DEF SignFor
  <2>2. u \in Users /\ work[w].event \in Events /\ work[w].by \in {"status", "admit"}
    BY <1>0, <1>1, <2>1 DEF SignFor, Signing, ShapeInv, RequestsInv, Requests
  <2>3. Claims(u, work[w].event, Ttl, work[w].by) \in ClaimSet
    BY <1>0, <2>2, ClaimsFacts, LifeAssumption
  <2>4. keyUntil' = Append(keyUntil, None) /\ UNCHANGED faults
    BY <1>1 DEF SignFor
  <2> QED
    <3>1. /\ Tokens' = Tokens \cup {NextToken}
          /\ \A t \in Tokens : signed'[t] = signed[t] /\ keyUntil'[t] = keyUntil[t]
      BY <1>0, <2>1, <2>3, <2>4, SignFacts
    <3>2. faults' >= faults
      BY <1>0, <2>4
    <3>3. Tokens \subseteq Tokens'
      BY <3>1
    <3> QED
      BY <3>1, <3>2, <3>3 DEF Later
<1>2. ASSUME keyUntil' = [keyUntil EXCEPT ![work[w].making] = KeyEnd(work[w].making)],
             Keeping(w), UNCHANGED signed, faults' >= faults
      PROVE  Later
  <2>1. work[w].making \in Tokens /\ Tokens' = Tokens
    BY <1>0, <1>2 DEF Keeping, Requests, MaybeToken, Tokens
  <2>2. now + Ttl + Grace # None
    BY <1>0, LifeAssumption, BrowserAssumption DEF TypeOK
  <2> QED
    BY <1>0, <1>2, <2>1, <2>2, KeyFacts DEF Later
<1>3. CASE Keep(w)
  BY <1>0, <1>2, <1>3 DEF Keep
<1>4. CASE KeepFails(w)
  BY <1>0, <1>2, <1>4, NothingSigned, FaultFacts DEF KeepFails, Later
<1>5. CASE StatusCall(w) \/ AdmitCall(w) \/ Answer(w)
  BY <1>0, <1>5, NothingSigned, FaultFacts DEF StatusCall, AdmitCall, Answer, Later
<1> QED
  BY <1>1, <1>3, <1>4, <1>5 DEF WorkerStep

LEMMA LaterOfPageStep ==
    ASSUME ShapeInv, NEW p \in Tabs, PageStep(p)
    PROVE  Later
<1> USE DEF serverVars
<1>0. TypeOK /\ faults \in Nat
  BY FaultFacts DEF ShapeInv
<1>1. CASE JoinFallsBack(p)
  <2>1. PICK e \in joining[p] : SignInPage(p, userId, e)
    BY <1>1 DEF JoinFallsBack
  <2>2. userId \in Users /\ e \in Events
    BY <1>0, <2>1 DEF ShapeInv, RequestsInv, TypeOK
  <2> QED
    BY <1>0, <1>1, <2>1, <2>2, SignInPageFacts DEF JoinFallsBack, Later
<1>2. CASE EnsureToken(p)
  <2>1. userId' \in Users /\ chosen[p] \in Events /\ SignInPage(p, userId', chosen[p])
    BY <1>0, <1>2 DEF EnsureToken, TypeOK
  <2>2. UNCHANGED faults
    BY <1>2 DEF EnsureToken
  <2> QED
    BY <1>0, <2>1, <2>2, SignInPageFacts DEF Later
<1>3. CASE \/ JoinClick(p) \/ JoinAnswered(p) \/ SelectEvent(p) \/ ResetToken(p) \/ Open(p)
  BY <1>0, <1>3, NothingSigned
     DEF JoinClick, JoinAnswered, SelectEvent, ResetToken, Open, Later
<1> QED
  BY <1>1, <1>2, <1>3 DEF PageStep

LEMMA LaterOfStep == ShapeInv /\ [Next]_vars => Later
<1> SUFFICES ASSUME ShapeInv, [Next]_vars PROVE Later
  OBVIOUS
<1>0. TypeOK /\ faults \in Nat
  BY FaultFacts DEF ShapeInv
<1>1. CASE Visit \/ Tick \/ UNCHANGED vars
  BY <1>0, <1>1, NothingSigned, FaultFacts DEF Visit, Tick, vars, serverVars, Later
<1> QED
  BY <1>1, LaterOfWorkerStep, LaterOfPageStep DEF Next

----------------------------------------------------------------------------
(* Every token that anybody holds has its key, unless a page signed it or  *)
(* its status request failed to store one; and a key outlives its token.   *)

Kept(t) ==
    \/ signed[t].by = "page"
    \/ keyUntil[t] # None
    \/ signed[t].by = "status" /\ faults > 0

Held ==
    known \cup InTabs \cup (UNION {work[w].made : w \in Workers}) \cup ({cookie.token} \ {None})

KeysOutlive ==
    \A t \in Tokens :
        /\ signed[t].by # "page" => signed[t].exp <= now + skew + Ttl
        /\ keyUntil[t] # None => keyUntil[t] >= signed[t].exp - skew + Grace

KeysInv == KeysOutlive /\ (\A t \in Held : Kept(t)) /\ ConsumedOnlyWithoutKey

LEMMA HeldAreTokens ==
    ASSUME ShapeInv
    PROVE  Held \subseteq Tokens /\ consumed \subseteq Tokens
<1>1. \A w \in Workers : work[w].made \subseteq Tokens
  BY DEF ShapeInv, TypeOK, Requests
<1>2. InTabs \subseteq Tokens
  BY DEF ShapeInv, TypeOK, InTabs, MaybeToken
<1>3. UNION {work[w].made : w \in Workers} \subseteq Tokens
  BY <1>1
<1>4. {cookie.token} \ {None} \subseteq Tokens /\ known \subseteq Tokens /\ consumed \subseteq Tokens
  BY DEF ShapeInv, TypeOK, MaybeToken
<1> QED
  BY <1>2, <1>3, <1>4 DEF Held

LEMMA KeptStays ==
    ASSUME ShapeInv, Later, faults' \in Nat
    PROVE  /\ \A t \in Tokens : Kept(t) => Kept(t)'
           /\ \A t \in consumed :
                 /\ signed[t].by = "page" => signed'[t].by = "page"
                 /\ signed[t].by = "status" /\ faults > 0
                       => signed'[t].by = "status" /\ faults' > 0
  BY FaultFacts DEF ShapeInv, TypeOK, Later, Kept

LEMMA InTabsOf ==
    /\ \A t : t \in InTabs <=> t # None /\ (t = stored \/ \E p \in Tabs : t = tab[p])
  BY DEF InTabs

LEMMA OutliveOfStep ==
    ASSUME ShapeInv, KeysOutlive, [Next]_vars
    PROVE  KeysOutlive'
<1>0. /\ TypeOK /\ now \in Int /\ skew \in Int /\ signed \in Seq(ClaimSet)
      /\ work \in [Workers -> Requests]
      /\ Ttl \in Nat /\ Grace \in Nat
  BY LifeAssumption DEF ShapeInv, TypeOK
<1>1. \A t \in Tokens : signed[t].exp \in Int
  <2>1. \A t \in Tokens : signed[t] \in ClaimSet
    BY <1>0 DEF Tokens
  <2> QED
    BY <2>1 DEF ClaimSet
<1>2. ASSUME NEW c \in ClaimSet, Sign(c), keyUntil' = Append(keyUntil, None),
             c.by # "page" => c.exp = now + skew + Ttl, UNCHANGED <<now, skew>>
      PROVE  KeysOutlive'
  <2>1. c.exp \in Int
    BY DEF ClaimSet
  <2>2. /\ Tokens' = Tokens \cup {NextToken}
        /\ \A t \in Tokens : signed'[t] = signed[t] /\ keyUntil'[t] = keyUntil[t]
        /\ signed'[NextToken] = c /\ keyUntil'[NextToken] = None
    BY <1>0, <1>2, SignFacts
  <2>3. c.by # "page" => c.exp <= now + skew + Ttl
    BY <1>0, <1>2, <2>1
  <2> QED
    BY <1>2, <2>2, <2>3 DEF KeysOutlive
<1>3. ASSUME NEW w \in Workers, Keeping(w), UNCHANGED <<now, skew, signed>>,
             keyUntil' = [keyUntil EXCEPT ![work[w].making] = KeyEnd(work[w].making)]
      PROVE  KeysOutlive'
  <2>1. work[w].making \in Tokens /\ Tokens' = Tokens
    BY <1>0, <1>3 DEF Keeping, Requests, MaybeToken, Tokens
  <2>2. work[w].by \in {"status", "admit"} /\ signed[work[w].making].by = work[w].by
    BY <1>0, <1>3 DEF Keeping, ShapeInv, RequestsInv, Requests
  <2>3. signed[work[w].making].exp <= now + skew + Ttl
    BY <2>1, <2>2 DEF KeysOutlive
  <2>4. keyUntil'[work[w].making] >= signed[work[w].making].exp - skew + Grace
    <3>1. keyUntil'[work[w].making] = now + Ttl + Grace
      BY <1>0, <1>3, <2>1, KeyFacts
    <3>2. signed[work[w].making].exp \in Int
      BY <1>1, <2>1
    <3> QED
      BY <1>0, <2>3, <3>1, <3>2
  <2> QED
    BY <1>0, <1>3, <2>1, <2>4, KeyFacts DEF KeysOutlive
<1>4. ASSUME UNCHANGED <<signed, keyUntil, skew>>, now' \in Int, now' >= now
      PROVE  KeysOutlive'
  BY <1>0, <1>1, <1>4, NothingSigned DEF KeysOutlive
<1>5. ASSUME NEW w \in Workers, WorkerStep(w) PROVE KeysOutlive'
  <2>1. CASE SignFor(w)
    <3>1. PICK u \in work[w].todo : Sign(Claims(u, work[w].event, Ttl, work[w].by))
      BY <2>1 DEF SignFor
    <3>2. u \in Users /\ work[w].event \in Events /\ work[w].by \in {"status", "admit"}
      BY <1>0, <2>1, <3>1 DEF SignFor, Signing, ShapeInv, RequestsInv, Requests
    <3>3. /\ Claims(u, work[w].event, Ttl, work[w].by) \in ClaimSet
          /\ Claims(u, work[w].event, Ttl, work[w].by).exp = now + skew + Ttl
      BY <1>0, <3>2, ClaimsFacts
    <3> QED
      BY <1>2, <2>1, <3>1, <3>3 DEF SignFor
  <2>2. CASE Keep(w)
    BY <1>3, <2>2 DEF Keep
  <2>3. CASE KeepFails(w)
    BY <1>0, <1>3, <1>4, <2>3 DEF KeepFails
  <2>4. CASE StatusCall(w) \/ AdmitCall(w) \/ Answer(w)
    BY <1>0, <1>4, <2>4 DEF StatusCall, AdmitCall, Answer
  <2> QED
    BY <1>5, <2>1, <2>2, <2>3, <2>4 DEF WorkerStep
<1>6. ASSUME NEW p \in Tabs, PageStep(p) PROVE KeysOutlive'
  <2>1. ASSUME NEW u \in Users, NEW e \in Events, SignInPage(p, u, e), UNCHANGED <<now, skew>>
        PROVE  KeysOutlive'
    <3>1. /\ Claims(u, e, PageTtl, "page") \in ClaimSet
          /\ Claims(u, e, PageTtl, "page").by = "page"
      BY <1>0, ClaimsFacts, LifeAssumption
    <3> QED
      BY <1>2, <2>1, <3>1 DEF SignInPage
  <2>2. CASE JoinFallsBack(p)
    <3>1. PICK e \in joining[p] : SignInPage(p, userId, e)
      BY <2>2 DEF JoinFallsBack
    <3>2. userId \in Users /\ e \in Events
      BY <1>0, <3>1 DEF ShapeInv, RequestsInv, TypeOK
    <3> QED
      BY <2>1, <2>2, <3>1, <3>2 DEF JoinFallsBack
  <2>3. CASE EnsureToken(p)
    <3>1. userId' \in Users /\ chosen[p] \in Events /\ SignInPage(p, userId', chosen[p])
      BY <1>0, <2>3 DEF EnsureToken, TypeOK
    <3>2. UNCHANGED <<now, skew>>
      BY <2>3 DEF EnsureToken
    <3> QED
      BY <2>1, <3>1, <3>2
  <2>4. CASE \/ JoinClick(p) \/ JoinAnswered(p) \/ SelectEvent(p) \/ ResetToken(p) \/ Open(p)
    BY <1>0, <1>4, <2>4 DEF JoinClick, JoinAnswered, SelectEvent, ResetToken, Open, serverVars
  <2> QED
    BY <1>6, <2>2, <2>3, <2>4 DEF PageStep
<1>7. CASE Visit \/ Tick \/ UNCHANGED vars
  BY <1>0, <1>4, <1>7 DEF Visit, Tick, vars, serverVars
<1> QED
  BY <1>5, <1>6, <1>7 DEF Next

LEMMA HeldOfWork ==
    ASSUME ShapeInv, NEW w \in Workers, NEW r, NEW X,
           work' = [work EXCEPT ![w] = r], r.made \subseteq work[w].made \cup X,
           known' \subseteq known \cup work[w].made, UNCHANGED <<pageVars, edgeVars>>
    PROVE  Held' \subseteq Held \cup X
<1>1. work \in [Workers -> Requests]
  BY DEF ShapeInv, TypeOK
<1>2. \A v \in Workers : work'[v].made \subseteq work[v].made \cup X
  BY <1>1
<1>3. InTabs' = InTabs /\ cookie' = cookie
  BY DEF InTabs, pageVars, edgeVars
<1>4. ASSUME NEW t \in Held' PROVE t \in Held \cup X
  <2>1. CASE t \in known'
    BY <2>1 DEF Held
  <2>2. CASE \E v \in Workers : t \in work'[v].made
    BY <1>2, <2>2 DEF Held
  <2>3. CASE t \in InTabs' \/ t \in {cookie'.token} \ {None}
    BY <1>3, <2>3 DEF Held
  <2> QED
    BY <1>4, <2>1, <2>2, <2>3 DEF Held
<1> QED
  BY <1>4

LEMMA HeldOfPages ==
    ASSUME NEW X, UNCHANGED <<work, known, edgeVars>>, InTabs' \subseteq InTabs \cup X
    PROVE  Held' \subseteq Held \cup X
<1>1. UNCHANGED <<work, known, cookie>>
  BY DEF edgeVars
<1> QED
  BY <1>1 DEF Held

LEMMA HeldOfWorkerStep ==
    ASSUME ShapeInv, NEW w \in Workers, WorkerStep(w), NEW t \in Held'
    PROVE  t \in Held \/ Kept(t)'
<1>0. TypeOK /\ work \in [Workers -> Requests] /\ work[w] \in Requests
  BY DEF ShapeInv, TypeOK
<1>1. CASE StatusCall(w)
  <2>1. PICK u \in Users, e \in Events :
            work' = [work EXCEPT ![w] = Request("status", e, {u}, None, {})]
    BY <1>1 DEF StatusCall
  <2>2. Request("status", e, {u}, None, {}).made = {}
    BY DEF Request
  <2> QED
    BY <1>1, <2>1, <2>2, HeldOfWork DEF StatusCall
<1>2. CASE AdmitCall(w)
  <2>1. PICK us \in (SUBSET Users) \ {{}}, e \in Events :
            work' = [work EXCEPT ![w] = Request("admit", e, us, None, {})]
    BY <1>2 DEF AdmitCall
  <2>2. Request("admit", e, us, None, {}).made = {}
    BY DEF Request
  <2> QED
    BY <1>2, <2>1, <2>2, HeldOfWork DEF AdmitCall
<1>3. CASE SignFor(w)
  <2>1. PICK u \in work[w].todo :
            work' = [work EXCEPT ![w] = Request(work[w].by, work[w].event,
                        work[w].todo \ {u}, NextToken, work[w].made)]
    BY <1>0, <1>3 DEF SignFor
  <2>2. Request(work[w].by, work[w].event, work[w].todo \ {u}, NextToken, work[w].made).made
            = work[w].made
    BY DEF Request
  <2>3. Held' \subseteq Held \cup {}
    BY <1>3, <2>1, <2>2, HeldOfWork DEF SignFor
  <2> QED
    BY <2>3
<1> DEFINE m == work[w].making
           r == Request(work[w].by, work[w].event, work[w].todo, None, work[w].made \cup {m})
<1>4. Made(w) = [work EXCEPT ![w] = r] /\ r.made = work[w].made \cup {m}
  BY <1>0 DEF Made, Request
<1>5. ASSUME Keeping(w)
      PROVE  m \in Tokens /\ signed[m].by = work[w].by
  BY <1>0, <1>5 DEF Keeping, Requests, MaybeToken, ShapeInv, RequestsInv
<1>6. CASE Keep(w)
  <2>1. Held' \subseteq Held \cup {m}
    BY <1>4, <1>6, HeldOfWork DEF Keep
  <2>2. keyUntil' = [keyUntil EXCEPT ![m] = KeyEnd(m)]
    BY <1>6 DEF Keep
  <2>3. keyUntil'[m] # None
    <3>1. keyUntil'[m] = now + Ttl + Grace
      BY <1>0, <1>5, <1>6, <2>2, KeyFacts DEF Keep
    <3> QED
      BY <1>0, <3>1, LifeAssumption, BrowserAssumption DEF TypeOK
  <2> QED
    BY <2>1, <2>3 DEF Kept
<1>7. CASE KeepFails(w)
  <2>1. CASE work[w].by = "status"
    <3>1. Held' \subseteq Held \cup {m}
      BY <1>4, <1>7, <2>1, HeldOfWork DEF KeepFails
    <3>2. signed'[m].by = "status"
      BY <1>5, <1>7, <2>1 DEF KeepFails
    <3>3. faults' > 0
      BY <1>0, <1>7, FaultFacts DEF KeepFails
    <3> QED
      BY <3>1, <3>2, <3>3 DEF Kept
  <2>2. CASE work[w].by # "status"
    <3>1. Idle.made = {}
      BY DEF Idle, Request
    <3>2. Held' \subseteq Held \cup {}
      BY <1>7, <2>2, <3>1, HeldOfWork DEF KeepFails
    <3> QED
      BY <3>2
  <2> QED
    BY <2>1, <2>2
<1>8. CASE Answer(w)
  <2>1. Idle.made = {}
    BY DEF Idle, Request
  <2>2. Held' \subseteq Held \cup {}
    BY <1>8, <2>1, HeldOfWork DEF Answer
  <2> QED
    BY <2>2
<1> QED
  BY <1>1, <1>2, <1>3, <1>6, <1>7, <1>8 DEF WorkerStep

LEMMA HeldOfPageStep ==
    ASSUME ShapeInv, NEW p \in Tabs, PageStep(p), NEW t \in Held'
    PROVE  t \in Held \/ Kept(t)'
<1> USE DEF serverVars
<1>0. TypeOK /\ tab \in [Tabs -> MaybeToken]
  BY DEF ShapeInv, TypeOK
<1>1. ASSUME NEW u \in Users, NEW e \in Events, SignInPage(p, u, e),
             UNCHANGED <<work, known, edgeVars>>
      PROVE  t \in Held \/ Kept(t)'
  <2>1. InTabs' \subseteq InTabs \cup {NextToken}
    BY <1>0, <1>1, SignInPageFacts DEF InTabs
  <2>2. Held' \subseteq Held \cup {NextToken}
    BY <1>1, <2>1, HeldOfPages
  <2> QED
    BY <1>0, <1>1, <2>2, SignInPageFacts DEF Kept
<1>2. CASE JoinFallsBack(p)
  <2>1. PICK e \in joining[p] : SignInPage(p, userId, e)
    BY <1>2 DEF JoinFallsBack
  <2>2. userId \in Users /\ e \in Events
    BY <1>0, <2>1 DEF ShapeInv, RequestsInv, TypeOK
  <2> QED
    BY <1>1, <1>2, <2>1, <2>2 DEF JoinFallsBack
<1>3. CASE EnsureToken(p)
  <2>1. userId' \in Users /\ chosen[p] \in Events /\ SignInPage(p, userId', chosen[p])
    BY <1>0, <1>3 DEF EnsureToken, TypeOK
  <2>2. UNCHANGED <<work, known, edgeVars>>
    BY <1>3 DEF EnsureToken
  <2> QED
    BY <1>1, <2>1, <2>2
<1>4. CASE \/ JoinClick(p) \/ JoinAnswered(p) \/ SelectEvent(p) \/ ResetToken(p) \/ Open(p)
  <2>1. InTabs' \subseteq InTabs \cup {}
    BY <1>0, <1>4 DEF JoinClick, JoinAnswered, SelectEvent, ResetToken, Open, InTabs
  <2>2. UNCHANGED <<work, known, edgeVars>>
    BY <1>4 DEF JoinClick, JoinAnswered, SelectEvent, ResetToken, Open
  <2>3. Held' \subseteq Held \cup {}
    BY <2>1, <2>2, HeldOfPages
  <2> QED
    BY <2>3
<1> QED
  BY <1>2, <1>3, <1>4 DEF PageStep

LEMMA HeldOfStep ==
    ASSUME ShapeInv, [Next]_vars, NEW t \in Held'
    PROVE  t \in Held \/ Kept(t)'
<1>1. CASE Visit
  <2>1. cookie'.token \in (Held \cup {None})
    <3>1. PICK s \in Presented : cookie' = CookieAfter(s) \/ UNCHANGED cookie
      BY <1>1 DEF Visit
    <3>2. s \in Held
      BY PresentedFacts DEF ShapeInv, Held
    <3>3. cookie.token \in Held \cup {None}
      BY DEF Held
    <3>4. CookieAfter(s).token \in {s, cookie.token}
      BY DEF CookieAfter
    <3> QED
      BY <3>1, <3>2, <3>3, <3>4
  <2>2. UNCHANGED <<known, work>> /\ InTabs' = InTabs
    BY <1>1 DEF Visit, serverVars, pageVars, InTabs
  <2> QED
    BY <2>1, <2>2 DEF Held
<1>2. CASE Tick \/ UNCHANGED vars
  <2>1. UNCHANGED <<known, work, cookie>> /\ InTabs' = InTabs
    BY <1>2 DEF Tick, vars, serverVars, pageVars, edgeVars, InTabs
  <2> QED
    BY <2>1 DEF Held
<1> QED
  BY <1>1, <1>2, HeldOfWorkerStep, HeldOfPageStep DEF Next

(* A visit calls a token consumed only if its key is not there: a key that *)
(* was stored would have outlived it.                                      *)
LEMMA ConsumedOfStep ==
    ASSUME ShapeInv, KeysInv, [Next]_vars, NEW t \in consumed'
    PROVE  t \in consumed \/ (t \in Tokens /\ Kept(t) /\ keyUntil[t] = None)
<1>0. /\ TypeOK /\ now \in Int /\ skew \in Int /\ skew <= MaxSkew
      /\ Leeway \in Nat /\ Grace \in Nat /\ MaxSkew \in Nat
      /\ Grace > Leeway + MaxSkew
  BY LifeAssumption DEF ShapeInv, TypeOK
<1>1. CASE Visit /\ t \notin consumed
  <2>1. t \in Presented /\ EdgeTimely(t) /\ ~KeyLives(t)
    BY <1>1 DEF Visit
  <2>2. t \in Tokens /\ t \in Held
    BY <1>0, <2>1, PresentedFacts DEF Held
  <2>3. signed[t] \in ClaimSet /\ keyUntil[t] \in Int \cup {None}
    BY <1>0, <2>2 DEF TypeOK, Tokens
  <2>4. signed[t].exp \in Int
    BY <2>3 DEF ClaimSet
  <2>5. CASE keyUntil[t] # None
    <3>1. keyUntil[t] \in Int /\ keyUntil[t] >= signed[t].exp - skew + Grace
      BY <2>2, <2>3, <2>5 DEF KeysInv, KeysOutlive
    <3>2. now <= signed[t].exp + Leeway
      BY <2>1 DEF EdgeTimely
    <3>3. now < keyUntil[t]
      BY <1>0, <2>4, <3>1, <3>2
    <3> QED
      BY <2>1, <2>5, <3>3 DEF KeyLives
  <2> QED
    BY <2>2, <2>5 DEF KeysInv
<1>2. CASE ~Visit
  <2>1. consumed' = consumed
    <3>1. ASSUME NEW w \in Workers, WorkerStep(w) PROVE consumed' = consumed
      BY <3>1 DEF WorkerStep, StatusCall, AdmitCall, SignFor, Keep, KeepFails, Answer, edgeVars
    <3>2. ASSUME NEW p \in Tabs, PageStep(p) PROVE consumed' = consumed
      BY <3>2 DEF PageStep, JoinClick, JoinAnswered, JoinFallsBack, EnsureToken, SelectEvent,
                  ResetToken, Open, edgeVars
    <3> QED
      BY <1>2, <3>1, <3>2 DEF Next, Tick, vars, edgeVars
  <2> QED
    BY <2>1
<1> QED
  BY <1>1, <1>2

LEMMA KeysStep == ShapeInv /\ KeysInv /\ [Next]_vars => KeysInv'
<1> SUFFICES ASSUME ShapeInv, KeysInv, [Next]_vars PROVE KeysInv'
  OBVIOUS
<1>0. faults' \in Nat /\ Later
  BY ShapeStep, LaterOfStep, BoundAssumption DEF ShapeInv, TypeOK
<1>1. KeysOutlive'
  BY OutliveOfStep DEF KeysInv
<1>2. ASSUME NEW t \in Held' PROVE Kept(t)'
  BY <1>0, HeldOfStep, HeldAreTokens, KeptStays DEF KeysInv
<1>3. ASSUME NEW t \in consumed'
      PROVE  signed'[t].by = "page" \/ (signed'[t].by = "status" /\ faults' > 0)
  <2>1. CASE t \in consumed
    BY <1>0, <2>1, KeptStays DEF KeysInv, ConsumedOnlyWithoutKey
  <2>2. CASE t \in Tokens /\ Kept(t) /\ keyUntil[t] = None
    BY <1>0, <2>2, FaultFacts DEF Kept, Later, ShapeInv
  <2> QED
    BY <2>1, <2>2, ConsumedOfStep
<1> QED
  BY <1>1, <1>2, <1>3 DEF KeysInv, ConsumedOnlyWithoutKey

(* ConsumedOnlyWithoutKey: the ten seconds by which a key outlives its     *)
(* token cover the leeway of the middleware and any clock skew of less     *)
(* than the rest.                                                          *)
THEOREM KeysOutliveTokens == Spec => []ConsumedOnlyWithoutKey
<1>1. Init => ShapeInv /\ KeysInv
  BY ShapeInit DEF Init, KeysInv, KeysOutlive, Held, InTabs, ConsumedOnlyWithoutKey, Tokens,
                   Idle, Request, NoCookie
<1>2. ShapeInv /\ KeysInv /\ [Next]_vars => ShapeInv' /\ KeysInv'
  BY ShapeStep, KeysStep
<1>3. KeysInv => ConsumedOnlyWithoutKey
  BY DEF KeysInv
<1> QED
  BY <1>1, <1>2, <1>3, PTL DEF Spec

----------------------------------------------------------------------------
(* The cookie.                                                             *)

CookieInv ==
    cookie.token # None => cookie.until <= signed[cookie.token].exp + Leeway + CookieMin

LEMMA CookieOfStep == ShapeInv /\ CookieInv /\ [Next]_vars => CookieInv'
<1> SUFFICES ASSUME ShapeInv, CookieInv, [Next]_vars PROVE CookieInv'
  OBVIOUS
<1>0. /\ TypeOK /\ now \in Int /\ Leeway \in Nat /\ CookieMin \in Nat
      /\ \A t \in Tokens : signed[t] \in ClaimSet
  BY LifeAssumption DEF ShapeInv, TypeOK, Tokens
<1>1. \A t \in Tokens : signed[t].exp \in Int
  BY <1>0 DEF ClaimSet
<1>2. ASSUME UNCHANGED cookie PROVE CookieInv'
  <2>1. cookie.token # None => cookie.token \in Tokens
    BY <1>0 DEF TypeOK, MaybeToken
  <2> QED
    BY <1>2, <2>1, LaterOfStep DEF CookieInv, Later
<1>3. ASSUME Visit, NEW t \in Presented, EdgeTimely(t), cookie' = CookieAfter(t)
      PROVE  CookieInv'
  <2>1. CASE Cookie # None
    BY <1>2, <1>3, <2>1 DEF CookieAfter
  <2>2. CASE Cookie = None
    <3>1. t \in Tokens /\ signed'[t] = signed[t]
      BY <1>0, <1>3, PresentedFacts, LaterOfStep DEF Later
    <3>2. cookie' = [token |-> t, until |-> now + CookieAge(t)]
      BY <1>3, <2>2 DEF CookieAfter
    <3>3. now + CookieAge(t) <= signed[t].exp + Leeway + CookieMin
      BY <1>0, <1>1, <1>3, <3>1, CookieAgeFacts DEF EdgeTimely
    <3> QED
      BY <3>1, <3>2, <3>3 DEF CookieInv
  <2> QED
    BY <2>1, <2>2
<1>4. CASE Visit
  BY <1>2, <1>3, <1>4 DEF Visit
<1>5. CASE ~Visit
  <2>1. ASSUME NEW w \in Workers, WorkerStep(w) PROVE cookie' = cookie
    BY <2>1 DEF WorkerStep, StatusCall, AdmitCall, SignFor, Keep, KeepFails, Answer, edgeVars
  <2>2. ASSUME NEW p \in Tabs, PageStep(p) PROVE cookie' = cookie
    BY <2>2 DEF PageStep, JoinClick, JoinAnswered, JoinFallsBack, EnsureToken, SelectEvent,
                ResetToken, Open, edgeVars
  <2>3. cookie' = cookie
    BY <1>5, <2>1, <2>2 DEF Next, Tick, vars, edgeVars
  <2> QED
    BY <1>2, <2>3
<1> QED
  BY <1>4, <1>5

(* DeadCookieIsShort: a cookie with a token that is no longer accepted     *)
(* stands in the way of a link for less than CookieMin seconds.            *)
THEOREM CookiesEndSoon == Spec => []DeadCookieIsShort
<1>1. Init => ShapeInv /\ CookieInv
  BY ShapeInit DEF Init, CookieInv, NoCookie
<1>2. ShapeInv /\ CookieInv /\ [Next]_vars => ShapeInv' /\ CookieInv'
  BY ShapeStep, CookieOfStep
<1>3. ShapeInv /\ CookieInv => DeadCookieIsShort
  <2> SUFFICES ASSUME ShapeInv, CookieInv, Cookie # None
               PROVE  now < signed[Cookie].exp + Leeway + CookieMin
    BY DEF DeadCookieIsShort
  <2>1. Cookie = cookie.token /\ now < cookie.until /\ cookie.token # None
    BY DEF Cookie
  <2>2. cookie.token \in Tokens /\ cookie.until \in Int /\ now \in Int
    BY <2>1 DEF ShapeInv, TypeOK, MaybeToken
  <2>3. signed[cookie.token] \in ClaimSet
    BY <2>2 DEF ShapeInv, TypeOK, Tokens
  <2>4. signed[cookie.token].exp \in Int
    BY <2>3 DEF ClaimSet
  <2> QED
    BY <2>1, <2>2, <2>4, LifeAssumption DEF CookieInv
<1> QED
  BY <1>1, <1>2, <1>3, PTL DEF Spec

----------------------------------------------------------------------------
(* One user per browser: an id is made up only where there is none, and a  *)
(* token in a tab has a user, so there is no token yet.                    *)

LEMMA OneUserOfStep == ShapeInv /\ TabsAreOneUser /\ [Next]_vars => TabsAreOneUser'
<1> SUFFICES ASSUME ShapeInv, TabsAreOneUser, [Next]_vars, NEW t \in InTabs'
             PROVE  signed'[t].user = userId'
  BY DEF TabsAreOneUser
<1>0. /\ TypeOK /\ Later /\ tab \in [Tabs -> MaybeToken]
      /\ InTabs \subseteq Tokens /\ \A s \in Tokens : signed[s] \in ClaimSet
  BY LaterOfStep DEF ShapeInv, TypeOK, InTabs, MaybeToken, Tokens
<1>1. ASSUME t \in InTabs PROVE signed'[t].user = userId /\ userId # None
  <2>1. signed[t] \in ClaimSet /\ signed'[t] = signed[t] /\ signed[t].user = userId
    BY <1>0, <1>1 DEF Later, TabsAreOneUser
  <2>2. signed[t].user \in Users
    BY <2>1 DEF ClaimSet
  <2> QED
    BY <2>1, <2>2, BrowserAssumption
<1>2. ASSUME InTabs' \subseteq InTabs, UNCHANGED userId \/ userId = None
      PROVE  signed'[t].user = userId'
  BY <1>1, <1>2
<1>3. ASSUME NEW p \in Tabs, NEW e \in Events, userId' \in Users, SignInPage(p, userId', e),
             UNCHANGED userId \/ userId = None
      PROVE  signed'[t].user = userId'
  <2>1. /\ stored' = NextToken /\ tab' = [tab EXCEPT ![p] = NextToken]
        /\ signed'[NextToken].user = userId'
    BY <1>0, <1>3, SignInPageFacts
  <2>2. t \in InTabs \/ t = NextToken
    BY <1>0, <2>1 DEF InTabs
  <2> QED
    BY <1>1, <1>3, <2>1, <2>2
<1>4. ASSUME NEW p \in Tabs, PageStep(p) PROVE signed'[t].user = userId'
  <2>1. CASE JoinFallsBack(p)
    <3>1. PICK e \in joining[p] : SignInPage(p, userId, e)
      BY <2>1 DEF JoinFallsBack
    <3>2. userId \in Users /\ e \in Events /\ userId' = userId
      BY <1>0, <2>1, <3>1 DEF JoinFallsBack, ShapeInv, RequestsInv, TypeOK
    <3> QED
      BY <1>3, <3>1, <3>2
  <2>2. CASE EnsureToken(p)
    <3>1. /\ userId' \in Users /\ chosen[p] \in Events /\ SignInPage(p, userId', chosen[p])
          /\ UNCHANGED userId \/ userId = None
      BY <1>0, <2>2 DEF EnsureToken, TypeOK
    <3> QED
      BY <1>3, <3>1
  <2>3. CASE JoinClick(p)
    BY <1>2, <2>3 DEF JoinClick, InTabs
  <2>4. CASE JoinAnswered(p) \/ SelectEvent(p) \/ ResetToken(p) \/ Open(p)
    <3>1. InTabs' \subseteq InTabs
      BY <1>0, <2>4 DEF JoinAnswered, SelectEvent, ResetToken, Open, InTabs
    <3>2. UNCHANGED userId
      BY <2>4 DEF JoinAnswered, SelectEvent, ResetToken, Open
    <3> QED
      BY <1>2, <3>1, <3>2
  <2> QED
    BY <1>4, <2>1, <2>2, <2>3, <2>4 DEF PageStep
<1>5. ASSUME ~\E p \in Tabs : PageStep(p) PROVE UNCHANGED pageVars
  <2>1. ASSUME NEW w \in Workers, WorkerStep(w) PROVE UNCHANGED pageVars
    BY <2>1 DEF WorkerStep, StatusCall, AdmitCall, SignFor, Keep, KeepFails, Answer
  <2> QED
    BY <1>5, <2>1 DEF Next, Visit, Tick, vars
<1>6. ASSUME UNCHANGED pageVars PROVE signed'[t].user = userId'
  BY <1>2, <1>6 DEF pageVars, InTabs
<1> QED
  BY <1>4, <1>5, <1>6

(* TabsAreOneUser, for any number of tabs that sign, reset and reload in   *)
(* any order.                                                              *)
THEOREM OneUserPerBrowser == Spec => []TabsAreOneUser
<1>1. Init => ShapeInv /\ TabsAreOneUser
  BY ShapeInit DEF Init, TabsAreOneUser, InTabs
<1>2. ShapeInv /\ TabsAreOneUser /\ [Next]_vars => ShapeInv' /\ TabsAreOneUser'
  BY ShapeStep, OneUserOfStep
<1> QED
  BY <1>1, <1>2, PTL DEF Spec

----------------------------------------------------------------------------
(* Whoever was taken from the queue has a token, or a request that works   *)
(* on it.                                                                  *)

For(t, x) ==
    /\ signed[t].by = "admit" /\ keyUntil[t] # None
    /\ signed[t].user = x[1] /\ signed[t].event = x[2]

Serves(w, x) ==
    /\ work[w].by = "admit" /\ work[w].event = x[2]
    /\ \/ x[1] \in work[w].todo
       \/ work[w].making # None /\ signed[work[w].making].user = x[1]
       \/ \E t \in work[w].made : For(t, x)

Served(x) == (\E t \in known : For(t, x)) \/ (\E w \in Workers : Serves(w, x))

PoppedInv == faults = 0 => \A x \in popped : Served(x)

LEMMA ForStays ==
    ASSUME Later, NEW t \in Tokens, NEW x, For(t, x)
    PROVE  For(t, x)'
  BY DEF Later, For

LEMMA ServesStays ==
    ASSUME ShapeInv, Later, NEW w \in Workers, work'[w] = work[w], NEW x, Serves(w, x)
    PROVE  Serves(w, x)'
<1>1. work[w] \in Requests
  BY DEF ShapeInv, TypeOK
<1>2. work[w].made \subseteq Tokens
  BY <1>1 DEF Requests
<1>3. work[w].making # None =>
          work[w].making \in Tokens /\ signed'[work[w].making] = signed[work[w].making]
  BY <1>1 DEF Requests, MaybeToken, Later
<1> QED
  BY <1>2, <1>3, ForStays DEF Serves

LEMMA ServedStays ==
    ASSUME ShapeInv, Later, UNCHANGED <<known, work>>, NEW x, Served(x)
    PROVE  Served(x)'
<1>1. known \subseteq Tokens
  BY DEF ShapeInv, TypeOK
<1> QED
  BY <1>1, ForStays, ServesStays DEF Served

LEMMA ServedByStep ==
    ASSUME ShapeInv, Later, NEW w \in Workers, WorkerStep(w), ~Fault, NEW x \in popped',
           x \in popped => Served(x)
    PROVE  Served(x)'
<1>0. /\ TypeOK /\ work \in [Workers -> Requests] /\ work[w] \in Requests
      /\ work[w].made \subseteq Tokens /\ known \subseteq Tokens /\ known \subseteq known'
  <2>1. work[w] \in Requests
    BY DEF ShapeInv, TypeOK
  <2>2. known \subseteq known'
    BY DEF WorkerStep, StatusCall, AdmitCall, SignFor, Keep, KeepFails, Answer
  <2> QED
    BY <2>1, <2>2 DEF ShapeInv, TypeOK, Requests
<1>1. \A v \in Workers \ {w} : work'[v] = work[v]
  BY <1>0 DEF WorkerStep, StatusCall, AdmitCall, SignFor, Keep, KeepFails, Answer, Made
<1>2. ASSUME x \in popped, ~Serves(w, x) PROVE Served(x)'
  <2>1. CASE \E t \in known : For(t, x)
    BY <1>0, <2>1, ForStays DEF Served
  <2>2. CASE \E v \in Workers \ {w} : Serves(v, x)
    BY <1>1, <2>2, ServesStays DEF Served
  <2> QED
    BY <1>2, <2>1, <2>2 DEF Served
<1>3. work[w] = Idle => ~Serves(w, x)
  BY DEF Idle, Request, Serves
<1>4. CASE StatusCall(w)
  BY <1>2, <1>3, <1>4 DEF StatusCall
<1>5. CASE AdmitCall(w)
  <2>1. PICK us \in (SUBSET Users) \ {{}}, e \in Events :
            /\ work' = [work EXCEPT ![w] = Request("admit", e, us, None, {})]
            /\ popped' = popped \cup (us \X {e})
    BY <1>5 DEF AdmitCall
  <2>2. ASSUME x \in us \X {e} PROVE Serves(w, x)'
    <3>1. work'[w] = Request("admit", e, us, None, {})
      BY <1>0, <2>1
    <3> QED
      BY <2>2, <3>1 DEF Serves, Request
  <2> QED
    BY <1>2, <1>3, <1>5, <2>1, <2>2 DEF AdmitCall, Served
<1>6. CASE SignFor(w)
  <2>1. PICK u \in work[w].todo :
            /\ Sign(Claims(u, work[w].event, Ttl, work[w].by))
            /\ work' = [work EXCEPT ![w] = Request(work[w].by, work[w].event,
                            work[w].todo \ {u}, NextToken, work[w].made)]
    BY <1>0, <1>6 DEF SignFor
  <2>2. u \in Users /\ work[w].event \in Events /\ work[w].by \in {"status", "admit"}
    BY <1>0, <1>6, <2>1 DEF SignFor, Signing, ShapeInv, RequestsInv, Requests
  <2>3. /\ Claims(u, work[w].event, Ttl, work[w].by) \in ClaimSet
        /\ Claims(u, work[w].event, Ttl, work[w].by).user = u
    BY <1>0, <2>2, ClaimsFacts, LifeAssumption
  <2>4. keyUntil' = Append(keyUntil, None)
    BY <1>6 DEF SignFor
  <2>5. signed'[NextToken].user = u /\ NextToken # None
    <3>1. signed'[NextToken] = Claims(u, work[w].event, Ttl, work[w].by) /\ NextToken \in Nat
      BY <1>0, <2>1, <2>3, <2>4, SignFacts
    <3> QED
      BY <2>3, <3>1, BrowserAssumption
  <2>6. /\ work'[w].by = work[w].by /\ work'[w].event = work[w].event
        /\ work'[w].todo = work[w].todo \ {u} /\ work'[w].making = NextToken
        /\ work'[w].made = work[w].made
    BY <1>0, <2>1 DEF Request
  <2>7. ASSUME Serves(w, x) PROVE Serves(w, x)'
    <3>1. work[w].making = None
      BY <1>6 DEF SignFor, Signing
    <3> QED
      BY <1>0, <2>5, <2>6, <2>7, <3>1, ForStays DEF Serves
  <2> QED
    BY <1>2, <1>6, <2>7 DEF SignFor, Served
<1>7. CASE Keep(w)
  <2>0. PICK m : m = work[w].making
    OBVIOUS
  <2>1. /\ work'[w].by = work[w].by /\ work'[w].event = work[w].event
        /\ work'[w].todo = work[w].todo /\ work'[w].made = work[w].made \cup {m}
    BY <1>0, <1>7, <2>0 DEF Keep, Made, Request
  <2>2. m \in Tokens /\ signed[m].by = work[w].by /\ signed[m].event = work[w].event
    BY <1>0, <1>7, <2>0 DEF Keep, Keeping, Requests, MaybeToken, ShapeInv, RequestsInv
  <2>3. keyUntil'[m] # None
    <3>1. keyUntil'[m] = now + Ttl + Grace
      BY <1>0, <1>7, <2>0, <2>2, KeyFacts DEF Keep
    <3> QED
      BY <1>0, <3>1, LifeAssumption, BrowserAssumption DEF TypeOK
  <2>4. ASSUME Serves(w, x), signed[m].user = x[1] PROVE For(m, x)'
    <3>1. work[w].by = "admit" /\ work[w].event = x[2]
      BY <2>4 DEF Serves
    <3>2. signed'[m] = signed[m]
      BY <2>2 DEF Later
    <3> QED
      BY <2>2, <2>3, <2>4, <3>1, <3>2 DEF For
  <2>5. ASSUME Serves(w, x) PROVE Serves(w, x)'
    <3>1. CASE signed[m].user = x[1]
      <4>1. For(m, x)' /\ m \in work'[w].made
        BY <2>1, <2>4, <2>5, <3>1
      <4>2. work'[w].by = "admit" /\ work'[w].event = x[2]
        BY <2>1, <2>5 DEF Serves
      <4> QED
        BY <4>1, <4>2 DEF Serves
    <3>2. CASE signed[m].user # x[1]
      BY <1>0, <2>0, <2>1, <2>5, <3>2, ForStays DEF Serves
    <3> QED
      BY <3>1, <3>2
  <2> QED
    BY <1>2, <1>7, <2>5 DEF Keep, Served
<1>8. CASE Answer(w)
  <2>1. known' = known \cup work[w].made
    BY <1>8 DEF Answer
  <2>2. ASSUME Serves(w, x) PROVE \E t \in known' : For(t, x)'
    BY <1>0, <1>8, <2>1, <2>2, ForStays DEF Answer, Signing, Serves
  <2> QED
    BY <1>2, <1>8, <2>2 DEF Answer, Served
<1> QED
  BY <1>4, <1>5, <1>6, <1>7, <1>8 DEF WorkerStep, KeepFails

LEMMA PoppedOfStep == ShapeInv /\ PoppedInv /\ [Next]_vars => PoppedInv'
<1> SUFFICES ASSUME ShapeInv, PoppedInv, [Next]_vars, faults' = 0, NEW x \in popped'
             PROVE  Served(x)'
  BY DEF PoppedInv
<1>1. Later /\ faults \in Nat
  BY LaterOfStep, FaultFacts DEF ShapeInv
<1>2. faults = 0 /\ ~Fault
  BY <1>1, FaultFacts DEF Later, ShapeInv
<1>3. x \in popped => Served(x)
  BY <1>2 DEF PoppedInv
<1>4. ASSUME UNCHANGED <<known, work, popped>> PROVE Served(x)'
  BY <1>1, <1>3, <1>4, ServedStays
<1>5. ASSUME NEW p \in Tabs, PageStep(p) PROVE UNCHANGED <<known, work, popped>>
  BY <1>5 DEF PageStep, JoinClick, JoinAnswered, JoinFallsBack, EnsureToken, SelectEvent,
              ResetToken, Open, serverVars
<1>6. Visit \/ Tick \/ UNCHANGED vars => UNCHANGED <<known, work, popped>>
  BY DEF Visit, Tick, vars, serverVars
<1>7. ASSUME NEW w \in Workers, WorkerStep(w) PROVE Served(x)'
  BY <1>1, <1>2, <1>3, <1>7, ServedByStep
<1> QED
  BY <1>4, <1>5, <1>6, <1>7 DEF Next

(* PoppedGetTokens: popping is for good, so a token for everyone popped is *)
(* all that keeps them from being lost.                                    *)
THEOREM PoppedAreServed == Spec => []PoppedGetTokens
<1>1. Init => ShapeInv /\ PoppedInv
  BY ShapeInit DEF Init, PoppedInv
<1>2. ShapeInv /\ PoppedInv /\ [Next]_vars => ShapeInv' /\ PoppedInv'
  BY ShapeStep, PoppedOfStep
<1>3. PoppedInv => PoppedGetTokens
  <2>1. \A w \in Workers : \A x : work[w] = Idle => ~Serves(w, x)
    BY DEF Idle, Request, Serves
  <2> QED
    BY <2>1 DEF PoppedInv, PoppedGetTokens, Served, For
<1> QED
  BY <1>1, <1>2, <1>3, PTL DEF Spec

============================================================================
