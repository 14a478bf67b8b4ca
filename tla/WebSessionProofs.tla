--------------------------- MODULE WebSessionProofs ---------------------------
(***************************************************************************)
(* Proofs about WebSession: every session held is whole, no answer to a    *)
(* request of a live session takes it from its tab, and the stores of the  *)
(* tabs implement Session, for every number of tabs, users and tokens.     *)
(***************************************************************************)
EXTENDS WebSession, TLAPS

USE WebSessionAssumption

(* What the session steps of the store leave behind. *)
LEMMA SetAuthType ==
    ASSUME TypeOK, NEW t \in Tabs, NEW s \in Sessions, SetAuth(t, s)
    PROVE  /\ stored' \in Sessions \cup {Nobody}
           /\ keys' \in Sessions \cup {Nobody}
           /\ mem' \in [Tabs -> Sessions \cup {Nobody}]
           /\ auth' \in [Tabs -> BOOLEAN]
  BY DEF TypeOK, SetAuth

LEMMA ClearAuthType ==
    ASSUME TypeOK, NEW t \in Tabs, ClearAuth(t)
    PROVE  /\ stored' \in Sessions \cup {Nobody}
           /\ keys' \in Sessions \cup {Nobody}
           /\ mem' \in [Tabs -> Sessions \cup {Nobody}]
           /\ auth' \in [Tabs -> BOOLEAN]
  BY DEF TypeOK, ClearAuth

LEMMA HydrateType ==
    ASSUME TypeOK, NEW t \in Tabs, Hydrate(t)
    PROVE  /\ stored' \in Sessions \cup {Nobody}
           /\ keys' \in Sessions \cup {Nobody}
           /\ mem' \in [Tabs -> Sessions \cup {Nobody}]
           /\ auth' \in [Tabs -> BOOLEAN]
  BY DEF TypeOK, Hydrate

LEMMA FreshDocumentType ==
    ASSUME TypeOK, NEW t \in Tabs, NEW page \in Pages,
           FreshDocument(t, page)
    PROVE  /\ route' \in [Tabs -> Pages]
           /\ logins' \in [Tabs -> SUBSET Users]
           /\ awaited' \in [Tabs -> Users \cup {None}]
           /\ reloading' \in [Tabs -> BOOLEAN]
           /\ flights' \subseteq [tab : Tabs, token : Tokens]
  BY DEF TypeOK, FreshDocument

(***************************************************************************)
(* Every store, form and request of the tabs keeps its type (authStore.ts, *)
(* interceptors.ts).                                                       *)
(***************************************************************************)
THEOREM TypeCorrect == Spec => []TypeOK
<1>1. Init => TypeOK
  BY DEF Init, TypeOK, Pages
<1>2. TypeOK /\ [Next]_vars => TypeOK'
  <2> SUFFICES ASSUME TypeOK, [Next]_vars
               PROVE  TypeOK'
    OBVIOUS
  <2>1. ASSUME NEW t \in Tabs, NEW u \in Users, SubmitLogin(t, u)
        PROVE  TypeOK'
    BY <2>1 DEF SubmitLogin, TypeOK, manager
  <2>2. ASSUME NEW t \in Tabs, NEW u \in Users, LoginRefused(t, u)
        PROVE  TypeOK'
    <3>1. /\ logins' \in [Tabs -> SUBSET Users]
          /\ awaited' \in [Tabs -> Users \cup {None}]
          /\ reloading' \in [Tabs -> BOOLEAN]
      BY <2>2 DEF LoginRefused, Answered, TypeOK
    <3>. QED  BY <2>2, <3>1, ClearAuthType DEF LoginRefused, TypeOK, manager
  <2>3. ASSUME NEW t \in Tabs, NEW u \in Users, LoginFailed(t, u)
        PROVE  TypeOK'
    BY <2>3 DEF LoginFailed, Answered, TypeOK, manager
  <2>4. ASSUME NEW t \in Tabs, NEW u \in Users, NEW k \in Tokens, LoginOk(t, u, k)
        PROVE  TypeOK'
    <3>1. [user |-> u, token |-> k] \in Sessions
      BY DEF Sessions
    <3>2. /\ logins' \in [Tabs -> SUBSET Users]
          /\ awaited' \in [Tabs -> Users \cup {None}]
          /\ route' \in [Tabs -> Pages]
          /\ owner' \in [Tokens -> Users \cup {None}]
          /\ live' \subseteq Tokens
      BY <2>4 DEF LoginOk, TypeOK, Pages
    <3>. QED  BY <2>4, <3>1, <3>2, SetAuthType DEF LoginOk, TypeOK
  <2>5. ASSUME NEW t \in Tabs, Redirect(t)
        PROVE  TypeOK'
    BY <2>5 DEF Redirect, TypeOK, Pages, manager
  <2>6. ASSUME NEW t \in Tabs, Ask(t)
        PROVE  TypeOK'
    <3>1. Request(t) \in [tab : Tabs, token : Tokens]
      BY <2>6 DEF Ask, Request, TypeOK, Sessions, Nobody
    <3>. QED  BY <2>6, <3>1 DEF Ask, TypeOK, document, manager
  <2>7. ASSUME NEW t \in Tabs, Logout(t)
        PROVE  TypeOK'
    <3>1. route' \in [Tabs -> Pages]
      BY <2>7 DEF Logout, TypeOK, Pages
    <3>. QED  BY <2>7, <3>1, ClearAuthType DEF Logout, TypeOK, manager
  <2>8. ASSUME NEW t \in Tabs, Reload(t)
        PROVE  TypeOK'
    BY <2>8, HydrateType, FreshDocumentType DEF Reload, TypeOK, Pages, manager
  <2>9. ASSUME NEW t \in Tabs, NEW page \in Pages, Browse(t, page)
        PROVE  TypeOK'
    BY <2>9 DEF Browse, TypeOK, manager
  <2>10. ASSUME NEW t \in Tabs, NEW page \in Pages, Load(t, page)
         PROVE  TypeOK'
    BY <2>10, HydrateType, FreshDocumentType DEF Load, TypeOK, manager
  <2>11. ASSUME NEW t \in Tabs, NEW k \in Tokens, NEW answer \in Replies(k),
                Answer(t, k, answer)
         PROVE  TypeOK'
    <3>1. CASE EndsSession(answer)
      <4>1. /\ reloading' \in [Tabs -> BOOLEAN]
            /\ flights' \subseteq [tab : Tabs, token : Tokens]
        BY <2>11, <3>1 DEF Answer, TypeOK
      <4>. QED  BY <2>11, <3>1, <4>1, ClearAuthType DEF Answer, TypeOK, manager
    <3>2. CASE ~EndsSession(answer)
      BY <2>11, <3>2 DEF Answer, TypeOK, document, manager
    <3>. QED  BY <3>1, <3>2
  <2>12. ASSUME NEW k \in Tokens, Expire(k)
         PROVE  TypeOK'
    BY <2>12 DEF Expire, TypeOK, document
  <2>13. CASE UNCHANGED vars
    BY <2>13 DEF vars, document, manager, TypeOK
  <2>. QED
    BY <2>1, <2>2, <2>3, <2>4, <2>5, <2>6, <2>7, <2>8, <2>9, <2>10, <2>11, <2>12,
       <2>13 DEF Next
<1>. QED  BY <1>1, <1>2, PTL DEF Spec

-----------------------------------------------------------------------------
(* A session is whole when its token was issued to its user. *)
Whole(s) == s = Nobody \/ (s.token \in Tokens /\ s.user # None /\ owner[s.token] = s.user)

LEMMA WholeParts ==
    SessionIsWhole <=>
        /\ Whole(stored) /\ Whole(keys)
        /\ \A t \in Tabs : Whole(mem[t])
        /\ \A t \in Tabs : auth[t] <=> mem[t] # Nobody
        /\ keys = stored
  BY DEF SessionIsWhole, Whole

(* What the store writes, and what a document reads from it, is whole. *)
LEMMA SetAuthWhole ==
    ASSUME TypeOK, SessionIsWhole, NEW t \in Tabs, NEW s \in Sessions, SetAuth(t, s),
           Whole(s)', \A r : Whole(r) => Whole(r)'
    PROVE  SessionIsWhole'
  <1>1. s # Nobody
    BY DEF Sessions, Nobody
  <1>2. \A r \in Tabs : Whole(mem[r])' /\ (auth'[r] <=> mem'[r] # Nobody)
    BY <1>1, WholeParts DEF SetAuth, TypeOK, Whole
  <1>3. Whole(stored)' /\ Whole(keys)' /\ keys' = stored'
    BY DEF SetAuth, Whole
  <1>. QED  BY <1>2, <1>3 DEF SessionIsWhole, Whole

LEMMA ClearAuthWhole ==
    ASSUME TypeOK, SessionIsWhole, NEW t \in Tabs, ClearAuth(t), owner' = owner
    PROVE  SessionIsWhole'
  <1>1. \A r \in Tabs : Whole(mem[r])' /\ (auth'[r] <=> mem'[r] # Nobody)
    BY WholeParts DEF ClearAuth, TypeOK, Whole
  <1>2. Whole(stored)' /\ Whole(keys)' /\ keys' = stored'
    BY DEF ClearAuth, Whole
  <1>. QED  BY <1>1, <1>2 DEF SessionIsWhole, Whole

LEMMA HydrateWhole ==
    ASSUME TypeOK, SessionIsWhole, NEW t \in Tabs, Hydrate(t), owner' = owner
    PROVE  SessionIsWhole'
  <1>1. stored # Nobody <=> stored.user # None /\ stored.token # None
    BY WholeParts DEF Whole, Nobody, Tokens, TypeOK, Sessions
  <1>2. \A r \in Tabs : Whole(mem[r])' /\ (auth'[r] <=> mem'[r] # Nobody)
    BY <1>1, WholeParts DEF Hydrate, TypeOK, Whole
  <1>3. Whole(stored)' /\ Whole(keys)' /\ keys' = stored'
    BY WholeParts DEF Hydrate, Whole
  <1>. QED  BY <1>2, <1>3 DEF SessionIsWhole, Whole

(* A new token makes a session whole and leaves the others as they are. *)
LEMMA LoginWhole ==
    ASSUME TypeOK, NEW t \in Tabs, NEW u \in Users, NEW k \in Tokens, LoginOk(t, u, k)
    PROVE  /\ Whole([user |-> u, token |-> k])'
           /\ \A r : Whole(r) => Whole(r)'
  <1>1. owner' = [owner EXCEPT ![k] = u] /\ owner[k] = None
    BY DEF LoginOk
  <1>2. owner'[k] = u /\ \A j \in Tokens \ {k} : owner'[j] = owner[j]
    BY <1>1 DEF TypeOK
  <1>. QED  BY <1>1, <1>2 DEF Whole

LEMMA WholeKept ==
    ASSUME TypeOK, SessionIsWhole, [Next]_vars
    PROVE  SessionIsWhole'
<1>1. ASSUME NEW t \in Tabs, NEW u \in Users, SubmitLogin(t, u) \/ LoginFailed(t, u)
      PROVE  SessionIsWhole'
  BY <1>1 DEF SubmitLogin, LoginFailed, manager, SessionIsWhole
<1>2. ASSUME NEW t \in Tabs, NEW u \in Users, LoginRefused(t, u)
      PROVE  SessionIsWhole'
  BY <1>2, ClearAuthWhole DEF LoginRefused, manager
<1>3. ASSUME NEW t \in Tabs, NEW u \in Users, NEW k \in Tokens, LoginOk(t, u, k)
      PROVE  SessionIsWhole'
  <2>1. [user |-> u, token |-> k] \in Sessions
    BY DEF Sessions
  <2>. QED  BY <1>3, <2>1, LoginWhole, SetAuthWhole DEF LoginOk
<1>4. ASSUME NEW t \in Tabs, Redirect(t) \/ Ask(t) \/ \E page \in Pages : Browse(t, page)
      PROVE  SessionIsWhole'
  BY <1>4 DEF Redirect, Ask, Browse, document, manager, SessionIsWhole
<1>5. ASSUME NEW t \in Tabs, Logout(t)
      PROVE  SessionIsWhole'
  BY <1>5, ClearAuthWhole DEF Logout, manager
<1>6. ASSUME NEW t \in Tabs, Reload(t) \/ \E page \in Pages : Load(t, page)
      PROVE  SessionIsWhole'
  BY <1>6, HydrateWhole DEF Reload, Load, manager
<1>7. ASSUME NEW t \in Tabs, NEW k \in Tokens, NEW answer \in Replies(k),
             Answer(t, k, answer)
      PROVE  SessionIsWhole'
  <2>1. CASE EndsSession(answer)
    BY <1>7, <2>1, ClearAuthWhole DEF Answer, manager
  <2>2. CASE ~EndsSession(answer)
    BY <1>7, <2>2 DEF Answer, document, manager, SessionIsWhole
  <2>. QED  BY <2>1, <2>2
<1>8. ASSUME NEW k \in Tokens, Expire(k)
      PROVE  SessionIsWhole'
  BY <1>8 DEF Expire, document, SessionIsWhole
<1>9. CASE UNCHANGED vars
  BY <1>9 DEF vars, document, manager, SessionIsWhole
<1>. QED
  BY <1>1, <1>2, <1>3, <1>4, <1>5, <1>6, <1>7, <1>8, <1>9 DEF Next

(***************************************************************************)
(* The persisted session, the raw keys and the store of every tab always   *)
(* hold nothing or a token with the user it was issued to, and             *)
(* isAuthenticated says which (authStore.ts, storage.ts).                  *)
(***************************************************************************)
THEOREM Wholeness == Spec => []SessionIsWhole
<1>1. Init => SessionIsWhole
  BY DEF Init, SessionIsWhole
<1>2. TypeOK /\ SessionIsWhole /\ [Next]_vars => SessionIsWhole'
  BY WholeKept
<1>. QED  BY <1>1, <1>2, TypeCorrect, PTL DEF Spec

-----------------------------------------------------------------------------
(***************************************************************************)
(* A step takes a live session from its tab only if it is the user's own,  *)
(* a new document's, or the refusal of a request with another token        *)
(* (interceptors.ts): the Manager refuses no token that is live.           *)
(***************************************************************************)
THEOREM KeptWhileLive == Spec => LiveSessionKept
<1> DEFINE Kept == \A t \in Tabs :
        mem[t].token \in live /\ mem'[t] # mem[t] =>
            \/ Logout(t) \/ Reload(t)
            \/ \E page \in Pages : Load(t, page)
            \/ \E u \in Users :
                LoginRefused(t, u) \/ \E k \in Tokens : LoginOk(t, u, k)
            \/ \E k \in Tokens \ {mem[t].token} : Answer(t, k, "unauthorized")
<1>1. TypeOK /\ [Next]_vars => [Kept]_vars
  <2> SUFFICES ASSUME TypeOK, Next, NEW t \in Tabs,
                      mem[t].token \in live, mem'[t] # mem[t]
               PROVE  \/ Logout(t) \/ Reload(t)
                      \/ \E page \in Pages : Load(t, page)
                      \/ \E u \in Users :
                          LoginRefused(t, u) \/ \E k \in Tokens : LoginOk(t, u, k)
                      \/ \E k \in Tokens \ {mem[t].token} : Answer(t, k, "unauthorized")
    OBVIOUS
  <2>1. ASSUME NEW r \in Tabs, NEW u \in Users, SubmitLogin(r, u) \/ LoginFailed(r, u)
        PROVE  FALSE
    BY <2>1 DEF SubmitLogin, LoginFailed
  <2>2. ASSUME NEW r \in Tabs, NEW u \in Users, LoginRefused(r, u)
        PROVE  r = t
    BY <2>2 DEF LoginRefused, ClearAuth, TypeOK
  <2>3. ASSUME NEW r \in Tabs, NEW u \in Users, NEW k \in Tokens, LoginOk(r, u, k)
        PROVE  r = t
    BY <2>3 DEF LoginOk, SetAuth, TypeOK
  <2>4. ASSUME NEW r \in Tabs, Redirect(r) \/ Ask(r) \/ \E page \in Pages : Browse(r, page)
        PROVE  FALSE
    BY <2>4 DEF Redirect, Ask, Browse, document
  <2>5. ASSUME NEW r \in Tabs, Logout(r)
        PROVE  r = t
    BY <2>5 DEF Logout, ClearAuth, TypeOK
  <2>6. ASSUME NEW r \in Tabs, Reload(r) \/ \E page \in Pages : Load(r, page)
        PROVE  r = t
    BY <2>6 DEF Reload, Load, Hydrate, TypeOK
  <2>7. ASSUME NEW r \in Tabs, NEW k \in Tokens, NEW answer \in Replies(k),
               Answer(r, k, answer)
        PROVE  r = t /\ answer = "unauthorized" /\ k # mem[t].token
    <3>1. EndsSession(answer) /\ ClearAuth(r)
      BY <2>7 DEF Answer, document
    <3>2. r = t /\ answer = "unauthorized"
      BY <3>1 DEF ClearAuth, EndsSession, TypeOK
    <3>3. k \notin live
      BY <3>2 DEF Replies
    <3>. QED  BY <3>2, <3>3
  <2>8. ASSUME NEW k \in Tokens, Expire(k)
        PROVE  FALSE
    BY <2>8 DEF Expire, document
  <2>. QED  BY <2>1, <2>2, <2>3, <2>4, <2>5, <2>6, <2>7, <2>8 DEF Next
<1>. QED  BY <1>1, TypeCorrect, PTL DEF Spec, LiveSessionKept

-----------------------------------------------------------------------------
(***************************************************************************)
(* What is persisted and what the tabs hold implements Session: a login    *)
(* answered is a sign-in with a session never given before, a logout or a  *)
(* refusal is a sign-out, a new document opens with what is remembered,    *)
(* and nothing else touches either.                                        *)
(***************************************************************************)
THEOREM Refinement == Spec => RefinesSession
<1> DEFINE Given == {s \in Sessions : owner[s.token] = s.user}
<1>1. Init => Abstract!Init
  BY DEF Init, Abstract!Init, Sessions, Nobody, Tokens
<1>2. TypeOK /\ [Next]_vars => [Abstract!Next]_Abstract!vars
  <2> SUFFICES ASSUME TypeOK, [Next]_vars
               PROVE  Abstract!Next \/ UNCHANGED <<stored, mem, Given>>
    BY DEF Abstract!vars
  <2>1. ASSUME NEW t \in Tabs, NEW u \in Users, NEW k \in Tokens, LoginOk(t, u, k)
        PROVE  Abstract!Next
    <3> DEFINE s == [user |-> u, token |-> k]
    <3>1. s \in Sessions /\ s \notin Given
      BY <2>1 DEF LoginOk, Sessions
    <3>2. owner' = [owner EXCEPT ![k] = u] /\ owner[k] = None
      BY <2>1 DEF LoginOk
    <3>3. \A r \in Sessions : owner'[r.token] = r.user <=> owner[r.token] = r.user \/ r = s
      BY <3>2 DEF TypeOK, Sessions
    <3>4. {r \in Sessions : owner[r.token] = r.user}' = Given \cup {s}
      BY <3>1, <3>3
    <3>5. Abstract!SignIn(t, s)
      BY <2>1, <3>1, <3>4 DEF LoginOk, SetAuth, Abstract!SignIn
    <3>. QED  BY <3>1, <3>5 DEF Abstract!Next
  <2>2. ASSUME NEW t \in Tabs, ClearAuth(t), owner' = owner
        PROVE  Abstract!Next
    BY <2>2 DEF ClearAuth, Abstract!Next, Abstract!SignOut
  <2>3. ASSUME NEW t \in Tabs, Hydrate(t), owner' = owner
        PROVE  Abstract!Next
    BY <2>3 DEF Hydrate, Abstract!Next, Abstract!Open
  <2>4. ASSUME NEW t \in Tabs, NEW u \in Users, LoginRefused(t, u)
        PROVE  Abstract!Next
    BY <2>2, <2>4 DEF LoginRefused, manager
  <2>5. ASSUME NEW t \in Tabs, Logout(t)
        PROVE  Abstract!Next
    BY <2>2, <2>5 DEF Logout, manager
  <2>6. ASSUME NEW t \in Tabs, Reload(t) \/ \E page \in Pages : Load(t, page)
        PROVE  Abstract!Next
    BY <2>3, <2>6 DEF Reload, Load, manager
  <2>7. ASSUME NEW t \in Tabs, NEW k \in Tokens, NEW answer \in Replies(k),
               Answer(t, k, answer)
        PROVE  Abstract!Next \/ UNCHANGED <<stored, mem, owner>>
    BY <2>2, <2>7 DEF Answer, document, manager
  <2>8. ASSUME NEW t \in Tabs, NEW u \in Users, SubmitLogin(t, u) \/ LoginFailed(t, u)
        PROVE  UNCHANGED <<stored, mem, owner>>
    BY <2>8 DEF SubmitLogin, LoginFailed, manager
  <2>9. ASSUME NEW t \in Tabs, Redirect(t) \/ Ask(t) \/ \E page \in Pages : Browse(t, page)
        PROVE  UNCHANGED <<stored, mem, owner>>
    BY <2>9 DEF Redirect, Ask, Browse, document, manager
  <2>10. ASSUME NEW k \in Tokens, Expire(k)
         PROVE  UNCHANGED <<stored, mem, owner>>
    BY <2>10 DEF Expire, document
  <2>11. CASE UNCHANGED vars
    BY <2>11 DEF vars, document, manager
  <2>12. UNCHANGED <<stored, mem, owner>> => UNCHANGED <<stored, mem, Given>>
    OBVIOUS
  <2>. QED
    BY <2>1, <2>4, <2>5, <2>6, <2>7, <2>8, <2>9, <2>10, <2>11, <2>12 DEF Next
<1>. QED  BY <1>1, <1>2, TypeCorrect, PTL DEF Spec, RefinesSession, Abstract!Spec
=============================================================================
