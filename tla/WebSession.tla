------------------------------ MODULE WebSession ------------------------------
(***************************************************************************)
(* The session of the web front end in the tabs of one browser: the auth   *)
(* store that zustand persists (authStore.ts), the raw keys beside it      *)
(* (storage.ts), the login form, the interceptors that put the token on a  *)
(* request and end the session on a refusal (interceptors.ts), the route   *)
(* guard (ProtectedRoute.tsx) and the logout of the layout.                *)
(*                                                                         *)
(* localStorage is shared by the tabs, the store's memory is not, and a    *)
(* tab does not listen to the changes of another.  A handler runs to its   *)
(* end before the next one, so it is one step.  Hydration is synchronous,  *)
(* a part of loading the document; its read and its write back are one     *)
(* step, and the store can be read.                                        *)
(***************************************************************************)
EXTENDS Naturals

CONSTANTS Tabs,      \* tabs of one browser
          Users,     \* accounts
          None,      \* no user, no token
          MaxLogins  \* bound: tokens the Manager issues

ASSUME WebSessionAssumption == MaxLogins \in Nat /\ None \notin Users \cup Nat

VARIABLES
    stored,     \* the persisted session, "ops-auth-storage"
    keys,       \* the raw keys "ops_user" and "ops_token"
    mem,        \* user and token in a tab's store
    auth,       \* isAuthenticated in a tab's store
    route,      \* the page a tab is on
    logins,     \* users whose logins a tab has in flight
    awaited,    \* the login the tab's form waits for (isLoggingIn)
    reloading,  \* a tab has set window.location and is not unloaded yet
    flights,    \* requests of the console pages: the tab and the token carried
    owner,      \* Manager: whom a token was issued to
    live        \* Manager: tokens that have not expired

document == <<mem, auth, route, logins, awaited, reloading>>
manager == <<owner, live>>
vars == <<stored, keys, document, flights, manager>>

Tokens == 1 .. MaxLogins

(* Behind ProtectedRoute some pages ask again and again by themselves: a    *)
(* node's metrics and agents, and the dashboard unless it is paused or the  *)
(* browser hides it.  The rest are still.                                   *)
Pages == {"login", "polling", "still"}

Nobody == [user |-> None, token |-> None]
Sessions == [user : Users, token : Tokens]

(* What an answer can be: a refusal of the token is HTTP 401, or one of    *)
(* the four business codes in an answer with status 200.                   *)
Answers == {"ok", "unauthorized", "forbidden", "missing", "failed", "lost"}

TypeOK ==
    /\ stored \in Sessions \cup {Nobody}
    /\ keys \in Sessions \cup {Nobody}
    /\ mem \in [Tabs -> Sessions \cup {Nobody}]
    /\ auth \in [Tabs -> BOOLEAN]
    /\ route \in [Tabs -> Pages]
    /\ logins \in [Tabs -> SUBSET Users]
    /\ awaited \in [Tabs -> Users \cup {None}]
    /\ reloading \in [Tabs -> BOOLEAN]
    /\ flights \subseteq [tab : Tabs, token : Tokens]
    /\ owner \in [Tokens -> Users \cup {None}]
    /\ live \subseteq Tokens

(* A browser that has never been here, each tab on the page it redirects to. *)
Init ==
    /\ stored = Nobody /\ keys = Nobody
    /\ mem = [t \in Tabs |-> Nobody]
    /\ auth = [t \in Tabs |-> FALSE]
    /\ route = [t \in Tabs |-> "login"]
    /\ logins = [t \in Tabs |-> {}]
    /\ awaited = [t \in Tabs |-> None]
    /\ reloading = [t \in Tabs |-> FALSE]
    /\ flights = {}
    /\ owner = [k \in Tokens |-> None]
    /\ live = {}

-----------------------------------------------------------------------------
(* The stores *)

(* Mutant of SetAuth: the user of the session before stays in the store. *)
SetAuthKeepsUser(t, s) ==
    /\ keys' = s
    /\ mem' = [mem EXCEPT ![t].token = s.token]
    /\ stored' = [mem[t] EXCEPT !.token = s.token]
    /\ auth' = [auth EXCEPT ![t] = TRUE]

(* setAuth.  Every set of the store persists the session it holds. *)
SetAuth(t, s) ==
    /\ keys' = s
    /\ mem' = [mem EXCEPT ![t] = s]
    /\ stored' = s
    /\ auth' = [auth EXCEPT ![t] = TRUE]

(* Mutant of ClearAuth: only the raw keys and the flag are reset. *)
ClearAuthKeepsSession(t) ==
    /\ keys' = Nobody
    /\ auth' = [auth EXCEPT ![t] = FALSE]
    /\ UNCHANGED <<stored, mem>>

(* clearAuth, which empties what the other tabs load as well. *)
ClearAuth(t) ==
    /\ keys' = Nobody
    /\ mem' = [mem EXCEPT ![t] = Nobody]
    /\ stored' = Nobody
    /\ auth' = [auth EXCEPT ![t] = FALSE]

(* The store of a new document, onRehydrateStorage included. *)
Hydrate(t) ==
    /\ mem' = [mem EXCEPT ![t] = stored]
    /\ auth' = [auth EXCEPT ![t] = stored.user # None /\ stored.token # None]
    /\ UNCHANGED <<stored, keys>>

(* A document starts with no request of its own and an idle form. *)
FreshDocument(t, page) ==
    /\ route' = [route EXCEPT ![t] = page]
    /\ logins' = [logins EXCEPT ![t] = {}]
    /\ awaited' = [awaited EXCEPT ![t] = None]
    /\ reloading' = [reloading EXCEPT ![t] = FALSE]
    /\ flights' = {f \in flights : f.tab # t}

(* The request interceptor: the token is the store's when the call starts. *)
Request(t) == [tab |-> t, token |-> mem[t].token]

-----------------------------------------------------------------------------
(* The login form *)

SubmitLogin(t, u) ==
    /\ route[t] = "login" /\ awaited[t] = None /\ u \notin logins[t]
    /\ logins' = [logins EXCEPT ![t] = @ \cup {u}]
    /\ awaited' = [awaited EXCEPT ![t] = u]
    /\ UNCHANGED <<stored, keys, mem, auth, route, reloading, flights, manager>>

(* The form that waits for this login, if it is still there. *)
Answered(t, u) ==
    /\ u \in logins[t]
    /\ logins' = [logins EXCEPT ![t] = @ \ {u}]
    /\ awaited' = [awaited EXCEPT ![t] = IF @ = u THEN None ELSE @]

(* The Manager issues a token, setAuth stores it and the form moves on to  *)
(* the dashboard, even when the user has left the login page meanwhile.    *)
LoginOk(t, u, k) ==
    /\ owner[k] = None
    /\ u \in logins[t]
    /\ logins' = [logins EXCEPT ![t] = @ \ {u}]
    /\ awaited' = [awaited EXCEPT ![t] = None]
    /\ owner' = [owner EXCEPT ![k] = u]
    /\ live' = live \cup {k}
    /\ SetAuth(t, [user |-> u, token |-> k])
    /\ route' = [route EXCEPT ![t] = "polling"]
    /\ UNCHANGED <<reloading, flights>>

(* Wrong credentials are answered with 401: the interceptor takes them for *)
(* an expired session and reloads the page, error message and all.         *)
LoginRefused(t, u) ==
    /\ Answered(t, u)
    /\ ClearAuth(t)
    /\ reloading' = [reloading EXCEPT ![t] = TRUE]
    /\ UNCHANGED <<route, flights, manager>>

(* Any other failure is shown in the form. *)
LoginFailed(t, u) ==
    /\ Answered(t, u)
    /\ UNCHANGED <<stored, keys, mem, auth, route, reloading, flights, manager>>

-----------------------------------------------------------------------------
(* The pages behind the guard *)

(* ProtectedRoute: who may not see the page. *)
Guard(t) == ~auth[t]

Redirect(t) ==
    /\ route[t] # "login" /\ Guard(t)
    /\ route' = [route EXCEPT ![t] = "login"]
    /\ awaited' = [awaited EXCEPT ![t] = None]
    /\ UNCHANGED <<stored, keys, mem, auth, logins, reloading, flights, manager>>

(* A page asks for what it shows, by itself or because the user acts. *)
Ask(t) ==
    /\ route[t] # "login" /\ ~Guard(t)
    /\ mem[t].token # None
    /\ flights' = flights \cup {Request(t)}
    /\ UNCHANGED <<stored, keys, document, manager>>

(* The Manager's middleware refuses exactly the tokens that have expired; a *)
(* request may be lost at any time.                                         *)
Replies(k) == IF k \in live THEN Answers \ {"unauthorized"}
                            ELSE {"unauthorized", "lost"}

(* Mutant of EndsSession: a missing permission ends the session as well. *)
EndsSessionWhenForbidden(answer) == answer \in {"unauthorized", "forbidden"}

(* Mutant of EndsSession: only the business codes of an answer with status *)
(* 200 are looked at.                                                       *)
EndsSessionByCodeOnly(answer) == answer = "code"

(* The response interceptor: which answers end the session. *)
EndsSession(answer) == answer = "unauthorized"

(* An answer ends the session the tab has now, whichever token the request *)
(* carried.                                                                *)
Answer(t, k, answer) ==
    /\ [tab |-> t, token |-> k] \in flights
    /\ flights' = flights \ {[tab |-> t, token |-> k]}
    /\ IF EndsSession(answer)
       THEN /\ ClearAuth(t)
            /\ reloading' = [reloading EXCEPT ![t] = TRUE]
            /\ UNCHANGED <<route, logins, awaited, manager>>
       ELSE UNCHANGED <<stored, keys, document, manager>>

(* Mutant of Logout: the token stays in the browser. *)
LogoutForgetsStorage(t) ==
    /\ route[t] # "login" /\ ~Guard(t)
    /\ mem' = [mem EXCEPT ![t] = Nobody]
    /\ auth' = [auth EXCEPT ![t] = FALSE]
    /\ route' = [route EXCEPT ![t] = "login"]
    /\ UNCHANGED <<stored, keys, logins, awaited, reloading, flights, manager>>

(* The layout's logout: what is in flight stays in flight, and the token   *)
(* stays good.                                                             *)
Logout(t) ==
    /\ route[t] # "login" /\ ~Guard(t)
    /\ ClearAuth(t)
    /\ route' = [route EXCEPT ![t] = "login"]
    /\ UNCHANGED <<logins, awaited, reloading, flights, manager>>

-----------------------------------------------------------------------------
(* The browser and the Manager *)

(* The document that window.location = '/login' asked for. *)
Reload(t) ==
    /\ reloading[t]
    /\ Hydrate(t)
    /\ FreshDocument(t, "login")
    /\ UNCHANGED manager

(* The user reloads the tab or types an address. *)
Load(t, page) ==
    /\ Hydrate(t)
    /\ FreshDocument(t, page)
    /\ UNCHANGED manager

(* Back, forward, the menu and the links change the page within the         *)
(* document.  The form of a login page one comes back to knows nothing of   *)
(* the logins in flight.                                                    *)
Browse(t, page) ==
    /\ route[t] # page
    /\ route' = [route EXCEPT ![t] = page]
    /\ awaited' = [awaited EXCEPT ![t] = None]
    /\ UNCHANGED <<stored, keys, mem, auth, logins, reloading, flights, manager>>

Expire(k) ==
    /\ k \in live
    /\ live' = live \ {k}
    /\ UNCHANGED <<stored, keys, document, flights, owner>>

Next ==
    \/ \E t \in Tabs, u \in Users :
        \/ SubmitLogin(t, u) \/ LoginRefused(t, u) \/ LoginFailed(t, u)
        \/ \E k \in Tokens : LoginOk(t, u, k)
    \/ \E t \in Tabs :
        \/ Redirect(t) \/ Ask(t) \/ Logout(t) \/ Reload(t)
        \/ \E page \in Pages : Load(t, page) \/ Browse(t, page)
        \/ \E k \in Tokens : \E answer \in Replies(k) : Answer(t, k, answer)
    \/ \E k \in Tokens : Expire(k)

Spec == Init /\ [][Next]_vars

(* The pages' timers fire, the browser carries out a navigation, and of     *)
(* the requests sent again and again some are answered.                     *)
Fairness ==
    \A t \in Tabs :
        /\ WF_vars(route[t] = "polling" /\ Ask(t)) /\ WF_vars(Redirect(t)) /\ WF_vars(Reload(t))
        /\ \A k \in Tokens :
            SF_vars(k \notin live /\ Answer(t, k, "unauthorized"))

FairSpec == Spec /\ Fairness

-----------------------------------------------------------------------------
(* Properties *)

(* Every session the browser or a tab holds is whole: its token was issued  *)
(* to the user beside it, isAuthenticated says whether there is one, and    *)
(* the raw keys name the session that is persisted.  Several tabs, logins   *)
(* answered late and documents loaded in between write these four places.   *)
SessionIsWhole ==
    /\ \A s \in {stored, keys} \cup {mem[t] : t \in Tabs} :
        s = Nobody \/ (s.token \in Tokens /\ s.user # None /\ owner[s.token] = s.user)
    /\ \A t \in Tabs : auth[t] <=> mem[t] # Nobody
    /\ keys = stored

(* The steps that may take a session that has not expired from a tab: the   *)
(* user's own logout or login there, a document loaded anew, and the        *)
(* refusal of a request that carried another token, an older one the tab    *)
(* still had in flight.  No answer to a request of the session itself does. *)
LiveSessionKept ==
    [][\A t \in Tabs :
        mem[t].token \in live /\ mem'[t] # mem[t] =>
            \/ Logout(t) \/ Reload(t)
            \/ \E page \in Pages : Load(t, page)
            \/ \E u \in Users :
                LoginRefused(t, u) \/ \E k \in Tokens : LoginOk(t, u, k)
            \/ \E k \in Tokens \ {mem[t].token} : Answer(t, k, "unauthorized")]_vars

(* A tab that stays on a page that polls does not keep an expired token:    *)
(* a poll is refused, and the interceptor ends the session.                 *)
ExpiredSessionEnds ==
    \A t \in Tabs, k \in Tokens :
        route[t] = "polling" /\ mem[t].token = k /\ k \notin live
            ~> route[t] # "polling" \/ mem[t].token # k

(* The persisted session and the tabs' stores behave as Session promises:   *)
(* no tab writes back a session that was ended elsewhere.                   *)
Abstract == INSTANCE Session WITH
    Sessions <- Sessions, Nobody <- Nobody,
    remembered <- stored, holds <- mem,
    given <- {s \in Sessions : owner[s.token] = s.user}

RefinesSession == Abstract!Spec
=============================================================================
