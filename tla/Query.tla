-------------------------------- MODULE Query --------------------------------
(***************************************************************************)
(* One entry of the query cache of the web front end, as a record: what    *)
(* TanStack Query does with a key, under the defaults App.tsx sets (one    *)
(* retry, no refetch on focus).  The data are whatever the caller loads;   *)
(* None is no data.  The answer of a fetch is what the server had when it  *)
(* read, which is earlier than when the answer is applied.                 *)
(*                                                                         *)
(* An attempt that fails and is retried shows as a fetch that has not been *)
(* read yet; only the failure of the last attempt is a step.  While the    *)
(* browser is offline a fetch waits (the network mode is left at 'online'):*)
(* it is neither loading nor failed.                                       *)
(***************************************************************************)

CONSTANT None   \* no data

Phases == {"idle", "asked", "read", "paused"}

(* error: the last fetch failed; invalid: marked as out of date; phase: the *)
(* fetch under way; got: what the server answered it.                       *)
Entries(D) ==
    [data : D \cup {None}, error : BOOLEAN, invalid : BOOLEAN,
     phase : Phases, got : D \cup {None}]

Empty == [data |-> None, error |-> FALSE, invalid |-> FALSE,
          phase |-> "idle", got |-> None]

Idle(q) == q.phase = "idle"
Fetching(q) == q.phase \in {"asked", "read"}
Loading(q) == q.data = None /\ Fetching(q)
Refetching(q) == q.data # None /\ Fetching(q)

(* A fetch from its beginning.  An error is forgotten at once only when    *)
(* there are no data to go with it.                                        *)
Begin(q) == [q EXCEPT !.phase = "asked", !.got = None,
                      !.error = q.error /\ q.data # None]

(* Mounting and polling share the fetch that is under way or paused. *)
Fetch(q) == IF Idle(q) THEN Begin(q) ELSE q

(* refetch and invalidation give it up for a new one, if there are data. *)
Refetch(q) == IF q.data # None THEN Begin(q) ELSE Fetch(q)

(* Only data can be out of date: without them the next mount fetches anyway. *)
Invalidate(q, watched) ==
    LET out == [q EXCEPT !.invalid = q.data # None] IN IF watched THEN Refetch(out) ELSE out

(* Mounting a page: fetch what is missing or out of date. *)
Mount(q, stale) == IF q.data = None \/ q.invalid \/ stale THEN Fetch(q) ELSE q

Read(q, d) == [q EXCEPT !.phase = "read", !.got = d]

Succeed(q) == [Empty EXCEPT !.data = q.got]

(* Offline: a fetch does not begin, or does not try again. *)
Pause(q) == [q EXCEPT !.phase = "paused", !.got = None]

(* Online again: a fetch that was paused goes on, and a query that a page   *)
(* watches is fetched as if that page were mounted now.                     *)
Reconnect(q, watched, stale) ==
    IF q.phase = "paused" THEN [q EXCEPT !.phase = "asked"]
    ELSE IF watched THEN Mount(q, stale) ELSE q

(* The last attempt fails: the data there are stay, beside the error. *)
Fail(q) == [q EXCEPT !.phase = "idle", !.got = None, !.error = TRUE]
=============================================================================
