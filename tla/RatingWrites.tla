---------------------------- MODULE RatingWrites ----------------------------
(***************************************************************************)
(* One user's ratings of one anime, the watch-event log beside them and the *)
(* cache of visible media computed from them (services/rating_service.py,    *)
(* services/spoiler_service.py), written by concurrent requests.             *)
(*                                                                         *)
(* Every request is one transaction at READ COMMITTED, PostgreSQL's default: *)
(* each statement sees what is committed when it starts and the              *)
(* transaction's own writes, and waits for the row locks of others.  Two     *)
(* tabs, a retry, or a client that does not wait make requests overlap.      *)
(***************************************************************************)
EXTENDS SpoilerFrontier, FiniteSets, TLC

CONSTANTS
    Order,          \* the anime's media, in chronological order
    Anchors,        \* those that are main story or alternative versions
    Unaired,        \* those not yet aired, which take no fresh rating
    Requests,       \* the requests that can be in flight at once
    Operations,     \* the operations the environment calls
    Wipes,          \* what delete_watch_history may be
    MaxRequests,    \* bound: how many requests are made
    MaxEvents       \* bound: how many watch events are logged

Media == {Order[i] : i \in DOMAIN Order}
AllOperations == {"upsert", "delete", "rewatch", "bulk_upsert", "bulk_delete", "refresh"}

ASSUME WritesAssumption ==
    /\ Anchors \subseteq Media /\ Unaired \subseteq Media
    /\ Operations \subseteq AllOperations /\ Wipes \subseteq BOOLEAN
    /\ MaxRequests \in Nat /\ MaxEvents \in Nat

VARIABLES
    rating,         \* media -> watch_status of its rating, "none" without one
    history,        \* the watch_events rows; `first` marks those a rating write logged
    visible,        \* the user_visible_media rows
    req,            \* what each request has read and not yet committed
    requests,       \* how many requests have been made
    events          \* how many watch events have been logged

vars == <<rating, history, visible, req, requests, events>>

\* `dropped` is treated as `on_hold` everywhere here.
Statuses == {"completed", "on_hold"}

Free ==
    [pc |-> "idle", op |-> "refresh", status |-> "none", wipe |-> FALSE, at |-> Order[1],
     todo |-> {}, old |-> [m \in Media |-> "none"], watched |-> {},
     stale |-> {}, locked |-> {}, set |-> <<>>, made |-> {}, gone |-> {},
     rated |-> {}, doomed |-> {}, shown |-> {}]

Others(r) == Requests \ {r}

\* The ratings as r sees them: the committed ones, and its own writes on top.
Seen(r) == [m \in Media |-> IF m \in DOMAIN req[r].set THEN req[r].set[m] ELSE rating[m]]

\* The writes of a transaction, the latest of a media in front.
Over(latest, earlier) ==
    [m \in DOMAIN latest \cup DOMAIN earlier |->
        IF m \in DOMAIN latest THEN latest[m] ELSE earlier[m]]

LockFree(r, ms) == \A q \in Others(r) : req[q].locked \cap ms = {}

\* The media whose watch history the request was asked to wipe, and does: an upsert
\* only on a real downgrade, a bulk delete only where a rating was there to delete.
ToWipe(r) ==
    IF ~req[r].wipe THEN {}
    ELSE CASE req[r].op = "upsert" ->
                {m \in {req[r].at} : req[r].old[m] = "completed" /\ req[r].status # "completed"}
           [] req[r].op \in {"delete", "bulk_delete"} ->
                {m \in Media : req[r].old[m] # "none"}
           [] OTHER -> {}

\* Where a request goes when the media at hand is written.
Following(r) == IF req[r].todo # {} THEN "writing"
                ELSE IF ToWipe(r) # {} THEN "wiping" ELSE "reading"

-----------------------------------------------------------------------------
(* A request: what it reads first *)

\* The call and its first query.  log_rewatch and delete_rating find the rating or
\* answer 404; log_rewatch wants it completed.
Begin(r, op, ms, status, wipe) ==
    /\ req[r].pc = "idle"
    /\ requests < MaxRequests /\ requests' = requests + 1
    /\ op \in {"upsert", "delete", "rewatch"} => \E m \in Media : ms = {m}
    /\ op = "refresh" <=> ms = {}
    /\ op = "rewatch" => \A m \in ms : rating[m] = "completed"
    /\ op = "delete" => \A m \in ms : rating[m] # "none"
    /\ op \notin {"upsert", "bulk_upsert"} <=> status = "none"
    /\ op = "bulk_upsert" => status = "completed"
    /\ op \in {"rewatch", "refresh", "bulk_upsert"} => ~wipe
    /\ req' = [req EXCEPT ![r] =
                 [Free EXCEPT !.op = op, !.todo = ms, !.status = status, !.wipe = wipe,
                    !.at = IF ms = {} THEN @ ELSE CHOOSE m \in ms : TRUE,
                    !.old = [m \in Media |-> IF m \in ms THEN rating[m] ELSE "none"],
                    !.pc = CASE op = "bulk_upsert" -> "counting"
                             [] op = "rewatch" -> "logging"
                             [] op = "refresh" -> "reading"
                             [] OTHER -> "writing"]]
    /\ UNCHANGED <<rating, history, visible, events>>

\* bulk_upsert_ratings asks once, before it writes, which media have events.
CountEvents(r) ==
    /\ req[r].pc = "counting"
    /\ req' = [req EXCEPT ![r].pc = "writing", ![r].watched = {e.media : e \in history}]
    /\ UNCHANGED <<rating, history, visible, requests, events>>

-----------------------------------------------------------------------------
(* Writing ratings and events *)

\* The flush of a write to m; only a completion asks for the first-watch check.
Wrote(r, m, locks, sets) ==
    /\ LET left == req[r].todo \ {m}
           then == [req EXCEPT ![r].todo = left, ![r].at = m,
                               ![r].locked = @ \cup locks, ![r].set = Over(sets, @)]
       IN  \/ /\ req[r].status = "completed"
              /\ req' = [then EXCEPT ![r].pc = "checking"]
           \/ /\ req[r].status # "completed"
              /\ req' = [then EXCEPT ![r].pc = IF ToWipe(r) # {} THEN "wiping" ELSE "reading"]
    /\ UNCHANGED <<rating, history, visible, requests, events>>

\* INSERT of a fresh rating: refused on an unaired media, and by the unique key when
\* another request has committed one since the read (both end in Abort).
InsertRating(r, m) ==
    /\ req[r].pc = "writing" /\ req[r].op \in {"upsert", "bulk_upsert"}
    /\ m \in req[r].todo /\ LockFree(r, {m})
    /\ req[r].old[m] = "none" /\ rating[m] = "none" /\ m \notin Unaired
    /\ Wrote(r, m, {m}, [x \in {m} |-> req[r].status])

\* UPDATE of the rating that was read: of its status, or only of another column.  A
\* row deleted meanwhile is a stale-data error (Abort).
UpdateRating(r, m) ==
    /\ req[r].pc = "writing" /\ req[r].op \in {"upsert", "bulk_upsert"}
    /\ m \in req[r].todo /\ LockFree(r, {m})
    /\ req[r].old[m] # "none" /\ m \notin req[r].stale
    /\ Wrote(r, m, {m}, IF req[r].status = req[r].old[m] THEN <<>>
                        ELSE [x \in {m} |-> req[r].status])

\* A write that changes no column sends no UPDATE and takes no lock.
KeepRating(r, m) ==
    /\ req[r].pc = "writing" /\ req[r].op \in {"upsert", "bulk_upsert"}
    /\ m \in req[r].todo /\ req[r].old[m] = req[r].status
    /\ Wrote(r, m, {}, <<>>)

\* Mutants of HasEvents: the history that existed before is not asked for; a rating
\* that was not completed before has no history.
NeverWatched(r, m) == FALSE
WasCompleted(r, m) == req[r].old[m] # "none"

\* _maybe_log_first_watch: the existence query, or what the bulk read found.
HasEvents(r, m) ==
    IF req[r].op = "bulk_upsert" THEN m \in req[r].watched
    ELSE \E e \in history : e.media = m

CheckFirstWatch(r) ==
    /\ req[r].pc = "checking"
    /\ req' = [req EXCEPT ![r].pc = IF HasEvents(r, req[r].at) THEN Following(r)
                                    ELSE "logging"]
    /\ UNCHANGED <<rating, history, visible, requests, events>>

\* create_event, for a first watch or a rewatch; log_rewatch then only commits.
LogEvent(r) ==
    /\ req[r].pc = "logging"
    /\ events < MaxEvents /\ events' = events + 1
    /\ req' = [req EXCEPT
         ![r].pc = IF req[r].op = "rewatch" THEN "committing" ELSE Following(r),
         ![r].made = @ \cup {[id |-> events + 1, media |-> req[r].at,
                              first |-> req[r].op # "rewatch"]}]
    /\ UNCHANGED <<rating, history, visible, requests>>

\* Mutant of DeleteRatings: the frontier is not recomputed.
DeleteRatingsOnly(r) ==
    /\ req[r].pc = "writing" /\ req[r].op \in {"delete", "bulk_delete"}
    /\ LET gone == {m \in req[r].todo : rating[m] # "none"}
       IN  /\ LockFree(r, gone)
           /\ req' = [req EXCEPT ![r].todo = {}, ![r].locked = gone,
                        ![r].set = [m \in gone |-> "none"], ![r].pc = "committing"]
    /\ UNCHANGED <<rating, history, visible, requests, events>>

\* DELETE of the row that was read, or of any row of the media named; matching nothing
\* is no error.
DeleteRatings(r) ==
    /\ req[r].pc = "writing" /\ req[r].op \in {"delete", "bulk_delete"}
    /\ LET gone == {m \in req[r].todo : /\ rating[m] # "none"
                                        /\ req[r].op = "delete" => m \notin req[r].stale}
       IN  /\ LockFree(r, gone)
           /\ req' = [req EXCEPT ![r].todo = {}, ![r].locked = gone,
                        ![r].set = [m \in gone |-> "none"],
                        ![r].pc = IF ToWipe(r) # {} THEN "wiping" ELSE "reading"]
    /\ UNCHANGED <<rating, history, visible, requests, events>>

\* delete_for_user_media: the events committed by now.
WipeHistory(r) ==
    /\ req[r].pc = "wiping"
    /\ req' = [req EXCEPT ![r].pc = "reading",
                          ![r].gone = {e \in history : e.media \in ToWipe(r)}]
    /\ UNCHANGED <<rating, history, visible, requests, events>>

-----------------------------------------------------------------------------
(* recompute_visibility_for_anime *)

\* The ratings the frontier is computed from.
ReadRated(r) ==
    /\ req[r].pc = "reading"
    /\ req' = [req EXCEPT ![r].pc = "clearing",
                          ![r].rated = {m \in Media : Seen(r)[m] # "none"}]
    /\ UNCHANGED <<rating, history, visible, requests, events>>

\* DELETE of the user's rows for the anime takes its snapshot ...
ClearStarts(r) ==
    /\ req[r].pc = "clearing"
    /\ req' = [req EXCEPT ![r].pc = "waiting", ![r].doomed = visible]
    /\ UNCHANGED <<rating, history, visible, requests, events>>

\* ... and waits for whoever is deleting one of those rows; the rows such a
\* transaction has replaced by its commit are not in the snapshot (Commit).
Deleting(q) == req[q].pc \in {"showing", "committing"}

Cleared(r) ==
    /\ req[r].pc = "waiting"
    /\ \A q \in Others(r) : Deleting(q) => req[q].doomed \cap req[r].doomed = {}
    /\ req' = [req EXCEPT ![r].pc = "showing"]
    /\ UNCHANGED <<rating, history, visible, requests, events>>

\* INSERT ... ON CONFLICT DO NOTHING: waits for a row another transaction is inserting
\* or deleting, and leaves a committed one alone.
Show(r) ==
    LET target == VisibleMedia(Order, Anchors, req[r].rated)
    IN  /\ req[r].pc = "showing"
        /\ \A q \in Others(r) : Deleting(q) => (req[q].doomed \cup req[q].shown) \cap target = {}
        /\ req' = [req EXCEPT ![r].pc = "committing",
                              ![r].shown = target \ (visible \ req[r].doomed)]
        /\ UNCHANGED <<rating, history, visible, requests, events>>

-----------------------------------------------------------------------------
(* The end of a request *)

Commit(r) ==
    /\ req[r].pc = "committing"
    /\ rating' = Seen(r)
    /\ history' = (history \ req[r].gone) \cup req[r].made
    /\ visible' = (visible \ req[r].doomed) \cup req[r].shown
    /\ req' = [q \in Requests |->
                 IF q = r THEN Free
                 ELSE IF req[q].pc = "idle" THEN req[q]
                 ELSE [req[q] EXCEPT
                         !.stale = @ \cup {m \in DOMAIN req[r].set : req[r].set[m] = "none"},
                         !.doomed = IF req[q].pc = "waiting" THEN @ \ req[r].doomed ELSE @]]
    /\ UNCHANGED <<requests, events>>

\* Mutant of Abort: the connection goes back to the pool without a rollback.
AbortKeepsLocks(r) ==
    /\ req[r].pc # "idle"
    /\ req' = [req EXCEPT ![r].pc = "idle"]
    /\ UNCHANGED <<rating, history, visible, requests, events>>

\* A rating refused, a unique key or stale row, a deadlock's victim, a client that
\* disconnects, the death of the process: the transaction rolls back.
Abort(r) ==
    /\ req[r].pc # "idle"
    /\ req' = [req EXCEPT ![r] = Free]
    /\ UNCHANGED <<rating, history, visible, requests, events>>

-----------------------------------------------------------------------------
(* The specification *)

\* Registration computed the cache of a user without ratings.
Init ==
    /\ rating = [m \in Media |-> "none"]
    /\ history = {}
    /\ visible = VisibleMedia(Order, Anchors, {})
    /\ req = [r \in Requests |-> Free]
    /\ requests = 0 /\ events = 0

Ask(r) ==
    \E op \in Operations, ms \in SUBSET Media, status \in Statuses \cup {"none"}, wipe \in Wipes :
        Begin(r, op, ms, status, wipe)

Proceed(r) ==
    \/ CountEvents(r)
    \/ \E m \in Media : InsertRating(r, m) \/ UpdateRating(r, m) \/ KeepRating(r, m)
    \/ CheckFirstWatch(r) \/ LogEvent(r)
    \/ DeleteRatings(r) \/ WipeHistory(r)
    \/ ReadRated(r) \/ ClearStarts(r) \/ Cleared(r) \/ Show(r)
    \/ Commit(r) \/ Abort(r)

Next == \E r \in Requests : Ask(r) \/ Proceed(r)

Spec == Init /\ [][Next]_vars

-----------------------------------------------------------------------------
(* Properties *)

\* The rows keep their types, and an idle request holds nothing.
RatingTypeOK ==
    /\ rating \in [Media -> Statuses \cup {"none"}]
    /\ \A e \in history : e.id \in 1 .. events /\ e.media \in Media /\ e.first \in BOOLEAN
    /\ visible \subseteq Media
    /\ requests \in 0 .. MaxRequests /\ events \in 0 .. MaxEvents
    /\ \A r \in Requests : req[r].pc = "idle" => req[r] = Free

\* However requests race, rating writes log a media's first watch at most once: the
\* row lock a status change takes comes before the existence query
\* (_maybe_log_first_watch).
FirstWatchLoggedOnce ==
    \A m \in Media : Cardinality({e \in history : e.media = m /\ e.first}) <= 1

\* A completed rating has a watch event: wiping the history never races a completion
\* into a rating watched zero times (upsert_rating, delete_rating).
CompletedHasEvent ==
    \A m \in Media : rating[m] = "completed" => \E e \in history : e.media = m

Quiet == \A r \in Requests : req[r].pc = "idle"

\* When no request is in flight the cache is what the ratings say
\* (user_visible_media: "Recomputed per-anime when a user rates or deletes a rating").
CacheMatchesRatings ==
    Quiet => visible = VisibleMedia(Order, Anchors, {m \in Media : rating[m] # "none"})
=============================================================================
