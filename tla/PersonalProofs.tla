---------------------------- MODULE PersonalProofs ----------------------------
(***************************************************************************)
(* What holds of what one user writes, for every anime, number of requests    *)
(* and bound.                                                                 *)
(*                                                                         *)
(* Ratings (RatingWrites), when requests that overlap are single ones that    *)
(* wipe nothing, or requests of every kind follow one another (OneOrBoth): a  *)
(* first watch is logged at most once, a completed rating has an event, and   *)
(* requests that do not overlap leave the cache as the ratings say.  The      *)
(* argument is about row locks.  A request that may log the first watch of a  *)
(* media holds the lock of its rating until it commits (FirstsAreNew), a      *)
(* request without the lock has read a completed rating, which has an event   *)
(* already (ReadCompleted, CompletedHasEvent), and nobody wipes meanwhile.    *)
(*                                                                         *)
(* The watch list (WatchLists), however requests overlap: the limit on lists  *)
(* (ListsCounted), and whose note an entry has (NotesInv).                    *)
(***************************************************************************)
EXTENDS MCPersonal, Counting, FiniteSetTheorems, TLAPS

-----------------------------------------------------------------------------
(* The inductive invariant *)

Active(r) == req[r].pc # "idle"
Watched(m) == \E e \in history : e.media = m

Fields == {"pc", "op", "status", "wipe", "at", "todo", "old", "watched", "stale",
           "locked", "set", "made", "gone", "rated", "doomed", "shown"}
AfterWriting == {"wiping", "reading", "clearing", "waiting", "showing", "committing"}

\* The shapes of the rows and of a request's memory, as far as the proofs look.
Shapes ==
    /\ DOMAIN rating = Media
    /\ DOMAIN req = Requests
    /\ overlapping \in BOOLEAN
    /\ \A r \in Requests :
         /\ DOMAIN req[r] = Fields
         /\ req[r].pc \in AfterWriting \cup {"idle", "counting", "writing", "checking", "logging"}
         /\ req[r].todo \subseteq Media
         /\ ~Active(r) => req[r] = Free

\* Single requests that wipe nothing may overlap ...
OverlapMode(r) ==
    overlapping => req[r].op \notin {"bulk_upsert", "bulk_delete"} /\ ~req[r].wipe

\* ... and every other request runs alone, on ratings and a history that stay as it read
\* them.
AloneMode(r) ==
    ~overlapping =>
        /\ \A q \in Others(r) : ~Active(q)
        /\ req[r].stale = {}
        /\ \A m \in Media : req[r].old[m] # "none" => req[r].old[m] = rating[m]
        /\ req[r].op = "bulk_upsert" /\ req[r].pc # "counting" =>
             req[r].watched = {e.media : e \in history}

\* Two requests never hold the lock of one row.
LocksExclude == \A r \in Requests : \A q \in Others(r) : req[r].locked \cap req[q].locked = {}

\* What a request read of a completed rating is backed by a committed event.
ReadCompleted(r) ==
    /\ \A m \in Media : req[r].old[m] = "completed" => Watched(m)
    /\ req[r].op = "rewatch" => Watched(req[r].at)

\* The media whose first watch is being decided: written under its lock, unless it was
\* completed before.
Deciding(r) ==
    req[r].pc \in {"checking", "logging"} /\ req[r].op # "rewatch" =>
        /\ req[r].op \in {"upsert", "bulk_upsert"} /\ req[r].status = "completed"
        /\ req[r].at \in Media /\ req[r].at \notin req[r].todo
        /\ \A e \in req[r].made : e.media # req[r].at
        /\ req[r].old[req[r].at] = "completed" \/ req[r].at \in req[r].locked
        /\ req[r].pc = "logging" => ~Watched(req[r].at)

\* An uncommitted first watch is the only event of its media, and its row is locked; any
\* other uncommitted event is of a media with history.
FirstsAreNew(r) ==
    /\ \A e \in req[r].made :
         \/ /\ e.first /\ req[r].op \in {"upsert", "bulk_upsert"}
            /\ ~Watched(e.media) /\ e.media \in req[r].locked \ req[r].todo
         \/ ~e.first /\ req[r].op = "rewatch" /\ Watched(e.media)
    /\ \A e, f \in req[r].made : e.first /\ f.first /\ e.media = f.media => e = f

\* A completion that is written has an event, or is just being given one.
SetCompleted(r) ==
    \A m \in DOMAIN req[r].set : req[r].set[m] = "completed" =>
        \/ Watched(m)
        \/ \E e \in req[r].made : e.media = m
        \/ req[r].pc \in {"checking", "logging"} /\ req[r].op # "rewatch" /\ m = req[r].at

\* A history is wiped only with the completion that it backs.
WipesDowngraded(r) ==
    /\ \A e \in req[r].gone : e.media \in ToWipe(r)
    /\ req[r].op = "upsert" => req[r].todo \subseteq {req[r].at}
    /\ req[r].pc \in {"counting", "writing"} /\ req[r].op \in {"delete", "bulk_delete"} =>
         \A m \in Media : req[r].old[m] # "none" => m \in req[r].todo
    /\ req[r].pc \in AfterWriting =>
         \A m \in ToWipe(r) : m \in DOMAIN req[r].set /\ req[r].set[m] # "completed"

RequestInv(r) ==
    /\ OverlapMode(r) /\ AloneMode(r)
    /\ ReadCompleted(r) /\ Deciding(r) /\ FirstsAreNew(r)
    /\ SetCompleted(r) /\ WipesDowngraded(r)

\* First watches, one per media.
FirstsUnique ==
    \A e, f \in history : e.first /\ f.first /\ e.media = f.media => e = f

WatchInv ==
    /\ Shapes /\ LocksExclude
    /\ FirstsUnique /\ CompletedHasEvent
    /\ \A r \in Requests : Active(r) => RequestInv(r)

\* Alone, a request recomputes the cache from the ratings it is about to commit.
FreshCache(r) ==
    /\ req[r].op = "rewatch" =>
         /\ req[r].pc \in {"logging", "committing"}
         /\ DOMAIN req[r].set = {} /\ req[r].doomed = {} /\ req[r].shown = {}
    /\ req[r].op # "rewatch" =>
         /\ req[r].pc \in {"clearing", "waiting", "showing", "committing"} =>
              req[r].rated = {m \in Media : Seen(r)[m] # "none"}
         /\ req[r].pc \in {"waiting", "showing", "committing"} => req[r].doomed = visible
         /\ req[r].pc = "committing" =>
              req[r].shown = VisibleMedia(Order, Anchors, req[r].rated)

CacheInv ==
    ~overlapping =>
        /\ visible = VisibleMedia(Order, Anchors, {m \in Media : rating[m] # "none"})
        /\ \A r \in Requests : Active(r) => FreshCache(r)

-----------------------------------------------------------------------------
(* Steps that write nothing but a request's memory *)

\* What the step of one request has to keep of it.
OwnShape(r) ==
    /\ DOMAIN req[r] = Fields
    /\ req[r].pc \in AfterWriting \cup {"idle", "counting", "writing", "checking", "logging"}
    /\ req[r].todo \subseteq Media
    /\ ~Active(r) => req[r] = Free

LEMMA OneRequestSteps ==
    ASSUME WatchInv, NEW r \in Requests, NEW mem, req' = [req EXCEPT ![r] = mem],
           UNCHANGED <<rating, history, overlapping>>,
           OwnShape(r)', Active(r)' => RequestInv(r)',
           \A q \in Others(r) : req'[r].locked \cap req[q].locked = {},
           Active(r) \/ overlapping \/ \A q \in Requests : ~Active(q)
    PROVE  WatchInv'
  <1>1. \A q \in Requests : q # r => req'[q] = req[q]
    OBVIOUS
  <1>2. Shapes'
    BY <1>1 DEF WatchInv, Shapes, OwnShape, Active
  <1>3. LocksExclude'
    BY <1>1 DEF WatchInv, LocksExclude, Others
  <1>4. FirstsUnique' /\ CompletedHasEvent'
    BY DEF WatchInv, FirstsUnique, CompletedHasEvent
  <1>5. ASSUME NEW q \in Requests, Active(q)', q # r PROVE RequestInv(q)'
    <2>1. req'[q] = req[q] /\ Active(q)
      BY <1>1, <1>5 DEF Active
    <2>2. RequestInv(q)
      BY <2>1 DEF WatchInv
    <2>3. AloneMode(q)'
      <3> SUFFICES ASSUME ~overlapping' PROVE AloneMode(q)'
        BY DEF AloneMode
      <3>1. AloneMode(q) /\ ~overlapping
        BY <2>2 DEF RequestInv
      <3>2. ~Active(r)
        BY <1>5, <3>1 DEF AloneMode, Others
      <3> QED
        BY <2>1, <3>1, <3>2
    <2>4. OverlapMode(q)' /\ ReadCompleted(q)'
      BY <2>1, <2>2 DEF RequestInv, OverlapMode, ReadCompleted, Watched
    <2>5. Deciding(q)' /\ FirstsAreNew(q)'
      BY <2>1, <2>2 DEF RequestInv, Deciding, FirstsAreNew, Watched
    <2>6. SetCompleted(q)'
      BY <2>1, <2>2 DEF RequestInv, SetCompleted, Watched
    <2>7. WipesDowngraded(q)'
      <3>1. ToWipe(q)' = ToWipe(q)
        BY <2>1, Zenon DEF ToWipe
      <3> QED
        BY <2>1, <2>2, <3>1 DEF RequestInv, WipesDowngraded
    <2> QED
      BY <2>3, <2>4, <2>5, <2>6, <2>7 DEF RequestInv
  <1> QED
    BY <1>2, <1>3, <1>4, <1>5 DEF WatchInv

\* What a request is about stays the same from its call to its end.
LEMMA SameCall ==
    ASSUME WatchInv, NEW r \in Requests, Active(r), req[r].pc # "counting",
           UNCHANGED <<rating, history, overlapping>>,
           \A q \in Others(r) : req'[q] = req[q],
           req'[r].op = req[r].op, req'[r].wipe = req[r].wipe, req'[r].old = req[r].old,
           req'[r].stale = req[r].stale, req'[r].watched = req[r].watched,
           req[r].op = "rewatch" => req'[r].at = req[r].at
    PROVE  OverlapMode(r)' /\ AloneMode(r)' /\ ReadCompleted(r)'
  <1>1. OverlapMode(r) /\ AloneMode(r) /\ ReadCompleted(r)
    BY DEF WatchInv, RequestInv
  <1>2. OverlapMode(r)'
    BY <1>1 DEF OverlapMode
  <1>3. AloneMode(r)'
    BY <1>1 DEF AloneMode, Active, Others
  <1>4. ReadCompleted(r)'
    BY <1>1 DEF ReadCompleted, Watched
  <1> QED
    BY <1>2, <1>3, <1>4

LEMMA ToWipeIs ==
    ASSUME NEW r
    PROVE  /\ req[r].op = "upsert" =>
                ToWipe(r) \subseteq {m \in {req[r].at} : /\ req[r].wipe
                                                       /\ req[r].old[m] = "completed"
                                                       /\ req[r].status # "completed"}
           /\ req[r].op \in {"delete", "bulk_delete"} =>
                ToWipe(r) \subseteq {m \in Media : req[r].wipe /\ req[r].old[m] # "none"}
           /\ req[r].op \notin {"upsert", "delete", "bulk_delete"} => ToWipe(r) = {}
  BY DEF ToWipe

\* Which history is wiped depends on the call alone.
LEMMA ToWipeKept ==
    ASSUME NEW r, req'[r].op = req[r].op, req'[r].wipe = req[r].wipe, req'[r].old = req[r].old,
           req'[r].status = req[r].status, req[r].op = "upsert" => req'[r].at = req[r].at
    PROVE  ToWipe(r)' = ToWipe(r)
  <1>1. CASE req[r].op = "upsert"
    BY <1>1 DEF ToWipe
  <1>2. CASE req[r].op # "upsert"
    BY <1>2 DEF ToWipe
  <1> QED
    BY <1>1, <1>2

\* After the writes: the wipe, and the cache.
LEMMA LateSteps ==
    ASSUME WatchInv, UNCHANGED overlapping, NEW r \in Requests,
           WipeHistory(r) \/ ReadRated(r) \/ ClearStarts(r) \/ Cleared(r) \/ Show(r)
    PROVE  WatchInv'
  <1> USE DEF AfterWriting
  <1>1. DOMAIN req = Requests /\ DOMAIN req[r] = Fields /\ req[r].todo \subseteq Media
    BY DEF WatchInv, Shapes
  <1>2. /\ req' = [req EXCEPT ![r] = req'[r]] /\ DOMAIN req'[r] = Fields
        /\ req[r].pc \in AfterWriting /\ req'[r].pc \in AfterWriting
        /\ req'[r].op = req[r].op /\ req'[r].wipe = req[r].wipe
        /\ req'[r].status = req[r].status /\ req'[r].old = req[r].old
        /\ req'[r].at = req[r].at /\ req'[r].todo = req[r].todo
        /\ req'[r].stale = req[r].stale /\ req'[r].watched = req[r].watched
        /\ req'[r].locked = req[r].locked /\ req'[r].set = req[r].set
        /\ req'[r].made = req[r].made
        /\ \A e \in req'[r].gone : e \in req[r].gone \/ e.media \in ToWipe(r)
    BY <1>1 DEF Fields, WipeHistory, ReadRated, ClearStarts, Cleared, Show
  <1>3. UNCHANGED <<rating, history>>
    BY DEF WipeHistory, ReadRated, ClearStarts, Cleared, Show
  <1>4. Active(r) /\ RequestInv(r) /\ OwnShape(r)'
    BY <1>1, <1>2 DEF Active, OwnShape, WatchInv
  <1>5. OverlapMode(r)' /\ AloneMode(r)' /\ ReadCompleted(r)'
    <2>1. \A q \in Others(r) : req'[q] = req[q]
      BY <1>1, <1>2 DEF Others
    <2>2. req[r].pc # "counting" /\ UNCHANGED <<rating, history, overlapping>>
      BY <1>2, <1>3
    <2> QED
      BY <1>2, <1>4, <2>1, <2>2, SameCall
  <1>6. Deciding(r)' /\ FirstsAreNew(r)' /\ SetCompleted(r)'
    BY <1>2, <1>3, <1>4 DEF RequestInv, Deciding, FirstsAreNew, SetCompleted, Watched
  <1>7. WipesDowngraded(r)'
    BY <1>2, <1>4, ToWipeKept DEF RequestInv, WipesDowngraded
  <1> QED
    BY <1>2, <1>3, <1>4, <1>5, <1>6, <1>7, OneRequestSteps
    DEF RequestInv, WatchInv, LocksExclude

\* The write of one media m, under its lock unless it changes nothing.
LEMMA WroteStep ==
    ASSUME WatchInv, UNCHANGED overlapping, NEW r \in Requests, NEW m \in req[r].todo,
           NEW locks, NEW sets,
           req[r].pc = "writing", req[r].op \in {"upsert", "bulk_upsert"},
           Wrote(r, m, locks, sets), locks \subseteq {m}, DOMAIN sets \subseteq {m},
           \A q \in Others(r) : req[q].locked \cap locks = {},
           \A x \in DOMAIN sets : sets[x] = req[r].status,
           req[r].status = "completed" => req[r].old[m] = "completed" \/ m \in locks,
           req[r].status # "completed" /\ req[r].old[m] = "completed" => m \in DOMAIN sets
    PROVE  WatchInv'
  <1> USE DEF AfterWriting
  <1>1. DOMAIN req = Requests /\ DOMAIN req[r] = Fields /\ req[r].todo \subseteq Media
    BY DEF WatchInv, Shapes
  <1>2. /\ req' = [req EXCEPT ![r] = req'[r]] /\ DOMAIN req'[r] = Fields
        /\ req'[r].pc \in {"checking", "wiping", "reading"}
        /\ req'[r].pc = "checking" <=> req[r].status = "completed"
        /\ req'[r].op = req[r].op /\ req'[r].wipe = req[r].wipe
        /\ req'[r].status = req[r].status /\ req'[r].old = req[r].old
        /\ req'[r].at = m /\ req'[r].todo = req[r].todo \ {m}
        /\ req'[r].stale = req[r].stale /\ req'[r].watched = req[r].watched
        /\ req'[r].locked = req[r].locked \cup locks /\ req'[r].set = Over(sets, req[r].set)
        /\ req'[r].made = req[r].made /\ req'[r].gone = req[r].gone
    BY <1>1 DEF Fields, Wrote
  <1>3. UNCHANGED <<rating, history>>
    BY DEF Wrote
  <1>4. Active(r) /\ RequestInv(r) /\ OwnShape(r)'
    BY <1>1, <1>2 DEF Active, OwnShape, WatchInv
  <1>5. OverlapMode(r)' /\ AloneMode(r)' /\ ReadCompleted(r)'
    <2>1. \A q \in Others(r) : req'[q] = req[q]
      BY <1>1, <1>2 DEF Others
    <2>2. req[r].pc # "counting" /\ UNCHANGED <<rating, history, overlapping>>
      BY <1>2, <1>3
    <2> QED
      BY <1>2, <1>4, <2>1, <2>2, SameCall
  <1>6. \A x : /\ x \in DOMAIN req'[r].set => x = m \/ x \in DOMAIN req[r].set
               /\ x \in DOMAIN sets => req'[r].set[x] = req[r].status
               /\ x \in DOMAIN req'[r].set /\ x \notin DOMAIN sets => req'[r].set[x] = req[r].set[x]
               /\ x \in DOMAIN sets => x \in DOMAIN req'[r].set
    BY <1>2 DEF Over
  <1>7. \A e \in req[r].made : e.media # m
    BY <1>4 DEF RequestInv, FirstsAreNew
  <1>8. Deciding(r)'
    BY <1>1, <1>2, <1>7 DEF Deciding
  <1>9. FirstsAreNew(r)'
    BY <1>2, <1>3, <1>4 DEF RequestInv, FirstsAreNew, Watched
  <1>10. SetCompleted(r)'
    <2> SUFFICES ASSUME NEW x \in DOMAIN req'[r].set, req'[r].set[x] = "completed"
                 PROVE  \/ Watched(x)
                        \/ \E e \in req[r].made : e.media = x
                        \/ req'[r].pc = "checking" /\ x = m
      BY <1>2, <1>3 DEF SetCompleted, Watched
    <2>1. CASE x \in DOMAIN sets
      BY <1>2, <1>6, <2>1
    <2>2. CASE x \notin DOMAIN sets
      <3>1. x \in DOMAIN req[r].set /\ req[r].set[x] = "completed"
        BY <1>2, <2>2 DEF Over
      <3> QED
        BY <1>4, <3>1 DEF RequestInv, SetCompleted
    <2> QED
      BY <2>1, <2>2
  <1>11. WipesDowngraded(r)'
    <2>1. req[r].op = "upsert" => req[r].at = m
      BY <1>4 DEF RequestInv, WipesDowngraded
    <2>2. ToWipe(r)' = ToWipe(r)
      BY <1>2, <2>1, ToWipeKept
    <2>3. \A x \in ToWipe(r) : x = m /\ req[r].old[m] = "completed" /\ req[r].status # "completed"
      BY <2>1, ToWipeIs
    <2>4. \A x \in ToWipe(r) : x \in DOMAIN req'[r].set /\ req'[r].set[x] # "completed"
      BY <1>6, <2>3
    <2> QED
      BY <1>2, <1>4, <2>1, <2>2, <2>4 DEF RequestInv, WipesDowngraded
  <1>12. \A q \in Others(r) : req'[r].locked \cap req[q].locked = {}
    BY <1>2 DEF WatchInv, LocksExclude
  <1> QED
    BY <1>2, <1>3, <1>4, <1>5, <1>8, <1>9, <1>10, <1>11, <1>12, OneRequestSteps DEF RequestInv

LEMMA RateSteps ==
    ASSUME WatchInv, UNCHANGED overlapping, NEW r \in Requests, NEW m \in Media,
           InsertRating(r, m) \/ UpdateRating(r, m) \/ KeepRating(r, m)
    PROVE  WatchInv'
  <1>1. \A x : x \notin DOMAIN <<>>
    OBVIOUS
  <1>2. CASE InsertRating(r, m)
    <2> DEFINE sets == [x \in {m} |-> req[r].status]
    <2>1. /\ req[r].pc = "writing" /\ req[r].op \in {"upsert", "bulk_upsert"} /\ m \in req[r].todo
          /\ Wrote(r, m, {m}, sets) /\ req[r].old[m] = "none"
      BY <1>2 DEF InsertRating
    <2>2. \A q \in Others(r) : req[q].locked \cap {m} = {}
      BY <1>2 DEF InsertRating, LockFree
    <2> QED
      BY <2>1, <2>2, WroteStep
  <1>3. CASE UpdateRating(r, m)
    <2> DEFINE sets == IF req[r].status = req[r].old[m] THEN <<>> ELSE [x \in {m} |-> req[r].status]
    <2>1. /\ req[r].pc = "writing" /\ req[r].op \in {"upsert", "bulk_upsert"} /\ m \in req[r].todo
          /\ Wrote(r, m, {m}, sets)
      BY <1>3 DEF UpdateRating
    <2>2. \A q \in Others(r) : req[q].locked \cap {m} = {}
      BY <1>3 DEF UpdateRating, LockFree
    <2>3. /\ DOMAIN sets \subseteq {m} /\ \A x \in DOMAIN sets : sets[x] = req[r].status
          /\ req[r].status # "completed" /\ req[r].old[m] = "completed" => m \in DOMAIN sets
      BY <1>1
    <2> HIDE DEF sets
    <2> QED
      BY <2>1, <2>2, <2>3, WroteStep
  <1>4. CASE KeepRating(r, m)
    <2>1. /\ req[r].pc = "writing" /\ req[r].op \in {"upsert", "bulk_upsert"} /\ m \in req[r].todo
          /\ Wrote(r, m, {}, <<>>) /\ req[r].old[m] = req[r].status
      BY <1>4 DEF KeepRating
    <2> QED
      BY <1>1, <2>1, WroteStep
  <1> QED
    BY <1>2, <1>3, <1>4

LEMMA CountStep ==
    ASSUME WatchInv, UNCHANGED overlapping, NEW r \in Requests, CountEvents(r)
    PROVE  WatchInv'
  <1>1. DOMAIN req = Requests /\ DOMAIN req[r] = Fields /\ req[r].todo \subseteq Media
    BY DEF WatchInv, Shapes
  <1>2. /\ req' = [req EXCEPT ![r] = req'[r]] /\ DOMAIN req'[r] = Fields
        /\ req[r].pc = "counting" /\ req'[r].pc = "writing"
        /\ req'[r].op = req[r].op /\ req'[r].wipe = req[r].wipe
        /\ req'[r].status = req[r].status /\ req'[r].old = req[r].old
        /\ req'[r].at = req[r].at /\ req'[r].todo = req[r].todo
        /\ req'[r].stale = req[r].stale /\ req'[r].watched = {e.media : e \in history}
        /\ req'[r].locked = req[r].locked /\ req'[r].set = req[r].set
        /\ req'[r].made = req[r].made /\ req'[r].gone = req[r].gone
    BY <1>1 DEF Fields, CountEvents
  <1>3. UNCHANGED <<rating, history>>
    BY DEF CountEvents
  <1>4. Active(r) /\ RequestInv(r) /\ OwnShape(r)'
    BY <1>1, <1>2 DEF Active, OwnShape, WatchInv
  <1>5. OverlapMode(r)' /\ ReadCompleted(r)'
    BY <1>2, <1>3, <1>4 DEF RequestInv, OverlapMode, ReadCompleted, Watched
  <1>6. AloneMode(r)'
    BY <1>1, <1>2, <1>3, <1>4 DEF RequestInv, AloneMode, Others, Active
  <1>7. Deciding(r)' /\ FirstsAreNew(r)' /\ SetCompleted(r)'
    BY <1>2, <1>3, <1>4 DEF RequestInv, Deciding, FirstsAreNew, SetCompleted, Watched
  <1>8. WipesDowngraded(r)'
    BY <1>2, <1>4, ToWipeKept DEF RequestInv, WipesDowngraded, AfterWriting
  <1> QED
    BY <1>2, <1>3, <1>4, <1>5, <1>6, <1>7, <1>8, OneRequestSteps
    DEF RequestInv, WatchInv, LocksExclude

\* The existence query tells the truth: the bulk read is made alone, and the single one
\* while the row is locked or when an event is there for good.
LEMMA HasEventsIs ==
    ASSUME WatchInv, NEW r \in Requests, req[r].pc = "checking"
    PROVE  HasEvents(r, req[r].at) <=> Watched(req[r].at)
  <1>1. RequestInv(r)
    BY DEF WatchInv, Active
  <1> QED
    BY <1>1 DEF RequestInv, OverlapMode, AloneMode, HasEvents, Watched

\* What a request logs: the event of the media at hand, a rewatch or a first watch.
EventOf(r, event) == event.media = req[r].at /\ (event.first <=> req[r].op # "rewatch")

\* A first-watch check, or the event it asks for, is over: the next media, or the end.
LEMMA Decided ==
    ASSUME WatchInv, UNCHANGED overlapping, NEW r \in Requests,
           CheckFirstWatch(r) \/ LogEvent(r)
    PROVE  WatchInv'
  <1> USE DEF AfterWriting
  <1>1. DOMAIN req = Requests /\ DOMAIN req[r] = Fields /\ req[r].todo \subseteq Media
    BY DEF WatchInv, Shapes
  <1>2. /\ req' = [req EXCEPT ![r] = req'[r]] /\ DOMAIN req'[r] = Fields
        /\ req[r].pc \in {"checking", "logging"}
        /\ req'[r].op = req[r].op /\ req'[r].wipe = req[r].wipe
        /\ req'[r].status = req[r].status /\ req'[r].old = req[r].old
        /\ req'[r].at = req[r].at /\ req'[r].todo = req[r].todo
        /\ req'[r].stale = req[r].stale /\ req'[r].watched = req[r].watched
        /\ req'[r].locked = req[r].locked /\ req'[r].set = req[r].set
        /\ req'[r].gone = req[r].gone
    BY <1>1 DEF Fields, CheckFirstWatch, LogEvent
  <1>3. UNCHANGED <<rating, history>>
    BY DEF CheckFirstWatch, LogEvent
  <1>4. Following(r) \in {"writing", "wiping", "reading"} /\ (Following(r) = "writing" => req[r].todo # {})
    BY DEF Following
  <1>5. \/ /\ req[r].pc = "checking" /\ Watched(req[r].at)
           /\ req'[r].pc = Following(r) /\ req'[r].made = req[r].made
        \/ /\ req[r].pc = "checking" /\ ~Watched(req[r].at)
           /\ req'[r].pc = "logging" /\ req'[r].made = req[r].made
        \/ /\ req[r].pc = "logging"
           /\ req'[r].pc = IF req[r].op = "rewatch" THEN "committing" ELSE Following(r)
           /\ \E event : req'[r].made = req[r].made \cup {event} /\ EventOf(r, event)
    <2>1. CASE CheckFirstWatch(r)
      BY <1>1, <2>1, HasEventsIs DEF Fields, CheckFirstWatch
    <2>2. CASE LogEvent(r)
      <3> DEFINE event == [id |-> events + 1, media |-> req[r].at, first |-> req[r].op # "rewatch"]
      <3>1. /\ req[r].pc = "logging"
            /\ req'[r].pc = IF req[r].op = "rewatch" THEN "committing" ELSE Following(r)
            /\ req'[r].made = req[r].made \cup {event}
        BY <1>1, <2>2 DEF Fields, LogEvent
      <3>2. EventOf(r, event)
        BY Zenon DEF EventOf
      <3> HIDE DEF event
      <3> QED
        BY <3>1, <3>2
    <2> QED
      BY <2>1, <2>2
  <1>6. Active(r) /\ RequestInv(r) /\ OwnShape(r)'
    BY <1>1, <1>2, <1>4, <1>5 DEF Active, OwnShape, WatchInv
  <1>7. OverlapMode(r)' /\ AloneMode(r)' /\ ReadCompleted(r)'
    <2>1. \A q \in Others(r) : req'[q] = req[q]
      BY <1>1, <1>2 DEF Others
    <2>2. req[r].pc # "counting" /\ UNCHANGED <<rating, history, overlapping>>
      BY <1>2, <1>3
    <2> QED
      BY <1>2, <1>6, <2>1, <2>2, SameCall
  <1>8. Deciding(r)'
    BY <1>2, <1>3, <1>4, <1>5, <1>6 DEF RequestInv, Deciding, Watched
  <1>9. FirstsAreNew(r)'
    <2>1. \A x : Watched(x)' <=> Watched(x)
      BY <1>3 DEF Watched
    <2>2. CASE req'[r].made = req[r].made
      BY <1>2, <1>6, <2>1, <2>2 DEF RequestInv, FirstsAreNew
    <2>3. CASE req[r].pc = "logging"
      <3>1. PICK event : req'[r].made = req[r].made \cup {event} /\ EventOf(r, event)
        BY <1>5, <2>3
      <3>2. CASE req[r].op = "rewatch"
        BY <1>2, <1>6, <2>1, <3>1, <3>2 DEF EventOf, RequestInv, FirstsAreNew, ReadCompleted
      <3>3. CASE req[r].op # "rewatch"
        <4>1. /\ ~Watched(req[r].at) /\ req[r].at \in req[r].locked \ req[r].todo
              /\ req[r].op \in {"upsert", "bulk_upsert"}
              /\ \A e \in req[r].made : e.media # req[r].at
          BY <1>6, <2>3, <3>3 DEF RequestInv, Deciding, ReadCompleted
        <4> QED
          BY <1>2, <1>6, <2>1, <3>1, <3>3, <4>1 DEF EventOf, RequestInv, FirstsAreNew
      <3> QED
        BY <3>2, <3>3
    <2> QED
      BY <1>5, <2>2, <2>3
  <1>10. SetCompleted(r)'
    <2>1. \A e \in req[r].made : e \in req'[r].made
      BY <1>5
    <2>2. \/ Watched(req[r].at) \/ \E e \in req'[r].made : e.media = req[r].at
          \/ req'[r].pc = "logging"
      BY <1>5 DEF EventOf
    <2> QED
      BY <1>2, <1>3, <1>6, <2>1, <2>2 DEF RequestInv, SetCompleted, Watched
  <1>11. WipesDowngraded(r)'
    <2>1. ToWipe(r)' = ToWipe(r)
      BY <1>2, ToWipeKept
    <2>2. ToWipe(r) = {}
      BY <1>2, <1>6, ToWipeIs DEF RequestInv, Deciding
    <2>3. req[r].op \notin {"delete", "bulk_delete"}
      BY <1>2, <1>6 DEF RequestInv, Deciding
    <2> QED
      BY <1>2, <1>6, <2>1, <2>2, <2>3 DEF RequestInv, WipesDowngraded
  <1> QED
    BY <1>2, <1>3, <1>6, <1>7, <1>8, <1>9, <1>10, <1>11, OneRequestSteps
    DEF RequestInv, WatchInv, LocksExclude

LEMMA DeleteStep ==
    ASSUME WatchInv, UNCHANGED overlapping, NEW r \in Requests, DeleteRatings(r)
    PROVE  WatchInv'
  <1> DEFINE gone == {m \in req[r].todo : /\ rating[m] # "none"
                                          /\ req[r].op = "delete" => m \notin req[r].stale}
  <1>1. DOMAIN req = Requests /\ DOMAIN req[r] = Fields /\ req[r].todo \subseteq Media
    BY DEF WatchInv, Shapes
  <1>2. /\ req' = [req EXCEPT ![r] = req'[r]] /\ DOMAIN req'[r] = Fields
        /\ req[r].pc = "writing" /\ req'[r].pc \in {"wiping", "reading"}
        /\ req[r].op \in {"delete", "bulk_delete"}
        /\ req'[r].op = req[r].op /\ req'[r].wipe = req[r].wipe
        /\ req'[r].status = req[r].status /\ req'[r].old = req[r].old
        /\ req'[r].at = req[r].at /\ req'[r].todo = {}
        /\ req'[r].stale = req[r].stale /\ req'[r].watched = req[r].watched
        /\ req'[r].locked = gone /\ req'[r].set = [m \in gone |-> "none"]
        /\ req'[r].made = req[r].made /\ req'[r].gone = req[r].gone
    BY <1>1 DEF Fields, DeleteRatings
  <1>3. UNCHANGED <<rating, history>>
    BY DEF DeleteRatings
  <1>4. Active(r) /\ RequestInv(r) /\ OwnShape(r)'
    BY <1>1, <1>2 DEF Active, OwnShape, WatchInv, AfterWriting
  <1>5. OverlapMode(r)' /\ AloneMode(r)' /\ ReadCompleted(r)'
    <2>1. \A q \in Others(r) : req'[q] = req[q]
      BY <1>1, <1>2 DEF Others
    <2>2. req[r].pc # "counting" /\ UNCHANGED <<rating, history, overlapping>>
      BY <1>2, <1>3
    <2> QED
      BY <1>2, <1>4, <2>1, <2>2, SameCall
  <1>6. Deciding(r)' /\ SetCompleted(r)'
    BY <1>2 DEF Deciding, SetCompleted
  <1>7. FirstsAreNew(r)'
    BY <1>2, <1>4 DEF RequestInv, FirstsAreNew
  <1>8. WipesDowngraded(r)'
    <2>1. ToWipe(r)' = ToWipe(r)
      BY <1>2, ToWipeKept
    <2>2. ASSUME NEW m \in ToWipe(r) PROVE m \in gone
      <3>1. m \in Media /\ req[r].wipe /\ req[r].old[m] # "none"
        BY <1>2, ToWipeIs
      <3>2. ~overlapping
        BY <1>4, <3>1 DEF RequestInv, OverlapMode, WatchInv, Shapes
      <3>3. req[r].stale = {} /\ rating[m] # "none"
        BY <1>4, <3>1, <3>2 DEF RequestInv, AloneMode
      <3>4. m \in req[r].todo
        BY <1>2, <1>4, <3>1 DEF RequestInv, WipesDowngraded
      <3> QED
        BY <3>3, <3>4
    <2>3. \A m \in ToWipe(r) : m \in DOMAIN req'[r].set /\ req'[r].set[m] = "none"
      BY <1>2, <2>2
    <2> HIDE DEF gone
    <2> QED
      BY <1>2, <1>4, <2>1, <2>3 DEF RequestInv, WipesDowngraded
  <1>9. \A q \in Others(r) : req'[r].locked \cap req[q].locked = {}
    BY <1>2 DEF DeleteRatings, LockFree
  <1> HIDE DEF gone
  <1> QED
    BY <1>2, <1>3, <1>4, <1>5, <1>6, <1>7, <1>8, <1>9, OneRequestSteps DEF RequestInv

LEMMA AbortStep ==
    ASSUME WatchInv, UNCHANGED overlapping, NEW r \in Requests, Abort(r)
    PROVE  WatchInv'
  <1>1. DOMAIN req = Requests
    BY DEF WatchInv, Shapes
  <1>2. req' = [req EXCEPT ![r] = Free] /\ req'[r] = Free /\ Active(r)
    BY <1>1 DEF Abort, Active
  <1>3. OwnShape(r)' /\ ~Active(r)'
    BY <1>2 DEF OwnShape, Active, Free, Fields
  <1>4. \A q \in Others(r) : req'[r].locked \cap req[q].locked = {}
    BY <1>2 DEF Free
  <1> QED
    BY <1>2, <1>3, <1>4, OneRequestSteps DEF Abort

LEMMA BeginStep ==
    ASSUME WatchInv, UNCHANGED overlapping, NEW r \in Requests,
           NEW op \in AllOperations, NEW ms \in SUBSET Media,
           NEW status \in Statuses \cup {"none"}, NEW wipe, Begin(r, op, ms, status, wipe),
           overlapping => op \notin {"bulk_upsert", "bulk_delete"} /\ ~wipe,
           ~overlapping => \A q \in Requests : req[q].pc = "idle"
    PROVE  WatchInv'
  <1>1. DOMAIN req = Requests
    BY DEF WatchInv, Shapes
  <1>2. /\ req' = [req EXCEPT ![r] = req'[r]] /\ DOMAIN req'[r] = Fields
        /\ req'[r].op = op /\ req'[r].wipe = wipe /\ req'[r].status = status
        /\ req'[r].todo = ms /\ req'[r].stale = {} /\ req'[r].locked = {}
        /\ req'[r].set = <<>> /\ req'[r].made = {} /\ req'[r].gone = {}
        /\ req'[r].old = [m \in Media |-> IF m \in ms THEN rating[m] ELSE "none"]
    BY <1>1 DEF Begin, Free, Fields
  <1>3. ms # {} => req'[r].at \in ms
    BY <1>1 DEF Begin, Free
  <1>4. /\ req'[r].pc \in {"counting", "logging", "reading", "writing"}
        /\ req'[r].pc = "logging" => op = "rewatch"
        /\ req'[r].pc = "reading" => op = "refresh"
        /\ op = "bulk_upsert" => req'[r].pc = "counting"
    BY <1>1 DEF Begin, Free
  <1>5. /\ UNCHANGED <<rating, history>> /\ req[r].pc = "idle"
        /\ op \in {"upsert", "rewatch"} => \E m \in Media : ms = {m}
        /\ op = "rewatch" => \A m \in ms : rating[m] = "completed"
    BY DEF Begin
  <1>6. OwnShape(r)'
    BY <1>2, <1>4 DEF OwnShape, Active, AfterWriting
  <1>7. OverlapMode(r)'
    BY <1>2 DEF OverlapMode
  <1>8. AloneMode(r)'
    <2> SUFFICES ASSUME ~overlapping PROVE AloneMode(r)'
      BY DEF AloneMode
    <2>1. \A q \in Others(r) : ~Active(q)'
      BY <1>1, <1>2 DEF Others, Active
    <2> QED
      BY <1>2, <1>4, <1>5, <2>1 DEF AloneMode
  <1>9. ReadCompleted(r)'
    <2>1. \A m \in Media : rating[m] = "completed" => Watched(m)
      BY DEF WatchInv, CompletedHasEvent, Watched
    <2>2. \A m : Watched(m)' <=> Watched(m)
      BY <1>5 DEF Watched
    <2>3. op = "rewatch" => req'[r].at \in Media /\ rating[req'[r].at] = "completed"
      BY <1>3, <1>5
    <2> QED
      BY <1>2, <2>1, <2>2, <2>3 DEF ReadCompleted
  <1>10. Deciding(r)' /\ FirstsAreNew(r)' /\ SetCompleted(r)'
    BY <1>2, <1>4 DEF Deciding, FirstsAreNew, SetCompleted
  <1>11. WipesDowngraded(r)'
    <2>1. req'[r].pc \in AfterWriting => ToWipe(r)' = {}
      BY <1>2, <1>4 DEF AfterWriting, ToWipe
    <2>2. op = "upsert" => ms \subseteq {req'[r].at}
      BY <1>3, <1>5
    <2>3. \A m \in Media : req'[r].old[m] # "none" => m \in ms
      BY <1>2
    <2> QED
      BY <1>2, <2>1, <2>2, <2>3 DEF WipesDowngraded
  <1> QED
    BY <1>2, <1>5, <1>6, <1>7, <1>8, <1>9, <1>10, <1>11, OneRequestSteps
    DEF RequestInv, Active

-----------------------------------------------------------------------------
(* The commit *)

\* Nobody else is in flight when a history is wiped.
LEMMA WipesAlone ==
    ASSUME WatchInv, NEW r \in Requests, Active(r), NEW q \in Others(r), Active(q)
    PROVE  overlapping /\ req[r].gone = {}
  <1>1. RequestInv(r)
    BY DEF WatchInv
  <1>2. overlapping
    BY <1>1 DEF RequestInv, AloneMode
  <1>3. ~req[r].wipe
    BY <1>1, <1>2 DEF RequestInv, OverlapMode
  <1>4. ToWipe(r) = {}
    BY <1>3, ToWipeIs
  <1> QED
    BY <1>1, <1>2, <1>4 DEF RequestInv, WipesDowngraded

\* A media whose lock another request holds gets no first event by a commit.
LEMMA LockedStaysNew ==
    ASSUME WatchInv, NEW r \in Requests, Active(r), NEW q \in Others(r), NEW m \in req[q].locked,
           ~Watched(m), history' = (history \ req[r].gone) \cup req[r].made
    PROVE  ~Watched(m)'
  <1>1. FirstsAreNew(r) /\ req[r].locked \cap req[q].locked = {}
    BY DEF WatchInv, RequestInv, LocksExclude
  <1>2. \A e \in req[r].made : e.media # m
    BY <1>1 DEF FirstsAreNew
  <1> QED
    BY <1>2 DEF Watched

LEMMA CommitStep ==
    ASSUME WatchInv, UNCHANGED overlapping, NEW r \in Requests, Commit(r)
    PROVE  WatchInv'
  <1>1. Active(r) /\ RequestInv(r)
    BY DEF Commit, Active, WatchInv
  <1>2. /\ rating' = Seen(r)
        /\ history' = (history \ req[r].gone) \cup req[r].made
        /\ DOMAIN req' = Requests /\ req'[r] = Free /\ ~Active(r)'
    BY DEF Commit, Active, Free
  <1>3. ASSUME NEW q \in Others(r)
        PROVE  /\ ~Active(q) => req'[q] = req[q]
               /\ Active(q)' <=> Active(q)
               /\ Active(q) =>
                    /\ DOMAIN req'[q] = Fields
                    /\ req'[q].pc = req[q].pc
                    /\ req'[q].op = req[q].op /\ req'[q].wipe = req[q].wipe
                    /\ req'[q].status = req[q].status /\ req'[q].old = req[q].old
                    /\ req'[q].at = req[q].at /\ req'[q].todo = req[q].todo
                    /\ req'[q].watched = req[q].watched /\ req'[q].gone = req[q].gone
                    /\ req'[q].made = req[q].made /\ req'[q].set = req[q].set
               /\ req'[q].locked = req[q].locked
    BY DEF Commit, Active, Others, WatchInv, Shapes, Fields
  <1>4. Shapes'
    <2>1. DOMAIN rating' = Media
      BY <1>2 DEF Seen
    <2>2. \A q \in Requests : q = r \/ q \in Others(r)
      BY DEF Others
    <2>3. ASSUME NEW q \in Requests PROVE OwnShape(q)'
      <3>1. CASE q = r
        BY <1>2, <3>1 DEF OwnShape, Free, Fields, Active
      <3>2. CASE q \in Others(r) /\ Active(q)
        BY <1>3, <3>2 DEF OwnShape, WatchInv, Shapes
      <3>3. CASE q \in Others(r) /\ ~Active(q)
        BY <1>3, <3>3 DEF OwnShape, WatchInv, Shapes
      <3> QED
        BY <2>2, <3>1, <3>2, <3>3
    <2> QED
      BY <1>2, <2>1, <2>3 DEF Shapes, OwnShape, WatchInv
  <1>5. LocksExclude'
    BY <1>2, <1>3 DEF WatchInv, LocksExclude, Others, Free
  <1>6. FirstsUnique'
    <2>1. \A e \in req[r].made, f \in history : e.first => e.media # f.media
      BY <1>1 DEF RequestInv, FirstsAreNew, Watched
    <2> QED
      BY <1>1, <1>2, <2>1 DEF WatchInv, FirstsUnique, RequestInv, FirstsAreNew
  <1>7. CompletedHasEvent'
    <2> SUFFICES ASSUME NEW m \in Media, Seen(r)[m] = "completed"
                 PROVE  \E e \in history' : e.media = m
      BY <1>2 DEF CompletedHasEvent
    <2>1. Watched(m) \/ \E e \in req[r].made : e.media = m
      <3>1. CASE m \in DOMAIN req[r].set
        BY <1>1, <3>1 DEF Seen, RequestInv, SetCompleted, Commit
      <3>2. CASE m \notin DOMAIN req[r].set
        BY <3>2 DEF Seen, WatchInv, CompletedHasEvent, Watched
      <3> QED
        BY <3>1, <3>2
    <2>2. m \notin ToWipe(r)
      BY <1>1 DEF Seen, RequestInv, WipesDowngraded, Commit, AfterWriting
    <2>3. \A e \in history : e.media = m => e \in history'
      BY <1>1, <1>2, <2>2 DEF RequestInv, WipesDowngraded
    <2> QED
      BY <1>2, <2>1, <2>3 DEF Watched
  <1>8. ASSUME NEW q \in Requests, Active(q)' PROVE RequestInv(q)'
    <2>1. q \in Others(r) /\ Active(q) /\ RequestInv(q)
      BY <1>2, <1>3, <1>8 DEF Others, WatchInv
    <2>2. overlapping /\ overlapping' /\ \A x : Watched(x) => Watched(x)'
      BY <1>1, <1>2, <2>1, WipesAlone DEF Watched, WatchInv, Shapes
    <2>3. OverlapMode(q)' /\ AloneMode(q)'
      BY <1>3, <2>1, <2>2 DEF RequestInv, OverlapMode, AloneMode
    <2>4. ReadCompleted(q)' /\ SetCompleted(q)'
      BY <1>3, <2>1, <2>2 DEF RequestInv, ReadCompleted, SetCompleted
    <2>5. ASSUME NEW x \in req[q].locked, ~Watched(x) PROVE ~Watched(x)'
      BY <1>1, <1>2, <2>1, <2>5, LockedStaysNew
    <2>6. Deciding(q)'
      <3>1. Deciding(q) /\ ReadCompleted(q)
        BY <2>1 DEF RequestInv
      <3> QED
        BY <1>3, <2>1, <2>5, <3>1 DEF Deciding, ReadCompleted
    <2>7. FirstsAreNew(q)'
      <3>1. FirstsAreNew(q)
        BY <2>1 DEF RequestInv
      <3> QED
        BY <1>3, <2>1, <2>2, <2>5, <3>1 DEF FirstsAreNew
    <2>8. WipesDowngraded(q)'
      <3>1. ToWipe(q)' = ToWipe(q)
        BY <1>3, <2>1, ToWipeKept
      <3>2. WipesDowngraded(q)
        BY <2>1 DEF RequestInv
      <3> QED
        BY <1>3, <2>1, <3>1, <3>2 DEF WipesDowngraded
    <2> QED
      BY <2>3, <2>4, <2>6, <2>7, <2>8 DEF RequestInv
  <1> QED
    BY <1>4, <1>5, <1>6, <1>7, <1>8 DEF WatchInv

-----------------------------------------------------------------------------
(* First watches and completions *)

LEMMA WatchInit == MCInit => WatchInv
  <1> SUFFICES ASSUME MCInit PROVE WatchInv
    OBVIOUS
  <1>1. /\ rating = [m \in Media |-> "none"] /\ history = {}
        /\ req = [r \in Requests |-> Free] /\ overlapping \in BOOLEAN
    BY DEF MCInit, Init
  <1>2. \A r \in Requests : req[r] = Free /\ ~Active(r)
    BY <1>1 DEF Active, Free
  <1>3. DOMAIN Free = Fields /\ Free.pc = "idle" /\ Free.todo = {} /\ Free.locked = {}
    BY DEF Free, Fields
  <1>4. Shapes /\ LocksExclude
    BY <1>1, <1>2, <1>3 DEF Shapes, LocksExclude
  <1>5. FirstsUnique /\ CompletedHasEvent
    BY <1>1 DEF FirstsUnique, CompletedHasEvent
  <1> QED
    BY <1>2, <1>4, <1>5 DEF WatchInv

\* The call of a request keeps what BeginStep asks for, in both ways of calling.
LEMMA ReadyStep ==
    ASSUME WatchInv, UNCHANGED overlapping, NEW r \in Requests, Ready(r)
    PROVE  WatchInv'
  <1>1. CASE ~overlapping
    <2>1. Ask(r) /\ \A q \in Requests : req[q].pc = "idle"
      BY <1>1 DEF Ready
    <2>2. PICK op \in Operations, ms \in SUBSET Media, status \in Statuses \cup {"none"},
               wipe \in Wipes : Begin(r, op, ms, status, wipe)
      BY <2>1 DEF Ask
    <2>3. op \in AllOperations
      BY <2>2, WritesAssumption
    <2> QED
      BY <1>1, <2>1, <2>2, <2>3, BeginStep
  <1>2. CASE overlapping
    <2>1. PICK op \in {"upsert", "delete", "rewatch", "refresh"}, ms \in SUBSET Media,
               status \in Statuses \cup {"none"} : Begin(r, op, ms, status, FALSE)
      BY <1>2 DEF Ready
    <2>2. op \in AllOperations
      BY DEF AllOperations
    <2> QED
      BY <1>2, <2>1, <2>2, BeginStep
  <1>3. overlapping \in BOOLEAN
    BY DEF WatchInv, Shapes
  <1> QED
    BY <1>1, <1>2, <1>3

LEMMA WatchStep == WatchInv /\ [MCNext]_MCVars => WatchInv'
  <1> SUFFICES ASSUME WatchInv, [MCNext]_MCVars PROVE WatchInv'
    OBVIOUS
  <1>1. CASE MCNext
    <2>1. PICK r \in Requests : Ready(r) \/ Proceed(r)
      BY <1>1 DEF MCNext
    <2>2. UNCHANGED overlapping
      BY <1>1 DEF MCNext
    <2> QED
      BY <2>1, <2>2, ReadyStep, CountStep, RateSteps, Decided, DeleteStep, LateSteps, CommitStep,
         AbortStep DEF Proceed
  <1>2. CASE UNCHANGED MCVars
    <2>1. UNCHANGED <<rating, history, req, overlapping>>
      BY <1>2 DEF MCVars, vars
    <2>2. Shapes' /\ LocksExclude' /\ FirstsUnique' /\ CompletedHasEvent'
      BY <2>1 DEF WatchInv, Shapes, LocksExclude, FirstsUnique, CompletedHasEvent, Active, Others
    <2>3. ASSUME NEW r \in Requests, Active(r)' PROVE RequestInv(r)'
      <3>1. RequestInv(r) /\ ToWipe(r)' = ToWipe(r)
        BY <2>1, <2>3, Zenon DEF WatchInv, Active, ToWipe
      <3>2. OverlapMode(r)' /\ AloneMode(r)' /\ ReadCompleted(r)' /\ Deciding(r)'
        BY <2>1, <3>1 DEF RequestInv, OverlapMode, AloneMode, Others, Active, ReadCompleted, Deciding,
                          Watched
      <3>3. FirstsAreNew(r)' /\ SetCompleted(r)' /\ WipesDowngraded(r)'
        BY <2>1, <3>1 DEF RequestInv, FirstsAreNew, SetCompleted, WipesDowngraded, Watched
      <3> QED
        BY <3>2, <3>3 DEF RequestInv
    <2> QED
      BY <2>2, <2>3 DEF WatchInv
  <1> QED
    BY <1>1, <1>2

LEMMA UniqueIsOnce == FirstsUnique => FirstWatchLoggedOnce
  <1> SUFFICES ASSUME FirstsUnique, NEW m \in Media
               PROVE  Cardinality({e \in history : e.media = m /\ e.first}) <= 1
    BY DEF FirstWatchLoggedOnce
  <1> DEFINE firsts == {e \in history : e.media = m /\ e.first}
  <1>1. CASE firsts = {}
    BY <1>1, FS_EmptySet
  <1>2. CASE firsts # {}
    <2>1. PICK e : firsts = {e}
      BY <1>2 DEF FirstsUnique
    <2>2. Cardinality(firsts) = 1
      BY <2>1, FS_Singleton
    <2> QED
      BY <2>2
  <1> QED
    BY <1>1, <1>2

\* However single requests without wipes race, or any requests follow one another, a
\* media's first watch is logged at most once (_maybe_log_first_watch).
THEOREM FirstWatchOnce == OneOrBoth => []FirstWatchLoggedOnce
  <1>1. WatchInv => FirstWatchLoggedOnce
    BY UniqueIsOnce DEF WatchInv
  <1> QED
    BY <1>1, WatchInit, WatchStep, PTL DEF OneOrBoth

\* ... and a completed rating always has an event to show for it.
THEOREM CompletionsHaveEvents == OneOrBoth => []CompletedHasEvent
  <1>1. WatchInv => CompletedHasEvent
    BY DEF WatchInv
  <1> QED
    BY <1>1, WatchInit, WatchStep, PTL DEF OneOrBoth

-----------------------------------------------------------------------------
(* The cache of requests that follow one another *)

\* A step that writes the request's memory alone.
LEMMA CacheMemory ==
    ASSUME CacheInv, ~overlapping, NEW r \in Requests, NEW mem, req' = [req EXCEPT ![r] = mem],
           UNCHANGED <<rating, visible>>,
           \A q \in Others(r) : ~Active(q),
           Active(r)' => FreshCache(r)'
    PROVE  CacheInv'
  <1>1. \A q \in Requests : q # r => ~Active(q)'
    BY DEF Others, Active
  <1>2. visible' = VisibleMedia(Order, Anchors, {m \in Media : rating'[m] # "none"})
    BY DEF CacheInv
  <1> QED
    BY <1>1, <1>2 DEF CacheInv

\* Before the rated media are read there is nothing to keep.
LEMMA CacheBefore ==
    ASSUME WatchInv, CacheInv, ~overlapping, NEW r \in Requests,
           \/ CountEvents(r)
           \/ \E m \in Media : InsertRating(r, m) \/ UpdateRating(r, m) \/ KeepRating(r, m)
           \/ CheckFirstWatch(r) \/ LogEvent(r) \/ DeleteRatings(r) \/ WipeHistory(r)
    PROVE  CacheInv'
  <1>1. DOMAIN req = Requests /\ DOMAIN req[r] = Fields
    BY DEF WatchInv, Shapes
  <1>2. Following(r) \in {"writing", "wiping", "reading"}
    BY DEF Following
  <1>3. /\ req' = [req EXCEPT ![r] = req'[r]] /\ req'[r].op = req[r].op
        /\ UNCHANGED <<rating, visible>>
        /\ req'[r].pc \in {"writing", "checking", "logging", "wiping", "reading"}
             \/ req[r].op = "rewatch"
    <2>1. CASE CountEvents(r) \/ WipeHistory(r)
      BY <1>1, <2>1 DEF Fields, CountEvents, WipeHistory
    <2>2. CASE \E m \in Media : InsertRating(r, m) \/ UpdateRating(r, m) \/ KeepRating(r, m)
      <3>1. PICK m, locks, sets : Wrote(r, m, locks, sets)
        BY <2>2 DEF InsertRating, UpdateRating, KeepRating
      <3> QED
        BY <1>1, <3>1 DEF Fields, Wrote
    <2>3. CASE CheckFirstWatch(r)
      <3>1. req'[r].pc = Following(r) \/ req'[r].pc = "logging"
        BY <1>1, <2>3, Zenon DEF Fields, CheckFirstWatch
      <3>2. req' = [req EXCEPT ![r] = req'[r]] /\ req'[r].op = req[r].op
        BY <1>1, <2>3 DEF Fields, CheckFirstWatch
      <3> QED
        BY <1>2, <2>3, <3>1, <3>2 DEF CheckFirstWatch
    <2>4. CASE LogEvent(r)
      BY <1>1, <1>2, <2>4 DEF Fields, LogEvent
    <2>5. CASE DeleteRatings(r)
      BY <1>1, <2>5 DEF Fields, DeleteRatings
    <2> QED
      BY <2>1, <2>2, <2>3, <2>4, <2>5
  <1>4. Active(r)
    BY DEF Active, CountEvents, InsertRating, UpdateRating, KeepRating, CheckFirstWatch, LogEvent,
           DeleteRatings, WipeHistory
  <1>5. FreshCache(r) /\ \A q \in Others(r) : ~Active(q)
    BY <1>4 DEF WatchInv, RequestInv, AloneMode, CacheInv
  <1>6. CASE req[r].op = "rewatch"
    <2>1. req[r].pc \in {"logging", "committing"}
      BY <1>5, <1>6 DEF FreshCache
    <2>2. LogEvent(r)
      BY <2>1 DEF CountEvents, InsertRating, UpdateRating, KeepRating, CheckFirstWatch, LogEvent,
                  DeleteRatings, WipeHistory
    <2>3. /\ req'[r].pc = "committing" /\ req'[r].set = req[r].set
          /\ req'[r].doomed = req[r].doomed /\ req'[r].shown = req[r].shown
      BY <1>1, <1>6, <2>2 DEF Fields, LogEvent
    <2>4. FreshCache(r)'
      BY <1>3, <1>5, <1>6, <2>3 DEF FreshCache
    <2> QED
      BY <1>3, <1>5, <2>4, CacheMemory
  <1>7. CASE req[r].op # "rewatch"
    <2>1. req'[r].pc \in {"writing", "checking", "logging", "wiping", "reading"}
      BY <1>3, <1>7
    <2>2. FreshCache(r)'
      BY <1>3, <1>7, <2>1 DEF FreshCache
    <2> QED
      BY <1>3, <1>5, <2>2, CacheMemory
  <1> QED
    BY <1>6, <1>7

\* The recomputation: read, clear, show.
LEMMA CacheDuring ==
    ASSUME WatchInv, CacheInv, ~overlapping, NEW r \in Requests,
           ReadRated(r) \/ ClearStarts(r) \/ Cleared(r) \/ Show(r)
    PROVE  CacheInv'
  <1>1. DOMAIN req = Requests /\ DOMAIN req[r] = Fields
    BY DEF WatchInv, Shapes
  <1>2. /\ req' = [req EXCEPT ![r] = req'[r]] /\ UNCHANGED <<rating, visible>>
        /\ req'[r].op = req[r].op /\ req'[r].set = req[r].set
        /\ req[r].pc \in {"reading", "clearing", "waiting", "showing"}
    BY <1>1 DEF Fields, ReadRated, ClearStarts, Cleared, Show
  <1>3. FreshCache(r) /\ \A q \in Others(r) : ~Active(q)
    BY <1>2 DEF WatchInv, RequestInv, AloneMode, CacheInv, Active
  <1>4. req[r].op # "rewatch"
    BY <1>2, <1>3 DEF FreshCache
  <1>5. Seen(r)' = Seen(r)
    BY <1>2 DEF Seen
  <1>6. \/ /\ req[r].pc = "reading" /\ req'[r].pc = "clearing"
           /\ req'[r].rated = {m \in Media : Seen(r)[m] # "none"}
        \/ /\ req[r].pc = "clearing" /\ req'[r].pc = "waiting"
           /\ req'[r].rated = req[r].rated /\ req'[r].doomed = visible
        \/ /\ req[r].pc = "waiting" /\ req'[r].pc = "showing"
           /\ req'[r].rated = req[r].rated /\ req'[r].doomed = req[r].doomed
        \/ /\ req[r].pc = "showing" /\ req'[r].pc = "committing"
           /\ req'[r].rated = req[r].rated /\ req'[r].doomed = req[r].doomed
           /\ req'[r].shown = VisibleMedia(Order, Anchors, req[r].rated) \ (visible \ req[r].doomed)
    BY <1>1 DEF Fields, ReadRated, ClearStarts, Cleared, Show
  <1>7. FreshCache(r)'
    BY <1>2, <1>3, <1>4, <1>5, <1>6 DEF FreshCache
  <1> QED
    BY <1>2, <1>3, <1>7, CacheMemory

LEMMA CacheCommit ==
    ASSUME WatchInv, CacheInv, ~overlapping, NEW r \in Requests, Commit(r)
    PROVE  CacheInv'
  <1>1. /\ req[r].pc = "committing" /\ rating' = Seen(r)
        /\ visible' = (visible \ req[r].doomed) \cup req[r].shown
    BY DEF Commit
  <1>2. FreshCache(r) /\ \A q \in Others(r) : ~Active(q)
    BY <1>1 DEF WatchInv, RequestInv, AloneMode, CacheInv, Active
  <1>3. \A q \in Requests : ~Active(q)'
    BY <1>2 DEF Commit, Active, Others, Free
  <1>4. visible' = VisibleMedia(Order, Anchors, {m \in Media : rating'[m] # "none"})
    <2>1. CASE req[r].op = "rewatch"
      <3>1. visible' = visible /\ \A m \in Media : rating'[m] = rating[m]
        BY <1>1, <1>2, <2>1 DEF FreshCache, Seen
      <3>2. {m \in Media : rating'[m] # "none"} = {m \in Media : rating[m] # "none"}
        BY <3>1
      <3> QED
        BY <3>1, <3>2 DEF CacheInv
    <2>2. CASE req[r].op # "rewatch"
      BY <1>1, <1>2, <2>2 DEF FreshCache
    <2> QED
      BY <2>1, <2>2
  <1> QED
    BY <1>3, <1>4 DEF CacheInv

LEMMA CacheEnds ==
    ASSUME WatchInv, CacheInv, ~overlapping, NEW r \in Requests, Abort(r)
    PROVE  CacheInv'
  <1>1. /\ req' = [req EXCEPT ![r] = Free] /\ UNCHANGED <<rating, visible>> /\ Active(r)
        /\ DOMAIN req = Requests
    BY DEF Abort, Active, WatchInv, Shapes
  <1>2. ~Active(r)' /\ \A q \in Others(r) : ~Active(q)
    BY <1>1 DEF WatchInv, RequestInv, AloneMode, Active, Free
  <1> QED
    BY <1>1, <1>2, CacheMemory

LEMMA CacheBegins ==
    ASSUME WatchInv, CacheInv, ~overlapping, NEW r \in Requests, Ready(r)
    PROVE  CacheInv'
  <1>1. /\ \A q \in Requests : ~Active(q)
        /\ \E op, ms, status, wipe : Begin(r, op, ms, status, wipe)
    BY DEF Ready, Ask, Active
  <1>2. PICK op, ms, status, wipe : Begin(r, op, ms, status, wipe)
    BY <1>1
  <1>3. DOMAIN req = Requests
    BY DEF WatchInv, Shapes
  <1>4. /\ req' = [req EXCEPT ![r] = req'[r]] /\ UNCHANGED <<rating, visible>>
        /\ req'[r].op = op /\ DOMAIN req'[r].set = {}
        /\ req'[r].doomed = {} /\ req'[r].shown = {}
        /\ req'[r].pc \in {"counting", "logging", "reading", "writing"}
        /\ op = "rewatch" => req'[r].pc = "logging"
    BY <1>2, <1>3 DEF Begin, Free
  <1>5. FreshCache(r)'
    BY <1>4 DEF FreshCache
  <1> QED
    BY <1>1, <1>4, <1>5, CacheMemory DEF Others

LEMMA CacheStep == WatchInv /\ CacheInv /\ [MCNext]_MCVars => CacheInv'
  <1> SUFFICES ASSUME WatchInv, CacheInv, [MCNext]_MCVars, ~overlapping PROVE CacheInv'
    BY DEF CacheInv, MCNext, MCVars
  <1>1. CASE MCNext
    <2>1. PICK r \in Requests : Ready(r) \/ Proceed(r)
      BY <1>1 DEF MCNext
    <2> QED
      BY <2>1, CacheBegins, CacheBefore, CacheDuring, CacheCommit, CacheEnds DEF Proceed
  <1>2. CASE UNCHANGED MCVars
    <2>1. UNCHANGED <<rating, visible, req>>
      BY <1>2 DEF MCVars, vars
    <2> QED
      BY <2>1 DEF CacheInv, FreshCache, Seen, Active
  <1> QED
    BY <1>1, <1>2

\* When no request is in flight the cache is what the ratings say, for any anime and any
\* sequence of requests, aborted ones included (recompute_visibility_for_anime).
THEOREM CacheKept == OneOrBoth => []CacheKeptSerially
  <1>1. MCInit => CacheInv
    <2> SUFFICES ASSUME MCInit PROVE CacheInv
      OBVIOUS
    <2>1. /\ rating = [m \in Media |-> "none"] /\ visible = VisibleMedia(Order, Anchors, {})
          /\ req = [r \in Requests |-> Free]
      BY DEF MCInit, Init
    <2>2. {m \in Media : rating[m] # "none"} = {} /\ \A r \in Requests : ~Active(r)
      BY <2>1 DEF Active, Free
    <2> QED
      BY <2>1, <2>2 DEF CacheInv
  <1>2. CacheInv => CacheKeptSerially
    BY DEF CacheInv, CacheKeptSerially, CacheMatchesRatings
  <1> QED
    BY <1>1, <1>2, WatchInit, WatchStep, CacheStep, PTL DEF OneOrBoth

-----------------------------------------------------------------------------
(* The watch list: types *)

LEMMA CountingLists ==
    ASSUME NEW S PROVE W!Cardinality(S) = Cardinality(S) /\ W!IsFiniteSet(S) = IsFiniteSet(S)
  BY DEF W!Cardinality, Cardinality, W!IsFiniteSet, IsFiniteSet

Entry == [list : W!Lists, priority : W!Priorities, note : Notes]

LEMMA RowsAre ==
    ASSUME NEW f
    PROVE  f \in W!Rows <=> \E ms \in SUBSET W!Media : f \in [ms -> Entry]
  BY DEF W!Rows, Entry

LEMMA NoRows == <<>> \in W!Rows /\ DOMAIN <<>> = {}
  <1>1. <<>> \in [{} -> Entry] /\ DOMAIN <<>> = {}
    OBVIOUS
  <1> QED
    BY <1>1, RowsAre

LEMMA RowsRead ==
    ASSUME NEW f \in W!Rows, NEW m \in DOMAIN f
    PROVE  f[m] \in Entry /\ m \in W!Media
  BY RowsAre

LEMMA RowsMade ==
    ASSUME NEW ms \in SUBSET W!Media, NEW f \in [ms -> Entry]
    PROVE  f \in W!Rows /\ DOMAIN f = ms
  BY RowsAre

LEMMA FreeTyped ==
    /\ W!Free \in [pc : {"idle"}, op : {"none"}, ms : SUBSET W!Media, list : W!Lists, priority : W!Priorities,
                   note : {Keep}, retried : BOOLEAN, seen : W!Rows, put : W!Rows, gone : SUBSET W!Media]
    /\ W!Free.put = <<>> /\ W!Free.gone = {} /\ W!Free.pc = "idle"
  BY NoRows DEF W!Free, W!Lists, W!Priorities

Memory ==
    [pc : {"idle", "reading", "writing", "creating", "checking", "dropping", "committing"},
     op : {"none", "put", "bulk", "remove", "create", "move", "drop"},
     ms : SUBSET W!Media, list : W!Lists, priority : W!Priorities, note : Notes \cup {Keep},
     retried : BOOLEAN, seen : W!Rows, put : W!Rows, gone : SUBSET W!Media]

LEMMA FreeIs == W!Free \in Memory
  BY FreeTyped DEF Memory

LEMMA ListsInit == W!Configured /\ W!Init => W!ListsTypeOK
  <1> SUFFICES ASSUME W!Configured, W!Init PROVE W!ListsTypeOK
    OBVIOUS
  <1>1. filing \in [Requests -> Memory]
    BY FreeIs DEF W!Init
  <1>2. filings \in 0 .. MaxFilings
    BY DEF W!Init, W!Configured
  <1> QED
    BY <1>1, <1>2, NoRows DEF W!Init, W!ListsTypeOK, Memory, W!Lists

\* What a request wants an entry to be is an entry.
LEMMA WantedIs ==
    ASSUME W!Configured, W!ListsTypeOK, NEW r \in Requests, NEW m
    PROVE  W!Wanted(r, m) \in Entry
  <1>1. filing[r] \in Memory
    BY DEF W!ListsTypeOK, Memory
  <1>2. filing[r].list \in W!Lists /\ filing[r].priority \in W!Priorities
        /\ filing[r].note \in Notes \cup {Keep} /\ filing[r].seen \in W!Rows
    BY <1>1 DEF Memory
  <1>3. ASSUME m \in DOMAIN filing[r].seen PROVE filing[r].seen[m].note \in Notes
    BY <1>2, <1>3, RowsRead DEF Entry
  <1>4. W!NoteFor(r, m) \in Notes
    BY <1>2, <1>3 DEF W!NoteFor, W!Configured
  <1> QED
    BY <1>2, <1>4 DEF W!Wanted, Entry

\* A request's next memory is one, if its fields are.
LEMMA Remembers ==
    ASSUME filing \in [Requests -> Memory], NEW r \in Requests, NEW x \in Memory,
           filing' = [filing EXCEPT ![r] = x]
    PROVE  filing' \in [Requests -> Memory]
  OBVIOUS

LEMMA FiledRows ==
    ASSUME W!ListsTypeOK, NEW list \in W!Lists
    PROVE  /\ W!FiledOn(list) \in SUBSET W!Media /\ W!FiledOn(list) \subseteq DOMAIN entries
           /\ \A m \in W!FiledOn(list) : entries[m] \in Entry
  BY RowsRead DEF W!ListsTypeOK, W!FiledOn

LEMMA AskTyped ==
    ASSUME W!Configured, W!ListsTypeOK, NEW r \in Requests, NEW op \in {"put", "bulk"}, NEW ms \in SUBSET W!Media,
           NEW list \in lists, NEW priority \in W!Priorities, NEW note \in Notes \cup {Keep},
           W!Ask(r, op, ms, list, priority, note)
    PROVE  W!ListsTypeOK'
  <1> DEFINE x == [W!Free EXCEPT !.pc = "reading", !.op = op, !.ms = ms, !.list = list,
                                 !.priority = priority, !.note = note]
  <1>1. x \in Memory
    BY FreeTyped DEF Memory, W!ListsTypeOK
  <1>2. filing' = [filing EXCEPT ![r] = x] /\ UNCHANGED <<lists, unborn, entries>>
        /\ filings < MaxFilings /\ filings' = filings + 1
    BY DEF W!Ask
  <1> HIDE DEF x
  <1>3. filing' \in [Requests -> Memory]
    BY <1>1, <1>2, Remembers DEF W!ListsTypeOK, Memory
  <1>4. filings' \in 0 .. MaxFilings
    BY <1>2 DEF W!ListsTypeOK, W!Configured
  <1> QED
    BY <1>2, <1>3, <1>4 DEF W!ListsTypeOK, Memory

LEMMA ReadTyped ==
    ASSUME W!Configured, W!ListsTypeOK, NEW r \in Requests, W!Read(r)
    PROVE  W!ListsTypeOK'
  <1> DEFINE f == [m \in filing[r].ms \cap DOMAIN entries |-> entries[m]]
             x == [filing[r] EXCEPT !.pc = "writing", !.seen = f]
  <1>1. filing[r] \in Memory
    BY DEF W!ListsTypeOK, Memory
  <1>2. filing[r].ms \cap DOMAIN entries \in SUBSET W!Media
    BY <1>1 DEF Memory
  <1>3. \A m \in DOMAIN entries : entries[m] \in Entry
    BY RowsRead DEF W!ListsTypeOK
  <1>4. f \in W!Rows
    BY <1>2, <1>3, RowsMade
  <1>5. filing' = [filing EXCEPT ![r] = x] /\ UNCHANGED <<lists, unborn, entries, filings>>
    BY DEF W!Read
  <1> HIDE DEF f
  <1>6. x \in Memory
    BY <1>1, <1>4 DEF Memory
  <1> HIDE DEF x
  <1>7. filing' \in [Requests -> Memory]
    BY <1>5, <1>6, Remembers DEF W!ListsTypeOK, Memory
  <1> QED
    BY <1>5, <1>7 DEF W!ListsTypeOK, Memory

\* The row a flush leaves under the lock: the columns it changes, and the others as
\* they are by now.
Mixed(r, m) == [c \in {"list", "priority", "note"} |->
                  IF c \in W!Changed(r, m) THEN W!Wanted(r, m)[c] ELSE entries[m][c]]
Fresh(r) == filing[r].ms \ DOMAIN filing[r].seen
Dirty(r) == {m \in filing[r].ms \ Fresh(r) : W!Changed(r, m) # {}}
Flushing(r) == [m \in Fresh(r) \cup Dirty(r) |-> IF m \in Fresh(r) THEN W!Wanted(r, m) ELSE Mixed(r, m)]

LEMMA FlushIs ==
    ASSUME NEW r, W!Flush(r)
    PROVE  /\ filing[r].pc = "writing"
           /\ Dirty(r) \subseteq DOMAIN entries /\ Fresh(r) \cap DOMAIN entries = {}
           /\ \A q \in Requests \ {r} : W!Written(q) \cap (Fresh(r) \cup Dirty(r)) = {}
           /\ filing' = [filing EXCEPT ![r].pc = "committing", ![r].put = Flushing(r)]
           /\ UNCHANGED <<lists, unborn, entries, filings>>
  BY DEF W!Flush, Dirty, Fresh, Flushing, Mixed, W!Others

LEMMA MixedIs ==
    ASSUME W!Configured, W!ListsTypeOK, NEW r \in Requests, NEW m \in DOMAIN entries
    PROVE  Mixed(r, m) \in Entry
  <1>1. entries[m] \in Entry
    BY RowsRead DEF W!ListsTypeOK
  <1>2. W!Wanted(r, m) \in Entry
    BY WantedIs
  <1> QED
    BY <1>1, <1>2 DEF Mixed, Entry

LEMMA FlushTyped ==
    ASSUME W!Configured, W!ListsTypeOK, NEW r \in Requests, W!Flush(r)
    PROVE  W!ListsTypeOK'
  <1> DEFINE x == [filing[r] EXCEPT !.pc = "committing", !.put = Flushing(r)]
  <1>1. filing[r] \in Memory
    BY DEF W!ListsTypeOK, Memory
  <1>2. Fresh(r) \cup Dirty(r) \in SUBSET W!Media
    BY <1>1 DEF Memory, Fresh, Dirty
  <1>3. Flushing(r) \in W!Rows
    <2>1. \A m : W!Wanted(r, m) \in Entry
      BY WantedIs
    <2>2. \A m \in Dirty(r) : Mixed(r, m) \in Entry
      BY FlushIs, MixedIs
    <2>3. Flushing(r) \in [Fresh(r) \cup Dirty(r) -> Entry]
      BY <2>1, <2>2 DEF Flushing
    <2> QED
      BY <1>2, <2>3, RowsMade
  <1>4. x \in Memory
    BY <1>1, <1>3 DEF Memory
  <1>5. filing' = [filing EXCEPT ![r] = x] /\ UNCHANGED <<lists, unborn, entries, filings>>
    BY FlushIs
  <1> HIDE DEF x
  <1>6. filing' \in [Requests -> Memory]
    BY <1>4, <1>5, Remembers DEF W!ListsTypeOK, Memory
  <1> QED
    BY <1>5, <1>6 DEF W!ListsTypeOK, Memory

LEMMA RetryTyped ==
    ASSUME W!Configured, W!ListsTypeOK, NEW r \in Requests, W!Retry(r)
    PROVE  W!ListsTypeOK'
  <1> DEFINE x == [filing[r] EXCEPT !.retried = TRUE, !.pc = "reading"]
  <1>1. x \in Memory
    BY DEF W!ListsTypeOK, Memory
  <1>2. filing' = [filing EXCEPT ![r] = x] /\ UNCHANGED <<lists, unborn, entries, filings>>
    BY DEF W!Retry
  <1> HIDE DEF x
  <1>3. filing' \in [Requests -> Memory]
    BY <1>1, <1>2, Remembers DEF W!ListsTypeOK, Memory
  <1> QED
    BY <1>2, <1>3 DEF W!ListsTypeOK, Memory

LEMMA RemoveTyped ==
    ASSUME W!Configured, W!ListsTypeOK, NEW r \in Requests, NEW ms \in SUBSET W!Media, W!Remove(r, ms)
    PROVE  W!ListsTypeOK'
  <1> DEFINE x == [W!Free EXCEPT !.pc = "committing", !.op = "remove", !.gone = ms]
  <1>1. x \in Memory
    BY FreeTyped DEF Memory
  <1>2. filing' = [filing EXCEPT ![r] = x] /\ UNCHANGED <<lists, unborn, entries>>
        /\ filings < MaxFilings /\ filings' = filings + 1
    BY DEF W!Remove
  <1> HIDE DEF x
  <1>3. filing' \in [Requests -> Memory]
    BY <1>1, <1>2, Remembers DEF W!ListsTypeOK, Memory
  <1>4. filings' \in 0 .. MaxFilings
    BY <1>2 DEF W!ListsTypeOK, W!Configured
  <1> QED
    BY <1>2, <1>3, <1>4 DEF W!ListsTypeOK, Memory

LEMMA CountListsTyped ==
    ASSUME W!Configured, W!ListsTypeOK, NEW r \in Requests, W!CountLists(r)
    PROVE  W!ListsTypeOK'
  <1> DEFINE x == [W!Free EXCEPT !.pc = "creating", !.op = "create"]
  <1>1. x \in Memory
    BY FreeTyped DEF Memory
  <1>2. filing' = [filing EXCEPT ![r] = x] /\ UNCHANGED <<lists, unborn, entries>>
        /\ filings < MaxFilings /\ filings' = filings + 1
    BY DEF W!CountLists
  <1> HIDE DEF x
  <1>3. filing' \in [Requests -> Memory]
    BY <1>1, <1>2, Remembers DEF W!ListsTypeOK, Memory
  <1>4. filings' \in 0 .. MaxFilings
    BY <1>2 DEF W!ListsTypeOK, W!Configured
  <1> QED
    BY <1>2, <1>3, <1>4 DEF W!ListsTypeOK, Memory

LEMMA CreateListTyped ==
    ASSUME W!Configured, W!ListsTypeOK, NEW r \in Requests, NEW list \in CustomLists, W!CreateList(r, list)
    PROVE  W!ListsTypeOK'
  <1>1. filing' \in [Requests -> Memory]
    BY FreeIs, Remembers DEF W!CreateList, W!ListsTypeOK, Memory
  <1>2. lists' \subseteq W!Lists /\ unborn' \subseteq CustomLists /\ UNCHANGED <<entries, filings>>
    BY DEF W!CreateList, W!ListsTypeOK, W!Lists
  <1> QED
    BY <1>1, <1>2 DEF W!ListsTypeOK, Memory

LEMMA StartDropTyped ==
    ASSUME W!Configured, W!ListsTypeOK, NEW r \in Requests, NEW list \in lists, NEW reassign \in BOOLEAN,
           W!StartDrop(r, list, reassign)
    PROVE  W!ListsTypeOK'
  <1> DEFINE filed == W!FiledOn(list)
             moved == [m \in filed |-> [entries[m] EXCEPT !.list = Default]]
             put == IF reassign THEN moved ELSE <<>>
             gone == IF reassign THEN {} ELSE filed
             x == [W!Free EXCEPT !.pc = "checking", !.op = IF reassign THEN "move" ELSE "drop",
                                 !.list = list, !.put = put, !.gone = gone]
  <1>1. list \in W!Lists
    BY DEF W!ListsTypeOK
  <1>2. filed \in SUBSET W!Media /\ \A m \in filed : entries[m] \in Entry
    BY <1>1, FiledRows
  <1>3. moved \in W!Rows
    <2>1. \A m \in filed : [entries[m] EXCEPT !.list = Default] \in Entry
      BY <1>2 DEF Entry, W!Lists
    <2> HIDE DEF filed
    <2>2. moved \in [filed -> Entry]
      BY <2>1
    <2> QED
      BY <1>2, <2>2, RowsMade
  <1> HIDE DEF moved, filed
  <1>4. put \in W!Rows /\ gone \in SUBSET W!Media
    BY <1>2, <1>3, NoRows
  <1>5. filing' = [filing EXCEPT ![r] = x] /\ UNCHANGED <<lists, unborn, entries>>
        /\ filings < MaxFilings /\ filings' = filings + 1
    BY DEF W!StartDrop, moved, filed
  <1> HIDE DEF put, gone
  <1>6. x \in Memory
    BY <1>1, <1>4, FreeTyped DEF Memory
  <1> HIDE DEF x
  <1>7. filing' \in [Requests -> Memory]
    BY <1>5, <1>6, Remembers DEF W!ListsTypeOK, Memory
  <1>8. filings' \in 0 .. MaxFilings
    BY <1>5 DEF W!ListsTypeOK, W!Configured
  <1> QED
    BY <1>5, <1>7, <1>8 DEF W!ListsTypeOK, Memory

LEMMA CheckDropTyped ==
    ASSUME W!Configured, W!ListsTypeOK, NEW r \in Requests, W!CheckDrop(r)
    PROVE  W!ListsTypeOK'
  <1> DEFINE x == IF W!FiledOn(filing[r].list) \subseteq W!Written(r)
                  THEN [filing[r] EXCEPT !.pc = "dropping"] ELSE W!Free
  <1>1. x \in Memory
    BY FreeIs DEF W!ListsTypeOK, Memory
  <1>2. filing' = [filing EXCEPT ![r] = x] /\ UNCHANGED <<lists, unborn, entries, filings>>
    BY DEF W!CheckDrop
  <1> HIDE DEF x
  <1>3. filing' \in [Requests -> Memory]
    BY <1>1, <1>2, Remembers DEF W!ListsTypeOK, Memory
  <1> QED
    BY <1>2, <1>3 DEF W!ListsTypeOK, Memory

Stragglers(r) == W!FiledOn(filing[r].list) \ W!Written(r)

LEMMA DropListIs ==
    ASSUME W!ListsTypeOK, NEW r \in Requests, W!DropList(r)
    PROVE  /\ filing[r].pc = "dropping"
           /\ \A q \in Requests \ {r} : W!Written(q) \cap Stragglers(r) = {}
           /\ filing' = [filing EXCEPT ![r] = [filing[r] EXCEPT !.pc = "committing",
                                                               !.gone = filing[r].gone \cup Stragglers(r)]]
           /\ UNCHANGED <<lists, unborn, entries, filings>>
  BY DEF W!DropList, W!Others, Stragglers, W!ListsTypeOK

LEMMA DropListTyped ==
    ASSUME W!Configured, W!ListsTypeOK, NEW r \in Requests, W!DropList(r)
    PROVE  W!ListsTypeOK'
  <1> DEFINE x == [filing[r] EXCEPT !.pc = "committing", !.gone = filing[r].gone \cup Stragglers(r)]
  <1>1. filing[r] \in Memory
    BY DEF W!ListsTypeOK, Memory
  <1>2. Stragglers(r) \in SUBSET W!Media
    BY <1>1, FiledRows DEF Stragglers, Memory
  <1>3. x \in Memory
    BY <1>1, <1>2 DEF Memory
  <1>4. filing' = [filing EXCEPT ![r] = x] /\ UNCHANGED <<lists, unborn, entries, filings>>
    BY DropListIs
  <1> HIDE DEF x
  <1>5. filing' \in [Requests -> Memory]
    BY <1>3, <1>4, Remembers DEF W!ListsTypeOK, Memory
  <1> QED
    BY <1>4, <1>5 DEF W!ListsTypeOK, Memory

LEMMA CommitTyped ==
    ASSUME W!Configured, W!ListsTypeOK, NEW r \in Requests, W!Commit(r)
    PROVE  W!ListsTypeOK'
  <1> DEFINE put == filing[r].put
             gone == filing[r].gone
             ms == (DOMAIN entries \cup DOMAIN put) \ gone
  <1>1. put \in W!Rows
    BY DEF W!ListsTypeOK
  <1>2. entries' = [m \in ms |-> IF m \in DOMAIN put THEN put[m] ELSE entries[m]]
    BY DEF W!Commit
  <1>3. entries \in W!Rows
    BY DEF W!ListsTypeOK
  <1> HIDE DEF put, gone
  <1>4. \A m \in DOMAIN put : put[m] \in Entry /\ m \in W!Media
    BY <1>1, RowsRead
  <1>5. \A m \in DOMAIN entries : entries[m] \in Entry /\ m \in W!Media
    BY <1>3, RowsRead
  <1>6. ms \in SUBSET W!Media /\ entries' \in [ms -> Entry]
    BY <1>2, <1>4, <1>5
  <1>7. entries' \in W!Rows
    BY <1>6, RowsMade
  <1>8. filing' \in [Requests -> Memory]
    BY FreeIs, Remembers DEF W!Commit, W!ListsTypeOK, Memory
  <1>9. lists' \subseteq W!Lists /\ UNCHANGED <<unborn, filings>>
    BY DEF W!Commit, W!ListsTypeOK
  <1> QED
    BY <1>7, <1>8, <1>9 DEF W!ListsTypeOK, Memory

LEMMA AbortTyped ==
    ASSUME W!Configured, W!ListsTypeOK, NEW r \in Requests, W!Abort(r)
    PROVE  W!ListsTypeOK'
  <1>1. filing' \in [Requests -> Memory]
    BY FreeIs, Remembers DEF W!Abort, W!ListsTypeOK, Memory
  <1> QED
    BY <1>1 DEF W!Abort, W!ListsTypeOK, Memory

LEMMA ListsTypeStep == W!Configured /\ W!ListsTypeOK /\ [W!Next]_W!vars => W!ListsTypeOK'
  <1> SUFFICES ASSUME W!Configured, W!ListsTypeOK, [W!Next]_W!vars PROVE W!ListsTypeOK'
    OBVIOUS
  <1>1. UNCHANGED W!vars => W!ListsTypeOK'
    BY DEF W!vars, W!ListsTypeOK
  <1>2. ASSUME NEW r \in Requests, NEW op \in {"put", "bulk"}, NEW ms \in SUBSET W!Media, NEW list \in lists,
               NEW priority \in W!Priorities, NEW note \in Notes \cup {Keep},
               W!Ask(r, op, ms, list, priority, note)
        PROVE  W!ListsTypeOK'
    BY <1>2, AskTyped
  <1>3. ASSUME NEW r \in Requests, W!Read(r) \/ W!Flush(r) \/ W!Retry(r) PROVE W!ListsTypeOK'
    BY <1>3, ReadTyped, FlushTyped, RetryTyped
  <1>4. ASSUME NEW r \in Requests, NEW ms \in SUBSET W!Media, W!Remove(r, ms) PROVE W!ListsTypeOK'
    BY <1>4, RemoveTyped
  <1>5. ASSUME NEW r \in Requests, NEW list \in lists, W!EmptyList(r, list) PROVE W!ListsTypeOK'
    <2>1. W!FiledOn(list) \in SUBSET W!Media
      BY FiledRows DEF W!ListsTypeOK
    <2> QED
      BY <1>5, <2>1, RemoveTyped DEF W!EmptyList
  <1>6. ASSUME NEW r \in Requests, W!CountLists(r) PROVE W!ListsTypeOK'
    BY <1>6, CountListsTyped
  <1>7. ASSUME NEW r \in Requests, NEW list \in CustomLists, W!CreateList(r, list) PROVE W!ListsTypeOK'
    BY <1>7, CreateListTyped
  <1>8. ASSUME NEW r \in Requests, NEW list \in lists, NEW reassign \in BOOLEAN, W!StartDrop(r, list, reassign)
        PROVE  W!ListsTypeOK'
    BY <1>8, StartDropTyped
  <1>9. ASSUME NEW r \in Requests, W!CheckDrop(r) \/ W!DropList(r) \/ W!Commit(r) \/ W!Abort(r)
        PROVE  W!ListsTypeOK'
    BY <1>9, CheckDropTyped, DropListTyped, CommitTyped, AbortTyped
  <1> QED
    BY <1>1, <1>2, <1>3, <1>4, <1>5, <1>6, <1>7, <1>8, <1>9, Zenon DEF W!Next

\* Every state of the watch list is well-typed.
THEOREM ListsTypeCorrect == W!Spec => []W!ListsTypeOK
  <1>1. W!Init => W!ListsTypeOK
    BY ListsInit, PersonalAssumption
  <1>2. W!ListsTypeOK /\ [W!Next]_W!vars => W!ListsTypeOK'
    BY ListsTypeStep, PersonalAssumption
  <1> QED
    BY <1>1, <1>2, PTL DEF W!Spec

-----------------------------------------------------------------------------
(* The watch list: what a step of a request leaves of it *)

\* The request moves on and the others stay.
Moves(r, x) == filing'[r] = x /\ \A s \in Requests \ {r} : filing'[s] = filing[s]

LEMMA MovesBy ==
    ASSUME W!ListsTypeOK, NEW r \in Requests, NEW x, filing' = [filing EXCEPT ![r] = x]
    PROVE  Moves(r, x)
  BY DEF Moves, W!ListsTypeOK

LEMMA AskIs ==
    ASSUME W!ListsTypeOK, NEW r \in Requests, NEW op, NEW ms, NEW list, NEW priority, NEW note,
           W!Ask(r, op, ms, list, priority, note)
    PROVE  /\ \E x : Moves(r, x) /\ x.pc = "reading" /\ x.put = <<>> /\ x.gone = {}
           /\ UNCHANGED <<lists, entries>>
  <1> DEFINE x == [W!Free EXCEPT !.pc = "reading", !.op = op, !.ms = ms, !.list = list,
                                 !.priority = priority, !.note = note]
  <1>1. x.pc = "reading" /\ x.put = <<>> /\ x.gone = {}
    BY FreeTyped
  <1> HIDE DEF x
  <1>2. Moves(r, x)
    BY MovesBy DEF W!Ask, x
  <1> QED
    BY <1>1, <1>2 DEF W!Ask

LEMMA RemoveIs ==
    ASSUME W!ListsTypeOK, NEW r \in Requests, NEW ms, W!Remove(r, ms)
    PROVE  /\ \E x : Moves(r, x) /\ x.pc = "committing" /\ x.put = <<>> /\ x.gone = ms
           /\ \A s \in Requests \ {r} : W!Written(s) \cap ms = {}
           /\ UNCHANGED <<lists, entries>>
  <1> DEFINE x == [W!Free EXCEPT !.pc = "committing", !.op = "remove", !.gone = ms]
  <1>1. x.pc = "committing" /\ x.put = <<>> /\ x.gone = ms
    BY FreeTyped
  <1> HIDE DEF x
  <1>2. Moves(r, x)
    BY MovesBy DEF W!Remove, x
  <1> QED
    BY <1>1, <1>2 DEF W!Remove, W!Others

LEMMA CountListsIs ==
    ASSUME W!ListsTypeOK, NEW r \in Requests, W!CountLists(r)
    PROVE  /\ \E x : Moves(r, x) /\ x.pc = "creating" /\ x.put = <<>> /\ x.gone = {}
           /\ UNCHANGED <<lists, entries>>
  <1> DEFINE x == [W!Free EXCEPT !.pc = "creating", !.op = "create"]
  <1>1. x.pc = "creating" /\ x.put = <<>> /\ x.gone = {}
    BY FreeTyped
  <1> HIDE DEF x
  <1>2. Moves(r, x)
    BY MovesBy DEF W!CountLists, x
  <1> QED
    BY <1>1, <1>2 DEF W!CountLists

LEMMA StartDropIs ==
    ASSUME W!ListsTypeOK, NEW r \in Requests, NEW list, NEW reassign, W!StartDrop(r, list, reassign)
    PROVE  /\ \E x : /\ Moves(r, x) /\ x.pc = "checking"
                    /\ DOMAIN x.put \cup x.gone \subseteq W!FiledOn(list)
                    /\ \A m \in DOMAIN x.put : x.put[m].note = entries[m].note
           /\ \A s \in Requests \ {r} : W!Written(s) \cap W!FiledOn(list) = {}
           /\ UNCHANGED <<lists, entries>>
  <1> DEFINE filed == W!FiledOn(list)
             moved == [m \in filed |-> [entries[m] EXCEPT !.list = Default]]
             put == IF reassign THEN moved ELSE <<>>
             gone == IF reassign THEN {} ELSE filed
             x == [W!Free EXCEPT !.pc = "checking", !.op = IF reassign THEN "move" ELSE "drop",
                                 !.list = list, !.put = put, !.gone = gone]
  <1>1. list \in W!Lists
    BY DEF W!ListsTypeOK, W!StartDrop
  <1>2. \A m \in filed : entries[m] \in Entry
    BY <1>1, FiledRows
  <1>3. DOMAIN put \cup gone \subseteq filed
    BY NoRows
  <1>4. \A m \in DOMAIN moved : moved[m].note = entries[m].note
    BY <1>2 DEF Entry
  <1>5. \A m \in DOMAIN put : put[m].note = entries[m].note
    <2> HIDE DEF moved
    <2>1. CASE reassign
      BY <1>4, <2>1
    <2>2. CASE ~reassign
      BY <2>2, NoRows
    <2> QED
      BY <2>1, <2>2
  <1> HIDE DEF put, gone
  <1>6. x.pc = "checking" /\ x.put = put /\ x.gone = gone
    BY FreeTyped
  <1>7. filing' = [filing EXCEPT ![r] = x]
    BY DEF W!StartDrop, put, gone
  <1> HIDE DEF x
  <1>8. Moves(r, x)
    BY <1>7, MovesBy
  <1>9. /\ \A s \in Requests \ {r} : W!Written(s) \cap filed = {}
        /\ UNCHANGED <<lists, entries>>
    BY DEF W!StartDrop, W!Others
  <1> HIDE DEF filed
  <1>10. \E y : /\ Moves(r, y) /\ y.pc = "checking"
                /\ DOMAIN y.put \cup y.gone \subseteq filed
                /\ \A m \in DOMAIN y.put : y.put[m].note = entries[m].note
    BY <1>3, <1>5, <1>6, <1>8
  <1> QED
    BY <1>9, <1>10 DEF filed

LEMMA FlushMoves ==
    ASSUME W!ListsTypeOK, NEW r \in Requests, W!Flush(r)
    PROVE  \E x : /\ Moves(r, x) /\ x.pc = "committing" /\ x.put = Flushing(r) /\ x.gone = filing[r].gone
                  /\ x.note = filing[r].note /\ x.ms = filing[r].ms
  <1> DEFINE x == [filing[r] EXCEPT !.pc = "committing", !.put = Flushing(r)]
  <1>1. filing[r] \in Memory
    BY DEF W!ListsTypeOK, Memory
  <1>2. /\ x.pc = "committing" /\ x.put = Flushing(r) /\ x.gone = filing[r].gone
        /\ x.note = filing[r].note /\ x.ms = filing[r].ms
    BY <1>1 DEF Memory
  <1>3. filing' = [filing EXCEPT ![r] = x]
    BY FlushIs
  <1> HIDE DEF x
  <1> QED
    BY <1>2, <1>3, MovesBy

\* Steps that leave the request with the locks and the plan it had.
LEMMA ReadMoves ==
    ASSUME W!ListsTypeOK, NEW r \in Requests, W!Read(r) \/ W!Retry(r)
    PROVE  /\ \E x : /\ Moves(r, x) /\ x.pc \in {"reading", "writing"}
                    /\ x.put = filing[r].put /\ x.gone = filing[r].gone
                    /\ x.note = filing[r].note /\ x.ms = filing[r].ms
           /\ filing[r].pc \in {"reading", "writing"}
           /\ UNCHANGED <<lists, entries>>
  <1>1. filing[r] \in Memory
    BY DEF W!ListsTypeOK, Memory
  <1>2. PICK y : \/ filing' = [filing EXCEPT ![r] = [filing[r] EXCEPT !.pc = "writing", !.seen = y]]
                 \/ filing' = [filing EXCEPT ![r] = [filing[r] EXCEPT !.retried = TRUE, !.pc = "reading"]]
    BY DEF W!Read, W!Retry
  <1>3. PICK x \in {[filing[r] EXCEPT !.pc = "writing", !.seen = y],
                    [filing[r] EXCEPT !.retried = TRUE, !.pc = "reading"]} :
               filing' = [filing EXCEPT ![r] = x]
    BY <1>2
  <1>4. /\ x.pc \in {"reading", "writing"}
        /\ x.put = filing[r].put /\ x.gone = filing[r].gone
        /\ x.note = filing[r].note /\ x.ms = filing[r].ms
    BY <1>1 DEF Memory
  <1>5. Moves(r, x)
    BY <1>3, MovesBy
  <1>6. filing[r].pc \in {"reading", "writing"} /\ UNCHANGED <<lists, entries>>
    BY DEF W!Read, W!Retry
  <1> QED
    BY <1>4, <1>5, <1>6

LEMMA CheckDropMoves ==
    ASSUME W!ListsTypeOK, NEW r \in Requests, W!CheckDrop(r)
    PROVE  /\ \/ Moves(r, W!Free)
              \/ \E x : /\ Moves(r, x) /\ x.pc = "dropping"
                       /\ x.put = filing[r].put /\ x.gone = filing[r].gone
                       /\ x.note = filing[r].note /\ x.ms = filing[r].ms
           /\ UNCHANGED <<lists, entries>>
  <1> DEFINE x == [filing[r] EXCEPT !.pc = "dropping"]
  <1>1. filing[r] \in Memory
    BY DEF W!ListsTypeOK, Memory
  <1>2. /\ x.pc = "dropping" /\ x.put = filing[r].put /\ x.gone = filing[r].gone
        /\ x.note = filing[r].note /\ x.ms = filing[r].ms
    BY <1>1 DEF Memory
  <1>3. filing' = [filing EXCEPT ![r] = x] \/ filing' = [filing EXCEPT ![r] = W!Free]
    BY DEF W!CheckDrop
  <1> HIDE DEF x
  <1>4. Moves(r, x) \/ Moves(r, W!Free)
    BY <1>3, MovesBy
  <1> QED
    BY <1>2, <1>4 DEF W!CheckDrop

LEMMA DropListMoves ==
    ASSUME W!ListsTypeOK, NEW r \in Requests, W!DropList(r)
    PROVE  \E x : /\ Moves(r, x) /\ x.pc = "committing" /\ x.put = filing[r].put
                  /\ x.gone = filing[r].gone \cup Stragglers(r)
                  /\ x.note = filing[r].note /\ x.ms = filing[r].ms
  <1> DEFINE x == [filing[r] EXCEPT !.pc = "committing", !.gone = filing[r].gone \cup Stragglers(r)]
  <1>1. filing[r] \in Memory
    BY DEF W!ListsTypeOK, Memory
  <1>2. /\ x.pc = "committing" /\ x.put = filing[r].put
        /\ x.gone = filing[r].gone \cup Stragglers(r)
        /\ x.note = filing[r].note /\ x.ms = filing[r].ms
    BY <1>1 DEF Memory
  <1>3. filing' = [filing EXCEPT ![r] = x]
    BY DropListIs
  <1> HIDE DEF x
  <1> QED
    BY <1>2, <1>3, MovesBy

LEMMA EndMoves ==
    ASSUME W!ListsTypeOK, NEW r \in Requests, W!Commit(r) \/ W!Abort(r) \/ (\E list : W!CreateList(r, list))
    PROVE  Moves(r, W!Free)
  BY MovesBy DEF W!Commit, W!Abort, W!CreateList

-----------------------------------------------------------------------------
(* The watch list: at most so many lists *)

Creating == {r \in Requests : filing[r].pc = "creating"}
Ceiling == ListLimit + Cardinality(Requests) - 1

\* The lists there are and the requests that have counted them: what is inductive.
ListsCounted == Within(lists, Creating, Ceiling)

LEMMA CeilingIs == W!Configured => Ceiling \in Int /\ IsFiniteSet(Requests) /\ ListLimit \in Nat
  BY CountingLists, FS_CardinalityType DEF W!Configured, Ceiling

LEMMA CountedInit == W!Configured /\ W!Init => ListsCounted
  <1> SUFFICES ASSUME W!Configured, W!Init PROVE ListsCounted
    OBVIOUS
  <1>1. Creating = {}
    BY FreeTyped DEF Creating, W!Init
  <1>2. IsFiniteSet(lists) /\ Cardinality(lists) = 1
    BY FS_Singleton DEF W!Init
  <1>3. IsFiniteSet({}) /\ Cardinality({}) = 0
    BY FS_EmptySet
  <1>4. Cardinality(Requests) \in Nat /\ Cardinality(Requests) # 0 /\ ListLimit \in Nat \ {0}
    BY CountingLists, FS_CardinalityType, FS_EmptySet DEF W!Configured
  <1> QED
    BY <1>1, <1>2, <1>3, <1>4 DEF ListsCounted, Within, Ceiling

LEMMA CountedFewer ==
    ASSUME W!Configured, ListsCounted, lists' \subseteq lists, Creating' \subseteq Creating
    PROVE  ListsCounted'
  BY CeilingIs, WithinFewer DEF ListsCounted

LEMMA CountListsCounted ==
    ASSUME W!Configured, W!ListsTypeOK, ListsCounted, NEW r \in Requests, W!CountLists(r)
    PROVE  ListsCounted'
  <1>1. Cardinality(lists) < ListLimit /\ lists' = lists
    BY CountingLists DEF W!CountLists, W!Room
  <1>2. IsFiniteSet(lists)
    BY DEF ListsCounted, Within
  <1>3. Creating' \subseteq Requests
    BY DEF Creating
  <1>4. IsFiniteSet(Requests) /\ ListLimit \in Int
    BY CeilingIs
  <1>5. Within(lists, Creating', ListLimit + Cardinality(Requests) - 1)
    BY <1>1, <1>2, <1>3, <1>4, WithinAdmitted
  <1> QED
    BY <1>1, <1>5 DEF ListsCounted, Ceiling

LEMMA CreateListCounted ==
    ASSUME W!Configured, W!ListsTypeOK, ListsCounted, NEW r \in Requests, NEW list, W!CreateList(r, list)
    PROVE  ListsCounted'
  <1>1. r \in Creating /\ lists' = lists \cup {list} /\ filing' = [filing EXCEPT ![r] = W!Free]
    BY DEF W!CreateList, Creating
  <1>2. Creating' \subseteq Creating \ {r}
    BY <1>1, FreeTyped DEF Creating, W!ListsTypeOK
  <1>3. Within(lists \cup {list}, Creating \ {r}, Ceiling)
    BY <1>1, CeilingIs, WithinEntered DEF ListsCounted
  <1>4. Within(lists', Creating', Ceiling)
    BY <1>1, <1>2, <1>3, CeilingIs, WithinFewer
  <1> QED
    BY <1>4 DEF ListsCounted, Ceiling

LEMMA OthersCounted ==
    ASSUME W!Configured, W!ListsTypeOK, ListsCounted, NEW r \in Requests,
           \/ \E op, ms, list, priority, note : W!Ask(r, op, ms, list, priority, note)
           \/ W!Read(r) \/ W!Flush(r) \/ W!Retry(r)
           \/ \E ms : W!Remove(r, ms)
           \/ \E list, reassign : W!StartDrop(r, list, reassign)
           \/ W!CheckDrop(r) \/ W!DropList(r) \/ W!Commit(r) \/ W!Abort(r)
    PROVE  ListsCounted'
  <1>1. lists' \subseteq lists
    BY DEF W!Ask, W!Read, W!Flush, W!Retry, W!Remove, W!StartDrop, W!CheckDrop, W!DropList, W!Commit, W!Abort
  <1>2. PICK x : Moves(r, x) /\ x.pc # "creating"
    <2>1. (\E op, ms, list, priority, note : W!Ask(r, op, ms, list, priority, note))
          => \E x : Moves(r, x) /\ x.pc # "creating"
      BY AskIs
    <2>2. W!Read(r) \/ W!Retry(r) => \E x : Moves(r, x) /\ x.pc # "creating"
      BY ReadMoves
    <2>3. W!Flush(r) \/ W!DropList(r) => \E x : Moves(r, x) /\ x.pc # "creating"
      BY FlushMoves, DropListMoves
    <2>4. (\E ms : W!Remove(r, ms)) \/ (\E list, reassign : W!StartDrop(r, list, reassign))
          => \E x : Moves(r, x) /\ x.pc # "creating"
      BY RemoveIs, StartDropIs
    <2>5. W!CheckDrop(r) \/ W!Commit(r) \/ W!Abort(r) => \E x : Moves(r, x) /\ x.pc # "creating"
      BY CheckDropMoves, EndMoves, FreeTyped
    <2> QED
      BY <2>1, <2>2, <2>3, <2>4, <2>5, Zenon
  <1>3. Creating' \subseteq Creating
    BY <1>2 DEF Creating, Moves
  <1> QED
    BY <1>1, <1>3, CountedFewer

LEMMA CountedStep ==
    W!Configured /\ W!ListsTypeOK /\ ListsCounted /\ [W!Next]_W!vars => ListsCounted'
  <1> SUFFICES ASSUME W!Configured, W!ListsTypeOK, ListsCounted, [W!Next]_W!vars PROVE ListsCounted'
    OBVIOUS
  <1>1. UNCHANGED W!vars => ListsCounted'
    BY DEF W!vars, ListsCounted, Creating, Ceiling
  <1>2. ASSUME NEW r \in Requests, W!CountLists(r) PROVE ListsCounted'
    BY <1>2, CountListsCounted
  <1>3. ASSUME NEW r \in Requests, NEW list \in CustomLists, W!CreateList(r, list) PROVE ListsCounted'
    BY <1>3, CreateListCounted
  <1>4. ASSUME NEW r \in Requests,
               \/ \E op, ms, list, priority, note : W!Ask(r, op, ms, list, priority, note)
               \/ W!Read(r) \/ W!Flush(r) \/ W!Retry(r)
               \/ \E ms : W!Remove(r, ms)
               \/ \E list, reassign : W!StartDrop(r, list, reassign)
               \/ W!CheckDrop(r) \/ W!DropList(r) \/ W!Commit(r) \/ W!Abort(r)
        PROVE  ListsCounted'
    BY <1>4, OthersCounted
  <1>5. ASSUME NEW r \in Requests, NEW list, W!EmptyList(r, list) PROVE ListsCounted'
    BY <1>4, <1>5, Zenon DEF W!EmptyList
  <1> QED
    BY <1>1, <1>2, <1>3, <1>4, <1>5, Zenon DEF W!Next

\* However many requests create lists at once, the limit is passed by no more than those
\* that count before one of them inserts (create_tag), whatever is deleted meanwhile.
THEOREM ListLimitHolds == W!Spec => []ListsBounded
  <1>1. W!Init => W!ListsTypeOK /\ ListsCounted
    BY ListsInit, CountedInit, PersonalAssumption
  <1>2. W!ListsTypeOK /\ ListsCounted /\ [W!Next]_W!vars => (W!ListsTypeOK /\ ListsCounted)'
    BY ListsTypeStep, CountedStep, PersonalAssumption
  <1>3. ListsCounted => ListsBounded
    <2> SUFFICES ASSUME ListsCounted PROVE ListsBounded
      OBVIOUS
    <2>1. Cardinality(lists) <= Ceiling
      BY CeilingIs, PersonalAssumption, WithinLimit DEF ListsCounted
    <2> QED
      BY <2>1, CountingLists DEF ListsBounded, W!ListsBounded, Ceiling
  <1> QED
    BY <1>1, <1>2, <1>3, PTL DEF W!Spec

-----------------------------------------------------------------------------
(* The watch list: whose note an entry has *)

\* Who has not flushed holds no row.
FlushLocks == \A r \in Requests : filing[r].pc \in {"reading", "writing"} => W!Written(r) = {}

\* No two requests hold the same.
SoleHolders == \A r \in Requests : \A s \in Requests \ {r} : W!Written(r) \cap W!Written(s) = {}

\* What a request is about to write over an entry keeps its note, or is the note that it
\* was given for this one.
OwnNote(x, m) == x.note = x.put[m].note /\ m = W!NoteTarget(x.ms)
NotesGiven == \A r \in Requests : \A m \in DOMAIN filing[r].put \cap DOMAIN entries :
    filing[r].put[m].note = entries[m].note \/ OwnNote(filing[r], m)

\* What is inductive.
NotesInv == FlushLocks /\ SoleHolders /\ NotesGiven

Holding(x) == DOMAIN x.put \cup x.gone

LEMMA NotesInit == W!Init => NotesInv
  <1> SUFFICES ASSUME W!Init PROVE NotesInv
    OBVIOUS
  <1>1. \A r \in Requests : filing[r] = W!Free
    BY DEF W!Init
  <1>2. \A r \in Requests : W!Written(r) = {} /\ DOMAIN filing[r].put = {}
    BY <1>1, FreeTyped, NoRows DEF W!Written
  <1> QED
    BY <1>2 DEF NotesInv, FlushLocks, SoleHolders, NotesGiven

\* A step that writes no entry keeps the invariant, if its request takes only what the
\* others do not hold, and plans no note but its own.
LEMMA NotesMove ==
    ASSUME NotesInv, NEW r \in Requests, NEW x, Moves(r, x), entries' = entries,
           x.pc \in {"reading", "writing"} => Holding(x) = {},
           \A s \in Requests \ {r} : W!Written(s) \cap Holding(x) = {},
           \A m \in DOMAIN x.put \cap DOMAIN entries : x.put[m].note = entries[m].note \/ OwnNote(x, m)
    PROVE  NotesInv'
  <1>1. filing'[r] = x /\ \A s \in Requests \ {r} : filing'[s] = filing[s]
    BY DEF Moves
  <1>2. W!Written(r)' = Holding(x) /\ \A s \in Requests \ {r} : W!Written(s)' = W!Written(s)
    BY <1>1 DEF W!Written, Holding
  <1>3. FlushLocks'
    BY <1>1, <1>2 DEF NotesInv, FlushLocks
  <1>4. SoleHolders'
    BY <1>2 DEF NotesInv, SoleHolders
  <1>5. NotesGiven'
    BY <1>1 DEF NotesInv, NotesGiven, OwnNote
  <1> QED
    BY <1>3, <1>4, <1>5 DEF NotesInv

\* A request that holds nothing, or what it held.
LEMMA NotesNone ==
    ASSUME NotesInv, NEW r \in Requests, NEW x, Moves(r, x), entries' = entries,
           x.put = <<>>, x.gone = {}
    PROVE  NotesInv'
  <1>1. Holding(x) = {} /\ DOMAIN x.put = {}
    BY NoRows DEF Holding
  <1> QED
    BY <1>1, NotesMove

LEMMA NotesSame ==
    ASSUME NotesInv, NEW r \in Requests, NEW x, Moves(r, x), entries' = entries,
           x.put = filing[r].put, x.gone = filing[r].gone, x.note = filing[r].note, x.ms = filing[r].ms,
           x.pc \in {"reading", "writing"} => filing[r].pc \in {"reading", "writing"}
    PROVE  NotesInv'
  <1>1. Holding(x) = W!Written(r)
    BY DEF Holding, W!Written
  <1>2. \A m \in DOMAIN x.put \cap DOMAIN entries : x.put[m].note = entries[m].note \/ OwnNote(x, m)
    BY DEF NotesInv, NotesGiven, OwnNote
  <1>3. x.pc \in {"reading", "writing"} => Holding(x) = {}
    BY <1>1 DEF NotesInv, FlushLocks
  <1>4. \A s \in Requests \ {r} : W!Written(s) \cap Holding(x) = {}
    BY <1>1 DEF NotesInv, SoleHolders
  <1> QED
    BY <1>2, <1>3, <1>4, NotesMove

LEMMA FlushNotes ==
    ASSUME W!Configured, W!ListsTypeOK, NotesInv, NEW r \in Requests, W!Flush(r)
    PROVE  NotesInv'
  <1>1. PICK x : /\ Moves(r, x) /\ x.pc = "committing" /\ x.put = Flushing(r) /\ x.gone = filing[r].gone
                 /\ x.note = filing[r].note /\ x.ms = filing[r].ms
    BY FlushMoves
  <1>2. filing[r].gone = {}
    BY FlushIs DEF NotesInv, FlushLocks, W!Written
  <1>3. DOMAIN x.put = Fresh(r) \cup Dirty(r)
    BY <1>1 DEF Flushing
  <1>4. Holding(x) = Fresh(r) \cup Dirty(r)
    BY <1>1, <1>2, <1>3 DEF Holding
  <1>5. \A s \in Requests \ {r} : W!Written(s) \cap Holding(x) = {}
    BY <1>4, FlushIs
  <1>6. ASSUME NEW m \in DOMAIN x.put \cap DOMAIN entries
        PROVE  x.put[m].note = entries[m].note \/ OwnNote(x, m)
    <2>1. m \in Dirty(r) /\ m \notin Fresh(r)
      BY <1>3, <1>6, FlushIs
    <2>2. x.put[m] = Mixed(r, m)
      BY <1>1, <2>1 DEF Flushing
    <2>3. Mixed(r, m).note = IF "note" \in W!Changed(r, m) THEN W!Wanted(r, m).note ELSE entries[m].note
      BY DEF Mixed
    <2>4. CASE "note" \notin W!Changed(r, m)
      BY <2>2, <2>3, <2>4
    <2>5. CASE "note" \in W!Changed(r, m)
      <3>1. W!Wanted(r, m).note # filing[r].seen[m].note
        BY <2>5 DEF W!Changed
      <3>2. W!Wanted(r, m).note = W!NoteFor(r, m)
        BY DEF W!Wanted
      <3>3. m \in DOMAIN filing[r].seen
        BY <2>1 DEF Fresh, Dirty
      <3>4. W!NoteFor(r, m) = filing[r].note /\ m = W!NoteTarget(filing[r].ms)
        BY <3>1, <3>2, <3>3 DEF W!NoteFor
      <3> QED
        BY <1>1, <2>2, <2>3, <2>5, <3>2, <3>4 DEF OwnNote
    <2> QED
      BY <2>4, <2>5
  <1>7. entries' = entries
    BY FlushIs
  <1> QED
    BY <1>1, <1>5, <1>6, <1>7, NotesMove

LEMMA StartDropNotes ==
    ASSUME W!ListsTypeOK, NotesInv, NEW r \in Requests, NEW list, NEW reassign, W!StartDrop(r, list, reassign)
    PROVE  NotesInv'
  <1>1. PICK x : /\ Moves(r, x) /\ x.pc = "checking"
                 /\ DOMAIN x.put \cup x.gone \subseteq W!FiledOn(list)
                 /\ \A m \in DOMAIN x.put : x.put[m].note = entries[m].note
    BY StartDropIs
  <1>2. \A s \in Requests \ {r} : W!Written(s) \cap Holding(x) = {}
    BY <1>1, StartDropIs DEF Holding
  <1> QED
    BY <1>1, <1>2, StartDropIs, NotesMove

LEMMA DropListNotes ==
    ASSUME W!ListsTypeOK, NotesInv, NEW r \in Requests, W!DropList(r)
    PROVE  NotesInv'
  <1>1. PICK x : /\ Moves(r, x) /\ x.pc = "committing" /\ x.put = filing[r].put
                 /\ x.gone = filing[r].gone \cup Stragglers(r)
                 /\ x.note = filing[r].note /\ x.ms = filing[r].ms
    BY DropListMoves
  <1>2. Holding(x) = W!Written(r) \cup Stragglers(r)
    BY <1>1 DEF Holding, W!Written
  <1>3. \A s \in Requests \ {r} : W!Written(s) \cap Holding(x) = {}
    BY <1>2, DropListIs DEF NotesInv, SoleHolders
  <1>4. \A m \in DOMAIN x.put \cap DOMAIN entries : x.put[m].note = entries[m].note \/ OwnNote(x, m)
    BY <1>1 DEF NotesInv, NotesGiven, OwnNote
  <1> QED
    BY <1>1, <1>3, <1>4, DropListIs, NotesMove

\* What a commit does to the entry of a media.
LEMMA CommitEntries ==
    ASSUME NEW r, W!Commit(r), NEW m \in DOMAIN entries'
    PROVE  /\ m \in DOMAIN filing[r].put => entries'[m] = filing[r].put[m]
           /\ m \notin DOMAIN filing[r].put => m \in DOMAIN entries /\ entries'[m] = entries[m]
  BY DEF W!Commit

LEMMA CommitNotes ==
    ASSUME W!ListsTypeOK, NotesInv, NEW r \in Requests, W!Commit(r)
    PROVE  NotesInv'
  <1>1. filing'[r] = W!Free /\ \A s \in Requests \ {r} : filing'[s] = filing[s]
    BY EndMoves DEF Moves
  <1>2. W!Written(r)' = {} /\ \A s \in Requests \ {r} : W!Written(s)' = W!Written(s)
    BY <1>1, FreeTyped, NoRows DEF W!Written
  <1>3. FlushLocks'
    BY <1>1, <1>2 DEF NotesInv, FlushLocks
  <1>4. SoleHolders'
    BY <1>2 DEF NotesInv, SoleHolders
  <1>5. ASSUME NEW s \in Requests, NEW m \in DOMAIN filing'[s].put \cap DOMAIN entries'
        PROVE  filing'[s].put[m].note = entries'[m].note \/ OwnNote(filing'[s], m)
    <2>1. s # r
      BY <1>1, <1>5, FreeTyped, NoRows
    <2>2. filing'[s] = filing[s] /\ m \in W!Written(s)
      BY <1>1, <1>5, <2>1 DEF W!Written
    <2>3. m \notin DOMAIN filing[r].put
      BY <2>1, <2>2 DEF NotesInv, SoleHolders, W!Written
    <2>4. m \in DOMAIN entries /\ entries'[m] = entries[m]
      BY <1>5, <2>3, CommitEntries
    <2> QED
      BY <1>5, <2>2, <2>4 DEF NotesInv, NotesGiven
  <1>6. NotesGiven'
    BY <1>5 DEF NotesGiven, OwnNote
  <1> QED
    BY <1>3, <1>4, <1>6 DEF NotesInv

LEMMA NotesStep ==
    W!Configured /\ W!ListsTypeOK /\ NotesInv /\ [W!Next]_W!vars => NotesInv'
  <1> SUFFICES ASSUME W!Configured, W!ListsTypeOK, NotesInv, [W!Next]_W!vars PROVE NotesInv'
    OBVIOUS
  <1>1. UNCHANGED W!vars => NotesInv'
    BY DEF W!vars, NotesInv, FlushLocks, SoleHolders, NotesGiven, OwnNote, W!Written
  <1>2. ASSUME NEW r \in Requests, NEW op, NEW ms, NEW list, NEW priority, NEW note,
               W!Ask(r, op, ms, list, priority, note)
        PROVE  NotesInv'
    BY <1>2, AskIs, NotesNone
  <1>3. ASSUME NEW r \in Requests, W!Read(r) \/ W!Retry(r) PROVE NotesInv'
    BY <1>3, ReadMoves, NotesSame
  <1>4. ASSUME NEW r \in Requests, W!Flush(r) PROVE NotesInv'
    BY <1>4, FlushNotes
  <1>5. ASSUME NEW r \in Requests, NEW ms, W!Remove(r, ms) PROVE NotesInv'
    <2>1. PICK x : Moves(r, x) /\ x.pc = "committing" /\ x.put = <<>> /\ x.gone = ms
      BY <1>5, RemoveIs
    <2>2. Holding(x) = ms /\ DOMAIN x.put = {}
      BY <2>1, NoRows DEF Holding
    <2> QED
      BY <1>5, <2>1, <2>2, RemoveIs, NotesMove
  <1>6. ASSUME NEW r \in Requests, NEW list, W!EmptyList(r, list) PROVE NotesInv'
    BY <1>5, <1>6, Zenon DEF W!EmptyList
  <1>7. ASSUME NEW r \in Requests, W!CountLists(r) PROVE NotesInv'
    BY <1>7, CountListsIs, NotesNone
  <1>8. ASSUME NEW r \in Requests, W!Abort(r) \/ \E list : W!CreateList(r, list) PROVE NotesInv'
    <2>1. Moves(r, W!Free) /\ entries' = entries
      BY <1>8, EndMoves DEF W!Abort, W!CreateList
    <2> QED
      BY <2>1, FreeTyped, NotesNone
  <1>9. ASSUME NEW r \in Requests, NEW list, NEW reassign, W!StartDrop(r, list, reassign) PROVE NotesInv'
    BY <1>9, StartDropNotes
  <1>10. ASSUME NEW r \in Requests, W!CheckDrop(r) PROVE NotesInv'
    <2>1. CASE Moves(r, W!Free)
      BY <1>10, <2>1, CheckDropMoves, FreeTyped, NotesNone
    <2>2. CASE \E x : /\ Moves(r, x) /\ x.pc = "dropping"
                      /\ x.put = filing[r].put /\ x.gone = filing[r].gone
                      /\ x.note = filing[r].note /\ x.ms = filing[r].ms
      BY <1>10, <2>2, CheckDropMoves, NotesSame
    <2> QED
      BY <1>10, <2>1, <2>2, CheckDropMoves
  <1>11. ASSUME NEW r \in Requests, W!DropList(r) PROVE NotesInv'
    BY <1>11, DropListNotes
  <1>12. ASSUME NEW r \in Requests, W!Commit(r) PROVE NotesInv'
    BY <1>12, CommitNotes
  <1> QED
    BY <1>1, <1>2, <1>3, <1>4, <1>5, <1>6, <1>7, <1>8, <1>9, <1>10, <1>11, <1>12, Zenon DEF W!Next

Renoted(m) == entries'[m].note # entries[m].note =>
    \E r \in Requests : /\ filing[r].pc = "committing"
                        /\ filing[r].note = entries'[m].note
                        /\ m = W!NoteTarget(filing[r].ms)

LEMMA NotesKeptStep ==
    ASSUME W!ListsTypeOK, NotesInv, [W!Next]_W!vars, NEW m \in DOMAIN entries \cap DOMAIN entries'
    PROVE  Renoted(m)
  <1>1. entries' = entries => Renoted(m)
    BY DEF Renoted
  <1>2. ASSUME NEW r \in Requests, W!Commit(r) PROVE Renoted(m)
    <2>1. filing[r].pc = "committing"
      BY <1>2 DEF W!Commit
    <2>2. m \in DOMAIN filing[r].put => entries'[m] = filing[r].put[m]
      BY <1>2, CommitEntries
    <2>3. m \notin DOMAIN filing[r].put => entries'[m] = entries[m]
      BY <1>2, CommitEntries
    <2> QED
      BY <2>1, <2>2, <2>3 DEF NotesInv, NotesGiven, OwnNote, Renoted
  <1>3. ASSUME NEW r \in Requests,
               \/ \E op, ms, list, priority, note : W!Ask(r, op, ms, list, priority, note)
               \/ W!Read(r) \/ W!Flush(r) \/ W!Retry(r)
               \/ \E ms : W!Remove(r, ms)
               \/ \E list : W!EmptyList(r, list)
               \/ W!CountLists(r)
               \/ \E list : W!CreateList(r, list)
               \/ \E list, reassign : W!StartDrop(r, list, reassign)
               \/ W!CheckDrop(r) \/ W!DropList(r) \/ W!Abort(r)
        PROVE  entries' = entries
    BY <1>3 DEF W!Ask, W!Read, W!Flush, W!Retry, W!Remove, W!EmptyList, W!CountLists, W!CreateList,
                W!StartDrop, W!CheckDrop, W!DropList, W!Abort
  <1>4. UNCHANGED W!vars => entries' = entries
    BY DEF W!vars
  <1> QED
    BY <1>1, <1>2, <1>3, <1>4, Zenon DEF W!Next

\* However the requests of a user overlap, and whatever they had read, an entry's note
\* changes only to what a request gave for that very entry: an entry that a bulk request
\* only files elsewhere keeps a note written meanwhile, since the flush writes the columns
\* that differ and holds the rows until it commits (bulk_upsert_watchlist).
THEOREM NotesAreOwn == W!Spec => NotesKept
  <1>1. W!Init => W!ListsTypeOK /\ NotesInv
    BY ListsInit, NotesInit, PersonalAssumption
  <1>2. W!ListsTypeOK /\ NotesInv /\ [W!Next]_W!vars => (W!ListsTypeOK /\ NotesInv)'
    BY ListsTypeStep, NotesStep, PersonalAssumption
  <1>3. W!ListsTypeOK /\ NotesInv /\ [W!Next]_W!vars
        => [\A m \in DOMAIN entries \cap DOMAIN entries' :
               entries'[m].note # entries[m].note =>
                   \E r \in Requests : /\ filing[r].pc = "committing"
                                       /\ filing[r].note = entries'[m].note
                                       /\ m = W!NoteTarget(filing[r].ms)]_entries
    BY NotesKeptStep DEF Renoted
  <1> QED
    BY <1>1, <1>2, <1>3, PTL DEF W!Spec, NotesKept, W!NotesKept
=============================================================================
