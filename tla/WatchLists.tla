----------------------------- MODULE WatchLists -----------------------------
(***************************************************************************)
(* One user's watch list: entries, at most one per media, each filed on    *)
(* one of the user's lists (the table is `tag`), written by requests that  *)
(* overlap (services/watchlist_service.py, services/tag_service.py).       *)
(*                                                                         *)
(* Every request is one transaction at READ COMMITTED.  The session writes *)
(* a row it has loaded by its changed columns only; inserting an entry, or *)
(* filing one elsewhere, shares a lock on the list that deleting the list  *)
(* has to wait for.                                                        *)
(***************************************************************************)
EXTENDS Integers, Sequences, FiniteSets

CONSTANTS
    Order,          \* the anime's media, in chronological order
    Mains,          \* those of relation "main"
    Default,        \* the user's default list
    CustomLists,    \* the others there may be; a deleted one does not come back
    Notes,          \* what a note may say
    Keep,           \* the note of a bulk request that names none
    Requests,       \* the requests in flight at once
    ListLimit,      \* TAGS_PER_USER_LIMIT
    MaxRequests     \* bound: how many requests are made

VARIABLES
    lists,          \* the user's lists
    unborn,         \* the lists not created yet
    entries,        \* the watchlist rows, by media
    req,            \* what each request has read and not yet committed
    requests        \* how many requests have been made

vars == <<lists, unborn, entries, req, requests>>

Media == {Order[i] : i \in DOMAIN Order}
Priorities == {1, 3}
Free == [pc |-> "idle", op |-> "none", ms |-> {}, list |-> Default, priority |-> 3, note |-> Keep,
         retried |-> FALSE, seen |-> <<>>, put |-> <<>>, gone |-> {}]
Others(r) == Requests \ {r}
FiledOn(list) == {m \in DOMAIN entries : entries[m].list = list}

\* select_note_target_index(latest=False): the first main of the selection, or
\* the first of it.
NoteTarget(ms) ==
    LET pool == IF ms \cap Mains # {} THEN ms \cap Mains ELSE ms
        first == CHOOSE i \in DOMAIN Order : Order[i] \in pool /\ \A j \in 1 .. i - 1 : Order[j] \notin pool
    IN Order[first]

-----------------------------------------------------------------------------
(* Entries *)

\* A request resolves its media and its list, or answers 404.
Ask(r, op, ms, list, priority, note) ==
    /\ req[r].pc = "idle" /\ requests < MaxRequests
    /\ ms # {} /\ list \in lists
    /\ op = "put" => Cardinality(ms) = 1 /\ note # Keep
    /\ requests' = requests + 1
    /\ req' = [req EXCEPT ![r] = [Free EXCEPT !.pc = "reading", !.op = op, !.ms = ms, !.list = list,
                                              !.priority = priority, !.note = note]]
    /\ UNCHANGED <<lists, unborn, entries>>

Read(r) ==
    /\ req[r].pc = "reading"
    /\ req' = [req EXCEPT ![r].pc = "writing",
                          ![r].seen = [m \in req[r].ms \cap DOMAIN entries |-> entries[m]]]
    /\ UNCHANGED <<lists, unborn, entries, requests>>

\* The note an entry gets: a single request's own; of a bulk one, the target's,
\* and else the one the entry had.
NoteFor(r, m) ==
    IF req[r].note # Keep /\ m = NoteTarget(req[r].ms) THEN req[r].note
    ELSE IF m \in DOMAIN req[r].seen THEN req[r].seen[m].note
    ELSE "none"

Wanted(r, m) == [list |-> req[r].list, priority |-> req[r].priority, note |-> NoteFor(r, m)]

\* A mutant: the flush writes every column.
EveryColumn(r, m) == {c \in {"list", "priority", "note"} : Wanted(r, m)[c] = Wanted(r, m)[c]}

\* The columns of a loaded entry that the flush writes.
Changed(r, m) == {c \in {"list", "priority", "note"} : Wanted(r, m)[c] # req[r].seen[m][c]}

Written(q) == DOMAIN req[q].put \cup req[q].gone
Dropping(q) == req[q].op \in {"move", "drop"} /\ req[q].pc = "committing"

\* The flush, once no row it writes is locked and nobody is deleting the list.
Flush(r) ==
    LET fresh == req[r].ms \ DOMAIN req[r].seen
        dirty == {m \in req[r].ms \ fresh : Changed(r, m) # {}}
    IN /\ req[r].pc = "writing"
       /\ \A q \in Others(r) : Written(q) \cap (fresh \cup dirty) = {} /\ ~(Dropping(q) /\ req[q].list = req[r].list)
       /\ req[r].list \in lists \/ fresh \cup dirty = {}
       /\ dirty \subseteq DOMAIN entries
       /\ fresh \cap DOMAIN entries = {}
       /\ req' = [req EXCEPT
            ![r].pc = "committing",
            ![r].put = [m \in fresh \cup dirty |->
                IF m \in fresh THEN Wanted(r, m)
                ELSE [c \in {"list", "priority", "note"} |->
                        IF c \in Changed(r, m) THEN Wanted(r, m)[c] ELSE entries[m][c]]]]
       /\ UNCHANGED <<lists, unborn, entries, requests>>

\* The unique key: another request has inserted the entry since.  Rolled back,
\* the request reads again and updates; a single one needs the row to be there.
Retry(r) ==
    /\ req[r].pc = "writing" /\ ~req[r].retried
    /\ (req[r].ms \ DOMAIN req[r].seen) \cap DOMAIN entries # {}
    /\ req' = [req EXCEPT ![r].retried = TRUE, ![r].pc = "reading"]
    /\ UNCHANGED <<lists, unborn, entries, requests>>

\* DELETE of the rows there are, by media or by list.
Remove(r, ms) ==
    /\ req[r].pc = "idle" /\ requests < MaxRequests
    /\ ms # {} /\ ms \subseteq DOMAIN entries
    /\ \A q \in Others(r) : Written(q) \cap ms = {}
    /\ requests' = requests + 1
    /\ req' = [req EXCEPT ![r] = [Free EXCEPT !.pc = "committing", !.op = "remove", !.gone = ms]]
    /\ UNCHANGED <<lists, unborn, entries>>

EmptyList(r, list) == list \in lists /\ Remove(r, FiledOn(list))

-----------------------------------------------------------------------------
(* Lists *)

\* A mutant: the limit is off by one.
RoomLoose == Cardinality(lists) <= ListLimit
Room == Cardinality(lists) < ListLimit

CountLists(r) ==
    /\ req[r].pc = "idle" /\ requests < MaxRequests
    /\ Room
    /\ requests' = requests + 1
    /\ req' = [req EXCEPT ![r] = [Free EXCEPT !.pc = "creating", !.op = "create"]]
    /\ UNCHANGED <<lists, unborn, entries>>

CreateList(r, list) ==
    /\ req[r].pc = "creating"
    /\ list \in unborn
    /\ lists' = lists \cup {list}
    /\ unborn' = unborn \ {list}
    /\ req' = [req EXCEPT ![r] = Free]
    /\ UNCHANGED <<entries, requests>>

\* delete_tag moves the entries to the default list, or deletes them ...
StartDrop(r, list, reassign) ==
    LET filed == FiledOn(list)
    IN /\ req[r].pc = "idle" /\ requests < MaxRequests
       /\ list \in lists \ {Default}
       /\ \A q \in Others(r) : Written(q) \cap filed = {}
       /\ requests' = requests + 1
       /\ req' = [req EXCEPT ![r] = [Free EXCEPT
            !.pc = "checking", !.op = IF reassign THEN "move" ELSE "drop", !.list = list,
            !.put = IF reassign THEN [m \in filed |-> [entries[m] EXCEPT !.list = Default]] ELSE <<>>,
            !.gone = IF reassign THEN {} ELSE filed]]
       /\ UNCHANGED <<lists, unborn, entries>>

\* ... and the session, about to delete the list, loads what is still filed on
\* it: it would clear their column, which is not nullable, and the request fails.
CheckDrop(r) ==
    /\ req[r].pc = "checking"
    /\ req' = [req EXCEPT ![r] = IF FiledOn(req[r].list) \subseteq Written(r)
                                 THEN [req[r] EXCEPT !.pc = "dropping"] ELSE Free]
    /\ UNCHANGED <<lists, unborn, entries, requests>>

\* DELETE of the list waits for whoever is filing an entry on it, and takes the
\* entries filed by then along (ON DELETE CASCADE).
DropList(r) ==
    /\ req[r].pc = "dropping"
    /\ \A q \in Others(r) : \A m \in DOMAIN req[q].put : req[q].put[m].list # req[r].list
    /\ LET followed == FiledOn(req[r].list) \ Written(r)
       IN /\ \A q \in Others(r) : Written(q) \cap followed = {}
          /\ req' = [req EXCEPT ![r].pc = "committing", ![r].gone = @ \cup followed]
    /\ UNCHANGED <<lists, unborn, entries, requests>>

-----------------------------------------------------------------------------
(* The end of a request *)

Commit(r) ==
    /\ req[r].pc = "committing"
    /\ entries' = [m \in (DOMAIN entries \cup DOMAIN req[r].put) \ req[r].gone |->
                     IF m \in DOMAIN req[r].put THEN req[r].put[m] ELSE entries[m]]
    /\ lists' = IF Dropping(r) THEN lists \ {req[r].list} ELSE lists
    /\ req' = [req EXCEPT ![r] = Free]
    /\ UNCHANGED <<unborn, requests>>

\* A key that fails, a row that has gone, a client that disconnects.
Abort(r) ==
    /\ req[r].pc # "idle"
    /\ req' = [req EXCEPT ![r] = Free]
    /\ UNCHANGED <<lists, unborn, entries, requests>>

Init ==
    /\ lists = {Default}
    /\ unborn = CustomLists
    /\ entries = <<>>
    /\ req = [r \in Requests |-> Free]
    /\ requests = 0

Next == \E r \in Requests :
    \/ \E op \in {"put", "bulk"}, ms \in SUBSET Media, list \in lists, priority \in Priorities,
          note \in Notes \cup {Keep} : Ask(r, op, ms, list, priority, note)
    \/ Read(r) \/ Flush(r) \/ Retry(r)
    \/ \E ms \in SUBSET Media : Remove(r, ms)
    \/ \E list \in lists : EmptyList(r, list)
    \/ CountLists(r)
    \/ \E list \in CustomLists : CreateList(r, list)
    \/ \E list \in lists, reassign \in BOOLEAN : StartDrop(r, list, reassign)
    \/ CheckDrop(r) \/ DropList(r) \/ Commit(r) \/ Abort(r)

Spec == Init /\ [][Next]_vars

-----------------------------------------------------------------------------
Configured ==
    /\ ListLimit \in Nat \ {0} /\ MaxRequests \in Nat
    /\ IsFiniteSet(Requests) /\ Requests # {} /\ IsFiniteSet(CustomLists)
    /\ "none" \in Notes

Lists == CustomLists \cup {Default}
\* The rows that a request may read or write at once, by media.
Rows == UNION {[ms -> [list : Lists, priority : Priorities, note : Notes]] : ms \in SUBSET Media}

ListsTypeOK ==
    /\ lists \subseteq Lists /\ unborn \subseteq CustomLists
    /\ entries \in Rows
    /\ requests \in 0 .. MaxRequests
    /\ req \in [Requests ->
         [pc : {"idle", "reading", "writing", "creating", "checking", "dropping", "committing"},
          op : {"none", "put", "bulk", "remove", "create", "move", "drop"},
          ms : SUBSET Media, list : Lists, priority : Priorities, note : Notes \cup {Keep},
          retried : BOOLEAN, seen : Rows, put : Rows, gone : SUBSET Media]]

\* The limit on lists is passed by no more than the requests that counted together:
\* create_tag counts, and inserts later.
ListsBounded == Cardinality(lists) <= ListLimit + Cardinality(Requests) - 1

\* An entry's note changes only to what a request gave for that very entry: the one
\* it was about, or of a bulk request its earliest main story (bulk_upsert_watchlist:
\* "Every other entry keeps whatever note it already had"), whatever it had read.
NotesKept == [][\A m \in DOMAIN entries \cap DOMAIN entries' :
    entries'[m].note # entries[m].note =>
        \E r \in Requests : /\ req[r].pc = "committing"
                            /\ req[r].note = entries'[m].note
                            /\ m = NoteTarget(req[r].ms)]_entries
=============================================================================
