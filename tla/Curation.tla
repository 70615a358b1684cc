------------------------------ MODULE Curation ------------------------------
(***************************************************************************)
(* The merge and split queues (services/merge_candidate_service.py,          *)
(* split_candidate_service.py, merge_detection_service.py and their DAOs,    *)
(* seeders/split_candidate_backfiller.py, anime_relation_service.py): what   *)
(* an admin's decision does to the catalogue while other decisions and       *)
(* detections are under way.                                                 *)
(*                                                                         *)
(* A request is a transaction at READ COMMITTED: a statement sees what is    *)
(* committed and the transaction's own writes, which `req` keeps until they  *)
(* are, and waits for the row locks of others.  Foreign keys lock too: a     *)
(* media put under an anime holds that anime's row in KEY SHARE, which its   *)
(* deletion, and a change of its unique mal_id, wait for.  A request that    *)
(* waits for ever is one PostgreSQL or the client ends: it aborts.           *)
(***************************************************************************)
EXTENDS RelationClassifier, SequencesExt

CONSTANTS
    Starts,         \* the catalogues to start from, and who works on each
    Resembles,      \* pairs of media whose titles and studios are alike
    Changes,        \* what a sweep may find changed on MAL: of a media, its entry and relations
    MaxAnime        \* bound: how many anime there ever are

Anime == 1 .. MaxAnime
Gone == 0           \* no anime: of a media deleted, of an umbrella deleted or not yet made
Decisions == {"merge", "split", "dismiss", "forget"}

\* A row of either queue: a pair of anime, or the franchises found under one.
IsRow(c) ==
    /\ c = [queue |-> c.queue, anime |-> c.anime, clusters |-> c.clusters, status |-> c.status]
    /\ c.status \in {"pending", "dismissed", "split", "gone"}
    /\ \/ c.queue = "merge" /\ c.anime \subseteq Anime /\ Cardinality(c.anime) = 2 /\ c.clusters = {}
       \/ c.queue = "split" /\ \E a \in Anime : c.anime = {a}

\* What two rows may not both say: neither is gone, and they are for the same decision.
Signature(fs) == {f.members : f \in fs}
Same(c, d) ==
    /\ c.queue = d.queue /\ c.anime = d.anime /\ Signature(c.clusters) = Signature(d.clusters)
    /\ c.status # "gone" /\ d.status # "gone"

\* The rows of a start are those the unique index and the detectors leave.
ASSUME CurationAssumption ==
    /\ MaxAnime \in Nat
    /\ \A s \in Starts : /\ DOMAIN s.home = DOMAIN s.show /\ \A m \in DOMAIN s.home : s.home[m] \in Anime
                         /\ s.ops \subseteq Decisions \cup {"bundles", "pairs", "refresh"}
                         /\ s.rows \in Seq({s.rows[i] : i \in DOMAIN s.rows})
                         /\ \A i \in DOMAIN s.rows : IsRow(s.rows[i])
                         /\ \A i, j \in DOMAIN s.rows : Same(s.rows[i], s.rows[j]) => i = j

VARIABLES
    home,           \* media.anime_id, by mal_id
    umbrella,       \* anime.mal_id
    relation,       \* media.relation_type
    show,           \* the other columns of media
    edges,          \* the relation_edges side-cars
    rows,           \* merge_candidates and split_candidates, in the order of the commits
    made,           \* how many anime ids the sequence has given out
    req,            \* the transactions under way
    left,           \* bound: how many requests can still be made
    ops,            \* which
    decided         \* history: the decisions that were committed, in order

vars == <<home, umbrella, relation, show, edges, rows, made, req, left, ops, decided>>
catalogue == <<home, umbrella, relation, show, edges, rows, made>>

\* What a session holds of an anime it has loaded: its name, which media are under it, and
\* of every media loaded what MAL says, its label and the edges of its side-car.
Unread == [name |-> Gone, under |-> {}, media |-> <<>>, labels |-> <<>>, edges |-> {}]

Free == [pc |-> "idle", op |-> "none", row |-> 0, keep |-> Gone, drop |-> Gone,
         seen |-> Unread, moved |-> <<>>, named |-> <<>>, labels |-> <<>>, shares |-> {},
         new |-> {}, status |-> <<>>, added |-> {}, old |-> {}]

-----------------------------------------------------------------------------
(* What a transaction sees, and what it waits for *)

Home(r) == req[r].moved @@ home
Umbrella(r) == req[r].named @@ umbrella
Status(r, i) == IF i \in DOMAIN req[r].status THEN req[r].status[i] ELSE rows[i].status
MediaOf(homes, a) == {m \in DOMAIN homes : homes[m] = a}

\* A plain SELECT of an anime with its media and their side-cars: it waits for nobody, and
\* leaves what the session has loaded before as it is.
Load(seen, homes, a) ==
    LET under == MediaOf(homes, a)
        more == under \ DOMAIN seen.media
    IN  [name |-> IF seen.name = Gone THEN umbrella[a] ELSE seen.name, under |-> under,
         media |-> seen.media @@ Among(show, more), labels |-> seen.labels @@ Among(relation, more),
         edges |-> seen.edges \cup {e \in edges : e.from \in more}]

Others(r) == DOMAIN req \ {r}
RowFree(r, i) == \A q \in Others(r) : i # req[q].row /\ i \notin DOMAIN req[q].status
MediaFree(r, ms) ==
    \A q \in Others(r) : (DOMAIN req[q].moved \cup DOMAIN req[q].labels) \cap ms = {}
\* No other transaction deletes the anime or changes its mal_id ...
AnimeStays(r, a) == \A q \in Others(r) : a \notin DOMAIN req[q].named
\* ... and none holds its row in KEY SHARE either.
AnimeFree(r, a) == AnimeStays(r, a) /\ \A q \in Others(r) : a \notin req[q].shares
\* The unique index on anime.mal_id lets r name an anime m: nobody else has, or may have.
NameFree(r, a, m) ==
    /\ \A b \in Anime \ {a} : Umbrella(r)[b] # m
    /\ \A q \in Others(r) : \A b \in DOMAIN req[q].named : req[q].named[b] # m

-----------------------------------------------------------------------------
(* Detection *)

Live(i) == rows[i].status # "gone"
Pair(p) == [queue |-> "merge", anime |-> p, clusters |-> {}, status |-> "pending"]
Bundle(a, fs) == [queue |-> "split", anime |-> {a}, clusters |-> fs, status |-> "pending"]
Held(p) == \E i \in DOMAIN rows : rows[i].queue = "merge" /\ rows[i].anime = p /\ Live(i)

\* detect_merge_candidates, backfill_merge_candidates: the pairs with one of `fresh` whose
\* titles are alike, and, when the side-cars are asked too, every pair that a strong
\* relation joins; less the pairs that a row holds, whatever its status.
NewPairs(umb, homes, fresh, linked) ==
    LET named == {a \in Anime : umb[a] # Gone}
        alike == {{a, b} : a \in fresh \cap named, b \in named}
        joined == {{homes[e.from], homes[e.to]} :
                     e \in {x \in edges : x.rel \in AltChainRels /\ x.to \in DOMAIN homes}}
    IN  {p \in {q \in alike : {umb[a] : a \in q} \in Resembles}
               \cup (IF linked THEN joined ELSE {}) :
            Cardinality(p) = 2 /\ p \subseteq Anime /\ ~Held(p)}

\* The split rows of one anime as the transaction reads them.
History(r, a) ==
    {i \in DOMAIN rows : rows[i].queue = "split" /\ rows[i].anime = {a} /\ Status(r, i) # "gone"}

Bundled(nodes, links) == IF nodes = <<>> THEN {} ELSE DisjointFranchises(nodes, links)

\* Mutant of IsNews: only pending rows are compared.
IsNewsPending(r, a, fs) ==
    /\ fs # {}
    /\ \A i \in History(r, a) : Status(r, i) = "pending" => Signature(rows[i].clusters) # Signature(fs)

\* detect_split_candidates_for_anime: what is bundled under the anime is flagged, unless it
\* is one franchise or a row of any status has the same clusters.
IsNews(r, a, fs) ==
    /\ fs # {}
    /\ \A i \in History(r, a) : Signature(rows[i].clusters) # Signature(fs)

\* upsert_pending for each of the anime: a pending row with other clusters is superseded,
\* one only.  It is the oldest by the start of the transaction that made it, which the
\* order of the commits does not tell.
Open(r, a) == {i \in History(r, a) : Status(r, i) = "pending"}
Superseding(r, news) ==
    {old \in SUBSET UNION {Open(r, a) : a \in news} :
        \A a \in news : Open(r, a) # {} => Cardinality(old \cap Open(r, a)) = 1}
Inserted(found, news) == {Bundle(a, found[a]) : a \in news}

-----------------------------------------------------------------------------
(* Requests *)

\* Mutant of CanTake: the row is read without the lock.
CanTakeUnlocked(r, op, i) ==
    /\ rows[i].status = (IF op = "forget" THEN "dismissed" ELSE "pending")
    /\ op = "merge" => rows[i].queue = "merge"
    /\ op = "split" => rows[i].queue = "split"

\* get_for_resolve: the locking read waits, and the status is read after it.
CanTake(r, op, i) ==
    /\ RowFree(r, i)
    /\ rows[i].status = (IF op = "forget" THEN "dismissed" ELSE "pending")
    /\ op = "merge" => rows[i].queue = "merge"
    /\ op = "split" => rows[i].queue = "split"

Request(r, op) ==
    /\ op \in ops /\ left > 0 /\ req[r] = Free
    /\ left' = left - 1 /\ UNCHANGED <<catalogue, ops, decided>>

\* dismiss, and delete_decision of a dismissed row.
Mark(r, op, i) ==
    /\ Request(r, op) /\ op \in {"dismiss", "forget"} /\ CanTake(r, op, i)
    /\ req' = [req EXCEPT ![r] = [Free EXCEPT !.pc = "commit", !.op = op, !.row = i,
                 !.status = [j \in {i} |-> IF op = "forget" THEN "gone" ELSE "dismissed"]]]

\* merge: which of the two survives is the admin's choice.
StartMerge(r, i, keep) ==
    /\ Request(r, "merge") /\ CanTake(r, "merge", i) /\ keep \in rows[i].anime
    /\ req' = [req EXCEPT ![r] = [Free EXCEPT !.pc = "move", !.op = "merge", !.row = i,
                 !.keep = keep, !.drop = CHOOSE d \in rows[i].anime : d # keep]]

\* execute_split: the source is loaded with its media.
StartSplit(r, i) ==
    /\ Request(r, "split") /\ CanTake(r, "split", i)
    /\ LET source == CHOOSE a \in rows[i].anime : TRUE
       IN  req' = [req EXCEPT ![r] = [Free EXCEPT !.pc = "cut", !.op = "split", !.row = i,
                     !.keep = source, !.seen = Load(Unread, home, source)]]

\* UPDATE media SET anime_id: the survivor must be there, and stay.
Reparent(r) ==
    LET t == req[r]
        ms == MediaOf(home, t.drop)
    IN  /\ t.pc = "move" /\ MediaFree(r, ms)
        /\ ms # {} => AnimeStays(r, t.keep) /\ umbrella[t.keep] # Gone
        /\ req' = [req EXCEPT ![r].pc = "drop", ![r].moved = [m \in ms |-> t.keep],
                              ![r].shares = IF ms = {} THEN {} ELSE {t.keep}]
        /\ UNCHANGED <<catalogue, left, ops, decided>>

\* DELETE of the other anime.  It waits for whoever has put a media under it, and the
\* cascades then take the media that are there by now and the candidates that name it.
Drop(r) ==
    LET t == req[r]
        late == MediaOf(Home(r), t.drop)
        named == {i \in DOMAIN rows : t.drop \in rows[i].anime /\ Live(i)}
    IN  /\ t.pc = "drop" /\ umbrella[t.drop] # Gone
        /\ AnimeFree(r, t.drop) /\ MediaFree(r, late) /\ \A i \in named : RowFree(r, i)
        /\ req' = [req EXCEPT ![r].pc = "load", ![r].named = (t.drop :> Gone),
                     ![r].moved = [m \in late |-> Gone] @@ t.moved,
                     ![r].status = [i \in named |-> "gone"]]
        /\ UNCHANGED <<catalogue, left, ops, decided>>

\* The clusters of the candidate that still have media under the source.
Parts(t) == {f \in rows[t.row].clusters : f.members \cap DOMAIN t.seen.media # {}}

\* The loop of execute_split over the clusters: one that has shifted refuses them all
\* (SplitCandidateStaleError), as does an anchor another anime is named for or a media
\* deleted meanwhile.
Fresh(t, f) ==
    LET part == Among(t.seen.media, f.members)
    IN  /\ PickAnchor(part) = f.anchor
        /\ Cardinality({m \in DOMAIN part : Substantial(part[m])}) >= 2

\* The labels of a new anime come from the edges inside its cluster, as they were loaded.
PartLabels(t, f) ==
    Classify(Among(t.seen.media, f.members), {e \in t.seen.edges : e.to \in f.members})

Cut(r) ==
    LET t == req[r]
        ids == [f \in Parts(t) |-> made + Cardinality({g \in Parts(t) : g.anchor <= f.anchor})]
        members(f) == f.members \cap DOMAIN t.seen.media
        whole == UNION {members(f) : f \in Parts(t)}
        of(m) == CHOOSE f \in Parts(t) : m \in members(f)
    IN  /\ t.pc = "cut" /\ MediaFree(r, whole) /\ Gone \notin {home[m] : m \in whole}
        /\ made + Cardinality(Parts(t)) <= MaxAnime
        /\ \A f \in Parts(t) : Fresh(t, f) /\ NameFree(r, ids[f], f.anchor)
        /\ made' = made + Cardinality(Parts(t))
        /\ req' = [req EXCEPT ![r].pc = "load",
                     ![r].new = {ids[f] : f \in Parts(t)},
                     ![r].named = [a \in {ids[f] : f \in Parts(t)} |->
                                     (CHOOSE f \in Parts(t) : ids[f] = a).anchor],
                     ![r].moved = [m \in whole |-> ids[of(m)]],
                     ![r].labels = [m \in whole |-> PartLabels(t, of(m))[m]]]
        /\ UNCHANGED <<home, umbrella, relation, show, edges, rows, left, ops, decided>>

\* Mutant of Reload: a merge adds up the two lists it read before it moved anything.
ReloadLists(r) ==
    LET t == req[r]
        both == [m \in DOMAIN home |-> IF home[m] \in {t.keep, t.drop} THEN t.keep ELSE home[m]]
    IN  /\ t.pc = "load" /\ umbrella[t.keep] # Gone
        /\ req' = [req EXCEPT ![r].pc = "settle", ![r].seen =
                     Load(t.seen, IF t.op = "merge" THEN both ELSE Home(r), t.keep)]
        /\ UNCHANGED <<catalogue, left, ops, decided>>

\* The survivor, or what is left of the source, is loaded with the media under it by now:
\* the transaction's own changes and what others have committed.
Reload(r) ==
    LET t == req[r]
    IN  /\ t.pc = "load" /\ umbrella[t.keep] # Gone
        /\ req' = [req EXCEPT ![r].pc = "settle", ![r].seen = Load(t.seen, Home(r), t.keep)]
        /\ UNCHANGED <<catalogue, left, ops, decided>>

\* reclassify_anime: the media whose label differs from the one loaded, and the anchor the
\* anime is to be named for, when it is another.
Relabelled(nodes, seen) == {m \in DOMAIN nodes : Classify(nodes, seen.edges)[m] # seen.labels[m]}
Renamed(nodes, seen) == PickAnchor(nodes) # seen.name

\* Mutant of Settle: the survivor keeps its name and its media their labels.
SettleUnclassified(r) ==
    LET t == req[r]
    IN  /\ t.pc = "settle"
        /\ req' = [req EXCEPT ![r].pc = "flag"]
        /\ UNCHANGED <<catalogue, left, ops, decided>>

\* reclassify_anime of what was loaded: only its UPDATEs wait.  Then the search for bundles
\* in what was loaded and in the new anime.  (An anime without media fails an assertion
\* there; execute_split asks first.)  The embedding and the spoiler cache, which are
\* rebuilt here, are not modelled.
Settle(r) ==
    LET t == req[r]
        nodes == Among(t.seen.media, t.seen.under)
        changed == IF nodes = <<>> THEN {} ELSE Relabelled(nodes, t.seen)
        renamed == nodes # <<>> /\ Renamed(nodes, t.seen)
        part(a) == IF a = t.keep THEN nodes ELSE Among(t.seen.media, MediaOf(t.moved, a))
        found == [a \in Anime \cap ({t.keep} \cup t.new) |-> Bundled(part(a), t.seen.edges)]
        news == {a \in DOMAIN found : IsNews(r, a, found[a])}
    IN  /\ t.pc = "settle" /\ (nodes = <<>> => t.op = "split")
        /\ MediaFree(r, changed) /\ Gone \notin {home[m] : m \in changed}
        /\ renamed => AnimeFree(r, t.keep) /\ NameFree(r, t.keep, PickAnchor(nodes))
        /\ \E old \in Superseding(r, news) :
             req' = [req EXCEPT ![r].pc = "flag", ![r].old = old,
                       ![r].named = (IF renamed THEN t.keep :> PickAnchor(nodes) ELSE <<>>) @@ t.named,
                       ![r].labels = [m \in changed |-> Classify(nodes, t.seen.edges)[m]] @@ t.labels,
                       ![r].added = Inserted(found, news)]
        /\ UNCHANGED <<catalogue, left, ops, decided>>

\* The UPDATE of the rows found pending waits for whoever holds them, and does not look
\* at their status again.  A split's own row gets its status next, and its new anime are
\* compared with the others last.
Flag(r) ==
    LET t == req[r]
        own == IF t.op = "split" THEN {t.row} ELSE {}
        pairs == IF t.op = "split" THEN NewPairs(Umbrella(r), Home(r), t.new, FALSE) ELSE {}
    IN  /\ t.pc = "flag" /\ \A i \in t.old : RowFree(r, i) /\ rows[i].status # "gone"
        /\ req' = [req EXCEPT ![r].pc = "commit", ![r].old = {},
                     ![r].added = t.added \cup {Pair(p) : p \in pairs},
                     ![r].status = [i \in own \cup t.old \cup DOMAIN t.status |->
                                      IF i \in own THEN "split" ELSE IF i \in t.old THEN "dismissed"
                                      ELSE t.status[i]]]
        /\ UNCHANGED <<catalogue, left, ops, decided>>

-----------------------------------------------------------------------------
(* Detection on demand and at start-up, and what a sweep changes *)

\* backfill_split_candidates: every anime, in one transaction.
DetectBundles(r) ==
    LET found == [a \in Anime |-> Bundled(Among(show, MediaOf(home, a)), edges)]
        news == {a \in Anime : IsNews(r, a, found[a])}
    IN  /\ Request(r, "bundles") /\ news # {}
        /\ \E old \in Superseding(r, news) :
             req' = [req EXCEPT ![r] = [Free EXCEPT !.pc = "flag", !.op = "bundles", !.old = old,
                       !.added = Inserted(found, news)]]

\* backfill_merge_candidates.
DetectPairs(r) ==
    LET pairs == NewPairs(umbrella, home, Anime, TRUE)
    IN  /\ Request(r, "pairs") /\ pairs # {}
        /\ req' = [req EXCEPT ![r] = [Free EXCEPT !.pc = "commit", !.op = "pairs",
                     !.added = {Pair(p) : p \in pairs}]]

\* A sweep loads an anime ...
StartRefresh(r, a) ==
    /\ Request(r, "refresh") /\ umbrella[a] # Gone
    /\ req' = [req EXCEPT ![r] = [Free EXCEPT !.pc = "fetch", !.op = "refresh", !.keep = a,
                 !.seen = Load(Unread, home, a)]]

\* ... asks MAL, takes over what it says of a media and reclassifies the anime; it looks
\* for no bundles.
Refresh(r, c) ==
    LET t == req[r]
        seen == [t.seen EXCEPT !.edges = @ \cup c.edges]
        nodes == [t.seen.media EXCEPT ![c.of] = c.entry]
        changed == Relabelled(nodes, seen)
    IN  /\ t.pc = "fetch" /\ c.of \in DOMAIN t.seen.media
        /\ Gone \notin {home[m] : m \in changed \cup {c.of}} /\ MediaFree(r, changed \cup {c.of})
        /\ Renamed(nodes, seen) => /\ AnimeFree(r, t.keep) /\ umbrella[t.keep] # Gone
                                   /\ NameFree(r, t.keep, PickAnchor(nodes))
        /\ show' = [show EXCEPT ![c.of] = c.entry]
        /\ edges' = edges \cup c.edges
        /\ relation' = [m \in changed |-> Classify(nodes, seen.edges)[m]] @@ relation
        /\ umbrella' = IF Renamed(nodes, seen) THEN [umbrella EXCEPT ![t.keep] = PickAnchor(nodes)]
                       ELSE umbrella
        /\ req' = [req EXCEPT ![r] = Free]
        /\ UNCHANGED <<home, rows, made, left, ops, decided>>

-----------------------------------------------------------------------------
(* The end of a transaction *)

\* Rows the transaction adds; ON CONFLICT DO NOTHING for a pair that has one by now.
Committed(t) ==
    [i \in DOMAIN rows |->
        IF i \in DOMAIN t.status THEN [rows[i] EXCEPT !.status = t.status[i]] ELSE rows[i]]
    \o SetToSeq({c \in t.added : c.queue = "split" \/ ~Held(c.anime)})

Commit(r) ==
    LET t == req[r]
    IN  /\ t.pc = "commit"
        /\ home' = t.moved @@ home /\ umbrella' = t.named @@ umbrella
        /\ relation' = t.labels @@ relation /\ rows' = Committed(t)
        /\ decided' = IF t.op \in Decisions THEN Append(decided, <<t.row, t.op>>) ELSE decided
        /\ req' = [req EXCEPT ![r] = IF t.op = "merge" THEN [Free EXCEPT !.pc = "redetect", !.keep = t.keep]
                                     ELSE Free]
        /\ UNCHANGED <<show, edges, made, left, ops>>

\* After a merge has committed: the survivor against the catalogue, in a savepoint whose
\* failure is only logged.
Redetect(r) ==
    LET pairs == NewPairs(umbrella, home, {req[r].keep}, FALSE)
    IN  /\ req[r].pc = "redetect"
        /\ rows' = rows \o SetToSeq({Pair(p) : p \in pairs})
        /\ req' = [req EXCEPT ![r] = Free]
        /\ UNCHANGED <<home, umbrella, relation, show, edges, made, left, ops, decided>>

\* A refusal, an integrity error, a deadlock, a lost client: nothing is committed.
Abort(r) ==
    /\ req[r] # Free
    /\ req' = [req EXCEPT ![r] = Free]
    /\ UNCHANGED <<catalogue, left, ops, decided>>

-----------------------------------------------------------------------------
\* The catalogue as the last sweep and the first backfill left it.
Init ==
    \E s \in Starts :
        /\ home = s.home /\ show = s.show /\ edges = s.edges /\ ops = s.ops /\ left = s.left
        /\ made = Max({s.home[m] : m \in DOMAIN s.home}) /\ decided = <<>>
        /\ umbrella = [a \in Anime |-> IF MediaOf(home, a) = {} THEN Gone
                                       ELSE PickAnchor(Among(show, MediaOf(home, a)))]
        /\ relation = [m \in DOMAIN home |->
                         Classify(Among(show, MediaOf(home, home[m])), edges)[m]]
        /\ req = [r \in s.by |-> Free] /\ rows = s.rows

Next ==
    \E r \in DOMAIN req :
        \/ \E i \in DOMAIN rows :
             \/ \E op \in {"dismiss", "forget"} : Mark(r, op, i)
             \/ \E keep \in rows[i].anime : StartMerge(r, i, keep)
             \/ StartSplit(r, i)
        \/ Reparent(r) \/ Drop(r) \/ Cut(r) \/ Reload(r) \/ Settle(r) \/ Flag(r)
        \/ DetectBundles(r) \/ DetectPairs(r)
        \/ \E a \in Anime : StartRefresh(r, a)
        \/ \E c \in Changes : Refresh(r, c)
        \/ Commit(r) \/ Redetect(r) \/ Abort(r)

Spec == Init /\ [][Next]_vars
=============================================================================
