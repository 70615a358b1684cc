----------------------------- MODULE TitleWalk ------------------------------
(***************************************************************************)
(* One scrape at a time, as the single worker runs them (services/           *)
(* mal_scraper.py, search_service.py, save_service.py, user_scrape_dispatcher *)
(* and _route_attach_actions of scrape_dispatcher.py): the search hits, the   *)
(* anchors above them, the walk over MAL's relations from each, what of it    *)
(* is kept, and where it is saved.                                           *)
(*                                                                         *)
(* A request that MAL keeps refusing (five attempts, three when it throttles) *)
(* ends the scrape; rate limit, back-off and the translation of MAL's values  *)
(* are left out.                                                            *)
(***************************************************************************)
EXTENDS RelationClassifier, SequencesExt

CONSTANTS
    Worlds,         \* what MAL may hold: id -> [entry, fate, links], links in MAL's order
    Searches,       \* [hits, seed]: what a title finds, or the one id a seed names
    Catalogues,     \* media -> anime, before the first scrape
    Blacklists,     \* media_unwanted, before the first scrape
    MaxHops,        \* _ANCHOR_DISCOVERY_MAX_HOPS
    MaxScrapes      \* bound: how many scrapes are run

\* What extraction makes of an entry, in the order the walk asks.
Fates == {"untitled", "hentai", "music", "ordinary", "unscheduled", "untyped"}
NoSeed == 0

\* parse_relation_edges: links that are no sign of one franchise are not captured.
ExcludedRels == {"character", "adaptation", "alternative_setting"}
Captured(links) == SelectSeq(links, LAMBDA l : l.rel \notin ExcludedRels)

\* A world is finite, and its pages list entries of it.
ASSUME WalkAssumption ==
    /\ MaxHops \in Nat /\ MaxScrapes \in Nat
    /\ \A w \in Worlds :
         /\ DOMAIN w \subseteq Nat \ {NoSeed} /\ IsFiniteSet(DOMAIN w)
         /\ \A m \in DOMAIN w :
              w[m].fate \in Fates /\ Captured(w[m].links) \in Seq([to : DOMAIN w, rel : STRING])
    /\ \A s \in Searches : s \in [hits : Seq(Nat), seed : Nat]
    /\ \A c \in Catalogues : DOMAIN c \subseteq Nat
    /\ Blacklists \subseteq SUBSET Nat

VARIABLES
    mal,            \* the world
    home,           \* media.anime_id of the media in the catalogue, by mal_id
    unwanted,       \* media_unwanted
    walk,           \* the scrape under way
    scrapes         \* bound: how many were begun

vars == <<mal, home, unwanted, walk, scrapes>>

Idle == [pc |-> "idle", hits |-> <<>>, seed |-> NoSeed, excluded |-> {}, stripped |-> {},
         results |-> <<>>, root |-> NoSeed, queue |-> <<>>, walking |-> {}, visited |-> {},
         graph |-> {}, edges |-> {}, cross |-> {}, followed |-> {}, kept |-> <<>>, rejected |-> {},
         saves |-> {}, attach |-> {}]

NextAnime == IF DOMAIN home = {} THEN 1 ELSE Max({home[m] : m \in DOMAIN home}) + 1
EntriesOf(ms) == [m \in ms |-> mal[m].entry]

-----------------------------------------------------------------------------
(* Relations *)

LinksOf(m) == Captured(mal[m].links)

IdentityRels == {"sequel", "prequel", "alternative_version"}
UpwardRels == {"prequel", "parent_story", "full_story"}

\* Mutant of Propagates: every relation carries the walk on.
PropagatesAlways(walks, rel) == walks

\* _next_expand_status: from a walked node, an identity-preserving relation.
Propagates(walks, rel) == walks /\ rel \in IdentityRels

\* _discover_anchors_upward, hop by hop: the nodes above `start`, outside the catalogue,
\* that have nothing above them; at the cap, whatever the walk has come to.
AnchorsAbove(start, excluded) ==
    LET above(m) == {l.to : l \in {x \in ToSet(LinksOf(m)) : x.rel \in UpwardRels}}
        entered(F) == {m \in F : m = start \/ m \notin excluded}
        hop[h \in 0 .. MaxHops] ==
            IF h = 0 THEN [frontier |-> {start}, visited |-> {start}, found |-> {}]
            ELSE LET p == hop[h - 1]
                     next == (UNION {above(m) : m \in entered(p.frontier)}) \ (p.visited \cup excluded)
                 IN  [frontier |-> next, visited |-> p.visited \cup next,
                      found |-> p.found \cup {m \in entered(p.frontier) \ {start} : above(m) = {}}]
    IN  hop[MaxHops].found \cup hop[MaxHops].frontier

\* _search_result_tier_sort: tv before ona before films, then the oldest, the undated
\* first; equal ones as they were, anchors in front.
Earlier(a, b, position) ==
    LET x == mal[a].entry
        y == mal[b].entry
        tx == AnchorTier(x.media_type)
        ty == AnchorTier(y.media_type)
    IN  \/ tx < ty
        \/ tx = ty /\ x.aired_from < y.aired_from
        \/ tx = ty /\ x.aired_from = y.aired_from /\ position[a] < position[b]

\* The roots of the walk, the hits and the anchors above them, in an order of that sort.
\* The anchors of one hit are a Python set: among equals they come in any order.
RootOrders(hits, excluded) ==
    LET above == [i \in DOMAIN hits |-> AnchorsAbove(hits[i], excluded)]
        roots == {m \in DOMAIN mal : \E i \in DOMAIN hits : m = hits[i] \/ m \in above[i]}
        first(is) == CHOOSE i \in is : \A j \in is : i <= j
        position == [m \in roots |->
            IF m \in ToSet(hits) THEN first({i \in DOMAIN hits : hits[i] = m})
                                 ELSE first({i \in DOMAIN hits : m \in above[i]}) - Len(hits)]
    IN  {r \in [1 .. Cardinality(roots) -> roots] :
            \A i, j \in DOMAIN r : i < j => r[i] # r[j] /\ ~Earlier(r[j], r[i], position)}

-----------------------------------------------------------------------------
(* The walk *)

\* user_scrape_dispatcher up to the first hit: a blacklisted seed is refused, the
\* catalogue is read once, and the seed alone may be walked though it is in it.
Begin(s) ==
    /\ walk.pc = "idle" /\ scrapes < MaxScrapes
    /\ s.seed \notin unwanted /\ ToSet(s.hits) \subseteq DOMAIN mal
    /\ scrapes' = scrapes + 1
    /\ LET excluded == (DOMAIN home \cup unwanted) \ {s.seed}
       IN  \E results \in RootOrders(s.hits, excluded) :
             walk' = [Idle EXCEPT !.pc = "root", !.hits = s.hits, !.seed = s.seed,
                        !.excluded = excluded, !.stripped = unwanted, !.results = results]
    /\ UNCHANGED <<mal, home, unwanted>>

\* The next root: a graph of its own, over what the roots before it have visited.
NextRoot ==
    /\ walk.pc = "root" /\ walk.results # <<>>
    /\ walk' = [walk EXCEPT !.pc = "walk", !.root = Head(walk.results),
                  !.results = Tail(walk.results), !.queue = <<Head(walk.results)>>,
                  !.walking = {Head(walk.results)}, !.graph = {}, !.edges = {}, !.cross = {},
                  !.followed = {}]
    /\ UNCHANGED <<mal, home, unwanted, scrapes>>

\* A node off the queue.  One of the catalogue is a cross-link; of a node that only an
\* identity-breaking relation led to, the relations are kept and not followed.
Visit ==
    LET m == Head(walk.queue)
        rest == [walk EXCEPT !.queue = Tail(walk.queue)]
        seen == [rest EXCEPT !.visited = walk.visited \cup {m}]
        links == LinksOf(m)
        walks == m \in walk.walking
    IN  /\ walk.pc = "walk" /\ walk.queue # <<>>
        /\ \/ m \in walk.visited /\ walk' = rest
           \/ /\ m \in walk.excluded \ walk.visited
              /\ walk' = [seen EXCEPT !.cross = walk.cross \cup ({m} \ {walk.root})]
           \/ /\ m \notin walk.excluded \cup walk.visited
              /\ mal[m].fate \in {"untitled", "unscheduled"} /\ walk' = seen
           \/ /\ m \notin walk.excluded \cup walk.visited
              /\ mal[m].fate \in {"hentai", "music", "untyped"}
              /\ walk' = [seen EXCEPT !.rejected = walk.rejected \cup {m}]
           \/ /\ m \notin walk.excluded \cup walk.visited /\ mal[m].fate = "ordinary"
              /\ walk' = [seen EXCEPT
                   !.graph = walk.graph \cup {m},
                   !.followed = walk.followed \cup (IF walks THEN {m} ELSE {}),
                   !.edges = walk.edges \cup
                     {[from |-> m, to |-> l.to, rel |-> l.rel] : l \in ToSet(links)},
                   !.walking = walk.walking \cup
                     {l.to : l \in {x \in ToSet(links) : Propagates(walks, x.rel)}},
                   !.queue = Tail(walk.queue) \o
                     (IF walks THEN [i \in DOMAIN links |-> links[i].to] ELSE <<>>)]
        /\ UNCHANGED <<mal, home, unwanted, scrapes>>

\* Mutant of EndGraph: the graph is dropped and its media stay claimed, as before 0.15.
EndGraphClaiming ==
    LET dropped == walk.graph # {} /\ WouldBeDropped(EntriesOf(walk.graph), walk.seed # NoSeed, walk.cross)
        graph == [root |-> walk.root, nodes |-> walk.graph, edges |-> walk.edges,
                  cross |-> walk.cross, followed |-> walk.followed]
    IN  /\ walk.pc = "walk" /\ walk.queue = <<>>
        /\ walk' = [walk EXCEPT !.pc = "root",
                      !.kept = IF dropped \/ walk.graph = {} THEN walk.kept ELSE Append(walk.kept, graph)]
        /\ UNCHANGED <<mal, home, unwanted, scrapes>>

\* Mutant of EndGraph: the graph of a weak anchor is given back and saved.
EndGraphKeeping ==
    LET dropped == walk.graph # {} /\ WouldBeDropped(EntriesOf(walk.graph), walk.seed # NoSeed, walk.cross)
        graph == [root |-> walk.root, nodes |-> walk.graph, edges |-> walk.edges,
                  cross |-> walk.cross, followed |-> walk.followed]
    IN  /\ walk.pc = "walk" /\ walk.queue = <<>>
        /\ walk' = [walk EXCEPT !.pc = "root",
                      !.visited = walk.visited \ (IF dropped THEN walk.graph ELSE {}),
                      !.kept = IF walk.graph = {} THEN walk.kept ELSE Append(walk.kept, graph)]
        /\ UNCHANGED <<mal, home, unwanted, scrapes>>

\* The end of a root's walk: a graph that would be dropped gives its media back to the
\* roots that follow.
EndGraph ==
    LET dropped == walk.graph # {} /\ WouldBeDropped(EntriesOf(walk.graph), walk.seed # NoSeed, walk.cross)
        graph == [root |-> walk.root, nodes |-> walk.graph, edges |-> walk.edges,
                  cross |-> walk.cross, followed |-> walk.followed]
    IN  /\ walk.pc = "walk" /\ walk.queue = <<>>
        /\ walk' = [walk EXCEPT !.pc = "root",
                      !.visited = walk.visited \ (IF dropped THEN walk.graph ELSE {}),
                      !.kept = IF dropped \/ walk.graph = {} THEN walk.kept ELSE Append(walk.kept, graph)]
        /\ UNCHANGED <<mal, home, unwanted, scrapes>>

-----------------------------------------------------------------------------
(* What becomes of the graphs *)

\* The cross-links that are part of an anime: search_mal_api strips the blacklisted.
Links(g) == g.cross \ walk.stripped
Dropped(g) == WouldBeDropped(EntriesOf(g.nodes), walk.seed # NoSeed, Links(g))
Attaches(g) ==
    ~Substantial(mal[PickAnchor(EntriesOf(g.nodes))].entry) /\ Cardinality(Links(g)) = 1

\* search_mal_api and handle_search_mal_api_results: drop, attach or save each graph, and
\* record what the walk rejected.
Judge ==
    /\ walk.pc = "root" /\ walk.results = <<>>
    /\ walk' = [walk EXCEPT !.pc = "save",
                  !.saves = {i \in DOMAIN walk.kept : ~Dropped(walk.kept[i]) /\ ~Attaches(walk.kept[i])},
                  !.attach = {i \in DOMAIN walk.kept : ~Dropped(walk.kept[i]) /\ Attaches(walk.kept[i])}]
    /\ unwanted' = unwanted \cup walk.rejected
    /\ UNCHANGED <<mal, home, scrapes>>

\* save_search_results: an anime per graph, in one transaction.  A media that is in the
\* catalogue already (the seed may be) breaks the unique mal_id, and the scrape with it.
Save ==
    LET owner(m) == CHOOSE i \in walk.saves : m \in walk.kept[i].nodes
        saved == UNION {walk.kept[i].nodes : i \in walk.saves}
    IN  /\ walk.pc = "save"
        /\ \/ /\ saved \cap DOMAIN home = {}
              /\ home' = [m \in saved \cup DOMAIN home |->
                             IF m \in saved THEN NextAnime + Cardinality({i \in walk.saves : i < owner(m)})
                             ELSE home[m]]
              /\ walk' = [walk EXCEPT !.pc = "attach"]
           \/ saved \cap DOMAIN home # {} /\ walk' = Idle /\ UNCHANGED home
        /\ UNCHANGED <<mal, unwanted, scrapes>>

\* _route_attach_actions and attach_search_result_to_anime: the new media go under the
\* anime of the cross-link, in the transaction that ends the job.
Attach ==
    LET target(g) == CHOOSE t \in Links(g) : TRUE
        owner(m) == CHOOSE i \in walk.attach : m \in walk.kept[i].nodes
        parent(m) == home[target(walk.kept[owner(m)])]
        found == {i \in walk.attach : target(walk.kept[i]) \in DOMAIN home}
        media == UNION {walk.kept[i].nodes : i \in found}
        fits == \A m \in media \cap DOMAIN home : home[m] = parent(m)
    IN  /\ walk.pc = "attach"
        /\ \/ /\ fits
              /\ home' = [m \in media \cup DOMAIN home |-> IF m \in DOMAIN home THEN home[m] ELSE parent(m)]
              /\ walk' = [walk EXCEPT !.pc = "done"]
           \/ ~fits /\ walk' = Idle /\ UNCHANGED home
        /\ UNCHANGED <<mal, unwanted, scrapes>>

\* MAL stays unreachable, or the process stops: what was committed stays.
Fail ==
    /\ walk.pc \in {"root", "walk", "save", "attach"}
    /\ walk' = Idle
    /\ UNCHANGED <<mal, home, unwanted, scrapes>>

Finish == walk.pc = "done" /\ walk' = Idle /\ UNCHANGED <<mal, home, unwanted, scrapes>>

-----------------------------------------------------------------------------
Init ==
    /\ mal \in Worlds /\ home \in Catalogues /\ unwanted \in Blacklists
    /\ unwanted \cap DOMAIN home = {}
    /\ walk = Idle /\ scrapes = 0

Next ==
    \/ \E s \in Searches : Begin(s)
    \/ NextRoot \/ Visit \/ EndGraph \/ Judge \/ Save \/ Attach \/ Fail \/ Finish

Spec == Init /\ [][Next]_vars

-----------------------------------------------------------------------------
(* Properties *)

\* Every media is claimed by one graph, and by none when it is in the catalogue: what is
\* saved breaks no unique mal_id.  Nothing is lost: a media that the followed pages of a
\* kept graph name is in one of them, whichever roots were dropped before (visited_ids and
\* its rollback; else "the franchise loses that season permanently").
OneGraphPerMedia ==
    /\ \A i, j \in DOMAIN walk.kept : i # j => walk.kept[i].nodes \cap walk.kept[j].nodes = {}
    /\ walk.pc \in {"save", "attach"} =>
         \A i \in walk.saves : walk.kept[i].nodes \cap (walk.excluded \cup unwanted) = {}
    /\ walk.pc = "save" =>
         \A g \in ToSet(walk.kept) : \A e \in g.edges :
            e.from \in g.followed /\ e.to \notin walk.excluded /\ mal[e.to].fate = "ordinary"
            => \E h \in ToSet(walk.kept) : e.to \in h.nodes

\* The identity-preserving relations between two media of the graph.
IdentityTies(g) ==
    {<<e.from, e.to>> : e \in {x \in g.edges : x.rel \in IdentityRels /\ x.to \in g.nodes}}

\* A graph never bridges two franchises: relations are followed only from its root and
\* from what it reaches over identity-preserving ones, and every other media of it is
\* one relation away (the expand status, "bounding the BFS at identity-breaking edges").
GraphsBounded ==
    \A i \in DOMAIN walk.kept :
        LET g == walk.kept[i]
        IN  /\ g.followed \subseteq Closure(g.nodes, IdentityTies(g), {g.root}, {})
            /\ \A m \in g.nodes \ g.followed : \E e \in g.edges : e.from \in g.followed /\ e.to = m

\* _ExpandStatus: "max() resolves multi-path arrivals to the most-permissive status": what
\* the root reaches over identity-preserving relations is followed, whatever came first.
ReachedIsFollowed ==
    \A g \in ToSet(walk.kept) : Closure(g.nodes, IdentityTies(g), {g.root}, {}) \subseteq g.followed

\* A hit whose one relation is to a media of the catalogue ends under that media's anime
\* or as an anime of its own ("orphan-side-story graphs whose single cross-link resolves
\* to an existing Anime", user_scrape_dispatcher).
HitsAttached ==
    walk.pc = "done" =>
        \A m \in ToSet(walk.hits) :
            /\ mal[m].fate = "ordinary" /\ m \notin walk.excluded /\ Len(LinksOf(m)) = 1
            /\ LinksOf(m)[1].to \in walk.excluded \ walk.stripped
            => m \in DOMAIN home

\* "the two sites can't drift" (mal_scraper.search_title): what the walk keeps, the search
\* does not drop.
DecidedAsWalked ==
    walk.pc = "save" => \A g \in ToSet(walk.kept) : ~Dropped(g)
=============================================================================
