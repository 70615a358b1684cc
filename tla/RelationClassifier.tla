------------------------- MODULE RelationClassifier -------------------------
(***************************************************************************)
(* services/relation_classifier.py: which media of one franchise graph is    *)
(* the anchor, what every other one is to it, and which media under one      *)
(* anime are franchises of their own.  A graph is a function `nodes` from    *)
(* MAL ids to what MAL says of the media, and a set of `edges`, the          *)
(* relations each media's own page lists.                                    *)
(***************************************************************************)
EXTENDS Integers, FiniteSets

None == -1      \* a field MAL has not published

TVLikeTypes == {"tv", "ona", "tvspecial"}
MainChainRels == {"sequel", "prequel"}
AltChainRels == MainChainRels \cup {"alternative_version"}
ChildStoryRels == {"parent_story", "summary"}

\* One entry as the classifier sees it; aired_from is a date, durations are seconds.
Nodes == [media_type : STRING, aired_from : Int, episodes : Int, duration : Int,
          scored_by : Nat, pending : BOOLEAN]

-----------------------------------------------------------------------------
(* The substance gate *)

\* Announced, not aired: MAL owes its numbers.
Pending(n) == n.pending

DurationFloor(n) ==
    \/ n.duration = None /\ Pending(n)
    \/ n.duration >= 600
    \/ n.duration # None /\ n.episodes # None /\ n.duration * n.episodes >= 7600

EpisodeFloor(n) ==
    \/ n.episodes >= 8
    \/ n.episodes = None /\ (n.media_type # "tvspecial" \/ Pending(n))

MovieFloor(n) == n.duration >= 1800 \/ (n.duration = None /\ Pending(n))

\* passes_substance: a floor may be relaxed, the type gate never is.
PassesSubstance(n, relaxDuration, relaxEpisodes) ==
    \/ /\ n.media_type \in TVLikeTypes
       /\ relaxDuration \/ DurationFloor(n)
       /\ relaxEpisodes \/ EpisodeFloor(n)
    \/ /\ n.media_type = "movie"
       /\ relaxDuration \/ MovieFloor(n)

Substantial(n) == PassesSubstance(n, FALSE, FALSE)

-----------------------------------------------------------------------------
(* The anchor *)

AnchorTier(type) ==
    CASE type = "tv" -> 1 [] type = "ona" -> 2 [] type = "movie" -> 3 [] OTHER -> 4

\* _anchor_sort_key: tier, then the oldest date with undated entries last, then the
\* most scored, then the lower id.
Ahead(nodes, a, b) ==
    LET x == nodes[a]
        y == nodes[b]
        tx == AnchorTier(x.media_type)
        ty == AnchorTier(y.media_type)
        Older == x.aired_from # None /\ (y.aired_from = None \/ x.aired_from < y.aired_from)
    IN  \/ tx < ty
        \/ tx = ty /\ Older
        \/ tx = ty /\ x.aired_from = y.aired_from /\ x.scored_by > y.scored_by
        \/ tx = ty /\ x.aired_from = y.aired_from /\ x.scored_by = y.scored_by /\ a < b

Eligible(nodes) == {m \in DOMAIN nodes : Substantial(nodes[m]) /\ ~Pending(nodes[m])}

Candidates(nodes) ==
    LET eligible == Eligible(nodes) IN IF eligible # {} THEN eligible ELSE DOMAIN nodes

\* _pick_anchor, of a graph with at least one media.
PickAnchor(nodes) ==
    LET candidates == Candidates(nodes)
    IN  CHOOSE a \in candidates : \A b \in candidates \ {a} : Ahead(nodes, a, b)

-----------------------------------------------------------------------------
(* The chains *)

\* _build_adjacency for some of the relations: undirected, and only between media of
\* the graph, whatever else their pages point to.
Linked(ids, edges, rels) ==
    LET kept == {e \in edges : e.rel \in rels /\ e.from \in ids /\ e.to \in ids}
    IN  {<<e.from, e.to>> : e \in kept} \cup {<<e.to, e.from>> : e \in kept}

\* _closure: the least set that holds `starts` and everything linked to it, never
\* entering `excluded`.
Closure(ids, links, starts, excluded) ==
    LET closed == {S \in SUBSET ids :
                     /\ starts \subseteq S
                     /\ \A p \in links : p[1] \in S => p[2] \in S \cup excluded}
    IN  {n \in ids : \A S \in closed : n \in S}

MainChain(nodes, edges) ==
    Closure(DOMAIN nodes, Linked(DOMAIN nodes, edges, MainChainRels), {PickAnchor(nodes)}, {})

AltChain(nodes, edges, main) ==
    LET ids == DOMAIN nodes
        versions == Linked(ids, edges, {"alternative_version"})
        seeds == {n \in ids \ main : \E m \in main : <<m, n>> \in versions}
    IN  Closure(ids, Linked(ids, edges, AltChainRels), seeds, main)

Anchored(nodes, edges) ==
    LET main == MainChain(nodes, edges) IN main \cup AltChain(nodes, edges, main)

-----------------------------------------------------------------------------
(* What each media is *)

\* Mutant of FloorMembers: the floors are judged by every media of the graph.
FloorMembersAll(nodes, main) == {m \in DOMAIN nodes : ~Pending(nodes[m])}

\* The media that tell whether a floor discriminates: the aired ones of the main chain.
FloorMembers(nodes, main) == {m \in main : ~Pending(nodes[m])}

\* classify_anime_relations.  A floor that no aired main-chain media clears is relaxed;
\* a recap (it declares a full story elsewhere) and a thin entry leave the main chain,
\* the anchor never does.
Classify(nodes, edges) ==
    LET ids == DOMAIN nodes
        anchor == PickAnchor(nodes)
        main == MainChain(nodes, edges)
        alt == AltChain(nodes, edges, main)
        aired == FloorMembers(nodes, main)
        relaxDuration == \A m \in aired : ~PassesSubstance(nodes[m], FALSE, TRUE)
        relaxEpisodes == \A m \in aired : ~PassesSubstance(nodes[m], TRUE, FALSE)
        recaps == {e.from : e \in {x \in edges : x.rel = "full_story"}}
        summaries == Linked(ids, edges, {"summary"})
    IN  [m \in ids |->
          IF m = anchor THEN "main"
          ELSE IF m \in main THEN
            IF m \in recaps THEN "summary"
            ELSE IF PassesSubstance(nodes[m], relaxDuration, relaxEpisodes) THEN "main"
            ELSE "side_story"
          ELSE IF m \in alt THEN "alternative_version"
          ELSE IF \E a \in main \cup alt : <<m, a>> \in summaries THEN "summary"
          ELSE "side_story"]

-----------------------------------------------------------------------------
(* Franchises bundled under one anime *)

Among(nodes, ids) == [m \in DOMAIN nodes \cap ids |-> nodes[m]]

\* The edges between the anchored media and a cluster.
Bridges(edges, anchored, cluster) ==
    {e \in edges : \/ e.from \in anchored /\ e.to \in cluster
                   \/ e.from \in cluster /\ e.to \in anchored}

\* _is_legitimate_side_story_chain: films that MAL calls the franchise's own stories.
SideStoryFilms(nodes, cluster, bridges) ==
    /\ \A m \in cluster : nodes[m].media_type = "movie"
    /\ \E e \in bridges : e.rel \in ChildStoryRels

\* Mutant of ClusterOf: a cluster follows alternative versions too.
ClusterOfVersions(nodes, edges, orphan) ==
    LET ids == DOMAIN nodes
    IN  Closure(ids, Linked(ids, edges, AltChainRels), {orphan}, Anchored(nodes, edges))

\* The main-chain closure of one orphan.
ClusterOf(nodes, edges, orphan) ==
    LET ids == DOMAIN nodes
    IN  Closure(ids, Linked(ids, edges, MainChainRels), {orphan}, Anchored(nodes, edges))

\* find_disjoint_franchises: clusters of two or more substantial media that neither
\* chain of the anchor has absorbed.
DisjointFranchises(nodes, edges) ==
    LET anchored == Anchored(nodes, edges)
        orphans == {m \in DOMAIN nodes \ anchored : Substantial(nodes[m])}
        clusters == {ClusterOf(nodes, edges, m) : m \in orphans}
        franchise(c) == [members |-> c, substance |-> c \cap orphans,
                         anchor |-> PickAnchor(Among(nodes, c)),
                         bridges |-> Bridges(edges, anchored, c)]
    IN  {franchise(c) : c \in {x \in clusters :
            /\ Cardinality(x \cap orphans) >= 2
            /\ ~SideStoryFilms(nodes, x, Bridges(edges, anchored, x))}}

-----------------------------------------------------------------------------
(* Whether a graph is worth an anime of its own *)

\* passes_popularity_waiver: widely scored, and either only its episodes are short or
\* only its run is.
PopularityWaiver(n) ==
    /\ n.scored_by >= 10000
    /\ \/ PassesSubstance(n, TRUE, FALSE)
       \/ n.media_type \in TVLikeTypes /\ n.episodes >= 6 /\ n.duration >= 600

\* passes_feature_length_ona_waiver: a film that MAL files as an ONA.
FeatureLengthONA(n) == n.media_type = "ona" /\ n.episodes = 1 /\ n.duration >= 3600

\* would_be_dropped_as_weak_anchor: a weak anchor that no seed asked for and that has
\* no single anime to attach to.
WouldBeDropped(nodes, seeded, crossLinks) ==
    LET anchor == nodes[PickAnchor(nodes)]
    IN  /\ ~Substantial(anchor) /\ ~PopularityWaiver(anchor) /\ ~FeatureLengthONA(anchor)
        /\ ~seeded /\ Cardinality(crossLinks) # 1
=============================================================================
