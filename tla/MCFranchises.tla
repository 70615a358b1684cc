---------------------------- MODULE MCFranchises ----------------------------
(***************************************************************************)
(* The classifier, the spoiler frontier and the walk over small franchises.   *)
(* In one half of the runs a scrape walks every way of tying four entries     *)
(* together with at most MaxTies of MAL's relations; in the other nothing is  *)
(* scraped, and a franchise grows one entry or one relation at a time, as MAL *)
(* adds them, up to MaxMedia and MaxEdges.                                   *)
(***************************************************************************)
EXTENDS TitleWalk, SpoilerFrontier

CONSTANTS
    MaxTies,        \* bound: how many pairs of entries are related, scraped
    Casts,          \* what the entries are, a sequence of kinds, scraped
    MaxMedia,       \* bound: how many media the franchise has, growing
    MaxEdges,       \* bound: how many relations, growing
    Kinds,          \* what an entry may be, growing
    Relations       \* the relations MAL may list, growing

Numbers(type, episodes, duration, fans, pending) ==
    [media_type |-> type, aired_from |-> None, episodes |-> episodes, duration |-> duration,
     scored_by |-> fans, pending |-> pending]

EntryKinds ==
    [season |-> Numbers("tv", 12, 1440, 0, FALSE), brief |-> Numbers("tv", 12, 240, 0, FALSE),
     special |-> Numbers("tvspecial", 1, 1620, 0, FALSE), film |-> Numbers("movie", 1, 5400, 0, FALSE),
     loved |-> Numbers("ona", 12, 240, 20000, FALSE), song |-> Numbers("music", 1, 120, 0, FALSE),
     stub |-> Numbers("unknown", None, None, 0, TRUE), announced |-> Numbers("tv", None, None, 0, TRUE)]

\* Entries are numbered as they aired; what is announced has no date.
Entry(kind, id) ==
    [EntryKinds[kind] EXCEPT !.aired_from = IF kind = "announced" THEN None ELSE id]
Fate(kind) ==
    CASE kind = "song" -> "music" [] kind = "stub" -> "unscheduled" [] OTHER -> "ordinary"

InOrder(links) == SetToSortSeq(links, LAMBDA x, y : x.to < y.to)

-----------------------------------------------------------------------------
(* What is scraped *)

Ids == 1 .. 4

\* What the page of one end of a relation calls it, and the page of the other, which may
\* not list it.
TieKinds == {<<"sequel", "prequel">>, <<"side_story", "parent_story">>,
             <<"alternative_version", "alternative_version">>, <<"other", "other">>,
             <<"character", "character">>, <<"prequel", "">>}
Tie(a, b, kind) == [ends |-> {a, b}, from |-> a, to |-> b, kind |-> kind]
Ties == {t \in {Tie(a, b, k) : a, b \in Ids, k \in TieKinds} :
            t.from < t.to \/ (t.from > t.to /\ t.kind[1] # t.kind[2])}
Tied == {T \in {{}} \cup {{s, t} : s, t \in Ties} :
            Cardinality(T) <= MaxTies /\ \A s, t \in T : s.ends = t.ends => s = t}

Page(m, T) ==
    LET listed == {[to |-> t.to, rel |-> t.kind[1]] : t \in {x \in T : x.from = m}} \cup
                  {[to |-> t.from, rel |-> t.kind[2]] : t \in {x \in T : x.to = m}}
    IN  InOrder({l \in listed : l.rel # ""})

World(cast, T) ==
    [m \in Ids |-> [entry |-> Entry(cast[m], m), fate |-> Fate(cast[m]), links |-> Page(m, T)]]
\* A collaboration that is listed before the sequel which leads to it too.
Crossroads ==
    World(<<"season", "special", "season", "season">>,
          {Tie(1, 2, <<"other", "other">>), Tie(1, 3, <<"sequel", "prequel">>),
           Tie(3, 2, <<"sequel", "prequel">>), Tie(2, 4, <<"sequel", "prequel">>)})

AllWorlds == {World(c, T) : c \in Casts, T \in Tied} \cup {Crossroads}

TitleSearches == {[hits |-> h, seed |-> NoSeed] : h \in {<<1>>, <<2, 1>>, <<3, 1>>, <<2, 4>>}}
SeedSearches == {[hits |-> <<m>>, seed |-> m] : m \in {1, 3}}
AllSearches == TitleSearches \cup SeedSearches
AnyCast == {<<"season", "special", "season", "loved">>, <<"brief", "season", "stub", "song">>}
AnyCatalogue == {<<>>, (1 :> 1), (4 :> 1)}
AnyBlacklist == {{}, {4}}

-----------------------------------------------------------------------------
(* What grows *)

Growing == scrapes > MaxScrapes

NodesOf(w) == [m \in DOMAIN w |-> w[m].entry]
EdgesOf(w) ==
    UNION {{[from |-> m, to |-> l.to, rel |-> l.rel] : l \in ToSet(w[m].links)} : m \in DOMAIN w}
Listing(k, id, links) == [entry |-> Entry(k, id), fate |-> "ordinary", links |-> links]

\* What grows is made of the kinds above.
ASSUME GrowthAssumption == Kinds \subseteq DOMAIN EntryKinds

\* MAL lists a new entry, and on its page one relation to an entry there is.
NewEntry(k, rel, m) ==
    LET id == Cardinality(DOMAIN mal) + 1
    IN  /\ Growing /\ id <= MaxMedia /\ Cardinality(EdgesOf(mal)) < MaxEdges
        /\ mal' = [n \in DOMAIN mal \cup {id} |->
                      IF n = id THEN Listing(k, id, <<[to |-> m, rel |-> rel]>>) ELSE mal[n]]
        /\ UNCHANGED <<home, unwanted, walk, scrapes>>

NewRelation(a, b, rel) ==
    /\ Growing /\ a # b /\ Cardinality(EdgesOf(mal)) < MaxEdges
    /\ ~\E e \in EdgesOf(mal) : {e.from, e.to} = {a, b}
    /\ mal' = [mal EXCEPT ![a].links = Append(@, [to |-> b, rel |-> rel])]
    /\ UNCHANGED <<home, unwanted, walk, scrapes>>

GrowthInit ==
    /\ \E k \in Kinds : mal = [n \in {1} |-> Listing(k, 1, <<>>)]
    /\ home = <<>> /\ unwanted = {} /\ walk = Idle /\ scrapes = MaxScrapes + 1

FInit == Init \/ GrowthInit
FNext ==
    \/ Next
    \/ \E k \in Kinds, rel \in Relations, m \in DOMAIN mal : NewEntry(k, rel, m)
    \/ \E a, b \in DOMAIN mal, rel \in Relations : NewRelation(a, b, rel)
FSpec == FInit /\ [][FNext]_vars

-----------------------------------------------------------------------------
(* Properties *)

\* A split is final: cutting a reported cluster out leaves the rest with its anchor, its
\* relation types and its other clusters, and the cluster is one franchise under the
\* anchor that was suggested (execute_split, find_disjoint_franchises).
SplitIsFinal ==
    LET nodes == NodesOf(mal)
        edges == EdgesOf(mal)
    IN  Growing => \A f \in DisjointFranchises(nodes, edges) :
          LET rest == Among(nodes, DOMAIN nodes \ f.members)
              part == Among(nodes, f.members)
          IN  /\ PickAnchor(rest) = PickAnchor(nodes)
              /\ Classify(rest, edges) = Among(Classify(nodes, edges), DOMAIN rest)
              /\ DisjointFranchises(rest, edges) = DisjointFranchises(nodes, edges) \ {f}
              /\ MainChain(part, edges) = f.members /\ DisjointFranchises(part, edges) = {}

\* A new entry that is only announced, or that hangs off the main chain, changes what no
\* other entry is, and an announced one never takes the anchor from an eligible one
\* (the scope of the per-floor relaxation, _pick_anchor).
Harmless ==
    LET nodes == NodesOf(mal)
        grown == NodesOf(mal')
        edges == EdgesOf(mal)
    IN  \A m \in DOMAIN mal' \ DOMAIN mal :
          LET aside == \E e \in EdgesOf(mal') \ edges : e.from = m /\ e.rel \notin MainChainRels
          IN  /\ Pending(grown[m]) /\ Eligible(nodes) # {} => PickAnchor(grown) = PickAnchor(nodes)
              /\ (Pending(grown[m]) \/ aside) /\ PickAnchor(grown) # m =>
                   Classify(nodes, edges) = Among(Classify(grown, EdgesOf(mal')), DOMAIN nodes)
NewEntryHarmless == [][Harmless]_vars

\* Of every franchise, whatever the user has rated: a media is shown iff it is rated or
\* no main or alternative media lies before it that comes after every rated one (the
\* docstring of spoiler_service.py, over the relation types the classifier gives).
FrontierAsSpecified ==
    LET classes == Classify(NodesOf(mal), EdgesOf(mal))
        anchors == {m \in DOMAIN mal : classes[m] \in {"main", "alternative_version"}}
        order == [i \in DOMAIN mal |-> i]
    IN  Growing => \A rated \in SUBSET DOMAIN mal :
          VisibleMedia(order, anchors, rated) =
            {m \in DOMAIN mal :
               m \in rated \/ ~\E a \in anchors : a < m /\ \A b \in anchors \cap rated : b < a}

\* _is_metadata_pending: "a franchise can't anchor on something that hasn't aired".
AnchorHasAired ==
    LET nodes == NodesOf(mal)
    IN  Growing /\ (\E m \in DOMAIN nodes : ~Pending(nodes[m])) => ~Pending(nodes[PickAnchor(nodes)])
=============================================================================
