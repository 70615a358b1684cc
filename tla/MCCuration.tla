----------------------------- MODULE MCCuration -----------------------------
(* Curation on a catalogue with two franchises under one anime, worked on by one *)
(* admin, and on one of three resembling anime, worked on by two.                *)
EXTENDS Curation

CONSTANTS
    Desks,          \* which of the catalogues below to start from
    r1, r2          \* the requests of two admins

Serie(date) == [media_type |-> "tv", aired_from |-> date, episodes |-> 12, duration |-> 1440,
                scored_by |-> 0, pending |-> FALSE]
Short(date) == [Serie(date) EXCEPT !.duration = 240]
Link(a, b, rel) == [from |-> a, to |-> b, rel |-> rel]

AllOps == Decisions \cup {"bundles", "pairs", "refresh"}

\* Two seasons, two seasons of another show that shares its world with a spin-off, and a
\* third show that resembles the second.
BundledShow == [m \in 1 .. 6 |-> Serie(m)]
BundledEdges ==
    {Link(2, 1, "sequel"), Link(4, 3, "sequel"), Link(3, 1, "other"), Link(6, 3, "other")}
BundledStart(links, by, allowed, n) ==
    [home |-> [m \in 1 .. 6 |-> IF m = 5 THEN 2 ELSE 1],
     show |-> BundledShow, edges |-> links,
     rows |-> <<Bundle(1, DisjointFranchises(Among(BundledShow, {1, 2, 3, 4, 6}), links))>>,
     by |-> by, ops |-> allowed, left |-> n]

\* Three shows of one season each, the last two sequels of the first, flagged two by two.
TrioStart(by, n) ==
    [home |-> [m \in {11, 12, 13} |-> m - 10],
     show |-> [m \in {11, 12, 13} |-> Serie(m)], edges |-> {Link(12, 11, "sequel"), Link(13, 11, "sequel")},
     rows |-> <<Pair({1, 2}), Pair({2, 3})>>,
     by |-> by, ops |-> {"merge", "dismiss", "forget", "pairs"}, left |-> n]

MCStarts ==
    {d \in {BundledStart(BundledEdges, {r1}, AllOps, 4)} : "bundle" \in Desks}
    \cup {d \in {TrioStart({r1, r2}, 4)} : "trio" \in Desks}
    \cup {d \in {BundledStart(BundledEdges, {r1, r2}, AllOps, 4)} : "bundle of two" \in Desks}
    \cup {d \in {BundledStart(BundledEdges \cup {Link(4, 2, "full_story")}, {r1}, AllOps, 1)} :
             "recap" \in Desks}

MCResembles == {{3, 5}, {11, 12}, {12, 13}, {11, 13}}
\* The first show, or one season of the second, turns out thin; a season of the second is
\* redated; MAL makes the second show a sequel of the first, or the spin-off its third season.
MCChanges ==
    {[of |-> 1, entry |-> Short(1), edges |-> {}], [of |-> 4, entry |-> Short(4), edges |-> {}],
     [of |-> 3, entry |-> Serie(9), edges |-> {}],
     [of |-> 3, entry |-> Serie(3), edges |-> {Link(3, 2, "sequel")}],
     [of |-> 6, entry |-> Serie(6), edges |-> {Link(6, 4, "sequel")}]}

-----------------------------------------------------------------------------
Quiet == \A r \in DOMAIN req : req[r] = Free

\* One row per pair of anime (uq_merge_candidates_pair, ck_merge_candidates_pair_ordered,
\* get_existing_pairs).
CurationTypeOK ==
    /\ home \in [DOMAIN show -> Anime \cup {Gone}]
    /\ umbrella \in [Anime -> {Gone} \cup DOMAIN show]
    /\ relation \in [DOMAIN show -> {"main", "alternative_version", "summary", "side_story"}]
    /\ \A i \in DOMAIN rows :
         /\ rows[i].status \in {"pending", "dismissed", "split", "gone"}
         /\ rows[i].queue = "merge" /\ Live(i) =>
              /\ Cardinality(rows[i].anime) = 2
              /\ ~\E j \in DOMAIN rows \ {i} : rows[j].queue = "merge" /\ Live(j)
                                             /\ rows[j].anime = rows[i].anime

\* Every row is decided once, until its dismissal is forgotten ("A candidate resolves
\* once": get_for_resolve, _ensure_pending).
OneDecision ==
    \A j, k \in DOMAIN decided :
        j < k /\ decided[j][1] = decided[k][1] => decided[k][2] = "forget" /\ decided[j][2] = "dismiss"

\* What an admin has dismissed is not proposed again while the decision stands
\* (upsert_pending's sticky dismissal, get_existing_pairs).
DismissalSticks ==
    \A j \in DOMAIN decided : decided[j][2] = "dismiss" =>
        LET c == rows[decided[j][1]]
        IN  c.status = "dismissed" =>
              ~\E i \in DOMAIN rows : /\ rows[i].status = "pending" /\ rows[i].anime = c.anime
                                      /\ rows[i].queue = c.queue
                                      /\ Signature(rows[i].clusters) = Signature(c.clusters)

\* Between requests every anime is named for the anchor of the media it holds, holds
\* some, and labels them as the classifier does (reclassify_anime after each change).
Classified(a) ==
    LET ms == MediaOf(home, a)
    IN  /\ ms # {} /\ umbrella[a] = PickAnchor(Among(show, ms))
        /\ Among(relation, ms) = Classify(Among(show, ms), edges)
AllClassified == Quiet => \A a \in Anime : umbrella[a] # Gone => Classified(a)
\* One admin decides at a time.
UmbrellaMatchesMedia == Cardinality(DOMAIN req) = 1 => AllClassified

\* However decisions overlap, an anime is left named for a media that it holds.
NamedForOwn ==
    Quiet => \A a \in Anime : umbrella[a] # Gone =>
                umbrella[a] \in DOMAIN home /\ home[umbrella[a]] = a

\* No decision deletes a media, with the ratings that hang on it: a merge moves them.
MediaKept == \A m \in DOMAIN home : home[m] # Gone

\* "Two pending rows for the same anime should never coexist" (split_candidate_dao).
OnePendingSplit ==
    LET open == {i \in DOMAIN rows : rows[i].queue = "split" /\ rows[i].status = "pending"}
    IN  \A i, j \in open : rows[i].anime = rows[j].anime => i = j

\* A row tells what was done: the status of a decided row is that decision's.
RowTellsDecision ==
    \A j \in DOMAIN decided :
        (~\E k \in DOMAIN decided : k > j /\ decided[k][1] = decided[j][1]) =>
            rows[decided[j][1]].status = (CASE decided[j][2] = "dismiss" -> "dismissed"
                                            [] decided[j][2] = "split" -> "split"
                                            [] OTHER -> "gone") \/ rows[decided[j][1]].status = "gone"

\* "ensuring the live queue always reflects the latest detection" (split_candidate_dao):
\* what is cut out of an anime is a franchise the detector would report of it now.
SplitsOnlyDisjoint ==
    [][\A r \in DOMAIN req : req[r].pc = "cut" /\ req'[r].pc = "load" =>
          \A f \in Parts(req[r]) :
            \E g \in Bundled(Among(show, MediaOf(home, req[r].keep)), edges) :
              g.members = f.members]_vars
=============================================================================
