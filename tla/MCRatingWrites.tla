--------------------------- MODULE MCRatingWrites ---------------------------
(* RatingWrites with its media and requests as model values, and the two ways the  *)
(* requests are made: single ones that overlap, without wipes, or any of them one   *)
(* at a time.                                                                      *)
EXTENDS RatingWrites
CONSTANTS m1, m2, m3, r1, r2

VARIABLE overlapping

TwoSeasons == <<m1, m2>>
SeasonsAndOVA == <<m1, m2, m3>>
RequestSymmetry == Permutations({r1, r2})

Ready(r) ==
    \/ /\ ~overlapping /\ \A q \in Requests : req[q].pc = "idle"
       /\ Ask(r)
    \/ /\ overlapping
       /\ \E op \in {"upsert", "delete", "rewatch", "refresh"}, ms \in SUBSET Media,
             status \in Statuses \cup {"none"} : Begin(r, op, ms, status, FALSE)

MCVars == <<vars, overlapping>>
MCInit == Init /\ overlapping \in BOOLEAN
MCNext == (\E r \in Requests : Ready(r) \/ Proceed(r)) /\ UNCHANGED overlapping
OneOrBoth == MCInit /\ [][MCNext]_MCVars

\* Any request, overlapping any other: where the properties of section 6 fail.
AllOverlap == Init /\ overlapping = TRUE /\ [][Next /\ UNCHANGED overlapping]_MCVars

\* When no request is in flight the cache is what the ratings say, as long as no two
\* of them overlap (user_visible_media: "Recomputed per-anime when a user rates or
\* deletes a rating").
CacheKeptSerially == ~overlapping => CacheMatchesRatings
=============================================================================
