----------------------------- MODULE MCPersonal -----------------------------
(* What one user's requests write: the ratings of an anime, or the watch list.  No *)
(* request writes both, so a behaviour is of one half.                             *)
EXTENDS MCRatingWrites
CONSTANTS Listed, ListMains, Default, CustomLists, Notes, Keep, ListLimit, MaxFilings

VARIABLES half, lists, unborn, entries, filing, filings

W == INSTANCE WatchLists WITH
    Order <- Listed, Mains <- ListMains, MaxRequests <- MaxFilings,
    req <- filing, requests <- filings

ASSUME PersonalAssumption == W!Configured

PersonalSymmetry == Permutations(Requests) \cup Permutations(CustomLists)

PInit == MCInit /\ W!Init /\ half \in {"ratings", "lists"} /\ (half = "lists" => overlapping)
RatingStep == half = "ratings" /\ MCNext /\ UNCHANGED <<half, lists, unborn, entries, filing, filings>>
ListStep == half = "lists" /\ W!Next /\ UNCHANGED <<half, MCVars>>
PSpec == PInit /\ [][RatingStep \/ ListStep]_<<half, MCVars, lists, unborn, entries, filing, filings>>

\* The limit on lists is passed by no more than the requests that counted together
\* (create_tag).
ListsBounded == W!ListsBounded

\* An entry's note changes only to what a request gave for that very entry, whatever it
\* had read (bulk_upsert_watchlist).
NotesKept == W!NotesKept

\* What the documentation says of the two, and section 6 of the README refutes:
\* "Anti-runaway ceiling" (TAGS_PER_USER_LIMIT) ...
ListsLimited == Cardinality(lists) <= ListLimit
\* ... and "move to the default 'Watchlist' tag first (nothing lost)" (delete_tag).
ReassignKeeps == \A r \in Requests : filing[r].op = "move" => filing[r].gone = {}
=============================================================================
