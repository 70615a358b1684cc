-------------------------- MODULE CatalogueSearch --------------------------
(***************************************************************************)
(* Search over the catalogue at its two grains: a media is one entry, an   *)
(* anime the franchise its media make up.  The anime grain is computed     *)
(* twice in the code: in SQL, where a filter or an order reads it          *)
(* (app/daos/search_filters.py, app/daos/anime_dao.py), and in Python,     *)
(* where a card shows it (app/services/anime_search_service.py).  Both     *)
(* sides are here, each as its own operator, over a catalogue that         *)
(* scraping, sweeps, curation and the caller keep changing.                *)
(*                                                                         *)
(* Texts and distances are replaced by what their thresholds tell apart,   *)
(* scores are in hundredths, a season is its rank on the season timeline.  *)
(***************************************************************************)
EXTENDS Integers, FiniteSets, FiniteSetsExt, Functions

CONSTANTS
    Anime,                 \* anime rows
    MediaIds,              \* media rows
    Contents,              \* what a media row may hold
    Opinions,              \* what a rating may hold: a watch status, a note
    Genres, Studios,
    Unknown,               \* NULL
    Log10(_),              \* of a whole number of votes; any increasing function
    RecentSince,           \* aired_from of SWEEP_RECENT_MAIN_YEARS ago
    ArchivalBefore,        \* aired_from of SWEEP_ARCHIVAL_AGE_YEARS ago
    StabilizeThreshold

\* Columns hold numbers where they are not NULL, a media is of genres there are, and NULL
\* is neither a number nor a set of ids.
ASSUME CatalogueAssumption ==
    /\ \A c \in Contents :
         /\ c.status \in {"airing", "finished", "announced"}
         /\ \A number \in {c.season, c.aired, c.score, c.episodes, c.age} : number # Unknown => number \in Int
         /\ c.votes \in Nat /\ \A votes \in 0 .. c.votes : Log10(votes) \in Int
         /\ c.genres \subseteq Genres /\ c.title \in 0 .. 2
    /\ \A opinion \in Opinions : opinion.status # "none"
    /\ IsFiniteSet(Studios) /\ ArchivalBefore \in Int
    /\ Unknown \notin Int /\ \A ids \in SUBSET (Anime \cup MediaIds) : Unknown # ids

VARIABLES
    home,      \* media.anime_id, of every stored media
    media,     \* the stored media's other columns
    rating,    \* the caller's ratings
    listed     \* the media on the caller's watch list

vars == <<home, media, rating, listed>>

Stored == DOMAIN home
MediaOf(a) == {m \in Stored : home[m] = a}

\* Anime a search can return: its statement joins Media.
Searched == {home[m] : m \in Stored}

MainStoryRelations == {"main", "alternative_version"}
MainStory(m) == media[m].relation \in MainStoryRelations
Airing(m) == media[m].status = "airing"
Finished(m) == media[m].status = "finished"
Unaired(m) == media[m].status = "announced"
Announces(m) == MainStory(m) /\ Unaired(m)

KnownOf(field, S) == {m \in S : media[m][field] # Unknown}
TotalOf(field, S) == SumFunction([m \in S |-> media[m][field]])
LatestOf(field, S) == IF KnownOf(field, S) = {} THEN Unknown
                      ELSE Max({media[m][field] : m \in KnownOf(field, S)})

-----------------------------------------------------------------------------
(* Scores.  A mean is kept as its two sums; num / 0 stands for NULL. *)

\* A mutant: side stories and recaps count too.
ScoreWeightFlat(m) == 1
ScoreWeight(m) == IF MainStory(m) THEN 1 ELSE 0

WeightedMean(field, a) ==
    LET scored == KnownOf("score", MediaOf(a))
    IN [num |-> SumFunction([m \in scored |-> ScoreWeight(m) * media[m][field]]),
        den |-> SumFunction([m \in scored |-> ScoreWeight(m)])]

Scored(a) == WeightedMean("score", a).den > 0

\* score * log10(votes + 1), of the two means.
Metric(a) ==
    LET score == WeightedMean("score", a)
        votes == WeightedMean("votes", a)
    IN [num |-> score.num * Log10(votes.num \div votes.den), den |-> score.den]

Below(x, y) == x.num * y.den < y.num * x.den

\* Every scored anime's "Top N%" badge.
TopPercent(a) ==
    LET population == {b \in Searched : Scored(b)}
        rank == 1 + Cardinality({b \in population : Below(Metric(a), Metric(b))})
        total == Cardinality(population)
    IN IF Scored(a) THEN (rank * 100 + total - 1) \div total ELSE Unknown

-----------------------------------------------------------------------------
(* The card: the anime as Python derives it from its loaded media. *)

Rounded(mean) == (2 * mean.num + mean.den) \div (2 * mean.den)

CardScore(a) ==
    LET counted == {m \in KnownOf("score", MediaOf(a)) : MainStory(m)}
    IN IF counted = {} THEN Unknown
       ELSE Rounded([num |-> TotalOf("score", counted), den |-> Cardinality(counted)])

CardVotes(a) ==
    LET counted == {m \in KnownOf("score", MediaOf(a)) : MainStory(m)}
    IN IF counted = {} THEN 0
       ELSE Rounded([num |-> TotalOf("votes", counted), den |-> Cardinality(counted)])

CardEpisodes(a) ==
    LET total == TotalOf("episodes", KnownOf("episodes", MediaOf(a)))
    IN IF total = 0 THEN Unknown ELSE total

CardStatus(a) == IF \E m \in MediaOf(a) : Airing(m) THEN "airing"
                 ELSE IF \E m \in MediaOf(a) : Finished(m) THEN "finished"
                 ELSE "announced"

CardAge(a) == LatestOf("age", MediaOf(a))

CardGenres(a) == {g \in Genres : 2 * Cardinality({m \in MediaOf(a) : g \in media[m].genres})
                                   > Cardinality(MediaOf(a))}

-----------------------------------------------------------------------------
(* The filters, as the statement's WHERE and HAVING. *)

HavingScoreAtLeast(a, s) == Scored(a) /\ WeightedMean("score", a).num >= s * WeightedMean("score", a).den
HavingScoreAtMost(a, s) == Scored(a) /\ WeightedMean("score", a).num <= s * WeightedMean("score", a).den
HavingVotesAtLeast(a, v) == Scored(a) /\ WeightedMean("votes", a).num >= v * WeightedMean("votes", a).den
HavingEpisodesAtLeast(a, e) == /\ KnownOf("episodes", MediaOf(a)) # {}
                               /\ TotalOf("episodes", KnownOf("episodes", MediaOf(a))) >= e
HavingAgeIn(a, tiers) == LatestOf("age", MediaOf(a)) \in tiers \ {Unknown}

HavingStatusIn(a, statuses) ==
    \/ (\E m \in MediaOf(a) : Airing(m)) /\ "airing" \in statuses
    \/ /\ \A m \in MediaOf(a) : ~Airing(m)
       /\ \E m \in MediaOf(a) : Finished(m)
       /\ "finished" \in statuses
    \/ /\ \A m \in MediaOf(a) : Unaired(m)
       /\ "announced" \in statuses

WithinTopPercent(a, n) == TopPercent(a) # Unknown /\ TopPercent(a) <= n

\* A mutant: half of the media are enough.
GenreMajorityHalf ==
    {pair \in Searched \X Genres :
        /\ \E m \in MediaOf(pair[1]) : pair[2] \in media[m].genres
        /\ 2 * Cardinality({m \in MediaOf(pair[1]) : pair[2] \in media[m].genres}) >= Cardinality(MediaOf(pair[1]))}
\* (anime, genre) pairs of the majority relation.
GenreMajority ==
    {pair \in Searched \X Genres :
        2 * Cardinality({m \in MediaOf(pair[1]) : pair[2] \in media[m].genres}) > Cardinality(MediaOf(pair[1]))}

Carries(held, names, mode) == IF mode = "all" THEN names \subseteq held ELSE names \cap held # {}

SatisfiesGroup(held, group) ==
    /\ group.include # {} => Carries(held, group.include, group.mode)
    /\ group.exclude # {} => ~Carries(held, group.exclude, group.excludeMode)

MatchesGroups(held, groups, mode) ==
    IF mode = "all" THEN \A group \in groups : SatisfiesGroup(held, group)
    ELSE \E group \in groups : SatisfiesGroup(held, group)

\* An anime outside the majority relation carries none of the named genres.
GenreMatch(a, groups, mode) == MatchesGroups({g \in Genres : <<a, g>> \in GenreMajority}, groups, mode)

OfferedGenres == {pair[2] : pair \in GenreMajority}

\* The studios count on the media the other conditions match; an empty set of
\* types or of studios filters nothing.
Categorical(m, types) == types = {} \/ media[m].type \in types
Needed(names, mode) == IF mode = "all" THEN Cardinality(names) ELSE 1

MediaHasStudios(m, types, names, mode) ==
    /\ Categorical(m, types)
    /\ names # {} => Cardinality(media[m].studios \cap names) >= Needed(names, mode)

\* A mutant: two conditions of their own, which two media may meet between them.
AnimeHasStudiosApart(a, types, names, mode) ==
    LET credited == (UNION {media[m].studios : m \in MediaOf(a)}) \cap names
    IN /\ \E m \in MediaOf(a) : Categorical(m, types)
       /\ names # {} => Cardinality(credited) >= Needed(names, mode)
AnimeHasStudios(a, types, names, mode) ==
    LET matching == {m \in MediaOf(a) : Categorical(m, types)}
        credited == (UNION {media[m].studios : m \in matching}) \cap names
    IN matching # {} /\ (names # {} => Cardinality(credited) >= Needed(names, mode))

UpcomingMainMedia(m) ==
    Announces(m) /\ \E other \in MediaOf(home[m]) : Airing(other) \/ Finished(other)
UpcomingMain(a) == \E m \in MediaOf(a) : UpcomingMainMedia(m)

-----------------------------------------------------------------------------
(* The season timeline. *)

TbaSeasonKey == 99999
SeasonsOf(S) == {media[m].season : m \in KnownOf("season", S)}

\* coalesce: the first of two keys that is not NULL.
OrElse(key, other) == IF key = Unknown THEN other ELSE key

AnnouncedKey(a) ==
    LET announced == {m \in MediaOf(a) : Announces(m)}
    IN IF SeasonsOf(announced) # {} THEN Min(SeasonsOf(announced))
       ELSE IF announced # {} THEN TbaSeasonKey ELSE Unknown

\* A mutant: the latest season aired before the announcement.
ReleaseKeyAired(a) ==
    OrElse(LatestOf("season", {m \in MediaOf(a) : MainStory(m) /\ ~Unaired(m)}), AnnouncedKey(a))
ReleaseKey(a) ==
    OrElse(AnnouncedKey(a), LatestOf("season", {m \in MediaOf(a) : MainStory(m) /\ ~Unaired(m)}))

AiredKey(a) ==
    OrElse(LatestOf("season", {m \in MediaOf(a) : MainStory(m) /\ Finished(m)}),
           OrElse(LatestOf("season", {m \in MediaOf(a) : MainStory(m) /\ Airing(m)}),
                  AnnouncedKey(a)))

\* The key of a media under either sort.
MediaReleaseKey(m) == IF media[m].season # Unknown THEN media[m].season
                      ELSE IF Unaired(m) THEN TbaSeasonKey ELSE Unknown

-----------------------------------------------------------------------------
(* The sweep's tiers, in the order of the cascade's urgency. *)

Tiers == <<"airing_now", "stabilizing", "weekly_cycle", "long_cycle", "archival_cycle">>
Urgency(tier) == CHOOSE i \in DOMAIN Tiers : Tiers[i] = tier

RecentMain(m) == /\ media[m].relation = "main"
                 /\ media[m].aired # Unknown
                 /\ media[m].aired >= RecentSince

MediaTier(m) == IF Airing(m) THEN "airing_now"
                ELSE IF media[m].stable < StabilizeThreshold THEN "stabilizing"
                ELSE IF RecentMain(m) THEN "weekly_cycle"
                ELSE IF media[m].aired # Unknown /\ media[m].aired < ArchivalBefore THEN "archival_cycle"
                ELSE "long_cycle"

AnimeTier(a) ==
    LET newestAired == LatestOf("aired", MediaOf(a))
    IN IF \E m \in MediaOf(a) : Airing(m) THEN "airing_now"
       ELSE IF \E m \in MediaOf(a) : media[m].stable < StabilizeThreshold THEN "stabilizing"
       ELSE IF \E m \in MediaOf(a) : RecentMain(m) THEN "weekly_cycle"
       ELSE IF newestAired # Unknown /\ newestAired < ArchivalBefore THEN "archival_cycle"
       ELSE "long_cycle"

-----------------------------------------------------------------------------
(* The caller's own: the rated states and the scope they leave. *)

Rateable(m) == ~Unaired(m)
RatedAs(m, status) == m \in DOMAIN rating /\ rating[m].status = status
RatedAnime == {home[m] : m \in DOMAIN rating}

\* A mutant: no guard for a main story that has not aired.
RatedStateVacuous(a) ==
    LET rateable == {m \in MediaOf(a) : Rateable(m)}
        main == {m \in rateable : MainStory(m)}
    IN IF \A m \in main : RatedAs(m, "completed")
       THEN IF \A m \in rateable : RatedAs(m, "completed") THEN "all" ELSE "main"
       ELSE IF \E m \in main : RatedAs(m, "dropped") THEN "dropped"
       ELSE IF \E m \in main : RatedAs(m, "on_hold") THEN "on_hold"
       ELSE "in_progress"
RatedState(a) ==
    LET rateable == {m \in MediaOf(a) : Rateable(m)}
        main == {m \in rateable : MainStory(m)}
    IN IF main # {} /\ \A m \in main : RatedAs(m, "completed")
       THEN IF \A m \in rateable : RatedAs(m, "completed") THEN "all" ELSE "main"
       ELSE IF \E m \in main : RatedAs(m, "dropped") THEN "dropped"
       ELSE IF \E m \in main : RatedAs(m, "on_hold") THEN "on_hold"
       ELSE "in_progress"

AnimeStates == [a \in RatedAnime |-> RatedState(a)]
MediaStates == [m \in DOMAIN rating |-> rating[m].status]
ListedAnime == {home[m] : m \in listed}

\* The include (Unknown: everything) and the exclude that the filters leave.
PersonalScope(rated, watchlisted, states, onList, scope) ==
    LET selected == {id \in DOMAIN states : states[id] \in rated}
        afterRated == IF rated = {} \/ "none" \in rated THEN scope
                      ELSE IF scope = Unknown THEN selected ELSE scope \cap selected
        barredRated == IF "none" \in rated THEN DOMAIN states \ selected ELSE {}
        include == IF watchlisted # "yes" THEN afterRated
                   ELSE IF afterRated = Unknown THEN onList ELSE afterRated \cap onList
        exclude == barredRated \cup (IF watchlisted = "no" THEN onList ELSE {})
    IN IF include = Unknown THEN [include |-> Unknown, exclude |-> exclude]
       ELSE [include |-> include \ exclude, exclude |-> {}]

InScope(id, scope) == /\ scope.include # Unknown => id \in scope.include
                      /\ id \notin scope.exclude

-----------------------------------------------------------------------------
(* Queries: the rows of the first pass that finds any. *)

FirstFound(strict, loose) == IF strict # {} THEN strict ELSE loose

\* A title matches at 2 (a substring, or above the strict threshold), 1 or 0.
MediaByTitle(scope) == FirstFound({m \in scope : media[m].title = 2},
                                  {m \in scope : media[m].title >= 1})
AnimeByTitle(scope) ==
    LET best(a) == Max({media[m].title : m \in MediaOf(a)})
    IN FirstFound({a \in scope : best(a) = 2}, {a \in scope : best(a) >= 1})

\* A note holds the query's words ("literal"), nearly so ("typo"), lies within
\* the cutoff of its meaning ("near") or matches nothing ("far").
NoteOf(m) == IF m \in DOMAIN rating THEN rating[m].note ELSE "far"
NotePass(pass) == IF pass = "strict" THEN {"literal", "near"} ELSE {"literal", "typo", "near"}

MediaByNote(scope) == FirstFound({m \in scope : NoteOf(m) \in NotePass("strict")},
                                 {m \in scope : NoteOf(m) \in NotePass("fuzzy")})
AnimeByNote(scope) ==
    LET held(a) == {NoteOf(m) : m \in MediaOf(a)}
    IN FirstFound({a \in scope : held(a) \cap NotePass("strict") # {}},
                  {a \in scope : held(a) \cap NotePass("fuzzy") # {}})

-----------------------------------------------------------------------------
(* Whole searches.  An empty set and Unknown filter nothing; the limit is    *)
(* left out.                                                                 *)

NoFilter ==
    [types |-> {}, ages |-> {}, statuses |-> {}, studios |-> {}, studioMode |-> "any",
     groups |-> {}, genreMode |-> "any", scoreMin |-> Unknown, scoreMax |-> Unknown,
     votesMin |-> Unknown, episodesMin |-> Unknown, topPercent |-> Unknown,
     upcoming |-> FALSE, rated |-> {}, watchlisted |-> "any"]

\* A mutant: the unscored media count among those ranked.
MediaTopPercentAll(m) ==
    LET metric(n) == media[n].score * Log10(media[n].votes)
        scored == KnownOf("score", Stored)
        rank == 1 + Cardinality({n \in scored : metric(m) < metric(n)})
        total == Cardinality(Stored)
    IN IF m \in scored THEN (rank * 100 + total - 1) \div total ELSE Unknown
\* A media's own badge, among the media.
MediaTopPercent(m) ==
    LET metric(n) == media[n].score * Log10(media[n].votes)
        scored == KnownOf("score", Stored)
        rank == 1 + Cardinality({n \in scored : metric(m) < metric(n)})
        total == Cardinality(scored)
    IN IF m \in scored THEN (rank * 100 + total - 1) \div total ELSE Unknown

\* SQL's comparison with a column that may be NULL.
AtLeast(value, least) == least # Unknown => value # Unknown /\ value >= least
AtMost(value, most) == most # Unknown => value # Unknown /\ value <= most

MediaPasses(m, f) ==
    /\ MediaHasStudios(m, f.types, f.studios, f.studioMode)
    /\ f.ages # {} => media[m].age \in f.ages
    /\ f.statuses # {} => media[m].status \in f.statuses
    /\ f.groups # {} => MatchesGroups(media[m].genres, f.groups, f.genreMode)
    /\ AtLeast(media[m].score, f.scoreMin) /\ AtMost(media[m].score, f.scoreMax)
    /\ AtLeast(media[m].votes, f.votesMin)
    /\ AtLeast(media[m].episodes, f.episodesMin)
    /\ AtMost(MediaTopPercent(m), f.topPercent)
    /\ f.upcoming => UpcomingMainMedia(m)

AnimePasses(a, f) ==
    /\ AnimeHasStudios(a, f.types, f.studios, f.studioMode)
    /\ f.ages # {} => HavingAgeIn(a, f.ages)
    /\ f.statuses # {} => HavingStatusIn(a, f.statuses)
    /\ f.groups # {} => GenreMatch(a, f.groups, f.genreMode)
    /\ f.scoreMin # Unknown => HavingScoreAtLeast(a, f.scoreMin)
    /\ f.scoreMax # Unknown => HavingScoreAtMost(a, f.scoreMax)
    /\ f.votesMin # Unknown => HavingVotesAtLeast(a, f.votesMin)
    /\ f.episodesMin # Unknown => HavingEpisodesAtLeast(a, f.episodesMin)
    /\ f.topPercent # Unknown => WithinTopPercent(a, f.topPercent)
    /\ f.upcoming => UpcomingMain(a)

MediaQueried(query, kept) == CASE query = "title" -> MediaByTitle(kept)
                               [] query = "notes" -> MediaByNote(kept)
                               [] OTHER -> kept
AnimeQueried(query, kept) == CASE query = "title" -> AnimeByTitle(kept)
                               [] query = "notes" -> AnimeByNote(kept)
                               [] OTHER -> kept

\* The media search is also held to what the spoiler frontier shows the caller.
SearchMedia(query, f, visible) ==
    LET scope == PersonalScope(f.rated, f.watchlisted, MediaStates, listed, visible)
    IN MediaQueried(query, {m \in Stored : InScope(m, scope) /\ MediaPasses(m, f)})

SearchAnime(query, f) ==
    LET scope == PersonalScope(f.rated, f.watchlisted, AnimeStates, ListedAnime, Unknown)
    IN AnimeQueried(query, {a \in Searched : InScope(a, scope) /\ AnimePasses(a, f)})

-----------------------------------------------------------------------------
(* What changes the catalogue and the caller's rows. *)

Init == /\ home = <<>>
        /\ media = <<>>
        /\ rating = <<>>
        /\ listed = {}

\* A scrape saves a media, of a new anime or of one that is there.
Save(m, a, content) ==
    /\ m \notin Stored
    /\ home' = [n \in Stored \cup {m} |-> IF n = m THEN a ELSE home[n]]
    /\ media' = [n \in Stored \cup {m} |-> IF n = m THEN content ELSE media[n]]
    /\ UNCHANGED <<rating, listed>>

\* A sweep brings a media up to date; MAL may take an aired one back.
Refresh(m, content) ==
    /\ m \in Stored
    /\ media' = [media EXCEPT ![m] = content]
    /\ UNCHANGED <<home, rating, listed>>

\* A merge or a split gives a media to another anime.
Reparent(m, a) ==
    /\ m \in Stored
    /\ home' = [home EXCEPT ![m] = a]
    /\ UNCHANGED <<media, rating, listed>>

\* The caller rates a media (a fresh rating only once it has aired) or deletes
\* the rating, and lists or unlists it.
Rate(m, opinion) ==
    /\ m \in Stored
    /\ m \in DOMAIN rating \/ Rateable(m)
    /\ rating' = [n \in DOMAIN rating \cup {m} |-> IF n = m THEN opinion ELSE rating[n]]
    /\ UNCHANGED <<home, media, listed>>

Unrate(m) ==
    /\ m \in DOMAIN rating
    /\ rating' = [n \in DOMAIN rating \ {m} |-> rating[n]]
    /\ UNCHANGED <<home, media, listed>>

List(m) ==
    /\ m \in Stored \ listed
    /\ listed' = listed \cup {m}
    /\ UNCHANGED <<home, media, rating>>

Unlist(m) ==
    /\ m \in listed
    /\ listed' = listed \ {m}
    /\ UNCHANGED <<home, media, rating>>

Next == \E m \in MediaIds :
    \/ \E a \in Anime : \/ \E content \in Contents : Save(m, a, content)
                        \/ Reparent(m, a)
    \/ \E content \in Contents : Refresh(m, content)
    \/ \E opinion \in Opinions : Rate(m, opinion)
    \/ Unrate(m)
    \/ List(m)
    \/ Unlist(m)

Spec == Init /\ [][Next]_vars
=============================================================================
