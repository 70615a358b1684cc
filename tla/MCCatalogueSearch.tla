-------------------------- MODULE MCCatalogueSearch --------------------------
(* CatalogueSearch over two anime and their media, and what its two grains   *)
(* and its two languages promise each other.                                 *)
EXTENDS CatalogueSearch, TLC

CONSTANTS MaxPersonal, a1, a2, m1, m2, m3

\* log10(votes + 1) in thousandths, by decades.
Decades(votes) == IF votes < 9 THEN 100 * votes ELSE IF votes < 99 THEN 1000 + 10 * (votes - 9) ELSE 2000

Entry(relation, type, status) ==
    [relation |-> relation, type |-> type, status |-> status,
     score |-> Unknown, votes |-> 0, episodes |-> Unknown, age |-> Unknown,
     genres |-> {}, studios |-> {}, season |-> Unknown, aired |-> Unknown,
     stable |-> StabilizeThreshold, title |-> 0]

\* Years stand for dates, and seasons are numbered year * 10 + rank.
FirstSeason == [Entry("main", "TV", "finished") EXCEPT !.score = 701, !.votes = 9, !.episodes = 12,
    !.age = 13, !.genres = {"drama"}, !.studios = {"s1"}, !.season = 20101, !.aired = 2010, !.title = 2]
RunningSeason == [Entry("main", "TV", "airing") EXCEPT !.score = 702, !.votes = 99, !.age = 17,
    !.genres = {"drama", "comedy"}, !.studios = {"s1"}, !.season = 20251, !.aired = 2025, !.stable = 1]
Sequel == [Entry("main", "TV", "announced") EXCEPT !.genres = {"comedy"}, !.studios = {"s2"},
    !.season = 20262, !.aired = 2026, !.title = 1]
SomedaySequel == Entry("main", "movie", "announced")
Version == [Entry("alternative_version", "movie", "finished") EXCEPT !.score = 702, !.votes = 9,
    !.episodes = 1, !.genres = {"drama"}, !.studios = {"s2"}, !.season = 20244, !.aired = 2024]
Special == [Entry("side_story", "special", "finished") EXCEPT !.score = 800, !.votes = 99,
    !.episodes = 1, !.age = 18, !.genres = {"comedy"}, !.studios = {"s2"}, !.season = 20212,
    !.aired = 2011, !.title = 1]
ComingSpecial == [Entry("side_story", "special", "announced") EXCEPT !.season = 20263, !.aired = 2026]

Shapes == {FirstSeason, RunningSeason, Sequel, SomedaySequel, Version, Special, ComingSpecial}
SeasonlessVersion == [Version EXCEPT !.season = Unknown, !.aired = Unknown]
UndatedShapes == Shapes \cup {SeasonlessVersion}

AllOpinions == {[status |-> "completed", note |-> "literal"], [status |-> "dropped", note |-> "typo"],
                [status |-> "on_hold", note |-> "far"]}

Symmetry == Permutations(Anime) \cup Permutations(MediaIds)

\* Bound: the caller's rows, the fewer the more media there are.
FewPersonal == Cardinality(DOMAIN rating) + Cardinality(listed) <= MaxPersonal - Cardinality(Stored)

-----------------------------------------------------------------------------
OneGroup(include, exclude) == {[include |-> include, mode |-> "any", exclude |-> exclude, excludeMode |-> "any"]}

\* What a filter keeps shows, on its card, what the filter asked for; where the
\* card shows no rounded value, the filter keeps exactly what shows it.  The genres
\* offered are those some card shows; a better anime has no worse badge, and a better one
\* up to a hundred, which is as far as a percentage tells anime apart.
CardKeepsFilter ==
    LET badge == [a \in Searched |-> TopPercent(a)]
        shown == [a \in Searched |-> CardGenres(a)]
    IN
    /\ OfferedGenres = UNION {shown[a] : a \in Searched}
    /\ \A a \in Searched :
        LET score == CardScore(a)
            votes == CardVotes(a)
            episodes == CardEpisodes(a)
        IN /\ \A s \in {701, 702} :
               /\ HavingScoreAtLeast(a, s) => score # Unknown /\ score >= s
               /\ HavingScoreAtMost(a, s) => score # Unknown /\ score <= s
           /\ \A v \in {9, 54, 99} : HavingVotesAtLeast(a, v) => votes >= v
           /\ \A e \in {1, 12, 13} : HavingEpisodesAtLeast(a, e) <=> episodes # Unknown /\ episodes >= e
           /\ \A tier \in {13, 17, 18} : HavingAgeIn(a, {tier}) <=> CardAge(a) = tier
           /\ \A status \in {"airing", "finished", "announced"} :
                  HavingStatusIn(a, {status}) <=> CardStatus(a) = status
           /\ \A g \in Genres :
                  /\ GenreMatch(a, OneGroup({g}, {}), "any") <=> g \in shown[a]
                  /\ GenreMatch(a, OneGroup({}, {g}), "all") <=> g \notin shown[a]
           /\ badge[a] # Unknown <=> score # Unknown
           /\ \A b \in Searched : Scored(a) /\ Scored(b) /\ Below(Metric(a), Metric(b)) =>
                  /\ badge[b] <= badge[a]
                  /\ Cardinality({c \in Searched : Scored(c)}) <= 100 => badge[b] < badge[a]

MostUrgent(tiers) == CHOOSE tier \in tiers : \A other \in tiers : Urgency(tier) <= Urgency(other)
Owners(S) == {home[m] : m \in S}

\* Franchises of one main-story media, of which none was rated and then unaired, and none
\* has votes but no score: its anime has no mean of them, and only the media is found by them.
AllSole ==
    /\ \A m \in Stored : MainStory(m) /\ MediaOf(home[m]) = {m}
    /\ \A m \in DOMAIN rating : Rateable(m)
    /\ \A m \in Stored : media[m].score = Unknown => media[m].votes = 0

SharedFilters ==
    {[NoFilter EXCEPT !.scoreMin = 702], [NoFilter EXCEPT !.scoreMax = 701],
     [NoFilter EXCEPT !.votesMin = 54, !.studios = Studios],
     [NoFilter EXCEPT !.episodesMin = 12, !.ages = {13, 17}],
     [NoFilter EXCEPT !.statuses = {"airing", "announced"}, !.types = {"TV"}],
     [NoFilter EXCEPT !.studios = Studios, !.studioMode = "all", !.watchlisted = "no"],
     [NoFilter EXCEPT !.groups = OneGroup({"comedy"}, {}), !.genreMode = "all"],
     [NoFilter EXCEPT !.groups = OneGroup({"drama"}, {"comedy"}), !.watchlisted = "yes"],
     [NoFilter EXCEPT !.topPercent = 50], [NoFilter EXCEPT !.topPercent = 99],
     [NoFilter EXCEPT !.rated = {"none", "on_hold"}], [NoFilter EXCEPT !.rated = {"dropped"}, !.scoreMin = 701],
     [NoFilter EXCEPT !.upcoming = TRUE]}

\* Where every franchise is one main-story media, the two grains' whole searches,
\* each with its own WHERE, HAVING, badge population, scope and passes, return the
\* same rows under every filter and query; and in every catalogue the media search
\* finds nothing the spoiler frontier hides, nor a media whose own anime is kept out
\* by a filter on what both grains know of every media.
WholeSearchesAgree ==
    /\ AllSole => \A f \in SharedFilters, query \in {"none", "title", "notes"} :
           SearchAnime(query, f) = Owners(SearchMedia(query, f, Unknown))
    /\ \A f \in {[NoFilter EXCEPT !.types = {"TV"}, !.studios = {"s1"}], [NoFilter EXCEPT !.upcoming = TRUE]} :
           \A query \in {"none", "title", "notes"} :
               LET frontier == {m \in Stored : ~Airing(m)}
                   found == SearchMedia(query, f, frontier)
               IN /\ found \subseteq frontier
                  /\ Owners(found) \subseteq SearchAnime("none", f)

\* What one of an anime's media is found by finds the anime, and nothing else does; the
\* sweep's tier of an anime is that of its most urgent media, when all of them are dated.
RolledUp ==
    /\ \A types \in {{}, {"TV"}, {"movie"}}, names \in SUBSET Studios, mode \in {"any", "all"} :
        LET byMedia == Owners({m \in Stored : MediaHasStudios(m, types, names, mode)})
            byAnime == {a \in Searched : AnimeHasStudios(a, types, names, mode)}
        IN byMedia \subseteq byAnime /\ (mode = "any" => byAnime = byMedia)
    /\ {a \in Searched : UpcomingMain(a)} = Owners({m \in Stored : UpcomingMainMedia(m)})
    /\ AnimeByNote(Searched) = Owners(MediaByNote(Stored))
    /\ AnimeByTitle(Searched) = Owners(MediaByTitle(Stored))
    /\ \A a \in Searched : (\A m \in MediaOf(a) : media[m].aired # Unknown) =>
           AnimeTier(a) = MostUrgent({MediaTier(m) : m \in MediaOf(a)})

\* The anime grain is the roll-up of the media grain, and the two whole searches agree
\* where the grains coincide.
GrainsAgree == RolledUp /\ WholeSearchesAgree

\* An upcoming anime is sorted at its announcement, an aired one at an aired
\* season of its main story; the two sorts part only over an announcement or a
\* second aired media.
TimelineHolds == \A a \in Searched :
    LET announced == {m \in MediaOf(a) : Announces(m)}
        aired == {m \in MediaOf(a) : MainStory(m) /\ ~Unaired(m)}
        release == ReleaseKey(a)
        latest == AiredKey(a)
    IN /\ UpcomingMain(a) => release \in {MediaReleaseKey(m) : m \in announced}
       /\ SeasonsOf(aired) # {} => latest \in SeasonsOf(aired)
       /\ release # Unknown => release \in {MediaReleaseKey(m) : m \in announced \cup aired}
       /\ release # latest => announced # {} \/ Cardinality(aired) > 1

\* docs/features/ratings.md, Rated state and coverage: the first row that matches.
DocumentedState(a) ==
    LET rated == {m \in MediaOf(a) : m \in DOMAIN rating}
        rateable == {m \in MediaOf(a) : Rateable(m)}
        main == {m \in rateable : MainStory(m)}
        done == {m \in rated : rating[m].status = "completed"}
        held(status) == \E m \in main \cap rated : rating[m].status = status
    IN IF rated = {} THEN "none"
       ELSE IF main # {} /\ rateable \subseteq done THEN "all"
       ELSE IF main # {} /\ main \subseteq done THEN "main"
       ELSE IF held("dropped") THEN "dropped"
       ELSE IF held("on_hold") THEN "on_hold"
       ELSE "in_progress"
ShownStatus(m) == IF m \in DOMAIN rating THEN rating[m].status ELSE "none"

RatedFilters == {{}, {"none"}, {"all"}, {"main", "dropped"}, {"none", "in_progress"}, {"none", "on_hold", "main"}}
StatusFilters == {{}, {"none"}, {"completed"}, {"none", "dropped"}}
FilterHolds(state, rated, onList, watchlisted) ==
    /\ rated # {} => state \in rated
    /\ watchlisted = "yes" => onList
    /\ watchlisted = "no" => ~onList

\* The personal filters keep exactly the rows whose documented state is selected
\* and that are, or are not, on the list; and never more than was visible.
ScopeIsUnion == \A watchlisted \in {"yes", "no", "any"} :
    /\ LET states == AnimeStates
           shown == [a \in Searched |-> DocumentedState(a)]
       IN \A rated \in RatedFilters :
            LET scope == PersonalScope(rated, watchlisted, states, ListedAnime, Unknown)
            IN \A a \in Searched : InScope(a, scope)
                 <=> FilterHolds(shown[a], rated, \E m \in MediaOf(a) : m \in listed, watchlisted)
    /\ \A rated \in StatusFilters, visible \in {Stored, DOMAIN rating, {m \in Stored : Finished(m)}} :
         LET scope == PersonalScope(rated, watchlisted, MediaStates, listed, visible)
         IN \A m \in Stored : InScope(m, scope)
              <=> m \in visible /\ FilterHolds(ShownStatus(m), rated, m \in listed, watchlisted)

\* "score/scored_by HAVING filters (via agg_columns) so they match the displayed avg"
\* (anime_dao.search_anime_aggregated): a card's own value finds the card.
ShownIsFound == \A a \in Searched :
    CardScore(a) # Unknown => HavingScoreAtLeast(a, CardScore(a)) /\ HavingScoreAtMost(a, CardScore(a))

\* "an anime inherits its most-urgent media's tier" (anime_dao._sweep_atoms), dated or not.
TierRollsUpAlways == \A a \in Searched :
    AnimeTier(a) = MostUrgent({MediaTier(m) : m \in MediaOf(a)})

\* "announcements count only for an anime with nothing aired" (docs/features/search.md).
AnnouncementsOnlyUnaired == \A a \in Searched :
    (\E m \in MediaOf(a) : MainStory(m) /\ ~Unaired(m)) =>
        AiredKey(a) = Unknown
        \/ \E m \in MediaOf(a) : MainStory(m) /\ ~Unaired(m) /\ media[m].season = AiredKey(a)
=============================================================================
