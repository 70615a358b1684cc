----------------------- MODULE CatalogueSearchProofs -----------------------
(***************************************************************************)
(* What holds of CatalogueSearch for every catalogue, of any number of anime  *)
(* and media: that the personal filters keep the rated states the            *)
(* documentation lists, that the season sorts place an anime at a season of  *)
(* its own, and that the anime grain is the roll-up of the media grain.      *)
(*                                                                         *)
(* The state needs little: CatalogueInv is its types.  The rest is about the  *)
(* operators, which a NULL, an empty set of media or a set of sets of        *)
(* studios makes harder than they look.                                     *)
(***************************************************************************)
EXTENDS MCCatalogueSearch, Counting, FiniteSetTheorems, TLAPS

-----------------------------------------------------------------------------
(* The inductive invariant *)

CatalogueInv ==
    /\ IsFiniteSet(Stored) /\ Stored \subseteq MediaIds
    /\ home \in [Stored -> Anime] /\ media \in [Stored -> Contents]
    /\ rating \in [DOMAIN rating -> Opinions] /\ DOMAIN rating \subseteq Stored
    /\ listed \subseteq Stored

LEMMA CatalogueInductive == CatalogueInv /\ [Next]_vars => CatalogueInv'
  <1> SUFFICES ASSUME CatalogueInv, [Next]_vars PROVE CatalogueInv'
    OBVIOUS
  <1> USE DEF CatalogueInv, Stored
  <1>1. ASSUME NEW m \in MediaIds, NEW a \in Anime, NEW content \in Contents, Save(m, a, content)
        PROVE  CatalogueInv'
    <2>1. DOMAIN home' = DOMAIN home \cup {m} /\ home' \in [DOMAIN home \cup {m} -> Anime]
      BY <1>1 DEF Save
    <2>2. media' \in [DOMAIN home \cup {m} -> Contents]
      BY <1>1 DEF Save
    <2>3. IsFiniteSet(DOMAIN home \cup {m})
      BY FS_AddElement
    <2> QED
      BY <1>1, <2>1, <2>2, <2>3 DEF Save
  <1>2. ASSUME NEW m \in MediaIds, NEW a \in Anime, Reparent(m, a) PROVE CatalogueInv'
    <2>1. home' \in [DOMAIN home -> Anime] /\ DOMAIN home' = DOMAIN home
      BY <1>2 DEF Reparent
    <2> QED
      BY <1>2, <2>1 DEF Reparent
  <1>3. ASSUME NEW m \in MediaIds, NEW content \in Contents, Refresh(m, content) PROVE CatalogueInv'
    BY <1>3 DEF Refresh
  <1>4. ASSUME NEW m \in MediaIds, NEW opinion \in Opinions, Rate(m, opinion) PROVE CatalogueInv'
    <2>1. DOMAIN rating' = DOMAIN rating \cup {m} /\ rating' \in [DOMAIN rating \cup {m} -> Opinions]
      BY <1>4 DEF Rate
    <2> QED
      BY <1>4, <2>1 DEF Rate
  <1>5. ASSUME NEW m \in MediaIds, Unrate(m) PROVE CatalogueInv'
    <2>1. DOMAIN rating' = DOMAIN rating \ {m} /\ rating' \in [DOMAIN rating \ {m} -> Opinions]
      BY <1>5 DEF Unrate
    <2> QED
      BY <1>5, <2>1 DEF Unrate
  <1>6. ASSUME NEW m \in MediaIds, List(m) PROVE CatalogueInv'
    BY <1>6 DEF List
  <1>7. ASSUME NEW m \in MediaIds, Unlist(m) PROVE CatalogueInv'
    BY <1>7 DEF Unlist
  <1>8. CASE UNCHANGED vars
    BY <1>8 DEF vars
  <1> QED
    BY <1>1, <1>2, <1>3, <1>4, <1>5, <1>6, <1>7, <1>8 DEF Next

LEMMA CatalogueInvHolds == Spec => []CatalogueInv
  <1>1. Init => CatalogueInv
    BY FS_EmptySet DEF Init, CatalogueInv, Stored
  <1> QED
    BY <1>1, CatalogueInductive, PTL DEF Spec

-----------------------------------------------------------------------------
(* The personal filters *)

\* What `states` says of an id, of which it may say nothing.
StateIn(states, id) == IF id \in DOMAIN states THEN states[id] ELSE "none"

\* What a scope is made of, over rows with these ids.
ScopeOver(ids, states, onList, scope) ==
    /\ Unknown \notin SUBSET ids /\ (scope = Unknown \/ scope \subseteq ids)
    /\ DOMAIN states \subseteq ids /\ onList \subseteq ids
    /\ \A i \in DOMAIN states : states[i] # "none"

\* A scope lets through what the filters ask for, of what was in it.
LEMMA ScopeIs ==
    ASSUME NEW rated, NEW watchlisted \in {"yes", "no", "any"}, NEW states, NEW onList, NEW ids,
           NEW id \in ids, NEW scope, ScopeOver(ids, states, onList, scope)
    PROVE  InScope(id, PersonalScope(rated, watchlisted, states, onList, scope))
             <=> (scope # Unknown => id \in scope) /\ FilterHolds(StateIn(states, id), rated, id \in onList, watchlisted)
  <1> DEFINE selected == {i \in DOMAIN states : states[i] \in rated}
             afterRated == IF rated = {} \/ "none" \in rated THEN scope
                           ELSE IF scope = Unknown THEN selected ELSE scope \cap selected
             barredRated == IF "none" \in rated THEN DOMAIN states \ selected ELSE {}
             include == IF watchlisted # "yes" THEN afterRated
                        ELSE IF afterRated = Unknown THEN onList ELSE afterRated \cap onList
             exclude == barredRated \cup (IF watchlisted = "no" THEN onList ELSE {})
  <1>1. PersonalScope(rated, watchlisted, states, onList, scope) =
          IF include = Unknown THEN [include |-> Unknown, exclude |-> exclude]
          ELSE [include |-> include \ exclude, exclude |-> {}]
    BY DEF PersonalScope
  <1> USE DEF ScopeOver
  <1>2. selected \subseteq ids
    OBVIOUS
  <1>3. (afterRated # Unknown => id \in afterRated) <=>
          /\ scope # Unknown => id \in scope
          /\ rated # {} /\ "none" \notin rated => id \in selected
    BY <1>2
  <1>4. afterRated = Unknown \/ afterRated \subseteq ids
    BY <1>2
  <1> HIDE DEF afterRated
  <1>5. (include # Unknown => id \in include) <=>
          /\ afterRated # Unknown => id \in afterRated
          /\ watchlisted = "yes" => id \in onList
    BY <1>4
  <1>6. include = Unknown \/ include \subseteq ids
    BY <1>4
  <1> HIDE DEF include
  <1>7. id \notin exclude <=> /\ "none" \in rated /\ id \in DOMAIN states => id \in selected
                              /\ watchlisted = "no" => id \notin onList
    OBVIOUS
  <1>8. include # Unknown => include \ exclude # Unknown
    BY <1>6
  <1> HIDE DEF exclude
  <1>9. InScope(id, PersonalScope(rated, watchlisted, states, onList, scope)) <=>
          (include # Unknown => id \in include) /\ id \notin exclude
    BY <1>1, <1>8 DEF InScope
  <1>10. (rated # {} => StateIn(states, id) \in rated) <=>
           /\ rated # {} /\ "none" \notin rated => id \in selected
           /\ "none" \in rated /\ id \in DOMAIN states => id \in selected
    BY DEF StateIn
  <1> QED
    BY <1>3, <1>5, <1>7, <1>9, <1>10 DEF FilterHolds

\* The state that the search gives a rated anime is the documented one.
LEMMA StateAsDocumented ==
    ASSUME CatalogueInv, NEW a
    PROVE  /\ DocumentedState(a) = IF a \in RatedAnime THEN RatedState(a) ELSE "none"
           /\ RatedState(a) # "none"
  <1> DEFINE rateable == {m \in MediaOf(a) : Rateable(m)}
             main == {m \in rateable : MainStory(m)}
             rated == {m \in MediaOf(a) : m \in DOMAIN rating}
             done == {m \in rated : rating[m].status = "completed"}
  <1>1. a \in RatedAnime <=> rated # {}
    BY DEF RatedAnime, CatalogueInv, MediaOf, Stored
  <1>2. main \subseteq rateable /\ rateable \subseteq MediaOf(a)
    OBVIOUS
  <1> HIDE DEF rateable, main
  <1>3. rateable \subseteq done <=> \A m \in rateable : RatedAs(m, "completed")
    BY <1>2 DEF RatedAs
  <1>4. main \subseteq done <=> \A m \in main : RatedAs(m, "completed")
    BY <1>2 DEF RatedAs
  <1>5. \A status : (\E m \in main \cap rated : rating[m].status = status) <=> \E m \in main : RatedAs(m, status)
    BY <1>2 DEF RatedAs
  <1>6. DocumentedState(a) =
          IF rated = {} THEN "none"
          ELSE IF main # {} /\ rateable \subseteq done THEN "all"
          ELSE IF main # {} /\ main \subseteq done THEN "main"
          ELSE IF \E m \in main \cap rated : rating[m].status = "dropped" THEN "dropped"
          ELSE IF \E m \in main \cap rated : rating[m].status = "on_hold" THEN "on_hold"
          ELSE "in_progress"
    BY DEF DocumentedState, main, rateable
  <1>7. RatedState(a) =
          IF main # {} /\ \A m \in main : RatedAs(m, "completed")
          THEN IF \A m \in rateable : RatedAs(m, "completed") THEN "all" ELSE "main"
          ELSE IF \E m \in main : RatedAs(m, "dropped") THEN "dropped"
          ELSE IF \E m \in main : RatedAs(m, "on_hold") THEN "on_hold"
          ELSE "in_progress"
    BY DEF RatedState, main, rateable
  <1> HIDE DEF rated, done
  <1> QED
    BY <1>1, <1>2, <1>3, <1>4, <1>5, <1>6, <1>7

LEMMA AnimeScope ==
    ASSUME CatalogueInv, NEW rated, NEW watchlisted \in {"yes", "no", "any"}, NEW a \in Searched
    PROVE  InScope(a, PersonalScope(rated, watchlisted, AnimeStates, ListedAnime, Unknown))
             <=> FilterHolds(DocumentedState(a), rated, \E m \in MediaOf(a) : m \in listed, watchlisted)
  <1>1. a \in Anime /\ DOMAIN AnimeStates \subseteq Anime /\ ListedAnime \subseteq Anime
    BY DEF AnimeStates, RatedAnime, ListedAnime, Searched, CatalogueInv
  <1>2. \A b \in DOMAIN AnimeStates : AnimeStates[b] # "none"
    BY StateAsDocumented DEF AnimeStates
  <1>3. DocumentedState(a) = StateIn(AnimeStates, a)
    BY StateAsDocumented DEF AnimeStates, StateIn
  <1>4. a \in ListedAnime <=> \E m \in MediaOf(a) : m \in listed
    BY DEF ListedAnime, MediaOf, CatalogueInv, Stored
  <1>5. InScope(a, PersonalScope(rated, watchlisted, AnimeStates, ListedAnime, Unknown))
          <=> (Unknown # Unknown => a \in Unknown)
                /\ FilterHolds(StateIn(AnimeStates, a), rated, a \in ListedAnime, watchlisted)
    <2>1. ScopeOver(Anime, AnimeStates, ListedAnime, Unknown)
      BY <1>1, <1>2, CatalogueAssumption DEF ScopeOver
    <2> QED
      BY <1>1, <2>1, ScopeIs, Zenon
  <1> QED
    BY <1>3, <1>4, <1>5 DEF FilterHolds

LEMMA MediaScope ==
    ASSUME CatalogueInv, NEW rated, NEW watchlisted \in {"yes", "no", "any"},
           NEW visible, visible = Unknown \/ visible \subseteq Stored, NEW m \in Stored
    PROVE  InScope(m, PersonalScope(rated, watchlisted, MediaStates, listed, visible))
             <=> (visible # Unknown => m \in visible)
                   /\ FilterHolds(ShownStatus(m), rated, m \in listed, watchlisted)
  <1>1. /\ m \in MediaIds /\ (visible = Unknown \/ visible \subseteq MediaIds) /\ listed \subseteq MediaIds
        /\ DOMAIN MediaStates \subseteq MediaIds
    BY DEF CatalogueInv, MediaStates
  <1>2. \A n \in DOMAIN MediaStates : MediaStates[n] # "none"
    BY CatalogueAssumption DEF CatalogueInv, MediaStates
  <1>3. ShownStatus(m) = StateIn(MediaStates, m)
    BY DEF MediaStates, ShownStatus, StateIn
  <1>4. ScopeOver(MediaIds, MediaStates, listed, visible)
    <2>1. Unknown \notin SUBSET MediaIds
      BY CatalogueAssumption
    <2> QED
      BY <1>1, <1>2, <2>1 DEF ScopeOver
  <1>5. InScope(m, PersonalScope(rated, watchlisted, MediaStates, listed, visible))
          <=> (visible # Unknown => m \in visible)
                /\ FilterHolds(StateIn(MediaStates, m), rated, m \in listed, watchlisted)
    BY <1>1, <1>4, ScopeIs, Zenon
  <1> QED
    BY <1>3, <1>5

\* Whatever the catalogue and the caller's rows: the personal filters of both grains keep
\* what their documented states select, and nothing that was not visible
\* (personal_scope, docs/features/ratings.md).
THEOREM ScopeHolds == Spec => []ScopeIsUnion
  <1>1. CatalogueInv => ScopeIsUnion
    <2> SUFFICES ASSUME CatalogueInv, NEW watchlisted \in {"yes", "no", "any"}
                 PROVE  /\ \A rated \in RatedFilters, a \in Searched :
                             InScope(a, PersonalScope(rated, watchlisted, AnimeStates, ListedAnime, Unknown))
                               <=> FilterHolds(DocumentedState(a), rated, \E m \in MediaOf(a) : m \in listed, watchlisted)
                        /\ \A rated \in StatusFilters, visible \in {Stored, DOMAIN rating, {m \in Stored : Finished(m)}},
                              m \in Stored :
                             InScope(m, PersonalScope(rated, watchlisted, MediaStates, listed, visible))
                               <=> m \in visible /\ FilterHolds(ShownStatus(m), rated, m \in listed, watchlisted)
      BY DEF ScopeIsUnion
    <2>1. ASSUME NEW visible \in {Stored, DOMAIN rating, {m \in Stored : Finished(m)}}
          PROVE  visible \subseteq Stored /\ visible # Unknown
      <3>1. visible \subseteq Stored /\ visible \subseteq MediaIds
        BY DEF CatalogueInv
      <3> QED
        BY <3>1, CatalogueAssumption
    <2>2. ASSUME NEW rated \in RatedFilters, NEW a \in Searched
          PROVE  InScope(a, PersonalScope(rated, watchlisted, AnimeStates, ListedAnime, Unknown))
                   <=> FilterHolds(DocumentedState(a), rated, \E m \in MediaOf(a) : m \in listed, watchlisted)
      BY AnimeScope
    <2>3. ASSUME NEW rated \in StatusFilters, NEW m \in Stored,
                 NEW visible \in {Stored, DOMAIN rating, {n \in Stored : Finished(n)}}
          PROVE  InScope(m, PersonalScope(rated, watchlisted, MediaStates, listed, visible))
                   <=> m \in visible /\ FilterHolds(ShownStatus(m), rated, m \in listed, watchlisted)
      <3>1. InScope(m, PersonalScope(rated, watchlisted, MediaStates, listed, visible))
              <=> (visible # Unknown => m \in visible)
                    /\ FilterHolds(ShownStatus(m), rated, m \in listed, watchlisted)
        BY <2>1, MediaScope
      <3> QED
        BY <2>1, <3>1
    <2> QED
      BY <2>2, <2>3
  <1> QED
    BY <1>1, CatalogueInvHolds, PTL

-----------------------------------------------------------------------------
(* The season timeline *)

LEMMA StoredContent ==
    ASSUME CatalogueInv, NEW m \in Stored
    PROVE  /\ media[m].status \in {"airing", "finished", "announced"}
           /\ media[m].season # Unknown => media[m].season \in Int
           /\ media[m].aired # Unknown => media[m].aired \in Int
           /\ media[m].title \in 0 .. 2
  <1>1. media[m] \in Contents
    BY DEF CatalogueInv
  <1> QED
    BY <1>1, CatalogueAssumption

LEMMA MediaFinite ==
    ASSUME CatalogueInv, NEW S, S \subseteq Stored
    PROVE  IsFiniteSet(S)
  BY FS_Subset DEF CatalogueInv

\* The latest season, or date, of some media is one of theirs.
LEMMA LatestIs ==
    ASSUME CatalogueInv, NEW S, S \subseteq Stored, NEW field \in {"season", "aired"}
    PROVE  /\ KnownOf(field, S) = {} => LatestOf(field, S) = Unknown
           /\ KnownOf(field, S) # {} =>
                /\ LatestOf(field, S) \in {media[m][field] : m \in KnownOf(field, S)}
                /\ \A m \in KnownOf(field, S) : media[m][field] <= LatestOf(field, S)
                /\ LatestOf(field, S) # Unknown
  <1>1. KnownOf(field, S) = {} => LatestOf(field, S) = Unknown
    BY DEF LatestOf
  <1>2. ASSUME KnownOf(field, S) # {}
        PROVE  /\ LatestOf(field, S) \in {media[m][field] : m \in KnownOf(field, S)}
               /\ \A m \in KnownOf(field, S) : media[m][field] <= LatestOf(field, S)
               /\ LatestOf(field, S) # Unknown
    <2> DEFINE K == KnownOf(field, S)
               f == [m \in Stored |-> media[m][field]]
               V == {media[m][field] : m \in K}
    <2>1. K \subseteq Stored /\ \A m \in K : media[m][field] # Unknown
      BY DEF KnownOf
    <2>2. \A m \in K : media[m][field] \in Int
      BY <2>1, StoredContent
    <2>3. IsFiniteSet(V)
      <3>1. V = {f[m] : m \in K}
        BY <2>1
      <3>2. IsFiniteSet(K)
        BY <2>1, MediaFinite
      <3> HIDE DEF f, K, V
      <3> QED
        BY <3>1, <3>2, ImageFinite
    <2>4. V \subseteq Int /\ V # {}
      BY <1>2, <2>2
    <2>5. LatestOf(field, S) = Max(V)
      BY <1>2 DEF LatestOf
    <2>6. \A m \in K : media[m][field] \in V
      OBVIOUS
    <2>7. \A v \in V : v # Unknown
      BY <2>1
    <2> HIDE DEF V, K
    <2>8. Max(V) \in V /\ \A v \in V : v <= Max(V)
      BY <2>3, <2>4, MaxOfFinite
    <2> QED
      BY <2>5, <2>6, <2>7, <2>8 DEF V, K
  <1> QED
    BY <1>1, <1>2

LEMMA LatestSeason ==
    ASSUME CatalogueInv, NEW S, S \subseteq Stored
    PROVE  /\ SeasonsOf(S) = {} => LatestOf("season", S) = Unknown
           /\ SeasonsOf(S) # {} => LatestOf("season", S) \in SeasonsOf(S) /\ LatestOf("season", S) # Unknown
  <1>1. SeasonsOf(S) = {media[m].season : m \in KnownOf("season", S)}
    BY DEF SeasonsOf
  <1> QED
    BY <1>1, LatestIs

\* What an announcement is sorted by is the season of one that is announced, or the key
\* of those without.
LEMMA AnnouncedIs ==
    ASSUME CatalogueInv, NEW a, NEW announced, announced = {m \in MediaOf(a) : Announces(m)}
    PROVE  /\ announced = {} => AnnouncedKey(a) = Unknown
           /\ announced # {} => /\ AnnouncedKey(a) \in {MediaReleaseKey(m) : m \in announced}
                                /\ AnnouncedKey(a) # Unknown
  <1>1. announced \subseteq Stored /\ \A m \in announced : Unaired(m)
    BY DEF MediaOf, Announces
  <1>2. AnnouncedKey(a) = IF SeasonsOf(announced) # {} THEN Min(SeasonsOf(announced))
                          ELSE IF announced # {} THEN TbaSeasonKey ELSE Unknown
    BY DEF AnnouncedKey
  <1>3. SeasonsOf(announced) # {} => announced # {}
    BY DEF SeasonsOf, KnownOf
  <1>4. CASE SeasonsOf(announced) # {}
    <2> DEFINE K == KnownOf("season", announced)
               f == [m \in Stored |-> media[m].season]
               V == SeasonsOf(announced)
    <2>1. K \subseteq announced /\ K \subseteq Stored /\ \A m \in K : media[m].season # Unknown
      BY <1>1 DEF KnownOf
    <2>2. V = {media[m].season : m \in K}
      BY DEF SeasonsOf
    <2>3. IsFiniteSet(V)
      <3>1. V = {f[m] : m \in K}
        BY <2>1, <2>2
      <3>2. IsFiniteSet(K)
        BY <2>1, MediaFinite
      <3> HIDE DEF f, K, V
      <3> QED
        BY <3>1, <3>2, ImageFinite
    <2>4. V \subseteq Int
      BY <2>1, <2>2, StoredContent
    <2> HIDE DEF V, K
    <2>5. Min(V) \in V
      BY <1>4, <2>3, <2>4, MinOfFinite DEF V
    <2>6. PICK m \in K : Min(V) = media[m].season
      BY <2>2, <2>5
    <2>7. Min(V) = MediaReleaseKey(m) /\ Min(V) # Unknown
      BY <2>1, <2>6 DEF MediaReleaseKey
    <2> QED
      BY <1>2, <1>3, <1>4, <2>1, <2>7 DEF V
  <1>5. CASE SeasonsOf(announced) = {} /\ announced # {}
    <2>1. PICK m \in announced : TRUE
      BY <1>5
    <2>2. media[m].season = Unknown
      BY <1>5 DEF SeasonsOf, KnownOf
    <2>3. MediaReleaseKey(m) = TbaSeasonKey
      BY <1>1, <2>2 DEF MediaReleaseKey
    <2> QED
      BY <1>2, <1>5, <2>3, CatalogueAssumption DEF TbaSeasonKey
  <1> QED
    BY <1>2, <1>3, <1>4, <1>5

\* Whatever the catalogue: an upcoming anime is sorted at one of its announcements, an aired
\* one at a season its main story aired in (anime_release_key, anime_aired_key).
THEOREM TimelineIsKept == Spec => []TimelineHolds
  <1>1. ASSUME CatalogueInv, NEW a \in Searched
        PROVE  LET announced == {m \in MediaOf(a) : Announces(m)}
                   aired == {m \in MediaOf(a) : MainStory(m) /\ ~Unaired(m)}
                   release == ReleaseKey(a)
                   latest == AiredKey(a)
               IN /\ UpcomingMain(a) => release \in {MediaReleaseKey(m) : m \in announced}
                  /\ SeasonsOf(aired) # {} => latest \in SeasonsOf(aired)
                  /\ release # Unknown => release \in {MediaReleaseKey(m) : m \in announced \cup aired}
                  /\ release # latest => announced # {} \/ Cardinality(aired) > 1
    <2> DEFINE announced == {m \in MediaOf(a) : Announces(m)}
               aired == {m \in MediaOf(a) : MainStory(m) /\ ~Unaired(m)}
               ended == {m \in MediaOf(a) : MainStory(m) /\ Finished(m)}
               running == {m \in MediaOf(a) : MainStory(m) /\ Airing(m)}
               key == AnnouncedKey(a)
    <2>1. aired \subseteq Stored /\ ended \subseteq Stored /\ running \subseteq Stored
      BY DEF MediaOf
    <2>2. aired = ended \cup running
      BY <1>1, <2>1, StoredContent DEF Unaired, Finished, Airing, MediaOf
    <2>3. /\ announced = {} => key = Unknown
          /\ announced # {} => key \in {MediaReleaseKey(m) : m \in announced} /\ key # Unknown
      BY <1>1, AnnouncedIs
    <2>4. /\ ReleaseKey(a) = OrElse(key, LatestOf("season", aired))
          /\ AiredKey(a) = OrElse(LatestOf("season", ended), OrElse(LatestOf("season", running), key))
      BY DEF ReleaseKey, AiredKey
    <2>5. \A S \in {aired, ended, running} :
             /\ SeasonsOf(S) = {} => LatestOf("season", S) = Unknown
             /\ SeasonsOf(S) # {} => LatestOf("season", S) \in SeasonsOf(S) /\ LatestOf("season", S) # Unknown
      BY <1>1, <2>1, LatestSeason
    <2>6. UpcomingMain(a) => announced # {}
      BY DEF UpcomingMain, UpcomingMainMedia
    <2>7. SeasonsOf(aired) = SeasonsOf(ended) \cup SeasonsOf(running)
      BY <2>2 DEF SeasonsOf, KnownOf
    <2>8. SeasonsOf(aired) \subseteq {MediaReleaseKey(m) : m \in aired}
      BY DEF SeasonsOf, KnownOf, MediaReleaseKey
    <2>9. ASSUME ~(Cardinality(aired) > 1) PROVE (aired = ended /\ running = {}) \/ (aired = running /\ ended = {})
      <3>1. IsFiniteSet(aired)
        BY <1>1, <2>1, MediaFinite
      <3>2. ASSUME NEW m \in ended, NEW n \in running PROVE FALSE
        <4>1. m # n
          BY <3>2 DEF Finished, Airing
        <4>2. {m, n} \subseteq aired
          BY <2>2, <3>2
        <4>3. Cardinality({m, n}) <= Cardinality(aired) /\ Cardinality(aired) \in Nat
          BY <3>1, <4>2, FS_Subset, FS_CardinalityType
        <4>4. Cardinality({m, n}) = 2
          <5>1. IsFiniteSet({m}) /\ Cardinality({m}) = 1 /\ n \notin {m}
            BY <4>1, FS_Singleton
          <5>2. Cardinality({m} \cup {n}) = 1 + 1
            BY <5>1, FS_AddElement
          <5>3. {m} \cup {n} = {m, n}
            OBVIOUS
          <5> QED
            BY <5>2, <5>3
        <4> QED
          BY <2>9, <4>3, <4>4
      <3> QED
        BY <2>2, <3>2
    <2> HIDE DEF announced, aired, ended, running, key
    <2>10. UpcomingMain(a) => ReleaseKey(a) \in {MediaReleaseKey(m) : m \in announced}
      BY <2>3, <2>4, <2>6 DEF OrElse
    <2>11. SeasonsOf(aired) # {} => AiredKey(a) \in SeasonsOf(aired)
      BY <2>4, <2>5, <2>7 DEF OrElse
    <2>12. ReleaseKey(a) # Unknown => ReleaseKey(a) \in {MediaReleaseKey(m) : m \in announced \cup aired}
      BY <2>3, <2>4, <2>5, <2>8 DEF OrElse
    <2>13. ReleaseKey(a) # AiredKey(a) => announced # {} \/ Cardinality(aired) > 1
      <3> SUFFICES ASSUME announced = {}, ~(Cardinality(aired) > 1) PROVE ReleaseKey(a) = AiredKey(a)
        OBVIOUS
      <3>1. SeasonsOf({}) = {}
        BY DEF SeasonsOf, KnownOf
      <3> QED
        BY <2>3, <2>4, <2>5, <2>9, <3>1 DEF OrElse
    <2> QED
      BY <2>10, <2>11, <2>12, <2>13 DEF announced, aired
  <1>2. CatalogueInv => TimelineHolds
    BY <1>1, Zenon DEF TimelineHolds
  <1> QED
    BY <1>2, CatalogueInvHolds, PTL

-----------------------------------------------------------------------------
(* The two grains *)

LEMMA SearchedIs ==
    /\ \A m \in Stored : home[m] \in Searched /\ m \in MediaOf(home[m])
    /\ \A a : \A m \in MediaOf(a) : m \in Stored /\ home[m] = a
    /\ \A a \in Searched : MediaOf(a) # {}
    /\ \A S : \A a : a \in Owners(S) <=> \E m \in S : home[m] = a
  BY DEF Searched, MediaOf, Owners

\* A studio that is asked for is credited on a media that meets the other conditions.
LEMMA StudiosRollUp ==
    ASSUME CatalogueInv, NEW types, NEW names, IsFiniteSet(names), NEW mode \in {"any", "all"}, NEW a \in Searched
    PROVE  /\ \A m \in MediaOf(a) : MediaHasStudios(m, types, names, mode) => AnimeHasStudios(a, types, names, mode)
           /\ mode = "any" /\ AnimeHasStudios(a, types, names, mode) =>
                \E m \in MediaOf(a) : MediaHasStudios(m, types, names, mode)
  <1> DEFINE matching == {m \in MediaOf(a) : Categorical(m, types)}
             credited == (UNION {media[m].studios : m \in matching}) \cap names
  <1>1. AnimeHasStudios(a, types, names, mode) <=>
          matching # {} /\ (names # {} => Cardinality(credited) >= Needed(names, mode))
    BY DEF AnimeHasStudios
  <1>3. IsFiniteSet(credited) /\ Cardinality(credited) \in Nat /\ Cardinality(names) \in Nat
    <2>1. credited \subseteq names
      OBVIOUS
    <2> HIDE DEF credited
    <2> QED
      BY <2>1, FS_Subset, FS_CardinalityType
  <1>4. ASSUME NEW m \in MediaOf(a), MediaHasStudios(m, types, names, mode) PROVE AnimeHasStudios(a, types, names, mode)
    <2>1. m \in matching /\ (names # {} => Cardinality(media[m].studios \cap names) >= Needed(names, mode))
      BY <1>4 DEF MediaHasStudios
    <2>2. media[m].studios \cap names \subseteq credited
      BY <2>1
    <2> HIDE DEF credited, matching
    <2>3. /\ Cardinality(media[m].studios \cap names) <= Cardinality(credited)
          /\ Cardinality(media[m].studios \cap names) \in Nat
      BY <1>3, <2>2, FS_Subset, FS_CardinalityType
    <2>4. Needed(names, mode) \in Nat
      BY <1>3 DEF Needed
    <2> QED
      BY <1>1, <1>3, <2>1, <2>3, <2>4
  <1>5. ASSUME mode = "any", AnimeHasStudios(a, types, names, mode)
        PROVE  \E m \in MediaOf(a) : MediaHasStudios(m, types, names, mode)
    <2>1. matching # {} /\ (names # {} => Cardinality(credited) >= 1)
      BY <1>1, <1>5 DEF Needed
    <2>2. CASE names = {}
      BY <2>1, <2>2 DEF MediaHasStudios
    <2>3. CASE names # {}
      <3>1. credited # {}
        <4> HIDE DEF credited
        <4> QED
          BY <2>1, <2>3, FS_EmptySet
      <3>2. PICK m \in matching : media[m].studios \cap names # {}
        BY <3>1
      <3>3. Cardinality(media[m].studios \cap names) >= 1
        <4>1. IsFiniteSet(media[m].studios \cap names)
          BY FS_Subset
        <4>2. Cardinality(media[m].studios \cap names) \in Nat /\ Cardinality(media[m].studios \cap names) # 0
          BY <3>2, <4>1, FS_EmptySet, FS_CardinalityType
        <4> QED
          BY <4>2
      <3> QED
        BY <1>5, <3>2, <3>3 DEF MediaHasStudios, Needed
    <2> QED
      BY <2>2, <2>3
  <1> QED
    BY <1>4, <1>5

\* Media, and the anime that are searched with them.
Grain(S, A) == S \subseteq Stored /\ A = Owners(S) /\ \A m \in Stored : home[m] \in A => m \in S

LEMMA PassesRollUp ==
    ASSUME NEW S1, NEW S2
    PROVE  FirstFound(Owners(S1), Owners(S2)) = Owners(FirstFound(S1, S2))
  <1>1. Owners(S1) # {} <=> S1 # {}
    BY DEF Owners
  <1> QED
    BY <1>1 DEF FirstFound

LEMMA NotesRollUp ==
    ASSUME NEW S, NEW A, Grain(S, A)
    PROVE  AnimeByNote(A) = Owners(MediaByNote(S))
  <1> DEFINE held(a) == {NoteOf(m) : m \in MediaOf(a)}
  <1>1. ASSUME NEW pass
        PROVE  {a \in A : held(a) \cap NotePass(pass) # {}} = Owners({m \in S : NoteOf(m) \in NotePass(pass)})
    <2>1. ASSUME NEW a \in A, held(a) \cap NotePass(pass) # {}
          PROVE  a \in Owners({m \in S : NoteOf(m) \in NotePass(pass)})
      <3>1. PICK m \in MediaOf(a) : NoteOf(m) \in NotePass(pass)
        BY <2>1
      <3>2. m \in S /\ home[m] = a
        BY <2>1, SearchedIs DEF Grain
      <3> QED
        BY <3>1, <3>2, SearchedIs
    <2>2. ASSUME NEW a \in Owners({m \in S : NoteOf(m) \in NotePass(pass)})
          PROVE  a \in A /\ held(a) \cap NotePass(pass) # {}
      <3>1. PICK m \in S : home[m] = a /\ NoteOf(m) \in NotePass(pass)
        BY <2>2, SearchedIs
      <3>2. m \in MediaOf(a)
        BY <3>1 DEF Grain, MediaOf
      <3>3. a \in A
        BY <3>1 DEF Grain, Owners
      <3> QED
        BY <3>1, <3>2, <3>3
    <2> QED
      BY <2>1, <2>2
  <1>2. AnimeByNote(A) = FirstFound({a \in A : held(a) \cap NotePass("strict") # {}},
                                    {a \in A : held(a) \cap NotePass("fuzzy") # {}})
    BY DEF AnimeByNote
  <1> DEFINE by(pass) == {m \in S : NoteOf(m) \in NotePass(pass)}
  <1>3. MediaByNote(S) = FirstFound(by("strict"), by("fuzzy"))
    BY DEF MediaByNote
  <1>4. AnimeByNote(A) = FirstFound(Owners(by("strict")), Owners(by("fuzzy")))
    BY <1>1, <1>2, Zenon
  <1> HIDE DEF by
  <1> QED
    BY <1>3, <1>4, PassesRollUp

LEMMA TitlesRollUp ==
    ASSUME CatalogueInv, NEW S, NEW A, Grain(S, A)
    PROVE  AnimeByTitle(A) = Owners(MediaByTitle(S))
  <1> DEFINE best(a) == Max({media[m].title : m \in MediaOf(a)})
  <1>1. ASSUME NEW a \in A PROVE /\ \E m \in MediaOf(a) : media[m].title = best(a)
                                 /\ \A m \in MediaOf(a) : media[m].title <= best(a)
    <2> DEFINE V == {media[m].title : m \in MediaOf(a)}
    <2>1. V \subseteq 0 .. 2 /\ 2 \in Nat
      BY StoredContent, SearchedIs
    <2>2. V # {}
      BY <1>1, SearchedIs DEF Grain
    <2>3. Max(V) \in V /\ \A v \in V : v <= Max(V)
      <3> HIDE DEF V
      <3> QED
        BY <2>1, <2>2, MaxOfBounded
    <2> QED
      BY <2>3
  <1>2. \A a \in A : \A m \in MediaOf(a) : media[m].title \in 0 .. 2
    BY StoredContent, SearchedIs
  <1>3. \A a \in A : /\ best(a) = 2 <=> \E m \in MediaOf(a) : media[m].title = 2
                     /\ best(a) >= 1 <=> \E m \in MediaOf(a) : media[m].title >= 1
    <2> HIDE DEF best
    <2> TAKE a \in A
    <2>1. PICK m \in MediaOf(a) : media[m].title = best(a)
      BY <1>1
    <2>2. best(a) \in 0 .. 2
      BY <1>2, <2>1
    <2> QED
      BY <1>1, <1>2, <2>1, <2>2
  <1>4. \A a \in A : \A m : m \in MediaOf(a) <=> m \in S /\ home[m] = a
    BY SearchedIs DEF Grain, MediaOf
  <1>5. \A m \in S : home[m] \in A
    BY DEF Grain, Owners
  <1>6. AnimeByTitle(A) = FirstFound({a \in A : best(a) = 2}, {a \in A : best(a) >= 1})
    BY DEF AnimeByTitle
  <1> HIDE DEF best
  <1>7. {a \in A : best(a) = 2} = Owners({m \in S : media[m].title = 2})
    BY <1>3, <1>4, <1>5 DEF Owners
  <1>8. {a \in A : best(a) >= 1} = Owners({m \in S : media[m].title >= 1})
    BY <1>3, <1>4, <1>5 DEF Owners
  <1> DEFINE exact == {m \in S : media[m].title = 2}
             near == {m \in S : media[m].title >= 1}
  <1>9. MediaByTitle(S) = FirstFound(exact, near)
    BY DEF MediaByTitle
  <1>10. AnimeByTitle(A) = FirstFound(Owners(exact), Owners(near))
    BY <1>6, <1>7, <1>8, Zenon
  <1> HIDE DEF exact, near
  <1> QED
    BY <1>9, <1>10, PassesRollUp

LEMMA Urgencies ==
    /\ Urgency("airing_now") = 1 /\ Urgency("stabilizing") = 2 /\ Urgency("weekly_cycle") = 3
    /\ Urgency("long_cycle") = 4 /\ Urgency("archival_cycle") = 5
  <1>1. DOMAIN Tiers = 1 .. 5
    BY DEF Tiers
  <1>2. /\ Tiers[1] = "airing_now" /\ Tiers[2] = "stabilizing" /\ Tiers[3] = "weekly_cycle"
        /\ Tiers[4] = "long_cycle" /\ Tiers[5] = "archival_cycle"
    BY DEF Tiers
  <1>3. \A i \in 1 .. 5 : i = 1 \/ i = 2 \/ i = 3 \/ i = 4 \/ i = 5
    OBVIOUS
  <1> HIDE DEF Tiers
  <1> QED
    BY <1>1, <1>2, <1>3 DEF Urgency

TierNames == {"airing_now", "stabilizing", "weekly_cycle", "long_cycle", "archival_cycle"}

LEMMA MostUrgentIs ==
    ASSUME NEW tiers, tiers \subseteq TierNames, NEW tier \in tiers,
           \A other \in tiers : Urgency(tier) <= Urgency(other)
    PROVE  MostUrgent(tiers) = tier
  <1>1. \A x, y \in TierNames : Urgency(x) <= Urgency(y) /\ Urgency(y) <= Urgency(x) => x = y
    BY Urgencies DEF TierNames
  <1>2. MostUrgent(tiers) \in tiers /\ \A other \in tiers : Urgency(MostUrgent(tiers)) <= Urgency(other)
    BY DEF MostUrgent
  <1> QED
    BY <1>1, <1>2

\* An anime whose media are all dated is swept with the most urgent of them.
LEMMA TierRollsUp ==
    ASSUME CatalogueInv, NEW a \in Searched, \A m \in MediaOf(a) : media[m].aired # Unknown
    PROVE  AnimeTier(a) = MostUrgent({MediaTier(m) : m \in MediaOf(a)})
  <1> DEFINE tiers == {MediaTier(m) : m \in MediaOf(a)}
             newest == LatestOf("aired", MediaOf(a))
             fresh(m) == media[m].stable < StabilizeThreshold
  <1>1. MediaOf(a) \subseteq Stored /\ MediaOf(a) # {}
    BY SearchedIs
  <1>2. \A m \in MediaOf(a) :
           MediaTier(m) = IF Airing(m) THEN "airing_now" ELSE IF fresh(m) THEN "stabilizing"
                          ELSE IF RecentMain(m) THEN "weekly_cycle"
                          ELSE IF media[m].aired < ArchivalBefore THEN "archival_cycle" ELSE "long_cycle"
    BY DEF MediaTier
  <1>3. /\ newest \in {media[m].aired : m \in MediaOf(a)} /\ newest # Unknown
        /\ \A m \in MediaOf(a) : media[m].aired <= newest /\ media[m].aired \in Int
    <2>1. KnownOf("aired", MediaOf(a)) = MediaOf(a)
      BY DEF KnownOf
    <2>2. \A m \in MediaOf(a) : media[m].aired \in Int
      BY <1>1, StoredContent
    <2> QED
      BY <1>1, <2>1, <2>2, LatestIs
  <1>4. AnimeTier(a) = IF \E m \in MediaOf(a) : Airing(m) THEN "airing_now"
                       ELSE IF \E m \in MediaOf(a) : fresh(m) THEN "stabilizing"
                       ELSE IF \E m \in MediaOf(a) : RecentMain(m) THEN "weekly_cycle"
                       ELSE IF newest < ArchivalBefore THEN "archival_cycle" ELSE "long_cycle"
    BY <1>3 DEF AnimeTier
  <1>5. tiers \subseteq TierNames
    BY <1>2 DEF TierNames
  <1>6. AnimeTier(a) \in tiers /\ \A other \in tiers : Urgency(AnimeTier(a)) <= Urgency(other)
    <2> HIDE DEF newest, fresh
    <2>0. ArchivalBefore \in Int
      BY CatalogueAssumption
    <2>1. CASE \E m \in MediaOf(a) : Airing(m)
      BY <1>2, <1>4, <2>1, Urgencies
    <2>2. CASE (\A m \in MediaOf(a) : ~Airing(m)) /\ \E m \in MediaOf(a) : fresh(m)
      BY <1>2, <1>4, <2>2, Urgencies
    <2>3. CASE (\A m \in MediaOf(a) : ~Airing(m) /\ ~fresh(m)) /\ \E m \in MediaOf(a) : RecentMain(m)
      BY <1>2, <1>4, <2>3, Urgencies
    <2>4. CASE (\A m \in MediaOf(a) : ~Airing(m) /\ ~fresh(m) /\ ~RecentMain(m)) /\ newest < ArchivalBefore
      <3>1. \A m \in MediaOf(a) : media[m].aired < ArchivalBefore
        BY <1>3, <2>0, <2>4
      <3>2. \A m \in MediaOf(a) : MediaTier(m) = "archival_cycle"
        BY <1>2, <2>4, <3>1
      <3>3. AnimeTier(a) = "archival_cycle"
        BY <1>4, <2>4
      <3> QED
        BY <1>1, <3>2, <3>3, Urgencies
    <2>5. CASE (\A m \in MediaOf(a) : ~Airing(m) /\ ~fresh(m) /\ ~RecentMain(m)) /\ ~(newest < ArchivalBefore)
      <3>1. PICK m \in MediaOf(a) : media[m].aired = newest
        BY <1>3
      <3>2. MediaTier(m) = "long_cycle"
        BY <1>2, <2>5, <3>1
      <3>3. \A n \in MediaOf(a) : MediaTier(n) \in {"archival_cycle", "long_cycle"}
        BY <1>2, <2>5
      <3>4. AnimeTier(a) = "long_cycle"
        BY <1>4, <2>5
      <3> QED
        BY <3>2, <3>3, <3>4, Urgencies
    <2> QED
      BY <2>1, <2>2, <2>3, <2>4, <2>5
  <1> QED
    <2> HIDE DEF tiers
    <2>1. MostUrgent(tiers) = AnimeTier(a)
      BY <1>5, <1>6, MostUrgentIs
    <2> QED
      BY <2>1 DEF tiers

LEMMA GrainsRollUp == CatalogueInv => RolledUp
  <1> DEFINE byMedia(types, names, mode) == Owners({m \in Stored : MediaHasStudios(m, types, names, mode)})
             byAnime(types, names, mode) == {a \in Searched : AnimeHasStudios(a, types, names, mode)}
  <1>1. ASSUME CatalogueInv, NEW types, NEW names \in SUBSET Studios, NEW mode \in {"any", "all"}
        PROVE  /\ byMedia(types, names, mode) \subseteq byAnime(types, names, mode)
               /\ mode = "any" => byAnime(types, names, mode) = byMedia(types, names, mode)
    <2>0. IsFiniteSet(names)
      BY CatalogueAssumption, FS_Subset
    <2>1. ASSUME NEW m \in Stored, MediaHasStudios(m, types, names, mode)
          PROVE  home[m] \in byAnime(types, names, mode)
      <3>1. home[m] \in Searched /\ m \in MediaOf(home[m])
        BY <2>1, SearchedIs
      <3>2. AnimeHasStudios(home[m], types, names, mode)
        BY <1>1, <2>0, <2>1, <3>1, StudiosRollUp
      <3> QED
        BY <3>1, <3>2
    <2>2. byMedia(types, names, mode) \subseteq byAnime(types, names, mode)
      BY <2>1 DEF Owners
    <2>3. ASSUME mode = "any", NEW a \in byAnime(types, names, mode) PROVE a \in byMedia(types, names, mode)
      <3>1. PICK m \in MediaOf(a) : MediaHasStudios(m, types, names, mode)
        BY <1>1, <2>0, <2>3, StudiosRollUp
      <3> QED
        BY <3>1, SearchedIs
    <2> QED
      BY <2>2, <2>3
  <1>2. {a \in Searched : UpcomingMain(a)} = Owners({m \in Stored : UpcomingMainMedia(m)})
    BY SearchedIs DEF UpcomingMain
  <1>3. Grain(Stored, Searched)
    BY DEF Grain, Owners, Searched
  <1>4. ASSUME CatalogueInv
        PROVE  AnimeByNote(Searched) = Owners(MediaByNote(Stored)) /\ AnimeByTitle(Searched) = Owners(MediaByTitle(Stored))
    BY <1>3, <1>4, NotesRollUp, TitlesRollUp
  <1> QED
    BY <1>1, <1>2, <1>4, TierRollsUp DEF RolledUp

-----------------------------------------------------------------------------
(* The card *)

LEMMA StoredNumbers ==
    ASSUME CatalogueInv, NEW m \in Stored
    PROVE  /\ media[m].score # Unknown => media[m].score \in Int
           /\ media[m].episodes # Unknown => media[m].episodes \in Int
           /\ media[m].age # Unknown => media[m].age \in Int
           /\ media[m].votes \in Nat /\ \A votes \in 0 .. media[m].votes : Log10(votes) \in Int
           /\ media[m].genres \subseteq Genres
  <1>1. media[m] \in Contents
    BY DEF CatalogueInv
  <1> QED
    BY <1>1, CatalogueAssumption

LEMMA TotalIs ==
    ASSUME NEW S, IsFiniteSet(S), NEW field, \A m \in S : media[m][field] \in Int
    PROVE  /\ TotalOf(field, S) \in Int
           /\ S = {} => TotalOf(field, S) = 0
           /\ \A m : S = {m} => TotalOf(field, S) = media[m][field]
  <1> DEFINE values == [m \in S |-> media[m][field]]
  <1>1. TotalOf(field, S) = SumFunctionOnSet(values, S)
    BY DEF TotalOf, SumFunction
  <1>2. \A m \in S : values[m] \in Int /\ values[m] = media[m][field]
    OBVIOUS
  <1> HIDE DEF values
  <1>3. SumFunctionOnSet(values, S) \in Int /\ SumFunctionOnSet(values, {}) = 0
    BY <1>2, SumAdds
  <1>4. ASSUME NEW m, S = {m} PROVE SumFunctionOnSet(values, {m}) = media[m][field]
    BY <1>2, <1>4, SumOfOne
  <1> QED
    BY <1>1, <1>3, <1>4

\* The media an anime's means are of.
Counted(a) == {m \in KnownOf("score", MediaOf(a)) : MainStory(m)}

LEMMA CountedFinite ==
    ASSUME CatalogueInv, NEW a
    PROVE  /\ IsFiniteSet(Counted(a)) /\ IsFiniteSet(KnownOf("score", MediaOf(a)))
           /\ Counted(a) \subseteq KnownOf("score", MediaOf(a)) /\ Counted(a) \subseteq MediaOf(a)
           /\ Cardinality(Counted(a)) \in Nat /\ (Counted(a) # {} => Cardinality(Counted(a)) > 0)
           /\ Counted(a) = {} => Cardinality(Counted(a)) = 0
           /\ \A m \in KnownOf("score", MediaOf(a)) : media[m].score \in Int /\ media[m].votes \in Int /\ m \in Stored
  <1>1. KnownOf("score", MediaOf(a)) \subseteq MediaOf(a) /\ MediaOf(a) \subseteq Stored
    BY DEF KnownOf, MediaOf
  <1>2. IsFiniteSet(KnownOf("score", MediaOf(a))) /\ Counted(a) \subseteq KnownOf("score", MediaOf(a))
    BY <1>1, FS_Subset DEF CatalogueInv, Counted
  <1>3. IsFiniteSet(Counted(a))
    BY <1>2, FS_Subset
  <1>4. Cardinality(Counted(a)) \in Nat /\ (Cardinality(Counted(a)) = 0 <=> Counted(a) = {})
    BY <1>3, FS_CardinalityType, FS_EmptySet
  <1>5. \A m \in KnownOf("score", MediaOf(a)) : media[m].score \in Int /\ media[m].votes \in Int /\ m \in Stored
    BY <1>1, StoredNumbers DEF KnownOf
  <1> QED
    BY <1>1, <1>2, <1>3, <1>4, <1>5

\* A weight of one on what counts and zero on what does not leaves the sums of what counts.
LEMMA MeanIs ==
    ASSUME CatalogueInv, NEW a, NEW field \in {"score", "votes"}
    PROVE  /\ WeightedMean(field, a).num = TotalOf(field, Counted(a))
           /\ WeightedMean(field, a).den = Cardinality(Counted(a))
           /\ TotalOf(field, Counted(a)) \in Int
  <1> DEFINE scored == KnownOf("score", MediaOf(a))
             weighed == [m \in scored |-> ScoreWeight(m) * media[m][field]]
             plain == [m \in scored |-> media[m][field]]
             counted == [m \in Counted(a) |-> media[m][field]]
             weights == [m \in scored |-> ScoreWeight(m)]
             ones == [m \in scored |-> 1]
  <1>1. /\ WeightedMean(field, a).num = SumFunctionOnSet(weighed, scored)
        /\ WeightedMean(field, a).den = SumFunctionOnSet(weights, scored)
        /\ TotalOf(field, Counted(a)) = SumFunctionOnSet(counted, Counted(a))
    BY DEF WeightedMean, TotalOf, SumFunction
  <1>2. IsFiniteSet(scored) /\ IsFiniteSet(Counted(a)) /\ Counted(a) \subseteq scored
    BY CountedFinite
  <1>3. \A m \in scored : media[m][field] \in Int
    BY CountedFinite
  <1>4. \A m \in scored : ScoreWeight(m) = IF m \in Counted(a) THEN 1 ELSE 0
    BY DEF ScoreWeight, Counted
  <1>5. \A m \in scored : plain[m] \in Int /\ weighed[m] = IF m \in Counted(a) THEN plain[m] ELSE 0
    BY <1>3, <1>4
  <1>6. \A m \in scored : ones[m] \in Int /\ weights[m] = IF m \in Counted(a) THEN ones[m] ELSE 0
    BY <1>4
  <1>7. \A m \in Counted(a) : counted[m] \in Int /\ counted[m] = plain[m] /\ ones[m] = 1
    BY <1>2, <1>3
  <1> HIDE DEF scored, weighed, plain, counted, weights, ones
  <1>8. SumFunctionOnSet(weighed, scored) = SumFunctionOnSet(plain, Counted(a))
    BY <1>2, <1>5, SumOfSome
  <1>9. SumFunctionOnSet(weights, scored) = SumFunctionOnSet(ones, Counted(a))
    BY <1>2, <1>6, SumOfSome
  <1>10. SumFunctionOnSet(counted, Counted(a)) = SumFunctionOnSet(plain, Counted(a))
    BY <1>2, <1>7, SumSame
  <1>11. SumFunctionOnSet(ones, Counted(a)) = Cardinality(Counted(a))
    BY <1>2, <1>7, SumOfOnes
  <1>12. SumFunctionOnSet(counted, Counted(a)) \in Int
    BY <1>2, <1>7, SumAdds
  <1> QED
    BY <1>1, <1>8, <1>9, <1>10, <1>11, <1>12

\* Rounding to the nearest keeps a mean on its side of every whole number.
LEMMA RoundedKeeps ==
    ASSUME NEW num \in Int, NEW den \in Nat \ {0}, NEW k \in Int
    PROVE  /\ Rounded([num |-> num, den |-> den]) \in Int
           /\ num >= k * den => Rounded([num |-> num, den |-> den]) >= k
           /\ num <= k * den => Rounded([num |-> num, den |-> den]) <= k
  <1> DEFINE x == 2 * num + den
             d == 2 * den
  <1>1. Rounded([num |-> num, den |-> den]) = x \div d
    BY DEF Rounded
  <1>2. x \in Int /\ d \in Nat \ {0}
    OBVIOUS
  <1>3. k * d = 2 * (k * den) /\ (k + 1) * d = 2 * (k * den) + 2 * den /\ k * den \in Int
    OBVIOUS
  <1>4. num >= k * den => x >= k * d
    BY <1>3
  <1>5. num <= k * den => ~(x >= (k + 1) * d)
    BY <1>3
  <1> HIDE DEF x, d
  <1>6. x \div d \in Int
    BY <1>2, DivBounds
  <1>7. (x \div d >= k <=> x >= k * d) /\ (x \div d >= k + 1 <=> x >= (k + 1) * d)
    <2>1. k + 1 \in Int
      OBVIOUS
    <2> QED
      BY <1>2, <2>1, DivAtLeast
  <1> QED
    BY <1>1, <1>4, <1>5, <1>6, <1>7

LEMMA ScoreShown ==
    ASSUME CatalogueInv, NEW a
    PROVE  /\ Scored(a) <=> Counted(a) # {}
           /\ CardScore(a) # Unknown <=> Scored(a)
           /\ CardScore(a) # Unknown => CardScore(a) \in Int
           /\ \A s \in Int :
                /\ HavingScoreAtLeast(a, s) => CardScore(a) >= s
                /\ HavingScoreAtMost(a, s) => CardScore(a) <= s
                /\ HavingVotesAtLeast(a, s) => CardVotes(a) >= s
  <1> DEFINE den == Cardinality(Counted(a))
  <1>1. /\ \A m : m \in Counted(a) <=> m \in KnownOf("score", MediaOf(a)) /\ MainStory(m)
        /\ {m \in KnownOf("score", MediaOf(a)) : MainStory(m)} = Counted(a)
    BY DEF Counted
  <1>2. den \in Nat /\ (den > 0 <=> Counted(a) # {})
    BY CountedFinite
  <1>3. /\ WeightedMean("score", a).num = TotalOf("score", Counted(a)) /\ TotalOf("score", Counted(a)) \in Int
        /\ WeightedMean("score", a).den = den
    BY MeanIs
  <1>4. /\ WeightedMean("votes", a).num = TotalOf("votes", Counted(a)) /\ TotalOf("votes", Counted(a)) \in Int
        /\ WeightedMean("votes", a).den = den
    BY MeanIs
  <1>5. Scored(a) <=> Counted(a) # {}
    BY <1>2, <1>3 DEF Scored
  <1>6. /\ CardScore(a) = IF Counted(a) = {} THEN Unknown ELSE Rounded([num |-> TotalOf("score", Counted(a)), den |-> den])
        /\ CardVotes(a) = IF Counted(a) = {} THEN 0 ELSE Rounded([num |-> TotalOf("votes", Counted(a)), den |-> den])
    BY <1>1 DEF CardScore, CardVotes
  <1> HIDE DEF den
  <1>7. ASSUME Counted(a) # {}, NEW s \in Int
        PROVE  /\ CardScore(a) \in Int
               /\ TotalOf("score", Counted(a)) >= s * den => CardScore(a) >= s
               /\ TotalOf("score", Counted(a)) <= s * den => CardScore(a) <= s
               /\ TotalOf("votes", Counted(a)) >= s * den => CardVotes(a) >= s
    <2>1. den \in Nat \ {0}
      BY <1>2, <1>7
    <2> QED
      BY <1>3, <1>4, <1>6, <1>7, <2>1, RoundedKeeps
  <1>8. CardScore(a) # Unknown <=> Scored(a)
    BY <1>5, <1>6, <1>7, CatalogueAssumption
  <1>9. CardScore(a) # Unknown => CardScore(a) \in Int
    BY <1>5, <1>7, <1>8
  <1>10. ASSUME NEW s \in Int
         PROVE  /\ HavingScoreAtLeast(a, s) => CardScore(a) >= s
                /\ HavingScoreAtMost(a, s) => CardScore(a) <= s
                /\ HavingVotesAtLeast(a, s) => CardVotes(a) >= s
    BY <1>3, <1>4, <1>5, <1>7 DEF HavingScoreAtLeast, HavingScoreAtMost, HavingVotesAtLeast
  <1> QED
    BY <1>5, <1>8, <1>9, <1>10

LEMMA EpisodesShown ==
    ASSUME CatalogueInv, NEW a, NEW e \in Int, e >= 1
    PROVE  HavingEpisodesAtLeast(a, e) <=> CardEpisodes(a) # Unknown /\ CardEpisodes(a) >= e
  <1> DEFINE known == KnownOf("episodes", MediaOf(a))
             total == TotalOf("episodes", known)
  <1>1. IsFiniteSet(known) /\ \A m \in known : media[m].episodes \in Int
    <2>1. known \subseteq Stored /\ \A m \in known : media[m].episodes # Unknown
      BY DEF KnownOf, MediaOf
    <2>2. IsFiniteSet(known)
      BY <2>1, FS_Subset DEF CatalogueInv
    <2> QED
      BY <2>1, <2>2, StoredNumbers
  <1>2. /\ HavingEpisodesAtLeast(a, e) <=> known # {} /\ total >= e
        /\ CardEpisodes(a) = IF total = 0 THEN Unknown ELSE total
    BY DEF HavingEpisodesAtLeast, CardEpisodes
  <1>3. total \in Int /\ (known = {} => total = 0)
    <2> HIDE DEF known
    <2> QED
      BY <1>1, TotalIs
  <1> HIDE DEF known, total
  <1> QED
    BY <1>2, <1>3, CatalogueAssumption

LEMMA StatusShown ==
    ASSUME CatalogueInv, NEW a \in Searched, NEW status \in {"airing", "finished", "announced"}
    PROVE  HavingStatusIn(a, {status}) <=> CardStatus(a) = status
  <1>1. \A m \in MediaOf(a) : media[m].status \in {"airing", "finished", "announced"}
    BY SearchedIs, StoredContent
  <1>2. MediaOf(a) # {}
    BY SearchedIs
  <1> DEFINE airs == \E m \in MediaOf(a) : Airing(m)
             ended == \E m \in MediaOf(a) : Finished(m)
  <1>3. /\ HavingStatusIn(a, {status}) <=>
             \/ airs /\ status = "airing"
             \/ ~airs /\ ended /\ status = "finished"
             \/ (\A m \in MediaOf(a) : Unaired(m)) /\ status = "announced"
        /\ CardStatus(a) = IF airs THEN "airing" ELSE IF ended THEN "finished" ELSE "announced"
    BY DEF HavingStatusIn, CardStatus
  <1>4. (\A m \in MediaOf(a) : Unaired(m)) <=> ~airs /\ ~ended
    BY <1>1, <1>2 DEF Airing, Finished, Unaired
  <1> HIDE DEF airs, ended
  <1> QED
    BY <1>3, <1>4

LEMMA GenresShown ==
    ASSUME NEW a \in Searched
    PROVE  /\ \A g \in Genres : <<a, g>> \in GenreMajority <=> g \in CardGenres(a)
           /\ \A g \in Genres : GenreMatch(a, OneGroup({g}, {}), "any") <=> g \in CardGenres(a)
           /\ \A g \in Genres : GenreMatch(a, OneGroup({}, {g}), "all") <=> g \notin CardGenres(a)
  <1>1. ASSUME NEW g \in Genres PROVE <<a, g>> \in GenreMajority <=> g \in CardGenres(a)
    BY DEF GenreMajority, CardGenres
  <1> DEFINE held == {g \in Genres : <<a, g>> \in GenreMajority}
  <1>2. ASSUME NEW g \in Genres PROVE g \in held <=> g \in CardGenres(a)
    BY <1>1
  <1>3. ASSUME NEW groups, NEW mode PROVE GenreMatch(a, groups, mode) <=> MatchesGroups(held, groups, mode)
    BY DEF GenreMatch
  <1> HIDE DEF held
  <1>4. ASSUME NEW g \in Genres PROVE MatchesGroups(held, OneGroup({g}, {}), "any") <=> g \in held
    BY DEF MatchesGroups, SatisfiesGroup, Carries, OneGroup
  <1>5. ASSUME NEW g \in Genres PROVE MatchesGroups(held, OneGroup({}, {g}), "all") <=> g \notin held
    BY DEF MatchesGroups, SatisfiesGroup, Carries, OneGroup
  <1> QED
    BY <1>1, <1>2, <1>3, <1>4, <1>5

LEMMA OfferedAreShown == OfferedGenres = UNION {CardGenres(a) : a \in Searched}
  <1>1. \A pair \in GenreMajority : pair[1] \in Searched /\ pair[2] \in Genres /\ pair = <<pair[1], pair[2]>>
    BY DEF GenreMajority
  <1>2. OfferedGenres \subseteq UNION {CardGenres(a) : a \in Searched}
    BY <1>1, GenresShown DEF OfferedGenres
  <1>3. ASSUME NEW a \in Searched, NEW g \in CardGenres(a) PROVE g \in OfferedGenres
    <2>1. g \in Genres
      BY DEF CardGenres
    <2>2. <<a, g>> \in GenreMajority
      BY <2>1, GenresShown
    <2> QED
      BY <2>2 DEF OfferedGenres
  <1> QED
    BY <1>2, <1>3

\* The mean of the votes lies between zero and the votes of some media.
LEMMA MeanVotes ==
    ASSUME CatalogueInv, NEW a, Counted(a) # {}
    PROVE  Log10(TotalOf("votes", Counted(a)) \div Cardinality(Counted(a))) \in Int
  <1> DEFINE S == Counted(a)
             den == Cardinality(S)
             total == TotalOf("votes", S)
             votes == [m \in S |-> media[m].votes]
             ones == [m \in S |-> 1]
             zeros == [m \in S |-> 0]
  <1>1. IsFiniteSet(S) /\ den \in Nat \ {0} /\ S \subseteq Stored
    <2>1. IsFiniteSet(S) /\ den \in Nat /\ den > 0 /\ S \subseteq MediaOf(a)
      BY CountedFinite
    <2> QED
      BY <2>1 DEF MediaOf
  <1>2. \A m \in S : votes[m] = media[m].votes /\ votes[m] \in Nat
    BY <1>1, StoredNumbers
  <1>3. total = SumFunctionOnSet(votes, S)
    BY DEF TotalOf, SumFunction
  <1>4. PICK best \in S : \A m \in S : votes[m] <= votes[best]
    <2> DEFINE V == {votes[m] : m \in S}
    <2>1. IsFiniteSet(V)
      BY <1>1, ImageFinite
    <2>2. V \subseteq Int /\ V # {}
      BY <1>2
    <2>3. PICK v \in V : \A w \in V : w <= v
      <3> HIDE DEF V
      <3> QED
        BY <2>1, <2>2, HighestExists
    <2> QED
      BY <2>3
  <1>5. \A m \in S : ones[m] = 1 /\ zeros[m] = 0
    OBVIOUS
  <1> HIDE DEF S, votes, ones, zeros
  <1>6. SumFunctionOnSet(votes, S) \in Int
    BY <1>1, <1>2, SumAdds
  <1>7. SumFunctionOnSet(votes, S) <= votes[best] * den
    <2>1. votes[best] \in Int /\ \A m \in S : votes[m] \in Int /\ ones[m] \in Int /\ votes[m] <= votes[best] * ones[m]
      BY <1>2, <1>4, <1>5
    <2>2. SumFunctionOnSet(votes, S) <= votes[best] * SumFunctionOnSet(ones, S)
      BY <1>1, <2>1, SumBounded
    <2>3. SumFunctionOnSet(ones, S) = den
      BY <1>1, <1>5, SumOfOnes
    <2> QED
      BY <2>2, <2>3
  <1>8. 0 <= SumFunctionOnSet(votes, S)
    <2>1. \A m \in S : zeros[m] \in Int /\ votes[m] \in Int /\ zeros[m] <= 1 * votes[m]
      BY <1>2, <1>5
    <2>2. SumFunctionOnSet(zeros, S) <= 1 * SumFunctionOnSet(votes, S)
      BY <1>1, <2>1, SumBounded
    <2>3. \A m \in S : votes[m] \in Int /\ zeros[m] = IF m \in {} THEN votes[m] ELSE 0
      BY <1>2, <1>5
    <2>4. SumFunctionOnSet(zeros, S) = SumFunctionOnSet(votes, {})
      BY <1>1, <2>3, SumOfSome
    <2>5. SumFunctionOnSet(votes, {}) = 0
      BY <1>1, <1>2, SumAdds
    <2> QED
      BY <1>6, <2>2, <2>4, <2>5
  <1> HIDE DEF total, den
  <1>9. total \div den \in 0 .. media[best].votes
    <2>1. total \in Int /\ votes[best] \in Nat /\ 0 <= total /\ total <= votes[best] * den
      BY <1>2, <1>3, <1>4, <1>6, <1>7, <1>8
    <2>2. total \div den >= 0 <=> total >= 0 * den
      BY <1>1, <2>1, DivAtLeast
    <2>3. total \div den >= votes[best] + 1 <=> total >= (votes[best] + 1) * den
      <3>1. votes[best] + 1 \in Int
        BY <2>1
      <3> QED
        BY <1>1, <2>1, <3>1, DivAtLeast
    <2>4. (votes[best] + 1) * den = votes[best] * den + den /\ votes[best] * den \in Int
      BY <1>1, <2>1
    <2>5. total \div den \in Int
      BY <1>1, <2>1, DivBounds
    <2>6. 0 <= total \div den
      BY <1>1, <2>1, <2>2
    <2>7. ~(total \div den >= votes[best] + 1)
      <3>1. total < (votes[best] + 1) * den
        BY <1>1, <2>1, <2>4
      <3>2. (votes[best] + 1) * den \in Int
        BY <1>1, <2>1
      <3> QED
        BY <2>1, <2>3, <3>1, <3>2
    <2> QED
      BY <1>2, <1>4, <2>1, <2>5, <2>6, <2>7
  <1>10. Log10(total \div den) \in Int
    BY <1>1, <1>4, <1>9, StoredNumbers
  <1> QED
    BY <1>10 DEF total, den, S

LEMMA MetricIs ==
    ASSUME CatalogueInv, NEW a, Scored(a)
    PROVE  Metric(a).num \in Int /\ Metric(a).den \in Nat \ {0}
  <1>1. Counted(a) # {}
    BY ScoreShown
  <1>2. Metric(a).num = WeightedMean("score", a).num * Log10(WeightedMean("votes", a).num \div WeightedMean("votes", a).den)
        /\ Metric(a).den = WeightedMean("score", a).den
    BY DEF Metric
  <1>3. /\ WeightedMean("score", a).num = TotalOf("score", Counted(a)) /\ TotalOf("score", Counted(a)) \in Int
        /\ WeightedMean("score", a).den = Cardinality(Counted(a))
    BY MeanIs
  <1>4. WeightedMean("votes", a).num = TotalOf("votes", Counted(a)) /\ WeightedMean("votes", a).den = Cardinality(Counted(a))
    BY MeanIs
  <1>5. Log10(TotalOf("votes", Counted(a)) \div Cardinality(Counted(a))) \in Int
    BY <1>1, MeanVotes
  <1>6. Cardinality(Counted(a)) \in Nat \ {0}
    BY <1>1, CountedFinite
  <1> QED
    BY <1>2, <1>3, <1>4, <1>5, <1>6

\* Fractions in the order of their cross products.
LEMMA BelowOrders ==
    ASSUME NEW x, NEW y, NEW z, x.num \in Int, y.num \in Int, z.num \in Int,
           x.den \in Nat \ {0}, y.den \in Nat \ {0}, z.den \in Nat \ {0}, Below(x, y), Below(y, z)
    PROVE  Below(x, z)
  <1> DEFINE p == x.num
             q == y.num
             r == z.num
             k == x.den
             l == y.den
             n == z.den
  <1>1. p \in Int /\ q \in Int /\ r \in Int /\ k \in Int /\ l \in Int /\ n \in Int /\ k > 0 /\ l > 0 /\ n > 0
    OBVIOUS
  <1>2. p * l < q * k /\ q * n < r * l
    BY DEF Below
  <1> HIDE DEF p, q, r, k, l, n
  <1>3. (p * l) * n < (q * k) * n
    <2>1. p * l \in Int /\ q * k \in Int
      BY <1>1
    <2> QED
      BY <1>1, <1>2, <2>1, MulLess
  <1>4. (q * n) * k < (r * l) * k
    <2>1. q * n \in Int /\ r * l \in Int
      BY <1>1
    <2> QED
      BY <1>1, <1>2, <2>1, MulLess
  <1>5. (q * k) * n = (q * n) * k /\ (p * l) * n = (p * n) * l /\ (r * l) * k = (r * k) * l
    BY <1>1
  <1>6. p * n \in Int /\ r * k \in Int /\ (p * l) * n \in Int /\ (q * k) * n \in Int /\ (r * l) * k \in Int
    BY <1>1
  <1>7. (p * n) * l < (r * k) * l
    BY <1>3, <1>4, <1>5, <1>6
  <1>8. p * n < r * k
    BY <1>1, <1>6, <1>7, MulLess
  <1> QED
    BY <1>8 DEF Below, p, q, r, k, l, n

LEMMA BelowIrreflexive == ASSUME NEW x, x.num \in Int, x.den \in Int PROVE ~Below(x, x)
  <1>1. x.num * x.den \in Int
    OBVIOUS
  <1> QED
    BY <1>1 DEF Below

\* A higher rank has no lower percentage, and a higher one among at most a hundred.
LEMMA PercentOrders ==
    ASSUME NEW rank \in Nat, NEW other \in Nat, other < rank, NEW total \in Nat \ {0}
    PROVE  /\ (other * 100 + total - 1) \div total <= (rank * 100 + total - 1) \div total
           /\ total <= 100 => (other * 100 + total - 1) \div total < (rank * 100 + total - 1) \div total
  <1> DEFINE x == other * 100 + total - 1
             y == rank * 100 + total - 1
             p == x \div total
             q == y \div total
  <1>1. x \in Int /\ y \in Int /\ x + 100 <= y
    OBVIOUS
  <1> HIDE DEF x, y
  <1>2. p \in Int /\ q \in Int /\ total * p <= x
    BY <1>1, DivBounds
  <1>3. (q >= p <=> y >= p * total) /\ (q >= p + 1 <=> y >= (p + 1) * total)
    <2>1. p + 1 \in Int
      BY <1>2
    <2> HIDE DEF p
    <2> QED
      BY <1>1, <1>2, <2>1, DivAtLeast
  <1> HIDE DEF p, q
  <1>4. total * p = p * total /\ (p + 1) * total = p * total + total /\ p * total \in Int
    BY <1>2
  <1>5. q >= p
    BY <1>1, <1>2, <1>3, <1>4
  <1>6. total <= 100 => q >= p + 1
    BY <1>1, <1>2, <1>3, <1>4
  <1> QED
    BY <1>2, <1>5, <1>6 DEF p, q, x, y

LEMMA SearchedFinite == CatalogueInv => IsFiniteSet(Searched)
  BY ImageFinite DEF CatalogueInv, Searched

LEMMA BadgesShown ==
    ASSUME CatalogueInv, NEW a \in Searched
    PROVE  /\ TopPercent(a) # Unknown <=> Scored(a)
           /\ \A b \in Searched : Scored(a) /\ Scored(b) /\ Below(Metric(a), Metric(b)) =>
                 /\ TopPercent(b) <= TopPercent(a)
                 /\ Cardinality({c \in Searched : Scored(c)}) <= 100 => TopPercent(b) < TopPercent(a)
  <1> DEFINE population == {c \in Searched : Scored(c)}
             above(x) == {c \in population : Below(Metric(x), Metric(c))}
             rank(x) == 1 + Cardinality(above(x))
             total == Cardinality(population)
  <1>1. IsFiniteSet(population)
    BY SearchedFinite, FS_Subset
  <1>2. \A x : IsFiniteSet(above(x)) /\ rank(x) \in Nat
    <2> TAKE x
    <2>1. above(x) \subseteq population
      OBVIOUS
    <2> HIDE DEF above, population
    <2> QED
      BY <1>1, <2>1, FS_Subset, FS_CardinalityType
  <1>3. TopPercent(a) = IF Scored(a) THEN (rank(a) * 100 + total - 1) \div total ELSE Unknown
    BY DEF TopPercent
  <1>4. \A b : TopPercent(b) = IF Scored(b) THEN (rank(b) * 100 + total - 1) \div total ELSE Unknown
    BY DEF TopPercent
  <1>5. Scored(a) => total \in Nat \ {0}
    <2>1. Scored(a) => population # {}
      OBVIOUS
    <2> HIDE DEF population
    <2> QED
      BY <1>1, <2>1, FS_EmptySet, FS_CardinalityType
  <1>6. TopPercent(a) # Unknown <=> Scored(a)
    <2>1. ASSUME Scored(a) PROVE (rank(a) * 100 + total - 1) \div total \in Int
      <3>1. total \in Nat \ {0} /\ rank(a) * 100 + total - 1 \in Int
        BY <1>2, <1>5, <2>1
      <3> HIDE DEF rank, total
      <3> QED
        BY <3>1, DivBounds
    <2> HIDE DEF rank, total
    <2> QED
      BY <1>3, <2>1, CatalogueAssumption
  <1>7. ASSUME NEW b \in Searched, Scored(a), Scored(b), Below(Metric(a), Metric(b))
        PROVE  rank(b) < rank(a)
    <2>1. \A c \in population : Metric(c).num \in Int /\ Metric(c).den \in Nat \ {0}
      BY MetricIs
    <2>2. a \in population /\ b \in population
      BY <1>7
    <2> HIDE DEF population
    <2>3. above(b) \subseteq above(a)
      BY <1>7, <2>1, <2>2, BelowOrders
    <2>4. b \in above(a) /\ b \notin above(b)
      BY <1>7, <2>1, <2>2, BelowIrreflexive
    <2> HIDE DEF above
    <2> QED
      BY <1>2, <2>3, <2>4, FS_Subset, FS_CardinalityType
  <1> HIDE DEF rank, total
  <1>8. ASSUME NEW b \in Searched, Scored(a), Scored(b), Below(Metric(a), Metric(b))
        PROVE  TopPercent(b) <= TopPercent(a) /\ (total <= 100 => TopPercent(b) < TopPercent(a))
    <2>1. rank(a) \in Nat /\ rank(b) \in Nat /\ rank(b) < rank(a) /\ total \in Nat \ {0}
      BY <1>2, <1>5, <1>7, <1>8
    <2>2. TopPercent(a) = (rank(a) * 100 + total - 1) \div total /\ TopPercent(b) = (rank(b) * 100 + total - 1) \div total
      BY <1>4, <1>8
    <2> QED
      BY <2>1, <2>2, PercentOrders
  <1> QED
    BY <1>6, <1>8 DEF total

\* Whatever the catalogue: what SQL filters and orders by is what Python shows on the card,
\* up to rounding (search_anime_aggregated, _compute_anime_aggregates).
THEOREM CardsShowWhatIsFiltered == Spec => []CardKeepsFilter
  <1>1. ASSUME CatalogueInv PROVE CardKeepsFilter
    <2> DEFINE badge == [a \in Searched |-> TopPercent(a)]
               shown == [a \in Searched |-> CardGenres(a)]
    <2>1. OfferedGenres = UNION {shown[a] : a \in Searched}
      <3>1. {shown[a] : a \in Searched} = {CardGenres(a) : a \in Searched}
        OBVIOUS
      <3> QED
        BY <3>1, OfferedAreShown
    <2>2. \A a \in Searched : badge[a] = TopPercent(a) /\ shown[a] = CardGenres(a)
      OBVIOUS
    <2> HIDE DEF badge, shown
    <2>3. ASSUME NEW a \in Searched
          PROVE  /\ \A s \in {701, 702} :
                      /\ HavingScoreAtLeast(a, s) => CardScore(a) # Unknown /\ CardScore(a) >= s
                      /\ HavingScoreAtMost(a, s) => CardScore(a) # Unknown /\ CardScore(a) <= s
                 /\ \A v \in {9, 54, 99} : HavingVotesAtLeast(a, v) => CardVotes(a) >= v
      <3>1. \A s : HavingScoreAtLeast(a, s) \/ HavingScoreAtMost(a, s) => Scored(a)
        BY DEF HavingScoreAtLeast, HavingScoreAtMost
      <3>2. CardScore(a) # Unknown <=> Scored(a)
        BY <1>1, ScoreShown
      <3>3. ASSUME NEW s \in Int
            PROVE  /\ HavingScoreAtLeast(a, s) => CardScore(a) >= s
                   /\ HavingScoreAtMost(a, s) => CardScore(a) <= s
                   /\ HavingVotesAtLeast(a, s) => CardVotes(a) >= s
        BY <1>1, ScoreShown
      <3>4. ASSUME NEW s \in {701, 702}
            PROVE  /\ HavingScoreAtLeast(a, s) => CardScore(a) # Unknown /\ CardScore(a) >= s
                   /\ HavingScoreAtMost(a, s) => CardScore(a) # Unknown /\ CardScore(a) <= s
        BY <3>1, <3>2, <3>3
      <3>5. ASSUME NEW v \in {9, 54, 99} PROVE HavingVotesAtLeast(a, v) => CardVotes(a) >= v
        BY <3>3
      <3> QED
        BY <3>4, <3>5
    <2>4. ASSUME NEW a \in Searched, NEW e \in {1, 12, 13}
          PROVE  HavingEpisodesAtLeast(a, e) <=> CardEpisodes(a) # Unknown /\ CardEpisodes(a) >= e
      BY <1>1, EpisodesShown
    <2>5. ASSUME NEW a \in Searched, NEW tier \in {13, 17, 18}
          PROVE  HavingAgeIn(a, {tier}) <=> CardAge(a) = tier
      BY CatalogueAssumption DEF HavingAgeIn, CardAge
    <2>6. ASSUME NEW a \in Searched, NEW status \in {"airing", "finished", "announced"}
          PROVE  HavingStatusIn(a, {status}) <=> CardStatus(a) = status
      BY <1>1, StatusShown
    <2>7. ASSUME NEW a \in Searched, NEW g \in Genres
          PROVE  /\ GenreMatch(a, OneGroup({g}, {}), "any") <=> g \in shown[a]
                 /\ GenreMatch(a, OneGroup({}, {g}), "all") <=> g \notin shown[a]
      BY <2>2, GenresShown
    <2>8. ASSUME NEW a \in Searched
          PROVE  badge[a] # Unknown <=> CardScore(a) # Unknown
      BY <1>1, <2>2, BadgesShown, ScoreShown
    <2>9. ASSUME NEW a \in Searched, NEW b \in Searched, Scored(a), Scored(b), Below(Metric(a), Metric(b))
          PROVE  /\ badge[b] <= badge[a]
                 /\ Cardinality({c \in Searched : Scored(c)}) <= 100 => badge[b] < badge[a]
      BY <1>1, <2>2, <2>9, BadgesShown
    <2> QED
      BY <2>1, <2>3, <2>4, <2>5, <2>6, <2>7, <2>8, <2>9 DEF CardKeepsFilter, badge, shown
  <1> QED
    BY <1>1, CatalogueInvHolds, PTL

LEMMA MediaScopeUnbounded ==
    ASSUME CatalogueInv, NEW rated, NEW watchlisted \in {"yes", "no", "any"}, NEW m \in Stored
    PROVE  InScope(m, PersonalScope(rated, watchlisted, MediaStates, listed, Unknown))
             <=> FilterHolds(ShownStatus(m), rated, m \in listed, watchlisted)
  <1>1. \A visible : visible = Unknown \/ visible \subseteq Stored =>
            (InScope(m, PersonalScope(rated, watchlisted, MediaStates, listed, visible))
               <=> (visible # Unknown => m \in visible)
                     /\ FilterHolds(ShownStatus(m), rated, m \in listed, watchlisted))
    BY MediaScope
  <1> QED
    BY <1>1, Zenon

-----------------------------------------------------------------------------
(* Franchises of one media *)

LEMMA SoleIs ==
    ASSUME AllSole, NEW m \in Stored
    PROVE  /\ MainStory(m) /\ MediaOf(home[m]) = {m} /\ home[m] \in Searched
           /\ media[m].score = Unknown => media[m].votes = 0
           /\ \A n \in Stored : home[m] = home[n] => m = n
           /\ \A S \in SUBSET Stored : home[m] \in Owners(S) <=> m \in S
  <1>1. /\ MainStory(m) /\ MediaOf(home[m]) = {m} /\ home[m] \in Searched
        /\ media[m].score = Unknown => media[m].votes = 0
    BY DEF AllSole, Searched
  <1>2. \A n \in Stored : home[m] = home[n] => m = n
    BY <1>1 DEF MediaOf
  <1>3. \A S \in SUBSET Stored : home[m] \in Owners(S) <=> m \in S
    BY <1>2 DEF Owners
  <1> QED
    BY <1>1, <1>2, <1>3

LEMMA OwnersAreAsMany ==
    ASSUME CatalogueInv, AllSole, NEW S, S \subseteq Stored
    PROVE  IsFiniteSet(S) /\ Cardinality(Owners(S)) = Cardinality(S)
  <1> DEFINE f == [m \in S |-> home[m]]
  <1>1. IsFiniteSet(S)
    BY MediaFinite
  <1>2. f \in [S -> Owners(S)] /\ (\A b \in Owners(S) : \E m \in S : f[m] = b)
    BY DEF Owners
  <1>3. \A m, n \in S : f[m] = f[n] => m = n
    BY SoleIs
  <1> HIDE DEF f
  <1>4. f \in Bijection(S, Owners(S))
    BY <1>2, <1>3 DEF Bijection, Injection, Surjection, IsInjective
  <1>5. ExistsBijection(S, Owners(S))
    BY <1>4 DEF ExistsBijection
  <1> QED
    BY <1>1, <1>5, FS_Bijection

LEMMA SoleCounted ==
    ASSUME CatalogueInv, AllSole, NEW m \in Stored
    PROVE  /\ media[m].score = Unknown => Counted(home[m]) = {}
           /\ media[m].score # Unknown => Counted(home[m]) = {m}
           /\ Scored(home[m]) <=> media[m].score # Unknown
           /\ Scored(home[m]) => /\ media[m].score \in Int
                                 /\ WeightedMean("score", home[m]).num = media[m].score
                                 /\ WeightedMean("score", home[m]).den = 1
                                 /\ WeightedMean("votes", home[m]).num = media[m].votes
                                 /\ WeightedMean("votes", home[m]).den = 1
  <1> DEFINE a == home[m]
  <1>1. MainStory(m) /\ MediaOf(a) = {m}
    BY SoleIs
  <1>2. /\ media[m].score = Unknown => Counted(a) = {}
        /\ media[m].score # Unknown => Counted(a) = {m}
    BY <1>1 DEF Counted, KnownOf
  <1>3. Scored(a) <=> media[m].score # Unknown
    BY <1>2, ScoreShown
  <1>4. ASSUME Scored(a)
        PROVE  /\ media[m].score \in Int
               /\ WeightedMean("score", a).num = media[m].score
               /\ WeightedMean("score", a).den = 1
               /\ WeightedMean("votes", a).num = media[m].votes
               /\ WeightedMean("votes", a).den = 1
    <2>1. Counted(a) = {m} /\ media[m].score \in Int /\ media[m].votes \in Int
      BY <1>2, <1>3, <1>4, StoredNumbers
    <2>2. Cardinality({m}) = 1 /\ IsFiniteSet({m})
      BY FS_Singleton
    <2>3. \A n \in {m} : media[n].score \in Int /\ media[n].votes \in Int
      BY <2>1
    <2>4. TotalOf("score", {m}) = media[m].score
      BY <2>2, <2>3, TotalIs
    <2>5. TotalOf("votes", {m}) = media[m].votes
      BY <2>2, <2>3, TotalIs
    <2>6. WeightedMean("score", a).num = TotalOf("score", Counted(a)) /\ WeightedMean("score", a).den = Cardinality(Counted(a))
      BY MeanIs
    <2>7. WeightedMean("votes", a).num = TotalOf("votes", Counted(a)) /\ WeightedMean("votes", a).den = Cardinality(Counted(a))
      BY MeanIs
    <2> QED
      BY <2>1, <2>2, <2>4, <2>5, <2>6, <2>7
  <1> QED
    BY <1>2, <1>3, <1>4

\* What a filter may hold for both grains to mean the same by it.
Shareable(f) ==
    /\ f.ages \subseteq Int
    /\ f.scoreMin \in Int \cup {Unknown} /\ f.scoreMax \in Int \cup {Unknown}
    /\ f.votesMin \in (Nat \ {0}) \cup {Unknown}
    /\ f.episodesMin \in Int \cup {Unknown} /\ f.topPercent \in Int \cup {Unknown}
    /\ f.watchlisted \in {"yes", "no", "any"} /\ f.rated \in {{}, {"none", "on_hold"}, {"dropped"}}

LEMMA SoleScores ==
    ASSUME CatalogueInv, AllSole, NEW m \in Stored, NEW s \in Int
    PROVE  /\ HavingScoreAtLeast(home[m], s) <=> AtLeast(media[m].score, s)
           /\ HavingScoreAtMost(home[m], s) <=> AtMost(media[m].score, s)
           /\ s > 0 => (HavingVotesAtLeast(home[m], s) <=> AtLeast(media[m].votes, s))
  <1> DEFINE a == home[m]
  <1>1. s # Unknown /\ media[m].votes \in Nat /\ media[m].votes # Unknown
    BY StoredNumbers, CatalogueAssumption
  <1>2. Scored(a) <=> media[m].score # Unknown
    BY SoleCounted
  <1>3. Scored(a) => /\ media[m].score \in Int
                     /\ WeightedMean("score", a).num = media[m].score
                     /\ WeightedMean("score", a).den = 1
                     /\ WeightedMean("votes", a).num = media[m].votes
                     /\ WeightedMean("votes", a).den = 1
    BY SoleCounted
  <1>4. ~Scored(a) => media[m].votes = 0
    BY <1>2, SoleIs
  <1>5. s * 1 = s
    OBVIOUS
  <1> HIDE DEF a
  <1>6. HavingScoreAtLeast(a, s) <=> AtLeast(media[m].score, s)
    BY <1>1, <1>2, <1>3, <1>5 DEF HavingScoreAtLeast, AtLeast
  <1>7. HavingScoreAtMost(a, s) <=> AtMost(media[m].score, s)
    BY <1>1, <1>2, <1>3, <1>5 DEF HavingScoreAtMost, AtMost
  <1>8. s > 0 => (HavingVotesAtLeast(a, s) <=> AtLeast(media[m].votes, s))
    BY <1>1, <1>2, <1>3, <1>4, <1>5 DEF HavingVotesAtLeast, AtLeast
  <1> QED
    BY <1>6, <1>7, <1>8 DEF a

LEMMA SoleEpisodes ==
    ASSUME CatalogueInv, AllSole, NEW m \in Stored, NEW e \in Int
    PROVE  HavingEpisodesAtLeast(home[m], e) <=> AtLeast(media[m].episodes, e)
  <1> DEFINE known == KnownOf("episodes", MediaOf(home[m]))
  <1>1. MediaOf(home[m]) = {m}
    BY SoleIs
  <1>2. HavingEpisodesAtLeast(home[m], e) <=> known # {} /\ TotalOf("episodes", known) >= e
    BY DEF HavingEpisodesAtLeast
  <1>3. e # Unknown
    BY CatalogueAssumption
  <1>4. CASE media[m].episodes = Unknown
    <2>1. known = {}
      BY <1>1, <1>4 DEF KnownOf
    <2> QED
      BY <1>2, <1>3, <1>4, <2>1 DEF AtLeast
  <1>5. CASE media[m].episodes # Unknown
    <2>1. known = {m} /\ media[m].episodes \in Int
      BY <1>1, <1>5, StoredNumbers DEF KnownOf
    <2>2. IsFiniteSet({m}) /\ \A n \in {m} : media[n].episodes \in Int
      BY <2>1, FS_Singleton
    <2>3. TotalOf("episodes", {m}) = media[m].episodes
      BY <2>2, TotalIs
    <2> QED
      BY <1>2, <1>3, <1>5, <2>1, <2>3 DEF AtLeast
  <1> QED
    BY <1>4, <1>5

LEMMA SoleAges ==
    ASSUME CatalogueInv, AllSole, NEW m \in Stored, NEW ages, ages \subseteq Int
    PROVE  HavingAgeIn(home[m], ages) <=> media[m].age \in ages
  <1>1. MediaOf(home[m]) = {m}
    BY SoleIs
  <1>2. LatestOf("age", {m}) = media[m].age
    <2>1. CASE media[m].age = Unknown
      BY <2>1 DEF LatestOf, KnownOf
    <2>2. CASE media[m].age # Unknown
      <3> DEFINE V == {media[n].age : n \in {m}}
      <3>1. KnownOf("age", {m}) = {m} /\ media[m].age \in Int
        BY <2>2, StoredNumbers DEF KnownOf
      <3>2. LatestOf("age", {m}) = Max({media[m].age})
        <4>1. V = {media[m].age}
          OBVIOUS
        <4>2. LatestOf("age", {m}) = Max(V)
          BY <3>1 DEF LatestOf
        <4> QED
          BY <4>1, <4>2
      <3>3. Max({media[m].age}) \in {media[m].age}
        BY <3>1, FS_Singleton, MaxOfFinite
      <3> QED
        BY <3>2, <3>3
    <2> QED
      BY <2>1, <2>2
  <1>3. Unknown \notin Int
    BY CatalogueAssumption
  <1> QED
    BY <1>1, <1>2, <1>3 DEF HavingAgeIn

LEMMA SoleStudios ==
    ASSUME AllSole, NEW m \in Stored, NEW types, NEW names, NEW mode
    PROVE  AnimeHasStudios(home[m], types, names, mode) <=> MediaHasStudios(m, types, names, mode)
  <1> DEFINE matching == {n \in MediaOf(home[m]) : Categorical(n, types)}
             credited == (UNION {media[n].studios : n \in matching}) \cap names
  <1>1. MediaOf(home[m]) = {m}
    BY SoleIs
  <1>2. AnimeHasStudios(home[m], types, names, mode) <=>
          matching # {} /\ (names # {} => Cardinality(credited) >= Needed(names, mode))
    BY DEF AnimeHasStudios
  <1>3. matching # {} <=> Categorical(m, types)
    BY <1>1
  <1>4. Categorical(m, types) => credited = media[m].studios \cap names
    BY <1>1
  <1> QED
    BY <1>2, <1>3, <1>4 DEF MediaHasStudios

LEMMA SoleStatus ==
    ASSUME CatalogueInv, AllSole, NEW m \in Stored, NEW statuses
    PROVE  HavingStatusIn(home[m], statuses) <=> media[m].status \in statuses
  <1>1. MediaOf(home[m]) = {m}
    BY SoleIs
  <1>2. media[m].status \in {"airing", "finished", "announced"}
    BY StoredContent
  <1> QED
    BY <1>1, <1>2 DEF HavingStatusIn, Airing, Finished, Unaired

LEMMA SoleGenres ==
    ASSUME CatalogueInv, AllSole, NEW m \in Stored, NEW groups, NEW mode
    PROVE  GenreMatch(home[m], groups, mode) <=> MatchesGroups(media[m].genres, groups, mode)
  <1> DEFINE held == {g \in Genres : <<home[m], g>> \in GenreMajority}
             carriers(g) == {n \in MediaOf(home[m]) : g \in media[n].genres}
  <1>1. MediaOf(home[m]) = {m} /\ home[m] \in Searched
    BY SoleIs
  <1>2. media[m].genres \subseteq Genres
    BY StoredNumbers
  <1>3. ASSUME NEW g \in Genres PROVE <<home[m], g>> \in GenreMajority <=> g \in media[m].genres
    <2>1. <<home[m], g>> \in GenreMajority <=> 2 * Cardinality(carriers(g)) > Cardinality(MediaOf(home[m]))
      BY <1>1 DEF GenreMajority
    <2>2. Cardinality({m}) = 1 /\ Cardinality({}) = 0
      BY FS_Singleton, FS_EmptySet
    <2>3. carriers(g) = IF g \in media[m].genres THEN {m} ELSE {}
      BY <1>1
    <2> HIDE DEF carriers
    <2> QED
      BY <1>1, <2>1, <2>2, <2>3
  <1>4. held = media[m].genres
    BY <1>2, <1>3
  <1> QED
    BY <1>4 DEF GenreMatch

LEMMA SoleUpcoming ==
    ASSUME AllSole, NEW m \in Stored
    PROVE  UpcomingMain(home[m]) <=> UpcomingMainMedia(m)
  <1>1. MediaOf(home[m]) = {m}
    BY SoleIs
  <1> QED
    BY <1>1 DEF UpcomingMain

LEMMA SoleMetric ==
    ASSUME CatalogueInv, AllSole, NEW m \in Stored, media[m].score # Unknown
    PROVE  /\ Metric(home[m]).num = media[m].score * Log10(media[m].votes) /\ Metric(home[m]).den = 1
           /\ media[m].score * Log10(media[m].votes) \in Int
  <1>1. media[m].votes \in Nat /\ media[m].score \in Int /\ \A votes \in 0 .. media[m].votes : Log10(votes) \in Int
    BY StoredNumbers
  <1>2. media[m].votes \div 1 = media[m].votes
    BY <1>1
  <1>3. media[m].votes \in 0 .. media[m].votes
    BY <1>1
  <1>4. Log10(media[m].votes) \in Int
    BY <1>1, <1>3
  <1>5. /\ WeightedMean("score", home[m]).num = media[m].score
        /\ WeightedMean("score", home[m]).den = 1
        /\ WeightedMean("votes", home[m]).num = media[m].votes
        /\ WeightedMean("votes", home[m]).den = 1
    BY SoleCounted
  <1>6. Metric(home[m]) = [num |-> WeightedMean("score", home[m]).num *
                                     Log10(WeightedMean("votes", home[m]).num \div WeightedMean("votes", home[m]).den),
                           den |-> WeightedMean("score", home[m]).den]
    BY DEF Metric
  <1>7. Metric(home[m]) = [num |-> media[m].score * Log10(media[m].votes), den |-> 1]
    BY <1>2, <1>5, <1>6
  <1> QED
    BY <1>1, <1>4, <1>7

\* The two badges rank the same.
LEMMA SoleBadge ==
    ASSUME CatalogueInv, AllSole, NEW m \in Stored
    PROVE  TopPercent(home[m]) = MediaTopPercent(m)
  <1> DEFINE metric(n) == media[n].score * Log10(media[n].votes)
             scored == KnownOf("score", Stored)
             better == {n \in scored : metric(m) < metric(n)}
             population == {b \in Searched : Scored(b)}
             above == {c \in population : Below(Metric(home[m]), Metric(c))}
  <1>1. scored \subseteq Stored /\ better \subseteq Stored
    BY DEF KnownOf
  <1>2. \A n \in Stored : home[n] \in population <=> n \in scored
    BY SoleCounted, SearchedIs DEF KnownOf
  <1>3. \A b \in Searched : \E n \in Stored : b = home[n]
    BY DEF Searched
  <1>4. population = Owners(scored)
    BY <1>1, <1>2, <1>3 DEF Owners
  <1>5. ASSUME m \in scored PROVE above = Owners(better)
    <2>1. ASSUME NEW n \in scored PROVE Below(Metric(home[m]), Metric(home[n])) <=> metric(m) < metric(n)
      <3>1. /\ Metric(home[m]).num = metric(m) /\ Metric(home[m]).den = 1 /\ metric(m) \in Int
            /\ Metric(home[n]).num = metric(n) /\ Metric(home[n]).den = 1 /\ metric(n) \in Int
        BY <1>1, <1>5, <2>1, SoleMetric DEF KnownOf
      <3> HIDE DEF metric
      <3> QED
        BY <3>1 DEF Below
    <2>2. \A n \in scored : home[n] \in above <=> n \in better
      BY <1>1, <1>2, <2>1
    <2>3. \A c \in above : \E n \in scored : c = home[n]
      BY <1>4 DEF Owners
    <2>4. better \subseteq scored
      OBVIOUS
    <2> HIDE DEF above, better, scored
    <2> QED
      BY <2>2, <2>3, <2>4 DEF Owners
  <1>6. /\ TopPercent(home[m]) = IF Scored(home[m])
                                 THEN ((1 + Cardinality(above)) * 100 + Cardinality(population) - 1) \div Cardinality(population)
                                 ELSE Unknown
        /\ MediaTopPercent(m) = IF m \in scored
                                THEN ((1 + Cardinality(better)) * 100 + Cardinality(scored) - 1) \div Cardinality(scored)
                                ELSE Unknown
    BY DEF TopPercent, MediaTopPercent
  <1>7. Scored(home[m]) <=> m \in scored
    BY SoleCounted DEF KnownOf
  <1> HIDE DEF above, population, better, scored
  <1>8. Cardinality(Owners(scored)) = Cardinality(scored) /\ Cardinality(Owners(better)) = Cardinality(better)
    BY <1>1, OwnersAreAsMany
  <1> QED
    BY <1>4, <1>5, <1>6, <1>7, <1>8

LEMMA SolePasses ==
    ASSUME CatalogueInv, AllSole, NEW m \in Stored, NEW f, Shareable(f)
    PROVE  AnimePasses(home[m], f) <=> MediaPasses(m, f)
  <1>1. AnimeHasStudios(home[m], f.types, f.studios, f.studioMode) <=> MediaHasStudios(m, f.types, f.studios, f.studioMode)
    BY SoleStudios
  <1>2. HavingAgeIn(home[m], f.ages) <=> media[m].age \in f.ages
    BY SoleAges DEF Shareable
  <1>3. HavingStatusIn(home[m], f.statuses) <=> media[m].status \in f.statuses
    BY SoleStatus
  <1>4. GenreMatch(home[m], f.groups, f.genreMode) <=> MatchesGroups(media[m].genres, f.groups, f.genreMode)
    BY SoleGenres
  <1>5. (f.scoreMin # Unknown => HavingScoreAtLeast(home[m], f.scoreMin)) <=> AtLeast(media[m].score, f.scoreMin)
    <2>1. CASE f.scoreMin = Unknown
      BY <2>1 DEF AtLeast
    <2>2. CASE f.scoreMin # Unknown
      BY <2>2, SoleScores DEF Shareable
    <2> QED
      BY <2>1, <2>2
  <1>6. (f.scoreMax # Unknown => HavingScoreAtMost(home[m], f.scoreMax)) <=> AtMost(media[m].score, f.scoreMax)
    <2>1. CASE f.scoreMax = Unknown
      BY <2>1 DEF AtMost
    <2>2. CASE f.scoreMax # Unknown
      BY <2>2, SoleScores DEF Shareable
    <2> QED
      BY <2>1, <2>2
  <1>7. (f.votesMin # Unknown => HavingVotesAtLeast(home[m], f.votesMin)) <=> AtLeast(media[m].votes, f.votesMin)
    <2>1. CASE f.votesMin = Unknown
      BY <2>1 DEF AtLeast
    <2>2. CASE f.votesMin # Unknown
      <3>1. f.votesMin \in Int /\ f.votesMin > 0
        BY <2>2 DEF Shareable
      <3> QED
        BY <2>2, <3>1, SoleScores
    <2> QED
      BY <2>1, <2>2
  <1>8. (f.episodesMin # Unknown => HavingEpisodesAtLeast(home[m], f.episodesMin)) <=> AtLeast(media[m].episodes, f.episodesMin)
    <2>1. CASE f.episodesMin = Unknown
      BY <2>1 DEF AtLeast
    <2>2. CASE f.episodesMin # Unknown
      BY <2>2, SoleEpisodes DEF Shareable
    <2> QED
      BY <2>1, <2>2
  <1>9. (f.topPercent # Unknown => WithinTopPercent(home[m], f.topPercent)) <=> AtMost(MediaTopPercent(m), f.topPercent)
    BY SoleBadge DEF WithinTopPercent, AtMost
  <1>10. UpcomingMain(home[m]) <=> UpcomingMainMedia(m)
    BY SoleUpcoming
  <1> QED
    BY <1>1, <1>2, <1>3, <1>4, <1>5, <1>6, <1>7, <1>8, <1>9, <1>10 DEF AnimePasses, MediaPasses

LEMMA SoleState ==
    ASSUME CatalogueInv, AllSole, NEW m \in Stored, NEW rated \in {{}, {"none", "on_hold"}, {"dropped"}}
    PROVE  DocumentedState(home[m]) \in rated <=> ShownStatus(m) \in rated
  <1>1. MediaOf(home[m]) = {m} /\ MainStory(m)
    BY SoleIs
  <1>2. DocumentedState(home[m]) = IF home[m] \in RatedAnime THEN RatedState(home[m]) ELSE "none"
    BY StateAsDocumented
  <1>3. home[m] \in RatedAnime <=> m \in DOMAIN rating
    BY SoleIs DEF RatedAnime, CatalogueInv
  <1>4. m \in DOMAIN rating => Rateable(m)
    BY DEF AllSole
  <1>5. ASSUME m \in DOMAIN rating
        PROVE  RatedState(home[m]) = IF rating[m].status = "completed" THEN "all"
                                     ELSE IF rating[m].status = "dropped" THEN "dropped"
                                     ELSE IF rating[m].status = "on_hold" THEN "on_hold"
                                     ELSE "in_progress"
    <2> DEFINE rateable == {n \in MediaOf(home[m]) : Rateable(n)}
               main == {n \in rateable : MainStory(n)}
    <2>1. rateable = {m} /\ main = {m}
      BY <1>1, <1>4, <1>5
    <2>2. RatedState(home[m]) =
            IF main # {} /\ \A n \in main : RatedAs(n, "completed")
            THEN IF \A n \in rateable : RatedAs(n, "completed") THEN "all" ELSE "main"
            ELSE IF \E n \in main : RatedAs(n, "dropped") THEN "dropped"
            ELSE IF \E n \in main : RatedAs(n, "on_hold") THEN "on_hold"
            ELSE "in_progress"
      BY DEF RatedState
    <2>3. \A status : RatedAs(m, status) <=> rating[m].status = status
      BY <1>5 DEF RatedAs
    <2> HIDE DEF rateable, main
    <2> QED
      BY <2>1, <2>2, <2>3
  <1>6. m \in DOMAIN rating => rating[m].status # "none"
    BY CatalogueAssumption DEF CatalogueInv
  <1>7. ShownStatus(m) = IF m \in DOMAIN rating THEN rating[m].status ELSE "none"
    BY DEF ShownStatus
  <1> QED
    BY <1>2, <1>3, <1>5, <1>6, <1>7

LEMMA QueriesRollUp ==
    ASSUME CatalogueInv, NEW S, NEW A, Grain(S, A), NEW query \in {"none", "title", "notes"}
    PROVE  AnimeQueried(query, A) = Owners(MediaQueried(query, S))
  <1>1. CASE query = "title"
    BY <1>1, TitlesRollUp DEF AnimeQueried, MediaQueried
  <1>2. CASE query = "notes"
    BY <1>2, NotesRollUp DEF AnimeQueried, MediaQueried
  <1>3. CASE query = "none"
    BY <1>3 DEF AnimeQueried, MediaQueried, Grain
  <1> QED
    BY <1>1, <1>2, <1>3

LEMMA QueriesNarrow ==
    ASSUME NEW S, NEW query \in {"none", "title", "notes"}
    PROVE  MediaQueried(query, S) \subseteq S
  BY DEF MediaQueried, MediaByTitle, MediaByNote, FirstFound

\* A media in scope brings its franchise in scope, and only it does.
LEMMA SoleScope ==
    ASSUME CatalogueInv, AllSole, NEW m \in Stored, NEW watchlisted \in {"yes", "no", "any"},
           NEW rated \in {{}, {"none", "on_hold"}, {"dropped"}}
    PROVE  InScope(home[m], PersonalScope(rated, watchlisted, AnimeStates, ListedAnime, Unknown))
             <=> InScope(m, PersonalScope(rated, watchlisted, MediaStates, listed, Unknown))
  <1>1. home[m] \in Searched /\ MediaOf(home[m]) = {m}
    BY SoleIs
  <1>2. InScope(home[m], PersonalScope(rated, watchlisted, AnimeStates, ListedAnime, Unknown))
          <=> FilterHolds(DocumentedState(home[m]), rated, \E n \in MediaOf(home[m]) : n \in listed, watchlisted)
    BY <1>1, AnimeScope
  <1>3. InScope(m, PersonalScope(rated, watchlisted, MediaStates, listed, Unknown))
          <=> FilterHolds(ShownStatus(m), rated, m \in listed, watchlisted)
    BY MediaScopeUnbounded
  <1>4. DocumentedState(home[m]) \in rated <=> ShownStatus(m) \in rated
    BY SoleState
  <1>5. (\E n \in MediaOf(home[m]) : n \in listed) <=> m \in listed
    BY <1>1
  <1> QED
    BY <1>2, <1>3, <1>4, <1>5 DEF FilterHolds

\* A filter whose parts mean the same at both grains finds the same franchises.
LEMMA SoleSearches ==
    ASSUME CatalogueInv, AllSole, NEW query \in {"none", "title", "notes"}, NEW f, Shareable(f)
    PROVE  SearchAnime(query, f) = Owners(SearchMedia(query, f, Unknown))
  <1> DEFINE scopeA == PersonalScope(f.rated, f.watchlisted, AnimeStates, ListedAnime, Unknown)
             scopeM == PersonalScope(f.rated, f.watchlisted, MediaStates, listed, Unknown)
             keptA == {a \in Searched : InScope(a, scopeA) /\ AnimePasses(a, f)}
             keptM == {m \in Stored : InScope(m, scopeM) /\ MediaPasses(m, f)}
  <1>1. ASSUME NEW m \in Stored PROVE InScope(home[m], scopeA) <=> InScope(m, scopeM)
    <2>1. f.watchlisted \in {"yes", "no", "any"} /\ f.rated \in {{}, {"none", "on_hold"}, {"dropped"}}
      BY DEF Shareable
    <2> QED
      BY <2>1, SoleScope
  <1>2. ASSUME NEW m \in Stored PROVE AnimePasses(home[m], f) <=> MediaPasses(m, f)
    BY SolePasses
  <1>3. SearchAnime(query, f) = AnimeQueried(query, keptA) /\ SearchMedia(query, f, Unknown) = MediaQueried(query, keptM)
    BY DEF SearchAnime, SearchMedia
  <1> HIDE DEF scopeA, scopeM
  <1>4. \A m \in Stored : home[m] \in keptA <=> m \in keptM
    BY <1>1, <1>2, SearchedIs
  <1>5. \A a \in keptA : \E m \in Stored : a = home[m]
    BY DEF Searched
  <1>6. keptM \subseteq Stored
    OBVIOUS
  <1> HIDE DEF keptA, keptM
  <1>7. Grain(keptM, keptA)
    BY <1>4, <1>5, <1>6 DEF Grain, Owners
  <1> QED
    BY <1>3, <1>7, QueriesRollUp

LEMMA SharedAreShareable == \A f \in SharedFilters : Shareable(f)
  <1> DEFINE f1 == [NoFilter EXCEPT !.scoreMin = 702]
             f2 == [NoFilter EXCEPT !.scoreMax = 701]
             f3 == [NoFilter EXCEPT !.votesMin = 54, !.studios = Studios]
             f4 == [NoFilter EXCEPT !.episodesMin = 12, !.ages = {13, 17}]
             f5 == [NoFilter EXCEPT !.statuses = {"airing", "announced"}, !.types = {"TV"}]
             f6 == [NoFilter EXCEPT !.studios = Studios, !.studioMode = "all", !.watchlisted = "no"]
             f7 == [NoFilter EXCEPT !.groups = OneGroup({"comedy"}, {}), !.genreMode = "all"]
             f8 == [NoFilter EXCEPT !.groups = OneGroup({"drama"}, {"comedy"}), !.watchlisted = "yes"]
             f9 == [NoFilter EXCEPT !.topPercent = 50]
             f10 == [NoFilter EXCEPT !.topPercent = 99]
             f11 == [NoFilter EXCEPT !.rated = {"none", "on_hold"}]
             f12 == [NoFilter EXCEPT !.rated = {"dropped"}, !.scoreMin = 701]
             f13 == [NoFilter EXCEPT !.upcoming = TRUE]
  <1>1. Shareable(f1) /\ Shareable(f2)
    BY DEF NoFilter, Shareable
  <1>2. Shareable(f3)
    BY DEF NoFilter, Shareable
  <1>3. Shareable(f4)
    BY DEF NoFilter, Shareable
  <1>4. Shareable(f5)
    BY DEF NoFilter, Shareable
  <1>5. Shareable(f6)
    BY DEF NoFilter, Shareable
  <1>6. Shareable(f7)
    BY DEF NoFilter, Shareable
  <1>7. Shareable(f8)
    BY DEF NoFilter, Shareable
  <1>8. Shareable(f9)
    BY DEF NoFilter, Shareable
  <1>9. Shareable(f10)
    BY DEF NoFilter, Shareable
  <1>10. Shareable(f11)
    BY DEF NoFilter, Shareable
  <1>11. Shareable(f12)
    BY DEF NoFilter, Shareable
  <1>12. Shareable(f13)
    BY DEF NoFilter, Shareable
  <1>13. SharedFilters = {f1, f2, f3, f4, f5, f6, f7, f8, f9, f10, f11, f12, f13}
    BY DEF SharedFilters
  <1> HIDE DEF f1, f2, f3, f4, f5, f6, f7, f8, f9, f10, f11, f12, f13
  <1> QED
    BY <1>1, <1>2, <1>3, <1>4, <1>5, <1>6, <1>7, <1>8, <1>9, <1>10, <1>11, <1>12, <1>13

\* A media search finds what the frontier shows, of anime the same filter keeps.
LEMMA FrontierSearches ==
    ASSUME CatalogueInv, NEW query \in {"none", "title", "notes"},
           NEW f \in {[NoFilter EXCEPT !.types = {"TV"}, !.studios = {"s1"}], [NoFilter EXCEPT !.upcoming = TRUE]}
    PROVE  LET frontier == {m \in Stored : ~Airing(m)}
               found == SearchMedia(query, f, frontier)
           IN found \subseteq frontier /\ Owners(found) \subseteq SearchAnime("none", f)
  <1> DEFINE frontier == {m \in Stored : ~Airing(m)}
             found == SearchMedia(query, f, frontier)
             scopeM == PersonalScope(f.rated, f.watchlisted, MediaStates, listed, frontier)
             scopeA == PersonalScope(f.rated, f.watchlisted, AnimeStates, ListedAnime, Unknown)
             keptM == {m \in Stored : InScope(m, scopeM) /\ MediaPasses(m, f)}
             keptA == {a \in Searched : InScope(a, scopeA) /\ AnimePasses(a, f)}
  <1>1. /\ f.rated = {} /\ f.watchlisted = "any" /\ f.ages = {} /\ f.statuses = {} /\ f.groups = {} /\ f.studioMode = "any"
        /\ f.scoreMin = Unknown /\ f.scoreMax = Unknown /\ f.votesMin = Unknown /\ f.episodesMin = Unknown
        /\ f.topPercent = Unknown /\ (f.studios = {} \/ f.studios = {"s1"})
    BY DEF NoFilter
  <1>2. IsFiniteSet(f.studios)
    <2>1. IsFiniteSet({}) /\ IsFiniteSet({"s1"})
      BY FS_EmptySet, FS_Singleton
    <2> QED
      BY <1>1, <2>1, Zenon
  <1>3. found = MediaQueried(query, keptM) /\ SearchAnime("none", f) = keptA
    BY DEF SearchMedia, SearchAnime, AnimeQueried
  <1>4. keptM \subseteq frontier
    <2>1. frontier \subseteq Stored /\ frontier # Unknown
      <3>1. frontier \in SUBSET (Anime \cup MediaIds)
        BY DEF CatalogueInv
      <3> QED
        BY <3>1, CatalogueAssumption
    <2>2. ASSUME NEW m \in Stored
          PROVE  InScope(m, scopeM) <=> (frontier # Unknown => m \in frontier)
                                          /\ FilterHolds(ShownStatus(m), f.rated, m \in listed, f.watchlisted)
      <3>1. f.watchlisted \in {"yes", "no", "any"}
        BY <1>1
      <3> HIDE DEF frontier
      <3> QED
        BY <2>1, <3>1, MediaScope
    <2> HIDE DEF scopeM, frontier
    <2> QED
      BY <2>1, <2>2
  <1>5. ASSUME NEW m \in keptM PROVE home[m] \in keptA
    <2>1. m \in Stored /\ MediaPasses(m, f) /\ home[m] \in Searched /\ m \in MediaOf(home[m])
      BY SearchedIs
    <2>2. InScope(home[m], scopeA)
      <3>1. InScope(home[m], scopeA)
              <=> FilterHolds(DocumentedState(home[m]), f.rated, \E n \in MediaOf(home[m]) : n \in listed, f.watchlisted)
        <4>1. f.watchlisted \in {"yes", "no", "any"}
          BY <1>1
        <4> QED
          BY <4>1, <2>1, AnimeScope
      <3> HIDE DEF scopeA
      <3> QED
        BY <1>1, <3>1 DEF FilterHolds
    <2>3. AnimeHasStudios(home[m], f.types, f.studios, f.studioMode)
      <3>1. MediaHasStudios(m, f.types, f.studios, f.studioMode)
        BY <2>1 DEF MediaPasses
      <3>2. f.studioMode \in {"any", "all"}
        BY <1>1
      <3> QED
        BY <1>2, <2>1, <3>1, <3>2, StudiosRollUp
    <2>4. f.upcoming => UpcomingMain(home[m])
      BY <2>1 DEF MediaPasses, UpcomingMain
    <2>5. AnimePasses(home[m], f)
      BY <1>1, <2>3, <2>4 DEF AnimePasses
    <2> QED
      BY <2>1, <2>2, <2>5
  <1> HIDE DEF keptM, keptA, frontier
  <1>6. MediaQueried(query, keptM) \subseteq keptM
    BY QueriesNarrow
  <1>7. found \subseteq frontier /\ Owners(found) \subseteq SearchAnime("none", f)
    BY <1>3, <1>4, <1>5, <1>6 DEF Owners
  <1> QED
    BY <1>7 DEF frontier, found

LEMMA SearchesAgree == CatalogueInv => WholeSearchesAgree
  <1> SUFFICES ASSUME CatalogueInv PROVE WholeSearchesAgree
    OBVIOUS
  <1>1. ASSUME AllSole, NEW f \in SharedFilters, NEW query \in {"none", "title", "notes"}
        PROVE  SearchAnime(query, f) = Owners(SearchMedia(query, f, Unknown))
    BY <1>1, SharedAreShareable, SoleSearches
  <1>2. ASSUME NEW f \in {[NoFilter EXCEPT !.types = {"TV"}, !.studios = {"s1"}], [NoFilter EXCEPT !.upcoming = TRUE]},
               NEW query \in {"none", "title", "notes"}
        PROVE  LET frontier == {m \in Stored : ~Airing(m)}
                   found == SearchMedia(query, f, frontier)
               IN found \subseteq frontier /\ Owners(found) \subseteq SearchAnime("none", f)
    BY FrontierSearches
  <1> QED
    BY <1>1, <1>2, Zenon DEF WholeSearchesAgree

\* Whatever the catalogue: a filter, a note or a title finds an anime exactly when it finds
\* one of its media, and its tier is that of its most urgent media (search_anime_by_query,
\* search_media_by_query, _sweep_atoms).  Where every franchise is one media, the whole
\* searches of both grains, badges and personal scopes included, find the same franchises,
\* and no media search finds what the spoiler frontier hides (search_anime_aggregated,
\* search_media_by_filters, personal_scope).
THEOREM GrainsHold == Spec => []GrainsAgree
  <1>1. CatalogueInv => GrainsAgree
    BY GrainsRollUp, SearchesAgree DEF GrainsAgree
  <1> QED
    BY <1>1, CatalogueInvHolds, PTL
=============================================================================
