----------------------------- MODULE UpdateSweep -----------------------------
(***************************************************************************)
(* The nightly update sweep (update_sweep_dispatcher of                     *)
(* services/scrape_dispatcher.py with select_due_media_for_sweep of          *)
(* daos/anime_dao.py) and the delete candidates it raises                    *)
(* (services/delete_candidate_service.py).                                   *)
(*                                                                         *)
(* Each anime takes two commits: the refresh of its due media, then the probe *)
(* of its relations together with the anime's probe clock.  The maintenance   *)
(* gate keeps the administrator out while a sweep runs.  Time is counted in   *)
(* nights; a media is its MAL id.                                            *)
(***************************************************************************)
EXTENDS Integers, Sequences, FiniteSets, FiniteSetsExt, SequencesExt

CONSTANTS
    Media,          \* MAL ids, those MAL will announce included
    Catalogue,      \* the scraped ones: a function from media to their anime
    Mains,          \* the media that are (or will be classified) main entries
    Recent,         \* those whose premiere is recent: weekly when main
    LowSignal,      \* those the low-signal query would match
    Related,        \* media -> the media MAL lists as related
    Roots,          \* those a list that has them gives as where the franchise starts
    Threshold,      \* SWEEP_STABILIZE_THRESHOLD
    Week, Long,     \* SWEEP_WEEKLY_DAYS and the long-tail window, in nights
    Cap,            \* JOBS_SWEEP_MAX_PER_RUN
    Breaker,        \* JOBS_SWEEP_ABORT_AFTER_CONSECUTIVE_FAILURES
    Moves,          \* what MAL may do to an entry: pairs of statuses
    MaxMoves,       \* bound: how often MAL changes an entry, announces or moves a score
    MaxFaults       \* bound: crashes and passing request failures

Anime == {Catalogue[m] : m \in DOMAIN Catalogue}
None == "none"      \* of a media: not in the catalogue

\* How MAL answers for an entry: two ordinary states; 404; a failure that counts as
\* an outage, whatever else is up; one that does not; a record flagged Hentai.
Answers == {"airing", "finished", "gone", "broken", "malformed", "hentai"}
Decisions == {None, "pending", "dismissed", "deleted"}

ASSUME SweepAssumption ==
    /\ DOMAIN Catalogue \subseteq Media /\ Media \subseteq Nat
    /\ Mains \subseteq Media /\ Recent \subseteq Media /\ LowSignal \subseteq Media
    /\ Roots \subseteq Media
    /\ Related \in [Media -> SUBSET Media]
    /\ {Threshold, Week, Long, Cap, Breaker} \subseteq Nat \ {0} /\ Week <= Long
    /\ Moves \subseteq Answers \X Answers /\ {MaxMoves, MaxFaults} \subseteq Nat

VARIABLES
    mal,            \* MAL: its answer for each entry
    announced,      \* MAL: the entries that appear in its relation lists
    parent,         \* media -> its anime, None outside the catalogue
    airing,         \* the media whose stored status is Currently Airing
    age, stable,    \* MediaFreshness: nights since last_checked_at, stable_check_count
    order,          \* the media by last_checked_at, oldest first
    probed, settled,\* AnimeFreshness: the same two for the probe
    decision,       \* the delete candidate of each media
    unwanted,       \* media_unwanted
    sweep,          \* the running sweep's memory
    owed,           \* the anime in the last sweep's probe_failures
    moves, faults   \* bounds

world == <<mal, announced, moves>>
mediaRows == <<parent, airing, age, stable, order>>
animeRows == <<probed, settled>>
curation == <<decision, unwanted>>
vars == <<mal, announced, moves, parent, airing, age, stable, order, probed, settled,
          decision, unwanted, sweep, owed, faults>>

\* Nights beyond the longest window are all the same, and so are counts beyond the
\* threshold.
Older(n) == IF n > Long THEN n ELSE n + 1
Climb(n) == IF n >= Threshold THEN n ELSE n + 1

Known == {m \in Media : parent[m] # None}
Members(a) == {m \in Known : parent[m] = a}
Ids(ms) == SetToSortSeq(ms, <)

\* What MAL lists beside an entry now.
Listed(m) == Related[m] \cap announced

\* `payloads` keeps what MAL listed beside the entries that were just refreshed.
NoSweep == [pc |-> "idle", queue |-> <<>>, excluded |-> {}, failures |-> 0,
            changed |-> FALSE, payloads |-> <<>>]

-----------------------------------------------------------------------------
(* Outside the sweep *)

\* MAL changes an entry, or announces a new one.
MalMoves ==
    /\ moves < MaxMoves /\ moves' = moves + 1
    /\ \/ \E m \in Media, to \in Answers :
            /\ <<mal[m], to>> \in Moves /\ mal' = [mal EXCEPT ![m] = to]
            /\ UNCHANGED announced
       \/ \E m \in Media \ announced : announced' = announced \cup {m} /\ UNCHANGED mal
    /\ UNCHANGED <<mediaRows, animeRows, curation, sweep, owed, faults>>

\* A night falls; the scheduler's job is claimed.
Night ==
    /\ sweep.pc = "idle"
    /\ sweep' = [sweep EXCEPT !.pc = "selecting"]
    /\ age' = [m \in Media |-> Older(age[m])]
    /\ probed' = [a \in Anime |-> Older(probed[a])]
    /\ UNCHANGED <<world, parent, airing, stable, order, settled, curation, owed, faults>>

\* dismiss, and delete_decision of a dismissed candidate.
Rule(m) ==
    /\ sweep.pc = "idle"
    /\ \/ decision[m] = "pending" /\ decision' = [decision EXCEPT ![m] = "dismissed"]
       \/ decision[m] = "dismissed" /\ decision' = [decision EXCEPT ![m] = None]
    /\ UNCHANGED <<world, mediaRows, animeRows, unwanted, sweep, owed, faults>>

\* remove: the media, and the anime with its last one; the blacklist is optional.
RemoveMedia(m, blacklist) ==
    /\ sweep.pc = "idle" /\ decision[m] = "pending"
    /\ decision' = [decision EXCEPT ![m] = "deleted"]
    /\ unwanted' = IF blacklist THEN unwanted \cup {m} ELSE unwanted
    /\ parent' = [parent EXCEPT ![m] = None]
    /\ airing' = airing \ {m}
    /\ order' = SelectSeq(order, LAMBDA n : n # m)
    /\ UNCHANGED <<world, age, stable, animeRows, sweep, owed, faults>>

-----------------------------------------------------------------------------
(* Selecting *)

\* Mutant of Due: the airing tier has no curation gate.
DueUngated(m) ==
    \/ m \in airing
    \/ stable[m] < Threshold
    \/ m \in Mains \cap Recent /\ age[m] > Week
    \/ age[m] > Long

\* The four tiers.
Due(m) ==
    \/ m \in airing /\ decision[m] # "pending"
    \/ stable[m] < Threshold
    \/ m \in Mains \cap Recent /\ age[m] > Week
    \/ age[m] > Long

\* Mutant of Selected: in the order of the ids.
SelectedById == LET due == SelectSeq(Ids(Known), Due)
                IN  SubSeq(due, 1, IF Len(due) < Cap THEN Len(due) ELSE Cap)

\* Oldest first, no more than one run's worth.
Selected == LET due == SelectSeq(order, Due)
            IN  SubSeq(due, 1, IF Len(due) < Cap THEN Len(due) ELSE Cap)

\* Mutant of Exclusions: the blacklist is not loaded.
ExclusionsKnown == Known

\* What no probe of this sweep fetches again.
Exclusions == Known \cup unwanted

Select ==
    /\ sweep.pc = "selecting"
    /\ sweep' = [NoSweep EXCEPT !.pc = "refreshing", !.queue = Selected,
                                !.excluded = Exclusions]
    /\ owed' = {}
    /\ UNCHANGED <<world, mediaRows, animeRows, curation, faults>>

-----------------------------------------------------------------------------
(* Step 1: refresh the due media of one anime, and commit *)

Current == parent[Head(sweep.queue)]
Batch == SelectSeq(sweep.queue, LAMBDA m : parent[m] = Current)
After == SelectSeq(sweep.queue, LAMBDA m : parent[m] # Current)

\* The first entry of the batch that ends the loop, by failing or by being Hentai.
Stops == {i \in DOMAIN Batch : mal[Batch[i]] \in {"broken", "malformed", "hentai"}}
GoneBefore(n) == {Batch[i] : i \in {j \in 1 .. n : mal[Batch[j]] = "gone"}}
AtWork == sweep.pc = "refreshing" /\ sweep.queue # <<>>

\* raise_sweep_404_candidate: unless a decision is in force.
Raise(ms) == [m \in Media |->
                IF m \in ms /\ decision[m] \notin {"pending", "dismissed"} THEN "pending"
                ELSE decision[m]]

\* Mutant of BackedOff: a 404 stamps the clock and resets the counter.
BackedOffFresh(m) == 0

\* _advance_media_freshness of an entry MAL has no more: the counter climbs too.
BackedOff(m) == Climb(stable[m])

\* _qualifies_for_relations_probe, before the probe clock is advanced.
Qualifies(a, current) ==
    /\ Members(a) \cap current = {}
    /\ settled[a] >= Threshold
    /\ probed[a] > Week

\* _apply_media_diff of what MAL says now: a score that has moved (or the episodes, or an
\* end date, which count alike) and a changed status send the counters back to zero.
Moved(ms, scored, current) == scored \cup {m \in ms : (m \in airing) # (m \in current)}

\* MAL has answered: the run of failures is over, whatever becomes of the anime.
Reached == [sweep EXCEPT !.failures = 0]

\* Every due media of the anime answered, or is gone.
Refresh(scored) ==
    LET ms == ToSet(Batch)
        gone == GoneBefore(Len(Batch))
        current == (airing \ (ms \ gone)) \cup {m \in ms : mal[m] = "airing"}
        changed == Moved(ms \ gone, scored, current)
    IN  /\ AtWork /\ Stops = {}
        /\ scored \subseteq ms \ gone
        /\ moves + Cardinality(scored) <= MaxMoves /\ moves' = moves + Cardinality(scored)
        /\ airing' = current
        /\ age' = [m \in Media |-> IF m \in ms THEN 0 ELSE age[m]]
        /\ stable' = [m \in Media |->
                        IF m \notin ms THEN stable[m]
                        ELSE IF m \in gone THEN BackedOff(m)
                        ELSE IF m \in changed \cup current THEN 0
                        ELSE Climb(stable[m])]
        /\ order' = SelectSeq(order, LAMBDA m : m \notin ms) \o Ids(ms)
        /\ decision' = Raise(gone)
        /\ sweep' = [Reached EXCEPT
                       !.changed = changed # {}, !.payloads = [m \in ms \ gone |-> Listed(m)],
                       !.pc = IF Qualifies(Current, current) THEN "probing" ELSE "stamping"]
        /\ UNCHANGED <<mal, announced, parent, animeRows, unwanted, owed, faults>>

\* One of them has turned Hentai: the anime goes, and all its media are blacklisted.
RemoveHentai ==
    /\ AtWork /\ Stops # {} /\ mal[Batch[Min(Stops)]] = "hentai"
    /\ unwanted' = unwanted \cup Members(Current)
    /\ decision' = Raise(GoneBefore(Min(Stops)))
    /\ parent' = [m \in Media |-> IF m \in Members(Current) THEN None ELSE parent[m]]
    /\ airing' = airing \ Members(Current)
    /\ order' = SelectSeq(order, LAMBDA m : parent[m] # Current)
    /\ sweep' = [Reached EXCEPT !.queue = After]
    /\ UNCHANGED <<world, age, stable, animeRows, owed, faults>>

\* The savepoint of the anime rolls back.  A run of failures that count as an outage
\* ends the sweep.
Fail(outage) ==
    LET failures == IF outage THEN sweep.failures + 1 ELSE sweep.failures
    IN  sweep' = IF outage /\ failures >= Breaker THEN NoSweep
                 ELSE [sweep EXCEPT !.failures = failures, !.queue = After]

RefreshFails ==
    /\ AtWork /\ Stops # {} /\ mal[Batch[Min(Stops)]] \in {"broken", "malformed"}
    /\ Fail(mal[Batch[Min(Stops)]] = "broken")
    /\ UNCHANGED <<world, mediaRows, animeRows, curation, owed, faults>>

\* A request of the batch fails this once.
RefreshFailsOnce ==
    /\ AtWork
    /\ faults < MaxFaults /\ faults' = faults + 1
    /\ \E outage \in BOOLEAN : Fail(outage)
    /\ UNCHANGED <<world, mediaRows, animeRows, curation, owed>>

-----------------------------------------------------------------------------
(* Step 2: probe the relations, and commit with the anime's clock *)

\* The main entries, less those MAL answers for with a 404.  One that was refreshed tonight
\* is walked from the payload of step 1, another is fetched.
Kept(m) == m \in DOMAIN sweep.payloads
SeedMedia == {m \in Members(Current) \cap Mains : Kept(m) \/ mal[m] # "gone"}

\* A seed is taken out of the exclusions, so that it is walked like a new entry: one that
\* is flagged by now is not followed, but for the climb to where its franchise starts.
Turned(s) == ~Kept(s) /\ mal[s] = "hentai"
Followed(s) ==
    LET listed == IF Kept(s) THEN sweep.payloads[s] ELSE Listed(s)
    IN  {m \in listed : Turned(s) => m \in Roots}

\* Mutant of Found: only one seed is walked.
FoundFromOne(seeds) ==
    (UNION {Followed(s) : s \in {t \in seeds : \A u \in seeds : t <= u}}) \ sweep.excluded

\* The announced entries the walks from these seeds reach and would fetch.
Found(seeds) == (UNION {Followed(s) : s \in seeds}) \ sweep.excluded

\* The seeds whose walk fetches an entry that does not answer (a 404 behind a relation
\* is no exception).
FailingSeeds == {s \in SeedMedia :
    \/ ~Kept(s) /\ mal[s] \in {"broken", "malformed"}
    \/ \E m \in Found({s}) : mal[m] \in {"broken", "malformed", "gone"}}

NextAnime == [sweep EXCEPT !.pc = "refreshing", !.queue = After, !.payloads = <<>>]

Stamp ==
    /\ probed' = [probed EXCEPT ![Current] = 0]
    /\ settled' = [settled EXCEPT ![Current] =
                     IF sweep.changed \/ Members(Current) \cap airing # {} THEN 0 ELSE Climb(@)]

\* Nothing to probe: only the clock.
SkipProbe ==
    /\ sweep.pc = "stamping"
    /\ Stamp
    /\ sweep' = NextAnime
    /\ UNCHANGED <<world, mediaRows, curation, owed, faults>>

\* attach_search_result_to_anime: new rows under the anime, their clocks just set.
AttachTo(a, fresh) ==
    /\ parent' = [m \in Media |-> IF m \in fresh THEN a ELSE parent[m]]
    /\ airing' = airing \cup {m \in fresh : mal[m] = "airing"}
    /\ age' = [m \in Media |-> IF m \in fresh THEN 0 ELSE age[m]]
    /\ stable' = [m \in Media |-> IF m \in fresh THEN 0 ELSE stable[m]]
    /\ order' = order \o Ids(fresh)

\* Every seed walked: what is new is attached, or blacklisted, and a seed that has turned is
\* blacklisted where it is, in the catalogue.
Probe ==
    LET found == Found(SeedMedia)
        flagged == {m \in found : mal[m] = "hentai"} \cup {s \in SeedMedia : Turned(s)}
    IN  /\ sweep.pc = "probing" /\ FailingSeeds = {}
        /\ AttachTo(Current, found \ flagged)
        /\ unwanted' = unwanted \cup flagged
        /\ Stamp
        /\ sweep' = [NextAnime EXCEPT !.excluded = @ \cup found]
        /\ UNCHANGED <<world, decision, owed, faults>>

\* A walk fails: the savepoint rolls back, the exclusions earlier walks added do not.
ProbeRolledBack ==
    /\ \E walked \in SUBSET (SeedMedia \ FailingSeeds) :
         /\ walked # SeedMedia
         /\ sweep' = [NextAnime EXCEPT !.excluded = @ \cup Found(walked)]
    /\ owed' = owed \cup {Current}
    /\ UNCHANGED <<world, mediaRows, animeRows, curation>>

ProbeFails ==
    /\ sweep.pc = "probing" /\ FailingSeeds # {}
    /\ ProbeRolledBack
    /\ UNCHANGED faults

ProbeFailsOnce ==
    /\ sweep.pc = "probing"
    /\ faults < MaxFaults /\ faults' = faults + 1
    /\ ProbeRolledBack

-----------------------------------------------------------------------------
(* The end of a sweep *)

\* detect_low_signal_candidates, and the worker's outcome.
Finish ==
    /\ sweep.pc = "refreshing" /\ sweep.queue = <<>>
    /\ decision' = Raise((LowSignal \cap Known) \ airing)
    /\ sweep' = NoSweep
    /\ UNCHANGED <<world, mediaRows, animeRows, unwanted, owed, faults>>

\* The process dies, or a commit between the steps fails: only memory is lost.
Die ==
    /\ sweep.pc # "idle"
    /\ faults < MaxFaults /\ faults' = faults + 1
    /\ sweep' = NoSweep
    /\ UNCHANGED <<world, mediaRows, animeRows, curation, owed>>

-----------------------------------------------------------------------------
(* The specification *)

Init ==
    /\ mal \in [Media -> {"airing", "finished"}]
    /\ announced = DOMAIN Catalogue
    /\ parent = [m \in Media |-> IF m \in DOMAIN Catalogue THEN Catalogue[m] ELSE None]
    /\ airing = {m \in DOMAIN Catalogue : mal[m] = "airing"}
    /\ age = [m \in Media |-> 0] /\ stable = [m \in Media |-> 0]
    /\ order = Ids(DOMAIN Catalogue)
    /\ probed = [a \in Anime |-> 0] /\ settled = [a \in Anime |-> 0]
    /\ decision = [m \in Media |-> None] /\ unwanted = {}
    /\ sweep = NoSweep /\ owed = {}
    /\ moves = 0 /\ faults = 0

\* The worker's steps.
SweepStep ==
    \/ Select
    \/ \E scored \in SUBSET Known : Refresh(scored)
    \/ RemoveHentai \/ RefreshFails
    \/ SkipProbe \/ Probe \/ ProbeFails
    \/ Finish

\* What goes wrong once, or dies.
Fault == RefreshFailsOnce \/ ProbeFailsOnce \/ Die

Administrator == \E m \in Known : Rule(m) \/ \E blacklist \in BOOLEAN : RemoveMedia(m, blacklist)

Next == MalMoves \/ Night \/ Administrator \/ SweepStep \/ Fault

Spec == Init /\ [][Next]_vars

\* The scheduler calls every night, and the worker finishes what it has claimed.
FairSpec == Spec /\ WF_vars(Night) /\ WF_vars(SweepStep)

-----------------------------------------------------------------------------
(* Properties *)

\* The rows keep their types: the media by age are exactly the catalogue.
SweepTypeOK ==
    /\ mal \in [Media -> Answers] /\ announced \subseteq Media
    /\ parent \in [Media -> Anime \cup {None}]
    /\ airing \subseteq Known
    /\ age \in [Media -> 0 .. Long + 1] /\ stable \in [Media -> 0 .. Threshold]
    /\ ToSet(order) = Known /\ Len(order) = Cardinality(Known)
    /\ probed \in [Anime -> 0 .. Long + 1] /\ settled \in [Anime -> 0 .. Threshold]
    /\ decision \in [Media -> Decisions]
    /\ ToSet(sweep.queue) \subseteq Known /\ sweep.failures \in 0 .. Breaker - 1

\* What was blacklisted and is out of the catalogue never comes back into it, whichever
\* franchise lists it (create_unwanted_media before the delete, the exclusions of the sweep).
BlacklistHolds == [][\A m \in unwanted \ Known : m \notin Known']_vars

\* A media of a franchise MAL answers for is checked again and again, however many
\* others are due and whatever fails: the cap and the oldest-first order starve nobody.
Answered(a) == \A m \in Members(a) : mal[m] \notin {"broken", "malformed"}
DueMediaRefreshed ==
    \A m \in Media : []<>(parent[m] = None \/ ~Answered(parent[m]) \/ age[m] = 0)

\* An entry that stays gone with its candidate pending leaves the nightly tiers for
\* good, although its stored status and counter can no longer be refreshed
\* (_refresh_one_anime, awaiting_review_mal_ids).
GoneQuietens ==
    \A m \in Media :
        <>[](m \in Known /\ mal[m] = "gone" /\ decision[m] = "pending") =>
            <>[](Due(m) => age[m] > Week)

\* An announced entry is found, when a finished franchise that lists it answers.
Discoverable(m) ==
    /\ m \in announced /\ mal[m] \in {"airing", "finished", "hentai"}
    /\ \E s \in Known \cap Mains :
         /\ m \in Related[s]
         /\ \A n \in Members(parent[s]) :
              /\ mal[n] = "finished"
              /\ \A k \in Related[n] : mal[k] \in {"airing", "finished", "hentai"}
SequelsFound ==
    \A m \in Media : <>[]Discoverable(m) => <>(m \in Known \cup unwanted)

\* _try_step2_probe: a failed probe leaves "AnimeFreshness untouched so the next sweep
\* retries this anime".
ProbeRetriedNextSweep ==
    [][\A a \in owed :
         sweep.pc = "selecting" /\ sweep'.pc = "refreshing" /\ Members(a) # {} =>
            \E m \in ToSet(sweep'.queue) : parent[m] = a]_vars

\* _probe_relations_for_anime: "every newly-saved mal_id is added so later seeds in the
\* same sweep skip re-saving it".
ExcludedIsSaved == sweep.excluded \subseteq Known \cup unwanted

\* _refresh_one_anime: "the sweep must do the same or a flipped title lingers in the
\* catalog. Remove the WHOLE anime + its media from the catalog and blacklist every member".
FlaggedAreOut == unwanted \cap Known = {}

\* docs/features/jobs.md of a 404: "It neither trips nor resets the circuit breaker".
GoneLeavesBreaker ==
    [][AtWork /\ (\A m \in ToSet(Batch) : mal[m] = "gone") /\ age' # age
         => sweep'.failures = sweep.failures]_vars

\* _qualifies_for_relations_probe: "Tier 1 (currently airing) is re-checked daily so a
\* sequel surfaces within a day anyway".
AiringSequelsSurface ==
    \A m \in Media :
        <>[](m \in announced /\ \E s \in airing \cap Mains : m \in Related[s]) =>
            <>(m \in Known \cup unwanted)
=============================================================================
