------------------------------ MODULE Discover ------------------------------
(***************************************************************************)
(* Discover's wheel of moods (services/browse_service.py,                   *)
(* daos/discover_progress_dao.py): one draw a day from a hash bag, drawn    *)
(* and kept by racing spins on both sides of midnight, and kept over a      *)
(* release that changes the wheel.                                          *)
(***************************************************************************)
EXTENDS Integers, Sequences, FiniteSets

CONSTANTS
    Wheels,         \* MOODS of each release, in the order of the releases
    Hashes,         \* what _cycle may sort the moods by: cycle -> mood -> its hash
    Rest,           \* _REST
    Progresses,     \* what discover_progress may hold of the user before these releases
    Spins,          \* the spins that can be in flight at once
    FirstDay,       \* the day of the first release, counted from that of the account
    MaxDay          \* bound: the last day

VARIABLES
    restricted,     \* whether the user is a guest
    hash,           \* the moods' hashes in each cycle, fixed by the user's uuid
    release,        \* which of the Wheels is up
    day,            \* the UTC day
    progress,       \* the user's committed row
    spinning,       \* what each spin has read and written
    answers         \* history: the draws that were shown, by which release, and if stored

dvars == <<restricted, hash, release, day, progress, spinning, answers>>

NoRow == [count |-> 0, on |-> -1, mood |-> ""]
Unspun == [pc |-> "idle", day |-> 0, row |-> NoRow]
Wheel == Wheels[release]

-----------------------------------------------------------------------------
(* The bag *)

Lower(cycle, moods, m) == {o \in moods : hash[cycle][o] < hash[cycle][m]}
Higher(cycle, moods, m) == {o \in moods : hash[cycle][o] > hash[cycle][m]}

\* The last Rest moods of a cycle's plain order, and the first Rest of the others, with
\* which the next cycle opens.
Closing(wheel, cycle) == {m \in wheel : Cardinality(Higher(cycle, wheel, m)) < Rest}
Rested(wheel, cycle) == wheel \ Closing(wheel, cycle - 1)
Opening(wheel, cycle) ==
    {m \in wheel : /\ cycle > 0 /\ m \in Rested(wheel, cycle)
                  /\ Cardinality(Lower(cycle, Rested(wheel, cycle), m)) < Rest}

\* What comes before a mood in the bag of a cycle: the opening, then the plain order.
Before(wheel, cycle, m) ==
    LET opening == Opening(wheel, cycle)
    IN  IF m \in opening THEN Lower(cycle, opening, m)
        ELSE opening \cup Lower(cycle, wheel, m)

MoodFor(wheel, n) ==
    LET size == Cardinality(wheel)
    IN  CHOOSE m \in wheel : Cardinality(Before(wheel, n \div size, m)) = n % size

\* The stored mood, drawn again when it is empty or no longer on the wheel.
Kept(row) == IF row.mood \in Wheel THEN row.mood ELSE MoodFor(Wheel, row.count - 1)

-----------------------------------------------------------------------------
(* Spinning and looking *)

Answer(n, mood, kept) ==
    answers' = answers \cup {[draw |-> n, mood |-> mood, release |-> release, kept |-> kept]}

Spin(r) ==
    /\ ~restricted /\ spinning[r].pc = "idle"
    /\ spinning' = [spinning EXCEPT ![r] = [pc |-> "asked", day |-> day, row |-> NoRow]]
    /\ UNCHANGED <<restricted, hash, release, day, progress, answers>>

\* The upsert waits for whoever holds the row, and holds it until the commit.
Upsert(r, row) ==
    /\ spinning[r].pc = "asked" /\ \A q \in Spins : spinning[q].pc # "recorded"
    /\ spinning' = [spinning EXCEPT ![r].pc = "recorded", ![r].row = row]
    /\ UNCHANGED <<restricted, hash, release, day, progress, answers>>

\* Mutant of RecordSpin: any other day is a new one.
RecordAnyDay(r) ==
    LET on == spinning[r].day
    IN  Upsert(r, IF progress = NoRow \/ progress.on # on
                  THEN [count |-> progress.count + 1, on |-> on, mood |-> ""] ELSE progress)

\* Only a later day counts, and clears the mood.
RecordSpin(r) ==
    LET on == spinning[r].day
    IN  Upsert(r, IF progress = NoRow \/ progress.on < on
                  THEN [count |-> progress.count + 1, on |-> on, mood |-> ""] ELSE progress)

KeepMood(r) ==
    LET row == spinning[r].row
    IN  /\ spinning[r].pc = "recorded"
        /\ progress' = [row EXCEPT !.mood = Kept(row)]
        /\ Answer(row.count - 1, Kept(row), TRUE)
        /\ spinning' = [spinning EXCEPT ![r] = Unspun]
        /\ UNCHANGED <<restricted, hash, release, day>>

Abort(r) ==
    /\ spinning[r].pc # "idle" /\ spinning' = [spinning EXCEPT ![r] = Unspun]
    /\ UNCHANGED <<restricted, hash, release, day, progress, answers>>

\* Today's mood is shown to whoever has spun today, to a guest always.
Look ==
    /\ \/ restricted /\ Answer(day, MoodFor(Wheel, day), FALSE)
       \/ ~restricted /\ progress.on = day
          /\ Answer(progress.count - 1, Kept(progress), progress.mood \in Wheel)
    /\ UNCHANGED <<restricted, hash, release, day, progress, spinning>>

-----------------------------------------------------------------------------
Midnight ==
    /\ day < MaxDay /\ day' = day + 1
    /\ UNCHANGED <<restricted, hash, release, progress, spinning, answers>>

Deploy ==
    /\ release < Len(Wheels) /\ release' = release + 1
    /\ spinning' = [r \in Spins |-> Unspun]
    /\ UNCHANGED <<restricted, hash, day, progress, answers>>

\* A mood stored before these releases was an answer of release 0.
Init ==
    /\ restricted \in BOOLEAN /\ hash \in Hashes
    /\ progress \in IF restricted THEN {NoRow} ELSE Progresses
    /\ release = 1 /\ day = FirstDay
    /\ spinning = [r \in Spins |-> Unspun]
    /\ answers = IF progress.mood = "" THEN {}
                 ELSE {[draw |-> progress.count - 1, mood |-> progress.mood, release |-> 0, kept |-> TRUE]}

Next ==
    \/ \E r \in Spins : Spin(r) \/ RecordSpin(r) \/ KeepMood(r) \/ Abort(r)
    \/ Look \/ Midnight \/ Deploy

Spec == Init /\ [][Next]_dvars

-----------------------------------------------------------------------------
\* The wheel has three times as many moods as sit out ("with 3 x _REST moods or more",
\* mood_for); no two hashes of a cycle are equal; the user has spun once a day at most.
Configured ==
    /\ Rest \in Nat /\ FirstDay \in Nat /\ MaxDay \in Nat /\ FirstDay <= MaxDay
    /\ Wheels # <<>> /\ Wheels \in Seq({Wheels[k] : k \in DOMAIN Wheels})
    /\ \A k \in DOMAIN Wheels :
         /\ IsFiniteSet(Wheels[k]) /\ Wheels[k] # {} /\ "" \notin Wheels[k]
         /\ 3 * Rest <= Cardinality(Wheels[k])
    /\ \A h \in Hashes, k \in DOMAIN Wheels : \A c \in 0 .. MaxDay \div Cardinality(Wheels[k]) :
         /\ \A m \in Wheels[k] : h[c][m] \in Int
         /\ \A m, o \in Wheels[k] : h[c][m] = h[c][o] => m = o
    /\ \A row \in Progresses :
         /\ row = [count |-> row.count, on |-> row.on, mood |-> row.mood]
         /\ row.count \in Nat /\ row.on \in -1 .. FirstDay /\ row.count <= row.on + 1
         /\ row.count = 0 => row = NoRow

\* The draws that were made, not those kept from an earlier release.
Drawn == {x \in answers : ~\E y \in answers : y.draw = x.draw /\ y.release < x.release}

\* No more spins count than there were days (record_spin).
OneSpinADay == progress.count <= day + 1

\* A draw has one mood for whoever asks one release, before midnight and after, and once
\* stored it has it in every later one, while they keep it on the wheel (_kept).
DrawHasOneMood ==
    \A x, y \in answers :
        /\ x.draw = y.draw
        /\ \/ x.release = y.release
           \/ /\ x.kept /\ x.release < y.release
              /\ \A k \in x.release + 1 .. y.release : x.mood \in Wheels[k]
        => x.mood = y.mood

\* On one wheel a mood comes once in a cycle, and sits out Rest draws (mood_for).
MoodsSitOut ==
    \A x, y \in Drawn : x.release = y.release /\ x.release > 0 /\ x.mood = y.mood /\ x.draw < y.draw =>
        /\ y.draw - x.draw > Rest
        /\ LET size == Cardinality(Wheels[x.release]) IN x.draw \div size # y.draw \div size

WheelHolds == OneSpinADay /\ DrawHasOneMood /\ MoodsSitOut
=============================================================================
