------------------------------ MODULE MCUpkeep ------------------------------
(* What goes on beside the queue: curation, accounts, admission, the search vectors, *)
(* Discover's wheel.  No transaction writes the state of two of them, so a behaviour *)
(* is of one part, the others staying as they start.                                 *)
EXTENDS MCCuration, Upkeep, TLC
CONSTANTS q1, q2, s1, s2, d1, d2, d3, w1, w2

VARIABLE part

Sides == {"curation", "accounts", "jobs", "log", "vectors", "wheel"}
UpkeepSymmetry == Permutations({q1, q2})

\* Accounts: an admin and a guest are configured.  The table is empty, or as a version
\* without settings, lists and caches left it, when guests could still choose a level.
MCSeeds == <<<<"admin", "admin">>, <<"guest", "restricted_user">>>>
MCTokenRole == [t \in {"first", "second"} |-> IF t = "first" THEN "user" ELSE "restricted_user"]
Old(name, role, level) ==
    [name |-> name, role |-> role, level |-> level, tag |-> FALSE, sees |-> [s \in {"show"} |-> 0],
     via |-> "", live |-> TRUE]
MCLegacies == {<<>>, <<Old("admin", "admin", "none"), Old("guest", "restricted_user", "hide")>>}

\* The wheel: four moods, of which a release drops one.
Moods == <<"cozy", "steel", "twists", "future">>
MCWheels == <<Range(Moods), Range(Moods) \ {"twists"}>>
Sorted(s) == [m \in Range(s) |-> CHOOSE i \in DOMAIN s : s[i] = m]
MCHashes ==
    {[c \in 0 .. 2 |-> IF c = 0 THEN Sorted(Moods) ELSE IF c = 1 THEN Sorted(s) ELSE Sorted(<<s[2], s[4], s[1], s[3]>>)] :
        s \in {s \in [1 .. 4 -> Range(Moods)] : Range(s) = Range(Moods)}}
\* The user has not spun, or has before the moods were stored, or was given one since dropped.
MCProgresses ==
    {[count |-> 0, on |-> -1, mood |-> ""]} \cup
    {[count |-> 1, on |-> 0, mood |-> mood] : mood \in {"", "space", "future"}}

-----------------------------------------------------------------------------
UInit ==
    /\ part \in Sides /\ Init /\ A!Init /\ J!Init /\ V!Init /\ D!Init
    \* One start each for the parts that a behaviour leaves alone.
    /\ part # "curation" => home = (CHOOSE d \in MCStarts : TRUE).home
    /\ part # "accounts" => accounts = <<>>
    /\ part # "wheel" => restricted
    \* Every order of a second cycle is drawn by a guest, one of them by a user too.
    /\ part # "wheel" \/ ~restricted => hash[1] = Sorted(Reverse(Moods))

CurationStep == part = "curation" /\ Next /\ UNCHANGED <<part, accountVars, jobVars, vectorVars, wheelVars>>
AccountStep ==
    /\ part = "accounts" /\ A!Next
    \* Bound: five requests, four of them where the catalogue changes.
    /\ editions' = A!Nothing \/ asks' < 5
    /\ UNCHANGED <<part, vars, jobVars, vectorVars, wheelVars>>
SubmissionStep ==
    /\ part = "jobs" /\ J!Next
    /\ \A i \in DOMAIN jobs' : jobs'[i].user = "ann"
    \* Bound: what is saved and what the log forgets are looked at one at a time.
    /\ saved' = {} \/ memory' = 1
    /\ UNCHANGED <<part, vars, accountVars, reader, vectorVars, wheelVars>>
LogStep ==
    /\ part = "log" /\ J!Next
    /\ Len(jobs') <= 3
    /\ UNCHANGED <<part, vars, accountVars, window, memory, submitting, vectorVars, wheelVars>>
VectorStep == part = "vectors" /\ V!Next /\ UNCHANGED <<part, vars, accountVars, jobVars, wheelVars>>
WheelStep == part = "wheel" /\ D!Next /\ UNCHANGED <<part, vars, accountVars, jobVars, vectorVars>>

UNext == CurationStep \/ AccountStep \/ SubmissionStep \/ LogStep \/ VectorStep \/ WheelStep
USpec == UInit /\ [][UNext]_<<part, vars, accountVars, jobVars, vectorVars, wheelVars>>

-----------------------------------------------------------------------------
\* What the documentation says of these, and section 6 of the README refutes:
\* "Check used_at (not the FK) ..." (CannotDeleteUsedTokenError), ...
UsedStays == [][\A t \in DOMAIN tokens : tokens[t] = "used" => tokens'[t] = "used"]_<<tokens>>
\* ... "the mop-up for any non-restricted user a scoped recompute skipped on failure"
\* (backfill_spoiler_visibility), ...
MoppedUp == [][boot # "serving" /\ boot' = "serving" =>
    \A a \in A!Rated : accounts[a].sees \in {A!Nothing, editions}]_<<accounts, boot>>
\* ... and "so any title change invalidates it too" (_description_embedding).
VectorsDescribe == \A d \in {d1, d2, d3} : vector[d] # V!Nil => vector[d] = text[d] \/ text[d] = V!Gone
=============================================================================
