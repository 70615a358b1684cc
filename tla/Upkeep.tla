-------------------------------- MODULE Upkeep --------------------------------
(***************************************************************************)
(* What runs beside the queue and shares no state: accounts and tokens (A), *)
(* the admission of scrapes (J), the search vectors (V) and Discover's      *)
(* wheel (D), each an instance over constants and variables of its own, and *)
(* what they promise.                                                       *)
(***************************************************************************)

CONSTANTS
    Names, Seeds, TokenRole, Shows, Legacies, Issued, Requests, MaxRequests, MaxEdition,
    People, Operators, Titles, ActiveLimit, DailyLimit, PageLimit, Submissions, MaxJobs,
    Documents, Suffixed, Bare, Unborn, Writers, BatchSize, MaxChanges,
    Wheels, Hashes, Rest, Progresses, Spins, FirstDay, MaxDay

VARIABLES
    accounts, tokens, editions, boot, blind, ask, asks,
    jobs, window, memory, saved, submitting, reader,
    text, vector, txn, changes, crossed, pass, todo, texts, batch,
    restricted, hash, release, day, progress, spinning, answers

A == INSTANCE Accounts WITH catalogue <- editions
J == INSTANCE JobAdmission
V == INSTANCE SearchVectors WITH rows <- texts
D == INSTANCE Discover

ASSUME UpkeepAssumption == A!Configured /\ J!Configured /\ V!Configured /\ D!Configured

accountVars == <<accounts, tokens, editions, boot, blind, ask, asks>>
jobVars == <<jobs, window, memory, saved, submitting, reader>>
vectorVars == <<text, vector, txn, changes, crossed, pass, todo, texts, batch>>
wheelVars == <<restricted, hash, release, day, progress, spinning, answers>>

\* Once the process serves requests every account has what its role needs, whatever an
\* old version left (the passes of main.lifespan; register).
AccountsComplete == A!AccountsComplete

\* A token admits no more accounts than registrations overlapped (register).
TokenBuysOne == A!TokenBuysOne

\* A user's queue passes its limits by no more than the requests that counted together
\* (enqueue_user_scrape).
LimitsBounded == J!LimitsBounded

\* Who pages through the Jobs Log has read every row that was there when they began,
\* whatever was enqueued, taken or ended since (list_admin_paginated).
NoRowOverlooked == J!NoRowOverlooked

\* Whatever changes a document or its vector leaves it with that of its own text, unless
\* two changes of it have overlapped (encode first, then replace).
VectorsFollow == V!VectorsFollow

\* A user draws once a day, a draw keeps its mood for as long as the releases do, and a
\* mood that was drawn sits out its rest (mood_for, record_spin, _kept).
WheelHolds == D!WheelHolds
=============================================================================
