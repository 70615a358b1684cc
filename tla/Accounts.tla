------------------------------ MODULE Accounts ------------------------------
(***************************************************************************)
(* Accounts, the registration tokens that admit them, and what is kept of   *)
(* every account beside its row: settings, the default watch list and the    *)
(* cache of visible media (services/auth_service.py, admin_service.py,       *)
(* user_settings_service.py, spoiler_service.py, seeders/user_seeder.py).    *)
(*                                                                         *)
(* A registration writes all of them in one transaction; the passes run at   *)
(* every start repair what older versions and failures left out; and a       *)
(* change of the catalogue refreshes the caches user by user afterwards.     *)
(***************************************************************************)
EXTENDS Integers, Sequences, FiniteSets

CONSTANTS
    Names,          \* the usernames that register
    Seeds,          \* <<name, role>> of the configured accounts: the admin, maybe the guest
    TokenRole,      \* token -> the role of the account it admits
    Shows,          \* the anime
    Legacies,       \* what the accounts table may hold at the first start
    Issued,         \* the tokens that are open by then
    Requests,       \* the requests that can be in flight at once
    MaxRequests,    \* bound: how many requests are made
    MaxEdition      \* bound: how often a show is saved or changed

Tokens == DOMAIN TokenRole
Roles == {"restricted_user", "user", "admin"}
SpoilerLevels == {"off", "blur", "hide"}

VARIABLES
    accounts,       \* every account there ever was, in the order of their commits
    tokens,         \* token -> unborn, open, lapsed, used or gone
    catalogue,      \* show -> its edition, 0 before it is saved
    boot,           \* the pass the start-up is in, "serving" once it is over
    blind,          \* the accounts backfill_spoiler_visibility has still to recompute
    ask,            \* what each request has read and not yet committed
    asks            \* how many requests have been made

avars == <<accounts, tokens, catalogue, boot, blind, ask, asks>>

Nothing == [s \in Shows |-> 0]
Unasked == [pc |-> "idle", name |-> "", token |-> "", show |-> "", seen |-> Nothing, todo |-> {}]

\* level is "none" without a settings row; sees holds, per show, the edition its
\* user_visible_media rows were computed from; via is the token it registered with.
Account(name, role, level, tag, sees, via) ==
    [name |-> name, role |-> role, level |-> level, tag |-> tag, sees |-> sees,
     via |-> via, live |-> TRUE]

Live == {a \in DOMAIN accounts : accounts[a].live}
Restricted(a) == accounts[a].role = "restricted_user"
Rated == {a \in Live : ~Restricted(a)}
Taken(name) == \E a \in Live : accounts[a].name = name

\* An account as _seed_user and register leave it: a restricted one reads no cache
\* and writes no watch list, so it gets neither.
NewAccount(name, role, seen, via) ==
    LET full == role # "restricted_user"
    IN  Account(name, role, "off", full, IF full THEN seen ELSE Nothing, via)

-----------------------------------------------------------------------------
(* Registration *)

Begin(r) == boot = "serving" /\ ask[r].pc = "idle" /\ asks < MaxRequests /\ asks' = asks + 1
Go(r, pc) == ask' = [ask EXCEPT ![r].pc = pc]
Leave(r) == ask' = [ask EXCEPT ![r] = Unasked]

\* Mutant of Admits: the foreign key is asked, which a deleted account has cleared.
AdmitsByKey(t) ==
    \/ tokens[t] = "open"
    \/ tokens[t] = "used" /\ ~\E a \in Live : accounts[a].via = t

Admits(t) == tokens[t] = "open"

\* The username and the token are checked by plain reads ...
Check(r, name, t) ==
    /\ Begin(r) /\ ~Taken(name) /\ Admits(t)
    /\ ask' = [ask EXCEPT ![r] = [Unasked EXCEPT !.pc = "admitted", !.name = name, !.token = t]]
    /\ UNCHANGED <<accounts, tokens, catalogue, boot, blind>>

\* ... the row is flushed, which waits for whoever else is inserting the name ...
InsertUser(r) ==
    /\ ask[r].pc = "admitted"
    /\ \A q \in Requests \ {r} :
          ~(ask[q].pc \in {"inserted", "computed"} /\ ask[q].name = ask[r].name)
    /\ IF Taken(ask[r].name) THEN Leave(r) ELSE Go(r, "inserted")
    /\ UNCHANGED <<accounts, tokens, catalogue, boot, blind, asks>>

\* ... the cache is computed from the catalogue of that moment ...
ComputeCache(r) ==
    /\ ask[r].pc = "inserted"
    /\ ask' = [ask EXCEPT ![r].pc = "computed", ![r].seen = catalogue]
    /\ UNCHANGED <<accounts, tokens, catalogue, boot, blind, asks>>

\* ... and the token, read long before, is marked as used with the commit.
CommitUser(r) ==
    /\ ask[r].pc = "computed" /\ Leave(r)
    /\ LET t == ask[r].token
       IN  IF tokens[t] = "gone" THEN UNCHANGED <<accounts, tokens>>
           ELSE /\ accounts' = Append(accounts, NewAccount(ask[r].name, TokenRole[t], ask[r].seen, t))
                /\ tokens' = [tokens EXCEPT ![t] = "used"]
    /\ UNCHANGED <<catalogue, boot, blind, asks>>

-----------------------------------------------------------------------------
(* Tokens, settings, the end of an account *)

CreateToken(r, t) ==
    /\ Begin(r) /\ tokens[t] = "unborn"
    /\ tokens' = [tokens EXCEPT ![t] = "open"]
    /\ UNCHANGED <<accounts, catalogue, boot, blind, ask>>

Lapse(t) ==
    /\ tokens[t] = "open"
    /\ tokens' = [tokens EXCEPT ![t] = "lapsed"]
    /\ UNCHANGED <<accounts, catalogue, boot, blind, ask, asks>>

ReadToken(r, t) ==
    /\ Begin(r) /\ tokens[t] \in {"open", "lapsed"}
    /\ ask' = [ask EXCEPT ![r] = [Unasked EXCEPT !.pc = "unused", !.token = t]]
    /\ UNCHANGED <<accounts, tokens, catalogue, boot, blind>>

DeleteToken(r) ==
    /\ ask[r].pc = "unused" /\ Leave(r)
    /\ tokens' = [tokens EXCEPT ![ask[r].token] = "gone"]
    /\ UNCHANGED <<accounts, catalogue, boot, blind, asks>>

\* Settings, lists and cache go with the row; the token keeps its used_at.
DeleteAccount(r, a) ==
    /\ Begin(r) /\ a \in Rated
    /\ accounts' = [accounts EXCEPT ![a].live = FALSE, ![a].sees = Nothing]
    /\ UNCHANGED <<tokens, catalogue, boot, blind, ask>>

\* Mutant of ChangeLevel: the value is taken from whoever sends it.
ChangeAnyLevel(r, a, level) ==
    /\ Begin(r) /\ a \in Live /\ accounts[a].level # "none"
    /\ accounts' = [accounts EXCEPT ![a].level = level]
    /\ UNCHANGED <<tokens, catalogue, boot, blind, ask>>

ChangeLevel(r, a, level) ==
    /\ Begin(r) /\ a \in Live /\ accounts[a].level # "none"
    /\ accounts' = [accounts EXCEPT ![a].level = IF Restricted(a) THEN @ ELSE level]
    /\ UNCHANGED <<tokens, catalogue, boot, blind, ask>>

-----------------------------------------------------------------------------
(* A change of the catalogue, and the caches after it *)

Publish(r, s) ==
    /\ Begin(r) /\ catalogue[s] < MaxEdition
    /\ catalogue' = [catalogue EXCEPT ![s] = @ + 1]
    /\ ask' = [ask EXCEPT ![r] = [Unasked EXCEPT !.pc = "published", !.show = s]]
    /\ UNCHANGED <<accounts, tokens, boot, blind>>

ReadShow(r) ==
    /\ ask[r].pc = "published"
    /\ ask' = [ask EXCEPT ![r].pc = "grouped", ![r].seen = catalogue]
    /\ UNCHANGED <<accounts, tokens, catalogue, boot, blind, asks>>

Remaining(r, todo) ==
    ask' = [ask EXCEPT ![r] = IF todo = {} THEN Unasked ELSE [@ EXCEPT !.pc = "users", !.todo = todo]]

ReadUsers(r) ==
    /\ ask[r].pc = "grouped" /\ Remaining(r, Rated)
    /\ UNCHANGED <<accounts, tokens, catalogue, boot, blind, asks>>

RefreshUser(r, a) ==
    /\ ask[r].pc = "users" /\ a \in ask[r].todo \cap Live
    /\ accounts' = [accounts EXCEPT ![a].sees[ask[r].show] = ask[r].seen[ask[r].show]]
    /\ Remaining(r, ask[r].todo \ {a})
    /\ UNCHANGED <<tokens, catalogue, boot, blind, asks>>

\* A user whose recompute fails, or who has gone, is passed over.
SkipUser(r, a) ==
    /\ ask[r].pc = "users" /\ a \in ask[r].todo
    /\ Remaining(r, ask[r].todo \ {a})
    /\ UNCHANGED <<accounts, tokens, catalogue, boot, blind, asks>>

Disconnect(r) ==
    /\ ask[r].pc # "idle" /\ Leave(r)
    /\ UNCHANGED <<accounts, tokens, catalogue, boot, blind, asks>>

-----------------------------------------------------------------------------
(* Start-up: one pass after the other, then the first request *)

Passes == <<"admin", "guest", "settings", "tags", "visibility", "recompute", "purge", "serving">>
Pass(p) == boot = p /\ UNCHANGED <<tokens, catalogue, ask, asks>>
NextPass == boot' = Passes[1 + CHOOSE i \in DOMAIN Passes : Passes[i] = boot]

Start ==
    /\ boot = "down" /\ boot' = Passes[1]
    /\ UNCHANGED <<accounts, tokens, catalogue, blind, ask, asks>>

SeedUser(i) ==
    /\ Pass(Passes[i]) /\ NextPass /\ UNCHANGED blind
    /\ accounts' = IF i > Len(Seeds) \/ Taken(Seeds[i][1]) THEN accounts
                   ELSE Append(accounts, NewAccount(Seeds[i][1], Seeds[i][2], catalogue, ""))

\* The rows of one pass, each with what it is given, are saved together.
Amend(fixed) ==
    accounts' = [a \in DOMAIN accounts |-> IF a \in DOMAIN fixed THEN fixed[a] ELSE accounts[a]]

BackfillSettings ==
    /\ Pass("settings") /\ NextPass /\ UNCHANGED blind
    /\ Amend([a \in {b \in Live : accounts[b].level = "none"} |-> [accounts[a] EXCEPT !.level = "off"]])

BackfillTags ==
    /\ Pass("tags") /\ NextPass /\ UNCHANGED blind
    /\ Amend([a \in {b \in Rated : ~accounts[b].tag} |-> [accounts[a] EXCEPT !.tag = TRUE]])

\* The accounts without a single row, and only those, are recomputed ...
ListBlind ==
    /\ Pass("visibility") /\ NextPass
    /\ blind' = {a \in Rated : accounts[a].sees = Nothing}
    /\ UNCHANGED accounts

\* ... each in a transaction of its own, which may fail.
RepairUser(a) ==
    /\ Pass("recompute") /\ a \in blind /\ blind' = blind \ {a} /\ UNCHANGED boot
    /\ Amend([b \in {a} |-> [accounts[b] EXCEPT !.sees = catalogue]]) \/ UNCHANGED accounts

Repaired == Pass("recompute") /\ blind = {} /\ NextPass /\ UNCHANGED <<accounts, blind>>

PurgeRestricted ==
    /\ Pass("purge") /\ NextPass /\ UNCHANGED blind
    /\ Amend([a \in {b \in Live : Restricted(b)} |->
                 [accounts[a] EXCEPT !.level = "off", !.sees = Nothing]])

Crash ==
    /\ boot # "down" /\ boot' = "down" /\ blind' = {}
    /\ ask' = [r \in Requests |-> Unasked]
    /\ UNCHANGED <<accounts, tokens, catalogue, asks>>

-----------------------------------------------------------------------------
Init ==
    /\ accounts \in Legacies
    /\ tokens = [t \in Tokens |-> IF t \in Issued THEN "open" ELSE "unborn"]
    /\ catalogue = Nothing
    /\ boot = "down" /\ blind = {}
    /\ ask = [r \in Requests |-> Unasked] /\ asks = 0

Next ==
    \/ \E r \in Requests :
         \/ \E name \in Names, t \in Tokens : Check(r, name, t)
         \/ InsertUser(r) \/ ComputeCache(r) \/ CommitUser(r)
         \/ \E t \in Tokens : CreateToken(r, t) \/ ReadToken(r, t)
         \/ DeleteToken(r)
         \/ \E a \in Live : DeleteAccount(r, a)
         \/ \E a \in Live, level \in SpoilerLevels : ChangeLevel(r, a, level)
         \/ \E s \in Shows : Publish(r, s)
         \/ ReadShow(r) \/ ReadUsers(r)
         \/ \E a \in ask[r].todo : RefreshUser(r, a) \/ SkipUser(r, a)
         \/ Disconnect(r)
    \/ \E t \in Tokens : Lapse(t)
    \/ Start \/ \E i \in {1, 2} : SeedUser(i)
    \/ BackfillSettings \/ BackfillTags \/ ListBlind
    \/ \E a \in blind : RepairUser(a)
    \/ Repaired \/ PurgeRestricted \/ Crash

Spec == Init /\ [][Next]_avars

-----------------------------------------------------------------------------
Usernames == Names \cup {Seeds[i][1] : i \in DOMAIN Seeds} \cup {""}

Row == [name : Usernames, role : Roles, level : SpoilerLevels \cup {"none"}, tag : BOOLEAN,
        sees : [Shows -> Nat], via : Tokens \cup {""}, live : BOOLEAN]

Request == [pc : {"idle", "admitted", "inserted", "computed", "unused", "published", "grouped", "users"},
            name : Usernames, token : Tokens \cup {""}, show : Shows \cup {""},
            seen : [Shows -> Nat], todo : SUBSET Nat]

AccountsTypeOK ==
    /\ accounts \in Seq(Row)
    /\ tokens \in [Tokens -> {"unborn", "open", "lapsed", "used", "gone"}]
    /\ catalogue \in [Shows -> Nat]
    /\ boot \in {"down"} \cup {Passes[i] : i \in DOMAIN Passes}
    /\ blind \subseteq DOMAIN accounts
    /\ ask \in [Requests -> Request] /\ asks \in 0 .. MaxRequests
    /\ \A r \in Requests :
         /\ ask[r].pc \in {"admitted", "inserted", "computed", "unused"} => ask[r].token \in Tokens
         /\ ask[r].pc \in {"published", "grouped", "users"} => ask[r].show \in Shows
         /\ ask[r].todo \subseteq {a \in DOMAIN accounts : ~Restricted(a)}

\* What the code may be started with: accounts of any kind, none of them by a token.
Configured ==
    /\ IsFiniteSet(Requests) /\ MaxRequests \in Nat /\ MaxEdition \in Nat
    /\ "" \notin Tokens /\ \A t \in Tokens : TokenRole[t] \in Roles
    /\ Len(Seeds) \in Nat /\ \A i \in 1 .. Len(Seeds) : i \in DOMAIN Seeds /\ Seeds[i][2] \in Roles
    /\ \A old \in Legacies : old \in Seq(Row) /\ \A a \in DOMAIN old : old[a].via = ""

\* Whatever an old version left, whatever failed and wherever the process died: once it
\* serves requests every account has settings, a guest is pinned to "off" with no cache,
\* and everybody else has a default list (the passes of main.lifespan; register).
AccountsComplete == boot = "serving" => \A a \in Live :
    /\ accounts[a].level # "none"
    /\ IF Restricted(a) THEN accounts[a].level = "off" /\ accounts[a].sees = Nothing
                        ELSE accounts[a].tag

\* A token is checked at the start of a registration and marked at its end: it admits
\* no more accounts than requests were between the two, deleted ones included.
TokenBuysOne == \A t \in Tokens :
    Cardinality({a \in DOMAIN accounts : accounts[a].via = t}) <= Cardinality(Requests)
=============================================================================
