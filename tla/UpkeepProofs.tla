----------------------------- MODULE UpkeepProofs -----------------------------
(***************************************************************************)
(* What holds of the parts beside the queue for every value of their         *)
(* constants that Upkeep and UpdateSweep assume:                             *)
(*   a start repairs every account, and a token admits no more accounts than  *)
(*   registrations overlap;                                                  *)
(*   a user's queue passes its limits by no more than the requests that       *)
(*   counted together, and who pages through the log misses no row;          *)
(*   a change of a text or a vector leaves the two together;                  *)
(*   a user draws once a day, and a mood that was drawn is kept and sits out;*)
(*   no probe of a sweep brings back what was blacklisted, and none moves a   *)
(*   media to another anime (the nightly sweep, which shares no state either). *)
(***************************************************************************)
EXTENDS Upkeep, UpdateSweep, Counting, FiniteSetTheorems, SequenceTheorems, TLAPS

-----------------------------------------------------------------------------
(* An instance counts with operators of its own *)

LEMMA CountingAccounts ==
    ASSUME NEW S PROVE A!Cardinality(S) = Cardinality(S) /\ A!IsFiniteSet(S) = IsFiniteSet(S)
  BY DEF A!Cardinality, Cardinality, A!IsFiniteSet, IsFiniteSet

-----------------------------------------------------------------------------
(* Accounts: types *)

\* The passes in their order.
LEMMA PassOrder ==
    /\ DOMAIN A!Passes = 1 .. 8
    /\ A!Passes[1] = "admin" /\ A!Passes[2] = "guest" /\ A!Passes[3] = "settings"
    /\ A!Passes[4] = "tags" /\ A!Passes[5] = "visibility" /\ A!Passes[6] = "recompute"
    /\ A!Passes[7] = "purge" /\ A!Passes[8] = "serving"
  BY DEF A!Passes

LEMMA PassAfter ==
    ASSUME NEW i \in 1 .. 7, boot = A!Passes[i], A!NextPass
    PROVE  boot' = A!Passes[i + 1]
  <1>1. \A j \in 1 .. 8 : A!Passes[j] = A!Passes[i] => j = i
    BY PassOrder
  <1>2. (CHOOSE j \in DOMAIN A!Passes : A!Passes[j] = boot) = i
    BY <1>1, PassOrder
  <1>3. boot' = A!Passes[1 + i]
    BY <1>2, Zenon DEF A!NextPass
  <1>4. 1 + i = i + 1
    OBVIOUS
  <1> QED
    BY <1>3, <1>4, Zenon

LEMMA AccountsInit == A!Configured /\ A!Init => A!AccountsTypeOK
  <1> SUFFICES ASSUME A!Configured, A!Init PROVE A!AccountsTypeOK
    OBVIOUS
  <1>1. A!Nothing \in [Shows -> Nat]
    BY DEF A!Nothing
  <1>2. A!Unasked \in A!Request
    <2>1. {} \in SUBSET Nat /\ "" \in A!Usernames
      BY DEF A!Usernames
    <2> QED
      BY <1>1, <2>1 DEF A!Unasked, A!Request
  <1>3. tokens \in [A!Tokens -> {"unborn", "open", "lapsed", "used", "gone"}]
    BY DEF A!Init
  <1>4. accounts \in Seq(A!Row)
    BY DEF A!Init, A!Configured
  <1>5. ask \in [Requests -> A!Request] /\ \A r \in Requests : ask[r].pc = "idle" /\ ask[r].todo = {}
    BY <1>2 DEF A!Init, A!Unasked
  <1>6. asks \in 0 .. MaxRequests /\ boot = "down" /\ blind \subseteq DOMAIN accounts
    <2>1. MaxRequests \in Nat
      BY DEF A!Configured
    <2> QED
      BY <2>1 DEF A!Init
  <1>7. editions \in [Shows -> Nat]
    BY <1>1 DEF A!Init
  <1> QED
    BY <1>3, <1>4, <1>5, <1>6, <1>7 DEF A!AccountsTypeOK

\* A row is added, or rows are rewritten under their roles and tokens.
LEMMA AddedRow ==
    ASSUME accounts \in Seq(A!Row), NEW row \in A!Row
    PROVE  /\ Append(accounts, row) \in Seq(A!Row)
           /\ DOMAIN Append(accounts, row) = DOMAIN accounts \cup {Len(accounts) + 1}
           /\ Len(accounts) + 1 \notin DOMAIN accounts
           /\ \A a \in DOMAIN accounts : Append(accounts, row)[a] = accounts[a]
           /\ Append(accounts, row)[Len(accounts) + 1] = row
  <1>1. DOMAIN accounts = 1 .. Len(accounts) /\ Len(accounts) \in Nat
    OBVIOUS
  <1>2. DOMAIN Append(accounts, row) = 1 .. Len(accounts) + 1
    OBVIOUS
  <1> QED
    BY <1>1, <1>2

LEMMA RewrittenRows ==
    ASSUME accounts \in Seq(A!Row), NEW fixed, A!Amend(fixed),
           \A a \in DOMAIN accounts \cap DOMAIN fixed : fixed[a] \in A!Row
    PROVE  accounts' \in Seq(A!Row) /\ DOMAIN accounts' = DOMAIN accounts
  <1>1. DOMAIN accounts = 1 .. Len(accounts) /\ Len(accounts) \in Nat
    OBVIOUS
  <1>2. \A a \in DOMAIN accounts : accounts[a] \in A!Row
    BY <1>1
  <1>3. accounts' \in [1 .. Len(accounts) -> A!Row]
    BY <1>1, <1>2 DEF A!Amend
  <1> QED
    BY <1>1, <1>3, SeqDef

\* What an account is made of when it is admitted or seeded.
LEMMA NewRowFields ==
    ASSUME NEW name, NEW role, NEW seen, NEW via
    PROVE  /\ A!NewAccount(name, role, seen, via).role = role
           /\ A!NewAccount(name, role, seen, via).via = via
           /\ A!NewAccount(name, role, seen, via).level = "off"
           /\ A!NewAccount(name, role, seen, via).tag = (role # "restricted_user")
           /\ role = "restricted_user" => A!NewAccount(name, role, seen, via).sees = A!Nothing
  BY DEF A!NewAccount, A!Account

LEMMA NewRowType ==
    ASSUME NEW name \in A!Usernames, NEW role \in A!Roles, NEW seen \in [Shows -> Nat],
           NEW via \in A!Tokens \cup {""}
    PROVE  A!NewAccount(name, role, seen, via) \in A!Row
  <1>1. A!Nothing \in [Shows -> Nat]
    BY DEF A!Nothing
  <1> QED
    BY <1>1 DEF A!NewAccount, A!Account, A!Row, A!SpoilerLevels

\* A step that changes only what a request holds, and maybe counts it.
LEMMA RequestChanged ==
    ASSUME A!AccountsTypeOK, NEW r \in Requests, NEW held \in A!Request,
           ask' = [ask EXCEPT ![r] = held],
           held.pc \in {"admitted", "inserted", "computed", "unused"} => held.token \in A!Tokens,
           held.pc \in {"published", "grouped", "users"} => held.show \in Shows,
           held.todo \subseteq {a \in DOMAIN accounts : ~A!Restricted(a)}
    PROVE  /\ ask' \in [Requests -> A!Request]
           /\ \A q \in Requests :
                /\ ask'[q].pc \in {"admitted", "inserted", "computed", "unused"} => ask'[q].token \in A!Tokens
                /\ ask'[q].pc \in {"published", "grouped", "users"} => ask'[q].show \in Shows
                /\ ask'[q].todo \subseteq {a \in DOMAIN accounts : ~A!Restricted(a)}
  <1>1. ask \in [Requests -> A!Request]
    BY DEF A!AccountsTypeOK
  <1>2. ask'[r] = held /\ \A q \in Requests \ {r} : ask'[q] = ask[q]
    BY <1>1
  <1>3. ask' \in [Requests -> A!Request]
    BY <1>1
  <1> QED
    BY <1>2, <1>3 DEF A!AccountsTypeOK

\* A step that rewrites or adds rows without giving an old one another role.
LEMMA RolesStay ==
    ASSUME A!AccountsTypeOK, DOMAIN accounts \subseteq DOMAIN accounts',
           \A a \in DOMAIN accounts : accounts'[a].role = accounts[a].role
    PROVE  \A S : S \subseteq {a \in DOMAIN accounts : ~A!Restricted(a)}
                    => S \subseteq {a \in DOMAIN accounts' : ~(accounts'[a].role = "restricted_user")}
  BY DEF A!Restricted

\* The fields of a request.
LEMMA RequestFields ==
    ASSUME A!AccountsTypeOK, NEW r \in Requests
    PROVE  /\ ask[r] \in A!Request
           /\ DOMAIN ask[r] = {"pc", "name", "token", "show", "seen", "todo"}
           /\ ask[r].name \in A!Usernames /\ ask[r].seen \in [Shows -> Nat]
           /\ ask[r].token \in A!Tokens \cup {""} /\ ask[r].show \in Shows \cup {""}
           /\ ask[r].todo \subseteq {a \in DOMAIN accounts : ~A!Restricted(a)}
           /\ ask[r].todo \subseteq Nat
  BY DEF A!AccountsTypeOK, A!Request

\* What is left to say of a step, once its rows keep their roles.
LEMMA TypesKept ==
    ASSUME A!AccountsTypeOK, accounts' \in Seq(A!Row), DOMAIN accounts \subseteq DOMAIN accounts',
           \A a \in DOMAIN accounts : accounts'[a].role = accounts[a].role,
           tokens' \in [A!Tokens -> {"unborn", "open", "lapsed", "used", "gone"}],
           editions' \in [Shows -> Nat],
           boot' \in {"down"} \cup {A!Passes[i] : i \in DOMAIN A!Passes},
           blind' \subseteq DOMAIN accounts', asks' \in 0 .. MaxRequests,
           ask' \in [Requests -> A!Request],
           \A q \in Requests :
             /\ ask'[q].pc \in {"admitted", "inserted", "computed", "unused"} => ask'[q].token \in A!Tokens
             /\ ask'[q].pc \in {"published", "grouped", "users"} => ask'[q].show \in Shows
             /\ ask'[q].todo \subseteq {a \in DOMAIN accounts : ~A!Restricted(a)}
    PROVE  A!AccountsTypeOK'
  BY DEF A!AccountsTypeOK, A!Restricted

\* One request goes on; nothing else changes but the tokens, the editions or the count.
LEMMA RequestGoesOn ==
    ASSUME A!AccountsTypeOK, NEW r \in Requests, NEW held \in A!Request,
           ask' = [ask EXCEPT ![r] = held],
           held.pc \in {"admitted", "inserted", "computed", "unused"} => held.token \in A!Tokens,
           held.pc \in {"published", "grouped", "users"} => held.show \in Shows,
           held.todo \subseteq {a \in DOMAIN accounts : ~A!Restricted(a)},
           accounts' \in Seq(A!Row), DOMAIN accounts \subseteq DOMAIN accounts',
           \A a \in DOMAIN accounts : accounts'[a].role = accounts[a].role,
           UNCHANGED <<boot, blind>>, asks' \in 0 .. MaxRequests,
           tokens' \in [A!Tokens -> {"unborn", "open", "lapsed", "used", "gone"}],
           editions' \in [Shows -> Nat]
    PROVE  A!AccountsTypeOK'
  <1>1. boot \in {"down"} \cup {A!Passes[i] : i \in DOMAIN A!Passes} /\ blind \subseteq DOMAIN accounts
    BY DEF A!AccountsTypeOK
  <1> HIDE DEF A!AccountsTypeOK
  <1> QED
    BY <1>1, RequestChanged, TypesKept

LEMMA UnaskedIsRequest == A!Unasked \in A!Request
  <1>1. A!Nothing \in [Shows -> Nat] /\ {} \in SUBSET Nat /\ "" \in A!Usernames
    BY DEF A!Nothing, A!Usernames
  <1> QED
    BY <1>1 DEF A!Unasked, A!Request

\* One that leaves.
LEMMA RequestLeaves ==
    ASSUME A!AccountsTypeOK, NEW r \in Requests, A!Leave(r), UNCHANGED <<boot, blind>>,
           accounts' \in Seq(A!Row), DOMAIN accounts \subseteq DOMAIN accounts',
           \A a \in DOMAIN accounts : accounts'[a].role = accounts[a].role,
           asks' \in 0 .. MaxRequests,
           tokens' \in [A!Tokens -> {"unborn", "open", "lapsed", "used", "gone"}],
           editions' \in [Shows -> Nat]
    PROVE  A!AccountsTypeOK'
  <1>1. A!Unasked.pc = "idle" /\ A!Unasked.todo = {}
    BY DEF A!Unasked
  <1>2. ask' = [ask EXCEPT ![r] = A!Unasked]
    BY DEF A!Leave
  <1> QED
    BY <1>1, <1>2, UnaskedIsRequest, RequestGoesOn

\* A step of the start-up, or of an account that is none of the above.
LEMMA NobodyMoves ==
    ASSUME A!AccountsTypeOK, UNCHANGED <<ask, asks, editions>>,
           tokens' \in [A!Tokens -> {"unborn", "open", "lapsed", "used", "gone"}],
           accounts' \in Seq(A!Row), DOMAIN accounts \subseteq DOMAIN accounts',
           \A a \in DOMAIN accounts : accounts'[a].role = accounts[a].role,
           boot' \in {"down"} \cup {A!Passes[i] : i \in DOMAIN A!Passes},
           blind' \subseteq DOMAIN accounts'
    PROVE  A!AccountsTypeOK'
  BY DEF A!AccountsTypeOK, A!Restricted

\* A row under a new setting, list, cache or end of life.
LEMMA RowFields ==
    ASSUME A!AccountsTypeOK, NEW a \in DOMAIN accounts
    PROVE  /\ accounts[a] \in A!Row
           /\ DOMAIN accounts[a] = {"name", "role", "level", "tag", "sees", "via", "live"}
           /\ \A level \in A!SpoilerLevels : [accounts[a] EXCEPT !.level = level] \in A!Row
           /\ \A seen \in [Shows -> Nat] : [accounts[a] EXCEPT !.sees = seen] \in A!Row
           /\ [accounts[a] EXCEPT !.tag = TRUE] \in A!Row
           /\ [accounts[a] EXCEPT !.live = FALSE] \in A!Row
  <1>1. accounts[a] \in A!Row
    BY DEF A!AccountsTypeOK
  <1> QED
    BY <1>1 DEF A!Row

LEMMA RequestTypes ==
    ASSUME A!Configured, A!AccountsTypeOK, NEW r \in Requests,
           \/ \E name \in Names, t \in A!Tokens : A!Check(r, name, t)
           \/ A!InsertUser(r) \/ A!ComputeCache(r) \/ A!CommitUser(r)
           \/ \E t \in A!Tokens : A!CreateToken(r, t) \/ A!ReadToken(r, t)
           \/ A!DeleteToken(r)
           \/ \E a \in A!Live : A!DeleteAccount(r, a)
           \/ \E a \in A!Live, level \in A!SpoilerLevels : A!ChangeLevel(r, a, level)
           \/ \E s \in Shows : A!Publish(r, s)
           \/ A!ReadShow(r) \/ A!ReadUsers(r)
           \/ \E a \in ask[r].todo : A!RefreshUser(r, a) \/ A!SkipUser(r, a)
           \/ A!Disconnect(r)
    PROVE  A!AccountsTypeOK'
  <1>0. /\ accounts \in Seq(A!Row) /\ asks \in 0 .. MaxRequests /\ MaxRequests \in Nat
        /\ tokens \in [A!Tokens -> {"unborn", "open", "lapsed", "used", "gone"}]
        /\ editions \in [Shows -> Nat]
    BY DEF A!AccountsTypeOK, A!Configured
  <1> DEFINE rows == accounts' \in Seq(A!Row) /\ DOMAIN accounts \subseteq DOMAIN accounts'
                     /\ \A a \in DOMAIN accounts : accounts'[a].role = accounts[a].role
  <1>1. ASSUME UNCHANGED accounts PROVE rows
    BY <1>0, <1>1
  <1>2. ASSUME A!Begin(r) PROVE asks' \in 0 .. MaxRequests
    BY <1>0, <1>2 DEF A!Begin
  <1>3. /\ DOMAIN ask[r] = {"pc", "name", "token", "show", "seen", "todo"}
        /\ ask[r] \in A!Request /\ ask[r].todo \subseteq {a \in DOMAIN accounts : ~A!Restricted(a)}
        /\ ask[r].name \in A!Usernames /\ ask[r].seen \in [Shows -> Nat]
    BY RequestFields
  <1>4. /\ ask[r].pc \in {"admitted", "inserted", "computed", "unused"} => ask[r].token \in A!Tokens
        /\ ask[r].pc \in {"published", "grouped", "users"} => ask[r].show \in Shows
    BY DEF A!AccountsTypeOK
  <1>5. \A pc \in {"idle", "admitted", "inserted", "computed", "unused", "published", "grouped", "users"} :
          \A seen \in [Shows -> Nat] :
            LET held == [ask[r] EXCEPT !.pc = pc, !.seen = seen]
            IN  /\ held \in A!Request /\ held.pc = pc /\ held.token = ask[r].token
                /\ held.show = ask[r].show /\ held.todo = ask[r].todo
    BY <1>3 DEF A!Request
  <1>6. ASSUME NEW name \in Names, NEW t \in A!Tokens, A!Check(r, name, t) PROVE A!AccountsTypeOK'
    <2> DEFINE held == [A!Unasked EXCEPT !.pc = "admitted", !.name = name, !.token = t]
    <2>1. DOMAIN A!Unasked = {"pc", "name", "token", "show", "seen", "todo"}
      BY DEF A!Unasked
    <2>2. held.pc = "admitted" /\ held.token = t /\ held.todo = {}
      BY DEF A!Unasked
    <2>3. held \in A!Request
      BY UnaskedIsRequest DEF A!Request, A!Usernames
    <2>4. UNCHANGED <<accounts, tokens, editions, boot, blind>> /\ A!Begin(r)
          /\ ask' = [ask EXCEPT ![r] = held]
      BY <1>6 DEF A!Check
    <2> HIDE DEF held
    <2> QED
      BY <1>0, <1>1, <1>2, <2>2, <2>3, <2>4, RequestGoesOn
  <1>7. ASSUME A!InsertUser(r) PROVE A!AccountsTypeOK'
    <2>1. CASE A!Leave(r)
      BY <1>0, <1>1, <1>7, <2>1, RequestLeaves DEF A!InsertUser
    <2>2. CASE A!Go(r, "inserted")
      <3> DEFINE held == [ask[r] EXCEPT !.pc = "inserted"]
      <3>1. held \in A!Request /\ held.pc = "inserted" /\ held.token = ask[r].token /\ held.todo = ask[r].todo
        BY <1>3 DEF A!Request
      <3>2. ask' = [ask EXCEPT ![r] = held]
        BY <2>2 DEF A!Go
      <3>3. ask[r].token \in A!Tokens
        BY <1>4, <1>7 DEF A!InsertUser
      <3> HIDE DEF held
      <3> QED
        BY <1>0, <1>1, <1>3, <1>7, <3>1, <3>2, <3>3, RequestGoesOn DEF A!InsertUser
    <2> QED
      BY <1>7, <2>1, <2>2 DEF A!InsertUser
  <1>8. ASSUME A!ComputeCache(r) PROVE A!AccountsTypeOK'
    <2> DEFINE held == [ask[r] EXCEPT !.pc = "computed", !.seen = editions]
    <2>1. held \in A!Request /\ held.pc = "computed" /\ held.token = ask[r].token /\ held.todo = ask[r].todo
      BY <1>0, <1>3 DEF A!Request
    <2>2. ask' = [ask EXCEPT ![r] = held]
      BY <1>8 DEF A!ComputeCache
    <2>3. ask[r].token \in A!Tokens
      BY <1>4, <1>8 DEF A!ComputeCache
    <2> HIDE DEF held
    <2> QED
      BY <1>0, <1>1, <1>3, <1>8, <2>1, <2>2, <2>3, RequestGoesOn DEF A!ComputeCache
  <1>9. ASSUME A!CommitUser(r) PROVE A!AccountsTypeOK'
    <2>1. ask[r].token \in A!Tokens
      BY <1>4, <1>9 DEF A!CommitUser
    <2>2. CASE UNCHANGED <<accounts, tokens>>
      BY <1>0, <1>1, <1>9, <2>2, RequestLeaves DEF A!CommitUser
    <2>3. CASE /\ accounts' = Append(accounts,
                    A!NewAccount(ask[r].name, TokenRole[ask[r].token], ask[r].seen, ask[r].token))
               /\ tokens' = [tokens EXCEPT ![ask[r].token] = "used"]
      <3>1. TokenRole[ask[r].token] \in A!Roles
        BY <2>1 DEF A!Configured
      <3>2. A!NewAccount(ask[r].name, TokenRole[ask[r].token], ask[r].seen, ask[r].token) \in A!Row
        <4>1. ask[r].token \in A!Tokens \cup {""}
          BY <2>1
        <4> QED
          BY <1>3, <3>1, <4>1, NewRowType, Zenon
      <3>3. rows
        BY <1>0, <2>3, <3>2, AddedRow
      <3>4. tokens' \in [A!Tokens -> {"unborn", "open", "lapsed", "used", "gone"}]
        BY <1>0, <2>3
      <3> QED
        BY <1>0, <1>9, <3>3, <3>4, RequestLeaves DEF A!CommitUser
    <2> QED
      BY <1>9, <2>2, <2>3 DEF A!CommitUser
  <1>10. ASSUME NEW t \in A!Tokens, A!CreateToken(r, t) PROVE A!AccountsTypeOK'
    <2>1. tokens' \in [A!Tokens -> {"unborn", "open", "lapsed", "used", "gone"}]
      BY <1>0, <1>10 DEF A!CreateToken
    <2> QED
      BY <1>2, <1>10, <2>1 DEF A!CreateToken, A!AccountsTypeOK, A!Restricted
  <1>11. ASSUME NEW t \in A!Tokens, A!ReadToken(r, t) PROVE A!AccountsTypeOK'
    <2> DEFINE held == [A!Unasked EXCEPT !.pc = "unused", !.token = t]
    <2>1. held.pc = "unused" /\ held.token = t /\ held.todo = {}
      BY DEF A!Unasked
    <2>2. held \in A!Request
      BY UnaskedIsRequest DEF A!Request
    <2>3. UNCHANGED <<accounts, tokens, editions, boot, blind>> /\ A!Begin(r)
          /\ ask' = [ask EXCEPT ![r] = held]
      BY <1>11 DEF A!ReadToken
    <2> HIDE DEF held
    <2> QED
      BY <1>0, <1>1, <1>2, <2>1, <2>2, <2>3, RequestGoesOn
  <1>12. ASSUME A!DeleteToken(r) PROVE A!AccountsTypeOK'
    <2>1. tokens' \in [A!Tokens -> {"unborn", "open", "lapsed", "used", "gone"}]
      BY <1>0, <1>12 DEF A!DeleteToken
    <2> QED
      BY <1>0, <1>1, <1>12, <2>1, RequestLeaves DEF A!DeleteToken
  <1>13. ASSUME NEW a \in A!Live, A!DeleteAccount(r, a) PROVE A!AccountsTypeOK'
    <2> DEFINE row == [accounts[a] EXCEPT !.live = FALSE, !.sees = A!Nothing]
    <2>1. a \in DOMAIN accounts
      BY DEF A!Live
    <2>2. row \in A!Row /\ row.role = accounts[a].role
      <3>1. A!Nothing \in [Shows -> Nat]
        BY DEF A!Nothing
      <3>2. accounts[a] \in A!Row
        BY <2>1, RowFields
      <3> QED
        BY <3>1, <3>2 DEF A!Row
    <2>3. accounts' = [accounts EXCEPT ![a] = row]
      BY <1>13 DEF A!DeleteAccount
    <2> HIDE DEF row
    <2>4. rows
      BY <1>0, <2>1, <2>2, <2>3, ExceptSeq
    <2> QED
      BY <1>0, <1>2, <1>13, <2>4, TypesKept DEF A!DeleteAccount, A!AccountsTypeOK
  <1>14. ASSUME NEW a \in A!Live, NEW level \in A!SpoilerLevels, A!ChangeLevel(r, a, level)
         PROVE A!AccountsTypeOK'
    <2> DEFINE row == [accounts[a] EXCEPT !.level = IF A!Restricted(a) THEN @ ELSE level]
    <2>1. a \in DOMAIN accounts
      BY DEF A!Live
    <2>2. row \in A!Row /\ row.role = accounts[a].role
      <3>1. accounts[a] \in A!Row
        BY <2>1, RowFields
      <3> QED
        BY <3>1 DEF A!Row
    <2>3. accounts' = [accounts EXCEPT ![a] = row]
      BY <1>14 DEF A!ChangeLevel
    <2> HIDE DEF row
    <2>4. rows
      BY <1>0, <2>1, <2>2, <2>3, ExceptSeq
    <2> QED
      BY <1>0, <1>2, <1>14, <2>4, TypesKept DEF A!ChangeLevel, A!AccountsTypeOK
  <1>15. ASSUME NEW s \in Shows, A!Publish(r, s) PROVE A!AccountsTypeOK'
    <2> DEFINE held == [A!Unasked EXCEPT !.pc = "published", !.show = s]
    <2>1. held.pc = "published" /\ held.show = s /\ held.todo = {}
      BY DEF A!Unasked
    <2>2. held \in A!Request
      BY UnaskedIsRequest DEF A!Request
    <2>3. UNCHANGED <<accounts, tokens, boot, blind>> /\ A!Begin(r) /\ ask' = [ask EXCEPT ![r] = held]
      BY <1>15 DEF A!Publish
    <2>4. editions' \in [Shows -> Nat]
      <3>1. editions' = [editions EXCEPT ![s] = editions[s] + 1]
        BY <1>15, Zenon DEF A!Publish
      <3>2. editions[s] + 1 \in Nat
        BY <1>0
      <3> QED
        BY <1>0, <3>1, <3>2
    <2> HIDE DEF held
    <2> QED
      BY <1>0, <1>1, <1>2, <2>1, <2>2, <2>3, <2>4, RequestGoesOn
  <1>16. ASSUME A!ReadShow(r) PROVE A!AccountsTypeOK'
    <2> DEFINE held == [ask[r] EXCEPT !.pc = "grouped", !.seen = editions]
    <2>1. held \in A!Request /\ held.pc = "grouped" /\ held.show = ask[r].show /\ held.todo = ask[r].todo
      BY <1>0, <1>5
    <2>2. ask' = [ask EXCEPT ![r] = held]
      BY <1>16 DEF A!ReadShow
    <2>3. ask[r].show \in Shows
      BY <1>4, <1>16 DEF A!ReadShow
    <2> HIDE DEF held
    <2> QED
      BY <1>0, <1>1, <1>3, <1>16, <2>1, <2>2, <2>3, RequestGoesOn DEF A!ReadShow
  \* What remains to refresh is of those found, who were not restricted.
  <1>17. ASSUME NEW left, left \subseteq {a \in DOMAIN accounts : ~A!Restricted(a)}, rows,
                A!Remaining(r, left), UNCHANGED <<tokens, editions, boot, blind, asks>>,
                ask[r].show \in Shows
         PROVE  A!AccountsTypeOK'
    <2>1. CASE left = {}
      <3>1. A!Leave(r)
        BY <1>17, <2>1 DEF A!Remaining, A!Leave
      <3> QED
        BY <1>0, <1>17, <3>1, RequestLeaves
    <2>2. CASE left # {}
      <3> DEFINE held == [ask[r] EXCEPT !.pc = "users", !.todo = left]
      <3>1. left \in SUBSET Nat
        BY <1>0, <1>17
      <3>2. held \in A!Request /\ held.pc = "users" /\ held.show = ask[r].show /\ held.todo = left
        BY <1>3, <3>1 DEF A!Request
      <3>3. ask' = [ask EXCEPT ![r] = held]
        BY <1>17, <2>2 DEF A!Remaining
      <3> HIDE DEF held
      <3> QED
        BY <1>0, <1>17, <3>2, <3>3, RequestGoesOn
    <2> QED
      BY <2>1, <2>2
  <1>18. ASSUME A!ReadUsers(r) PROVE A!AccountsTypeOK'
    <2>1. A!Rated \subseteq {a \in DOMAIN accounts : ~A!Restricted(a)}
      BY DEF A!Rated, A!Live
    <2>2. ask[r].show \in Shows
      BY <1>4, <1>18 DEF A!ReadUsers
    <2> QED
      BY <1>1, <1>17, <1>18, <2>1, <2>2 DEF A!ReadUsers
  <1>19. ASSUME NEW a \in ask[r].todo, A!RefreshUser(r, a) PROVE A!AccountsTypeOK'
    <2> DEFINE row == [accounts[a] EXCEPT !.sees = [accounts[a].sees EXCEPT ![ask[r].show] = ask[r].seen[ask[r].show]]]
    <2>1. a \in DOMAIN accounts
      BY <1>3
    <2>2. ask[r].show \in Shows
      BY <1>4, <1>19 DEF A!RefreshUser
    <2>3. accounts[a].sees \in [Shows -> Nat]
      BY <2>1, RowFields DEF A!Row
    <2>4. row \in A!Row /\ row.role = accounts[a].role
      BY <1>3, <2>1, <2>2, <2>3, RowFields
    <2>5. accounts' = [accounts EXCEPT ![a] = row]
      BY <1>19 DEF A!RefreshUser
    <2> HIDE DEF row
    <2>6. rows
      BY <1>0, <2>1, <2>4, <2>5, ExceptSeq
    <2> QED
      BY <1>3, <1>17, <1>19, <2>2, <2>6 DEF A!RefreshUser
  <1>20. ASSUME NEW a \in ask[r].todo, A!SkipUser(r, a) PROVE A!AccountsTypeOK'
    <2>1. ask[r].show \in Shows
      BY <1>4, <1>20 DEF A!SkipUser
    <2> QED
      BY <1>1, <1>3, <1>17, <1>20, <2>1 DEF A!SkipUser
  <1>21. ASSUME A!Disconnect(r) PROVE A!AccountsTypeOK'
    BY <1>0, <1>1, <1>21, RequestLeaves DEF A!Disconnect
  <1> QED
    BY <1>6, <1>7, <1>8, <1>9, <1>10, <1>11, <1>12, <1>13, <1>14, <1>15, <1>16, <1>18, <1>19, <1>20, <1>21

LEMMA StartTypes ==
    ASSUME A!Configured, A!AccountsTypeOK,
           \/ \E t \in A!Tokens : A!Lapse(t)
           \/ A!Start \/ \E i \in {1, 2} : A!SeedUser(i)
           \/ A!BackfillSettings \/ A!BackfillTags \/ A!ListBlind
           \/ \E a \in blind : A!RepairUser(a)
           \/ A!Repaired \/ A!PurgeRestricted \/ A!Crash
    PROVE  A!AccountsTypeOK'
  <1>0. /\ accounts \in Seq(A!Row) /\ DOMAIN accounts = 1 .. Len(accounts)
        /\ tokens \in [A!Tokens -> {"unborn", "open", "lapsed", "used", "gone"}]
        /\ editions \in [Shows -> Nat] /\ blind \subseteq DOMAIN accounts
        /\ boot \in {"down"} \cup {A!Passes[i] : i \in DOMAIN A!Passes}
    BY DEF A!AccountsTypeOK
  <1> DEFINE rows == accounts' \in Seq(A!Row) /\ DOMAIN accounts \subseteq DOMAIN accounts'
                     /\ \A a \in DOMAIN accounts : accounts'[a].role = accounts[a].role
             booted == boot' \in {"down"} \cup {A!Passes[i] : i \in DOMAIN A!Passes}
  <1>1. ASSUME UNCHANGED accounts PROVE rows
    BY <1>0, <1>1
  <1>2. ASSUME NEW i \in 1 .. 7, A!Pass(A!Passes[i]), A!NextPass PROVE booted
    <2>1. boot' = A!Passes[i + 1] /\ i + 1 \in 1 .. 8
      BY <1>2, PassAfter DEF A!Pass
    <2> QED
      BY <2>1, PassOrder
  \* The rows that a pass writes keep their roles.
  <1>3. ASSUME NEW fixed, A!Amend(fixed),
               \A a \in DOMAIN accounts \cap DOMAIN fixed :
                  fixed[a] \in A!Row /\ fixed[a].role = accounts[a].role
        PROVE  rows
    <2>1. accounts' \in Seq(A!Row) /\ DOMAIN accounts' = DOMAIN accounts
      BY <1>0, <1>3, RewrittenRows
    <2>2. \A a \in DOMAIN accounts : accounts'[a].role = accounts[a].role
      BY <1>3 DEF A!Amend
    <2> QED
      BY <2>1, <2>2
  <1>4. ASSUME NEW t \in A!Tokens, A!Lapse(t) PROVE A!AccountsTypeOK'
    <2>1. tokens' \in [A!Tokens -> {"unborn", "open", "lapsed", "used", "gone"}]
      BY <1>0, <1>4 DEF A!Lapse
    <2> QED
      BY <1>0, <1>1, <1>4, <2>1, NobodyMoves DEF A!Lapse
  <1>5. ASSUME A!Start PROVE A!AccountsTypeOK'
    <2>1. booted
      BY <1>5, PassOrder DEF A!Start
    <2> QED
      BY <1>0, <1>1, <1>5, <2>1, NobodyMoves DEF A!Start
  <1>6. ASSUME NEW i \in {1, 2}, A!SeedUser(i) PROVE A!AccountsTypeOK'
    <2>1. booted
      <3>1. A!Pass(A!Passes[i]) /\ A!NextPass
        BY <1>6, Zenon DEF A!SeedUser
      <3>2. i \in 1 .. 7
        OBVIOUS
      <3> QED
        BY <1>2, <3>1, <3>2
    <2>2. CASE i > Len(Seeds) \/ A!Taken(Seeds[i][1])
      BY <1>0, <1>1, <1>6, <2>1, <2>2, NobodyMoves DEF A!SeedUser, A!Pass
    <2>3. CASE ~(i > Len(Seeds) \/ A!Taken(Seeds[i][1]))
      <3> DEFINE row == A!NewAccount(Seeds[i][1], Seeds[i][2], editions, "")
      <3>1. i \in DOMAIN Seeds /\ Seeds[i][2] \in A!Roles
        <4>1. Len(Seeds) \in Nat /\ ~(i > Len(Seeds))
          BY <2>3 DEF A!Configured
        <4>2. i \in 1 .. Len(Seeds)
          BY <4>1
        <4> QED
          BY <4>2, Zenon DEF A!Configured
      <3>2. Seeds[i][1] \in A!Usernames /\ "" \in A!Tokens \cup {""}
        BY <3>1 DEF A!Usernames
      <3>3. row \in A!Row
        BY <1>0, <3>1, <3>2, NewRowType, Zenon
      <3>4. accounts' = Append(accounts, row)
        BY <1>6, <2>3, Zenon DEF A!SeedUser
      <3> HIDE DEF row
      <3>5. rows
        BY <1>0, <3>3, <3>4, AddedRow
      <3>6. UNCHANGED <<blind, tokens, editions, ask, asks>>
        BY <1>6 DEF A!SeedUser, A!Pass
      <3> QED
        BY <1>0, <2>1, <3>5, <3>6, NobodyMoves
    <2> QED
      BY <2>2, <2>3
  <1>7. ASSUME A!BackfillSettings PROVE A!AccountsTypeOK'
    <2> DEFINE fixed == [a \in {b \in A!Live : accounts[b].level = "none"} |-> [accounts[a] EXCEPT !.level = "off"]]
    <2>1. booted
      BY <1>2, <1>7, PassOrder DEF A!BackfillSettings
    <2>2. \A a \in DOMAIN accounts \cap DOMAIN fixed :
             fixed[a] \in A!Row /\ fixed[a].role = accounts[a].role
      BY RowFields DEF A!SpoilerLevels
    <2>3. A!Amend(fixed)
      BY <1>7, Zenon DEF A!BackfillSettings
    <2> HIDE DEF fixed
    <2>4. rows
      BY <1>3, <2>2, <2>3
    <2> QED
      BY <1>0, <1>7, <2>1, <2>4, NobodyMoves DEF A!BackfillSettings, A!Pass
  <1>8. ASSUME A!BackfillTags PROVE A!AccountsTypeOK'
    <2> DEFINE fixed == [a \in {b \in A!Rated : ~accounts[b].tag} |-> [accounts[a] EXCEPT !.tag = TRUE]]
    <2>1. booted
      BY <1>2, <1>8, PassOrder DEF A!BackfillTags
    <2>2. \A a \in DOMAIN accounts \cap DOMAIN fixed :
             fixed[a] \in A!Row /\ fixed[a].role = accounts[a].role
      BY RowFields
    <2>3. A!Amend(fixed)
      BY <1>8, Zenon DEF A!BackfillTags
    <2> HIDE DEF fixed
    <2>4. rows
      BY <1>3, <2>2, <2>3
    <2> QED
      BY <1>0, <1>8, <2>1, <2>4, NobodyMoves DEF A!BackfillTags, A!Pass
  <1>9. ASSUME A!ListBlind PROVE A!AccountsTypeOK'
    <2>1. booted
      BY <1>2, <1>9, PassOrder DEF A!ListBlind
    <2>2. blind' \subseteq DOMAIN accounts
      BY <1>9 DEF A!ListBlind, A!Rated, A!Live
    <2> QED
      BY <1>0, <1>1, <1>9, <2>1, <2>2, NobodyMoves DEF A!ListBlind, A!Pass
  <1>10. ASSUME NEW b \in blind, A!RepairUser(b) PROVE A!AccountsTypeOK'
    <2>1. CASE UNCHANGED accounts
      BY <1>0, <1>1, <1>10, <2>1, NobodyMoves DEF A!RepairUser, A!Pass
    <2>2. CASE A!Amend([a \in {b} |-> [accounts[a] EXCEPT !.sees = editions]])
      <3> DEFINE fixed == [a \in {b} |-> [accounts[a] EXCEPT !.sees = editions]]
      <3>1. \A a \in DOMAIN accounts \cap DOMAIN fixed :
               fixed[a] \in A!Row /\ fixed[a].role = accounts[a].role
        BY <1>0, RowFields
      <3>2. A!Amend(fixed)
        BY <2>2
      <3> HIDE DEF fixed
      <3>3. rows
        BY <1>3, <3>1, <3>2
      <3> QED
        BY <1>0, <1>10, <3>3, NobodyMoves DEF A!RepairUser, A!Pass
    <2> QED
      BY <1>10, <2>1, <2>2 DEF A!RepairUser
  <1>11. ASSUME A!Repaired PROVE A!AccountsTypeOK'
    <2>1. booted
      BY <1>2, <1>11, PassOrder DEF A!Repaired
    <2> QED
      BY <1>0, <1>1, <1>11, <2>1, NobodyMoves DEF A!Repaired, A!Pass
  <1>12. ASSUME A!PurgeRestricted PROVE A!AccountsTypeOK'
    <2> DEFINE fixed == [a \in {b \in A!Live : A!Restricted(b)} |->
                            [accounts[a] EXCEPT !.level = "off", !.sees = A!Nothing]]
    <2>1. booted
      <3>1. A!Pass(A!Passes[7]) /\ A!NextPass
        BY <1>12, PassOrder, Zenon DEF A!PurgeRestricted
      <3> QED
        BY <1>2, <3>1
    <2>2. ASSUME NEW a \in DOMAIN accounts \cap DOMAIN fixed
          PROVE  fixed[a] \in A!Row /\ fixed[a].role = accounts[a].role
      <3>1. A!Nothing \in [Shows -> Nat] /\ "off" \in A!SpoilerLevels \cup {"none"}
        BY DEF A!Nothing, A!SpoilerLevels
      <3>2. accounts[a] \in A!Row
        BY RowFields
      <3>3. fixed[a] = [accounts[a] EXCEPT !.level = "off", !.sees = A!Nothing]
        OBVIOUS
      <3> QED
        BY <3>1, <3>2, <3>3 DEF A!Row
    <2>3. A!Amend(fixed)
      BY <1>12, Zenon DEF A!PurgeRestricted
    <2> HIDE DEF fixed
    <2>4. rows
      BY <1>3, <2>2, <2>3
    <2> QED
      BY <1>0, <1>12, <2>1, <2>4, NobodyMoves DEF A!PurgeRestricted, A!Pass
  <1>13. ASSUME A!Crash PROVE A!AccountsTypeOK'
    <2>1. ask' \in [Requests -> A!Request] /\ \A r \in Requests : ask'[r].pc = "idle" /\ ask'[r].todo = {}
      <3>1. A!Unasked.pc = "idle" /\ A!Unasked.todo = {}
        BY DEF A!Unasked
      <3>2. ask' = [r \in Requests |-> A!Unasked]
        BY <1>13 DEF A!Crash
      <3> QED
        BY <3>1, <3>2, UnaskedIsRequest
    <2>2. UNCHANGED <<accounts, tokens, editions, asks>> /\ boot' = "down" /\ blind' = {}
      BY <1>13 DEF A!Crash
    <2> QED
      BY <2>1, <2>2 DEF A!AccountsTypeOK
  <1> QED
    BY <1>4, <1>5, <1>6, <1>7, <1>8, <1>9, <1>10, <1>11, <1>12, <1>13

LEMMA AccountsStep == A!Configured /\ A!AccountsTypeOK /\ [A!Next]_A!avars => A!AccountsTypeOK'
  <1> SUFFICES ASSUME A!Configured, A!AccountsTypeOK, [A!Next]_A!avars PROVE A!AccountsTypeOK'
    OBVIOUS
  <1>1. CASE UNCHANGED A!avars
    BY <1>1 DEF A!avars, A!AccountsTypeOK, A!Restricted
  <1>2. CASE A!Next
    BY <1>2, RequestTypes, StartTypes, Zenon DEF A!Next
  <1> QED
    BY <1>1, <1>2

\* Every reachable state of accounts, tokens, caches and requests is type correct, over
\* failed registrations, deletions and restarts (the rows of users, registration_tokens).
THEOREM AccountsTypeCorrect == A!Spec => []A!AccountsTypeOK
  <1>1. A!Init => A!AccountsTypeOK
    BY AccountsInit, UpkeepAssumption
  <1>2. A!AccountsTypeOK /\ [A!Next]_A!avars => A!AccountsTypeOK'
    BY AccountsStep, UpkeepAssumption
  <1> QED
    BY <1>1, <1>2, PTL DEF A!Spec

-----------------------------------------------------------------------------
(* Accounts: what a start repairs *)

HasLevel(row) == row.live => row.level # "none"
HasList(row) == row.live /\ row.role # "restricted_user" => row.tag
PinnedDown(row) == row.live /\ row.role = "restricted_user" => row.level = "off" /\ row.sees = A!Nothing
Whole(row) == HasLevel(row) /\ HasList(row) /\ PinnedDown(row)

AfterTags == {"visibility", "recompute", "purge", "serving"}
AfterSettings == AfterTags \cup {"tags"}

\* What each pass has repaired stays so: the invariant that AccountsComplete is the end of.
Repairs == \A a \in DOMAIN accounts :
    /\ boot \in AfterSettings => HasLevel(accounts[a])
    /\ boot \in AfterTags => HasList(accounts[a])
    /\ boot = "serving" => PinnedDown(accounts[a])

LEMMA RepairsComplete == Repairs => A!AccountsComplete
  <1> SUFFICES ASSUME Repairs, boot = "serving", NEW a \in A!Live
               PROVE  /\ accounts[a].level # "none"
                      /\ IF A!Restricted(a) THEN accounts[a].level = "off" /\ accounts[a].sees = A!Nothing
                                            ELSE accounts[a].tag
    BY DEF A!AccountsComplete
  <1>1. a \in DOMAIN accounts /\ accounts[a].live
    BY DEF A!Live
  <1>2. HasLevel(accounts[a]) /\ HasList(accounts[a]) /\ PinnedDown(accounts[a])
    BY <1>1 DEF Repairs, AfterSettings, AfterTags
  <1> QED
    BY <1>1, <1>2, Zenon DEF HasLevel, HasList, PinnedDown, A!Restricted

\* A row that serves as well as before.
AsGood(old, new) ==
    /\ HasLevel(old) => HasLevel(new)
    /\ HasList(old) => HasList(new)
    /\ PinnedDown(old) => PinnedDown(new)

LEMMA RepairsKept ==
    ASSUME Repairs, UNCHANGED boot,
           \A a \in DOMAIN accounts' : \/ Whole(accounts'[a])
                                       \/ a \in DOMAIN accounts /\ AsGood(accounts[a], accounts'[a])
    PROVE  Repairs'
  <1> SUFFICES ASSUME NEW a \in DOMAIN accounts'
               PROVE  /\ boot \in AfterSettings => HasLevel(accounts'[a])
                      /\ boot \in AfterTags => HasList(accounts'[a])
                      /\ boot = "serving" => PinnedDown(accounts'[a])
    BY Zenon DEF Repairs
  <1> QED
    BY Zenon DEF Repairs, Whole, AsGood

LEMMA RepairsQuiet ==
    ASSUME Repairs, UNCHANGED <<accounts, boot>> PROVE Repairs'
  BY DEF Repairs

LEMMA NewRowWhole ==
    ASSUME NEW name, NEW role, NEW seen, NEW via
    PROVE  Whole(A!NewAccount(name, role, seen, via))
  <1> DEFINE row == A!NewAccount(name, role, seen, via)
  <1>1. row.role = role /\ row.level = "off" /\ row.tag = (role # "restricted_user")
        /\ (role = "restricted_user" => row.sees = A!Nothing)
    BY NewRowFields
  <1> HIDE DEF row
  <1>2. HasLevel(row)
    BY <1>1 DEF HasLevel
  <1>3. HasList(row)
    BY <1>1, Zenon DEF HasList
  <1>4. PinnedDown(row)
    BY <1>1, Zenon DEF PinnedDown
  <1> QED
    BY <1>2, <1>3, <1>4 DEF Whole, row

\* What requests make of a row.
LEMMA ChangedRow ==
    ASSUME A!AccountsTypeOK, NEW a \in DOMAIN accounts
    PROVE  /\ \A seen : Whole([accounts[a] EXCEPT !.live = FALSE, !.sees = seen])
           /\ \A level \in A!SpoilerLevels :
                AsGood(accounts[a], [accounts[a] EXCEPT !.level = IF A!Restricted(a) THEN @ ELSE level])
           /\ \A seen : ~A!Restricted(a) => AsGood(accounts[a], [accounts[a] EXCEPT !.sees = seen])
  <1> DEFINE old == accounts[a]
  <1>1. DOMAIN old = {"name", "role", "level", "tag", "sees", "via", "live"}
    BY RowFields
  <1>2. A!Restricted(a) <=> old.role = "restricted_user"
    BY DEF A!Restricted
  <1> HIDE DEF old
  <1>3. ASSUME NEW seen PROVE Whole([old EXCEPT !.live = FALSE, !.sees = seen])
    <2> DEFINE new == [old EXCEPT !.live = FALSE, !.sees = seen]
    <2>1. new.live = FALSE
      BY <1>1
    <2> HIDE DEF new
    <2> QED
      BY <2>1, Zenon DEF Whole, HasLevel, HasList, PinnedDown, new
  <1>4. ASSUME NEW level \in A!SpoilerLevels
        PROVE  AsGood(old, [old EXCEPT !.level = IF A!Restricted(a) THEN @ ELSE level])
    <2> DEFINE new == [old EXCEPT !.level = IF A!Restricted(a) THEN old.level ELSE level]
    <2>1. new.live = old.live /\ new.role = old.role /\ new.tag = old.tag /\ new.sees = old.sees
      BY <1>1
    <2>2. new.level = IF A!Restricted(a) THEN old.level ELSE level
      BY <1>1
    <2>3. level # "none"
      BY DEF A!SpoilerLevels
    <2> HIDE DEF new
    <2>4. HasLevel(old) => HasLevel(new)
      BY <2>1, <2>2, <2>3, Zenon DEF HasLevel
    <2>5. HasList(old) => HasList(new)
      BY <2>1, Zenon DEF HasList
    <2>6. PinnedDown(old) => PinnedDown(new)
      BY <1>2, <2>1, <2>2, Zenon DEF PinnedDown
    <2> QED
      BY <2>4, <2>5, <2>6 DEF AsGood, new
  <1>5. ASSUME NEW seen, ~A!Restricted(a) PROVE AsGood(old, [old EXCEPT !.sees = seen])
    <2> DEFINE new == [old EXCEPT !.sees = seen]
    <2>1. new.live = old.live /\ new.role = old.role /\ new.tag = old.tag /\ new.level = old.level
      BY <1>1
    <2> HIDE DEF new
    <2>2. AsGood(old, new)
      BY <1>2, <1>5, <2>1, Zenon DEF AsGood, HasLevel, HasList, PinnedDown
    <2> QED
      BY <2>2 DEF new
  <1> QED
    BY <1>3, <1>4, <1>5 DEF old

LEMMA RepairsStep == A!AccountsTypeOK /\ Repairs /\ [A!Next]_A!avars => Repairs'
  <1> SUFFICES ASSUME A!AccountsTypeOK, Repairs, [A!Next]_A!avars PROVE Repairs'
    OBVIOUS
  <1>0. accounts \in Seq(A!Row) /\ DOMAIN accounts = 1 .. Len(accounts)
    BY DEF A!AccountsTypeOK
  <1>1. CASE UNCHANGED A!avars
    BY <1>1, RepairsQuiet DEF A!avars
  \* A row is added.
  <1>2. ASSUME NEW row, Whole(row), accounts' = Append(accounts, row)
        PROVE  \A a \in DOMAIN accounts' : \/ Whole(accounts'[a])
                                           \/ a \in DOMAIN accounts /\ accounts'[a] = accounts[a]
    <2>1. DOMAIN accounts' = 1 .. Len(accounts) + 1 /\ accounts'[Len(accounts) + 1] = row
          /\ \A a \in DOMAIN accounts : accounts'[a] = accounts[a]
      BY <1>0, <1>2
    <2>2. \A a \in DOMAIN accounts' : a \in DOMAIN accounts \/ a = Len(accounts) + 1
      BY <1>0, <2>1
    <2> HIDE DEF Whole
    <2> QED
      BY <1>2, <2>1, <2>2, Zenon
  <1>3. \A row : AsGood(row, row)
    BY DEF AsGood
  <1>4. ASSUME NEW r \in Requests, A!CommitUser(r) PROVE Repairs'
    <2>1. UNCHANGED boot
      BY <1>4 DEF A!CommitUser
    <2>2. CASE UNCHANGED accounts
      BY <2>1, <2>2, RepairsQuiet
    <2>3. CASE accounts' = Append(accounts,
                  A!NewAccount(ask[r].name, TokenRole[ask[r].token], ask[r].seen, ask[r].token))
      BY <1>2, <1>3, <2>1, <2>3, NewRowWhole, RepairsKept
    <2> QED
      BY <1>4, <2>2, <2>3 DEF A!CommitUser
  <1>5. ASSUME NEW r \in Requests, NEW a \in A!Live, A!DeleteAccount(r, a) PROVE Repairs'
    <2> DEFINE row == [accounts[a] EXCEPT !.live = FALSE, !.sees = A!Nothing]
    <2>1. a \in DOMAIN accounts
      BY DEF A!Live
    <2>2. Whole(row)
      BY <2>1, ChangedRow
    <2>3. accounts' = [accounts EXCEPT ![a] = row] /\ UNCHANGED boot
      BY <1>5 DEF A!DeleteAccount
    <2> HIDE DEF row
    <2>4. DOMAIN accounts' = DOMAIN accounts /\ accounts'[a] = row
          /\ \A b \in DOMAIN accounts : b # a => accounts'[b] = accounts[b]
      BY <1>0, <2>1, <2>3
    <2> QED
      BY <1>3, <2>2, <2>3, <2>4, RepairsKept
  <1>6. ASSUME NEW r \in Requests, NEW a \in A!Live, NEW level \in A!SpoilerLevels,
               A!ChangeLevel(r, a, level)
        PROVE  Repairs'
    <2> DEFINE row == [accounts[a] EXCEPT !.level = IF A!Restricted(a) THEN @ ELSE level]
    <2>1. a \in DOMAIN accounts
      BY DEF A!Live
    <2>2. AsGood(accounts[a], row)
      BY <2>1, ChangedRow
    <2>3. accounts' = [accounts EXCEPT ![a] = row] /\ UNCHANGED boot
      BY <1>6 DEF A!ChangeLevel
    <2> HIDE DEF row
    <2>4. DOMAIN accounts' = DOMAIN accounts /\ accounts'[a] = row
          /\ \A b \in DOMAIN accounts : b # a => accounts'[b] = accounts[b]
      BY <1>0, <2>1, <2>3
    <2> QED
      BY <1>3, <2>2, <2>3, <2>4, RepairsKept
  <1>7. ASSUME NEW r \in Requests, NEW a \in ask[r].todo, A!RefreshUser(r, a) PROVE Repairs'
    <2> DEFINE row == [accounts[a] EXCEPT !.sees = [accounts[a].sees EXCEPT ![ask[r].show] = ask[r].seen[ask[r].show]]]
    <2>1. a \in DOMAIN accounts /\ ~A!Restricted(a)
      BY RequestFields
    <2>2. AsGood(accounts[a], row)
      BY <2>1, ChangedRow
    <2>3. accounts' = [accounts EXCEPT ![a] = row] /\ UNCHANGED boot
      BY <1>7 DEF A!RefreshUser
    <2> HIDE DEF row
    <2>4. DOMAIN accounts' = DOMAIN accounts /\ accounts'[a] = row
          /\ \A b \in DOMAIN accounts : b # a => accounts'[b] = accounts[b]
      BY <1>0, <2>1, <2>3
    <2> QED
      BY <1>3, <2>2, <2>3, <2>4, RepairsKept
  \* The passes: boot goes from one to the next.
  <1>8. CASE A!Start
    BY <1>8, PassOrder DEF A!Start, Repairs, AfterSettings, AfterTags
  <1>9. ASSUME NEW i \in {1, 2}, A!SeedUser(i) PROVE Repairs'
    <2>1. A!Pass(A!Passes[i]) /\ A!NextPass
      BY <1>9, Zenon DEF A!SeedUser
    <2>2. boot' = A!Passes[i + 1]
      BY <2>1, PassAfter DEF A!Pass
    <2>3. boot' \in {"guest", "settings"}
      BY <2>2, PassOrder
    <2> QED
      BY <2>3 DEF Repairs, AfterSettings, AfterTags
  <1>10. CASE A!BackfillSettings
    <2> DEFINE lacking == {b \in A!Live : accounts[b].level = "none"}
    <2>1. A!Pass(A!Passes[3]) /\ A!NextPass
      BY <1>10, PassOrder, Zenon DEF A!BackfillSettings
    <2>2. boot' = "tags"
      BY <2>1, PassAfter, PassOrder DEF A!Pass
    <2>3. accounts' = [a \in DOMAIN accounts |->
                         IF a \in lacking THEN [accounts[a] EXCEPT !.level = "off"] ELSE accounts[a]]
      BY <1>10 DEF A!BackfillSettings, A!Amend
    <2>4. ASSUME NEW a \in DOMAIN accounts PROVE HasLevel(accounts'[a])
      <3>1. CASE a \in lacking
        <4>1. accounts'[a].level = "off"
          BY <2>3, <3>1, RowFields
        <4> QED
          BY <4>1, Zenon DEF HasLevel
      <3>2. CASE a \notin lacking
        <4>1. accounts'[a] = accounts[a]
          BY <2>3, <3>2
        <4>2. accounts[a].live => accounts[a].level # "none"
          BY <3>2 DEF A!Live
        <4> QED
          BY <4>1, <4>2 DEF HasLevel
      <3> QED
        BY <3>1, <3>2
    <2>5. DOMAIN accounts' = DOMAIN accounts
      BY <2>3
    <2> QED
      BY <2>2, <2>4, <2>5 DEF Repairs, AfterSettings, AfterTags
  <1>11. CASE A!BackfillTags
    <2> DEFINE lacking == {b \in A!Rated : ~accounts[b].tag}
    <2>1. A!Pass(A!Passes[4]) /\ A!NextPass
      BY <1>11, PassOrder, Zenon DEF A!BackfillTags
    <2>2. boot' = "visibility" /\ boot = "tags"
      BY <2>1, PassAfter, PassOrder DEF A!Pass
    <2>3. accounts' = [a \in DOMAIN accounts |->
                         IF a \in lacking THEN [accounts[a] EXCEPT !.tag = TRUE] ELSE accounts[a]]
      BY <1>11 DEF A!BackfillTags, A!Amend
    <2>4. ASSUME NEW a \in DOMAIN accounts PROVE HasLevel(accounts'[a]) /\ HasList(accounts'[a])
      <3>1. HasLevel(accounts[a])
        BY <2>2 DEF Repairs, AfterSettings
      <3>2. CASE a \in lacking
        <4>1. accounts'[a].tag = TRUE /\ accounts'[a].live = accounts[a].live
              /\ accounts'[a].level = accounts[a].level
          BY <2>3, <3>2, RowFields
        <4> QED
          BY <3>1, <4>1, Zenon DEF HasLevel, HasList
      <3>3. CASE a \notin lacking
        <4>1. accounts'[a] = accounts[a]
          BY <2>3, <3>3
        <4>2. HasList(accounts[a])
          BY <3>3, Zenon DEF HasList, A!Rated, A!Live, A!Restricted
        <4> QED
          BY <3>1, <4>1, <4>2
      <3> QED
        BY <3>2, <3>3
    <2>5. DOMAIN accounts' = DOMAIN accounts
      BY <2>3
    <2> QED
      BY <2>2, <2>4, <2>5 DEF Repairs, AfterSettings, AfterTags
  <1>12. CASE A!ListBlind
    <2>1. A!Pass(A!Passes[5]) /\ A!NextPass /\ UNCHANGED accounts
      BY <1>12, PassOrder, Zenon DEF A!ListBlind
    <2>2. boot' = "recompute" /\ boot = "visibility"
      BY <2>1, PassAfter, PassOrder DEF A!Pass
    <2> QED
      BY <2>1, <2>2 DEF Repairs, AfterSettings, AfterTags
  <1>13. ASSUME NEW b \in blind, A!RepairUser(b) PROVE Repairs'
    <2>1. boot = "recompute" /\ UNCHANGED boot
      BY <1>13 DEF A!RepairUser, A!Pass
    <2>2. CASE UNCHANGED accounts
      BY <2>1, <2>2, RepairsQuiet
    <2>3. CASE A!Amend([a \in {b} |-> [accounts[a] EXCEPT !.sees = editions]])
      <3>1. DOMAIN accounts' = DOMAIN accounts
        BY <2>3 DEF A!Amend
      <3>2. ASSUME NEW a \in DOMAIN accounts PROVE HasLevel(accounts'[a]) /\ HasList(accounts'[a])
        <4>1. HasLevel(accounts[a]) /\ HasList(accounts[a])
          BY <2>1 DEF Repairs, AfterSettings, AfterTags
        <4>2. accounts'[a].live = accounts[a].live /\ accounts'[a].role = accounts[a].role
              /\ accounts'[a].level = accounts[a].level /\ accounts'[a].tag = accounts[a].tag
          BY <2>3, RowFields DEF A!Amend
        <4> QED
          BY <4>1, <4>2, Zenon DEF HasLevel, HasList
      <3> QED
        BY <2>1, <3>1, <3>2 DEF Repairs
    <2> QED
      BY <1>13, <2>2, <2>3 DEF A!RepairUser
  <1>14. CASE A!Repaired
    <2>1. A!Pass(A!Passes[6]) /\ A!NextPass /\ UNCHANGED accounts
      BY <1>14, PassOrder, Zenon DEF A!Repaired
    <2>2. boot' = "purge" /\ boot = "recompute"
      BY <2>1, PassAfter, PassOrder DEF A!Pass
    <2> QED
      BY <2>1, <2>2 DEF Repairs, AfterSettings, AfterTags
  <1>15. CASE A!PurgeRestricted
    <2> DEFINE guests == {b \in A!Live : A!Restricted(b)}
    <2>1. A!Pass(A!Passes[7]) /\ A!NextPass
      BY <1>15, PassOrder, Zenon DEF A!PurgeRestricted
    <2>2. boot' = "serving" /\ boot = "purge"
      BY <2>1, PassAfter, PassOrder DEF A!Pass
    <2>3. accounts' = [a \in DOMAIN accounts |->
                         IF a \in guests THEN [accounts[a] EXCEPT !.level = "off", !.sees = A!Nothing]
                                         ELSE accounts[a]]
      BY <1>15 DEF A!PurgeRestricted, A!Amend
    <2>4. ASSUME NEW a \in DOMAIN accounts PROVE Whole(accounts'[a])
      <3>1. HasLevel(accounts[a]) /\ HasList(accounts[a])
        BY <2>2 DEF Repairs, AfterSettings, AfterTags
      <3>2. CASE a \in guests
        <4>1. accounts'[a].level = "off" /\ accounts'[a].sees = A!Nothing
              /\ accounts'[a].role = accounts[a].role
          BY <2>3, <3>2, RowFields
        <4>2. accounts[a].role = "restricted_user"
          BY <3>2 DEF A!Restricted
        <4> QED
          BY <4>1, <4>2, Zenon DEF Whole, HasLevel, HasList, PinnedDown
      <3>3. CASE a \notin guests
        <4>1. accounts'[a] = accounts[a]
          BY <2>3, <3>3
        <4>2. PinnedDown(accounts[a])
          BY <3>3, Zenon DEF PinnedDown, A!Live, A!Restricted
        <4> QED
          BY <3>1, <4>1, <4>2 DEF Whole
      <3> QED
        BY <3>2, <3>3
    <2>5. DOMAIN accounts' = DOMAIN accounts
      BY <2>3
    <2> QED
      BY <2>4, <2>5 DEF Repairs, Whole
  <1>16. CASE A!Crash
    BY <1>16 DEF A!Crash, Repairs, AfterSettings, AfterTags
  \* The others write neither.
  <1>17. ASSUME NEW r \in Requests,
                \/ \E name \in Names, t \in A!Tokens : A!Check(r, name, t)
                \/ A!InsertUser(r) \/ A!ComputeCache(r)
                \/ \E t \in A!Tokens : A!CreateToken(r, t) \/ A!ReadToken(r, t)
                \/ A!DeleteToken(r)
                \/ \E s \in Shows : A!Publish(r, s)
                \/ A!ReadShow(r) \/ A!ReadUsers(r)
                \/ \E a \in ask[r].todo : A!SkipUser(r, a)
                \/ A!Disconnect(r)
         PROVE  Repairs'
    <2>1. UNCHANGED <<accounts, boot>>
      BY <1>17 DEF A!Check, A!InsertUser, A!ComputeCache, A!CreateToken, A!ReadToken, A!DeleteToken,
                   A!Publish, A!ReadShow, A!ReadUsers, A!SkipUser, A!Disconnect
    <2> QED
      BY <2>1, RepairsQuiet
  <1>18. ASSUME NEW t \in A!Tokens, A!Lapse(t) PROVE Repairs'
    BY <1>18, RepairsQuiet DEF A!Lapse
  <1> QED
    BY <1>1, <1>4, <1>5, <1>6, <1>7, <1>8, <1>9, <1>10, <1>11, <1>12, <1>13, <1>14, <1>15, <1>16,
       <1>17, <1>18, Zenon DEF A!Next

\* Once the process serves requests every account has what its role needs, whatever an
\* older version left in the table, whichever recomputation failed and wherever the
\* process died (the passes of main.lifespan; register).
THEOREM StartRepairs == A!Spec => []AccountsComplete
  <1>1. A!Init => A!AccountsTypeOK /\ Repairs
    BY AccountsInit, UpkeepAssumption DEF A!Init, Repairs, AfterSettings, AfterTags
  <1>2. A!AccountsTypeOK /\ Repairs /\ [A!Next]_A!avars => (A!AccountsTypeOK /\ Repairs)'
    BY AccountsStep, UpkeepAssumption, RepairsStep
  <1>3. A!AccountsTypeOK /\ Repairs => AccountsComplete
    BY RepairsComplete, UpkeepAssumption DEF AccountsComplete
  <1> QED
    BY <1>1, <1>2, <1>3, PTL DEF A!Spec

-----------------------------------------------------------------------------
(* Accounts: what a token admits *)

Admitted(t) == {a \in DOMAIN accounts : accounts[a].via = t}
Registering(t) ==
    {r \in Requests : ask[r].pc \in {"admitted", "inserted", "computed"} /\ ask[r].token = t}

\* Who registers with a token has seen it open, and as long as it is, or is not born yet,
\* it has admitted nobody: the accounts and the registrations under way are together no
\* more than the requests.
TokensCounted == \A t \in A!Tokens :
    /\ tokens[t] \in {"unborn", "open"} => Admitted(t) = {}
    /\ IsFiniteSet(Admitted(t))
    /\ Cardinality(Admitted(t)) + Cardinality(Registering(t)) <= Cardinality(Requests)

LEMMA CountedBuysOne == A!Configured /\ TokensCounted => A!TokenBuysOne
  <1> SUFFICES ASSUME A!Configured, TokensCounted, NEW t \in A!Tokens
               PROVE  Cardinality(Admitted(t)) <= Cardinality(Requests)
    BY CountingAccounts DEF A!TokenBuysOne, Admitted
  <1>1. IsFiniteSet(Requests)
    BY CountingAccounts DEF A!Configured
  <1>2. IsFiniteSet(Registering(t))
    BY <1>1, FS_Subset DEF Registering
  <1>3. IsFiniteSet(Admitted(t)) /\ Cardinality(Admitted(t)) + Cardinality(Registering(t)) <= Cardinality(Requests)
    BY DEF TokensCounted
  <1> QED
    BY <1>1, <1>2, <1>3, FS_CardinalityType

\* A step that admits nobody, opens nothing anew and lets registrations only end.
LEMMA TokensQuiet ==
    ASSUME A!Configured, TokensCounted,
           DOMAIN accounts' = DOMAIN accounts,
           \A a \in DOMAIN accounts : accounts'[a].via = accounts[a].via,
           \A t \in A!Tokens : tokens'[t] \in {"unborn", "open"} => tokens[t] \in {"unborn", "open"},
           \A t \in A!Tokens : Registering(t)' \subseteq Registering(t)
    PROVE  TokensCounted'
  <1>1. IsFiniteSet(Requests)
    BY CountingAccounts DEF A!Configured
  <1> SUFFICES ASSUME NEW t \in A!Tokens
               PROVE  /\ tokens'[t] \in {"unborn", "open"} => Admitted(t)' = {}
                      /\ IsFiniteSet(Admitted(t)')
                      /\ Cardinality(Admitted(t)') + Cardinality(Registering(t)') <= Cardinality(Requests)
    BY Zenon DEF TokensCounted
  <1>2. Admitted(t)' = Admitted(t)
    BY DEF Admitted
  <1>3. IsFiniteSet(Registering(t)) /\ IsFiniteSet(Registering(t)')
        /\ Cardinality(Registering(t)') <= Cardinality(Registering(t))
    <2>1. Registering(t) \subseteq Requests
      BY DEF Registering
    <2>2. Registering(t)' \subseteq Registering(t)
      OBVIOUS
    <2> HIDE DEF Registering
    <2> QED
      BY <1>1, <2>1, <2>2, FS_Subset
  <1>4. Cardinality(Registering(t)) \in Nat /\ Cardinality(Registering(t)') \in Nat
        /\ Cardinality(Admitted(t)) \in Nat /\ Cardinality(Requests) \in Nat
    BY <1>1, <1>3, FS_CardinalityType DEF TokensCounted
  <1>5. /\ tokens[t] \in {"unborn", "open"} => Admitted(t) = {}
        /\ IsFiniteSet(Admitted(t))
        /\ Cardinality(Admitted(t)) + Cardinality(Registering(t)) <= Cardinality(Requests)
    BY DEF TokensCounted
  <1> HIDE DEF Admitted, Registering
  <1> QED
    BY <1>2, <1>3, <1>4, <1>5

\* A request that does anything but begin to register.
LEMMA RegistrationsEnd ==
    ASSUME NEW r \in Requests, NEW held, ask \in [Requests -> A!Request],
           ask' = [ask EXCEPT ![r] = held],
           \/ held.pc \notin {"admitted", "inserted", "computed"}
           \/ ask[r].pc \in {"admitted", "inserted", "computed"} /\ held.token = ask[r].token
    PROVE  \A t : Registering(t)' \subseteq Registering(t)
  BY DEF Registering

LEMMA RegistrationsStay ==
    ASSUME UNCHANGED ask PROVE \A t : Registering(t)' \subseteq Registering(t)
  BY DEF Registering

LEMMA CountedInit == A!Configured /\ A!Init => TokensCounted
  <1> SUFFICES ASSUME A!Configured, A!Init PROVE TokensCounted
    OBVIOUS
  <1>1. IsFiniteSet(Requests)
    BY CountingAccounts DEF A!Configured
  <1>2. \A t \in A!Tokens : Admitted(t) = {}
    <2> SUFFICES ASSUME NEW t \in A!Tokens, NEW a \in Admitted(t) PROVE FALSE
      OBVIOUS
    <2>1. "" \notin A!Tokens
      BY Zenon DEF A!Configured
    <2>2. accounts[a].via = ""
      BY DEF Admitted, A!Init, A!Configured
    <2> QED
      BY <2>1, <2>2 DEF Admitted
  <1>3. \A t \in A!Tokens : Registering(t) = {}
    BY DEF Registering, A!Init, A!Unasked
  <1>4. IsFiniteSet({}) /\ Cardinality({}) = 0 /\ Cardinality(Requests) \in Nat
    BY <1>1, FS_EmptySet, FS_CardinalityType
  <1>5. \A t \in A!Tokens : Cardinality({}) + Cardinality({}) <= Cardinality(Requests)
    BY <1>4
  <1> HIDE DEF Admitted, Registering
  <1> QED
    BY <1>2, <1>3, <1>4, <1>5, Zenon DEF TokensCounted

\* A registration begins: the token is open, so it has admitted nobody.
LEMMA CountedCheck ==
    ASSUME A!Configured, A!AccountsTypeOK, TokensCounted, NEW r \in Requests, NEW name \in Names,
           NEW s \in A!Tokens, A!Check(r, name, s)
    PROVE  TokensCounted'
  <1>1. IsFiniteSet(Requests)
    BY CountingAccounts DEF A!Configured
  <1>2. UNCHANGED <<accounts, tokens>> /\ tokens[s] = "open"
        /\ ask' = [ask EXCEPT ![r] = [A!Unasked EXCEPT !.pc = "admitted", !.name = name, !.token = s]]
    BY DEF A!Check, A!Admits
  <1>3. ask \in [Requests -> A!Request]
    BY DEF A!AccountsTypeOK
  <1>4. ask'[r].token = s /\ \A q \in Requests \ {r} : ask'[q] = ask[q]
    BY <1>2, <1>3 DEF A!Unasked
  <1> SUFFICES ASSUME NEW t \in A!Tokens
               PROVE  /\ tokens'[t] \in {"unborn", "open"} => Admitted(t)' = {}
                      /\ IsFiniteSet(Admitted(t)')
                      /\ Cardinality(Admitted(t)') + Cardinality(Registering(t)') <= Cardinality(Requests)
    BY Zenon DEF TokensCounted
  <1>5. Admitted(t)' = Admitted(t)
    BY <1>2 DEF Admitted
  <1>6. /\ tokens[t] \in {"unborn", "open"} => Admitted(t) = {}
        /\ IsFiniteSet(Admitted(t))
        /\ Cardinality(Admitted(t)) + Cardinality(Registering(t)) <= Cardinality(Requests)
    BY DEF TokensCounted
  <1>7. Registering(t) \subseteq Requests /\ Registering(t)' \subseteq Requests
    BY DEF Registering
  <1>8. t # s => Registering(t)' \subseteq Registering(t)
    BY <1>4 DEF Registering
  <1> HIDE DEF Admitted, Registering
  <1>9. IsFiniteSet(Registering(t)) /\ IsFiniteSet(Registering(t)')
        /\ Cardinality(Registering(t)') <= Cardinality(Requests)
        /\ (t # s => Cardinality(Registering(t)') <= Cardinality(Registering(t)))
    BY <1>1, <1>7, <1>8, FS_Subset
  <1>10. Cardinality(Registering(t)) \in Nat /\ Cardinality(Registering(t)') \in Nat
         /\ Cardinality(Admitted(t)) \in Nat /\ Cardinality(Requests) \in Nat
    BY <1>1, <1>6, <1>9, FS_CardinalityType
  <1>11. CASE t = s
    <2>1. Cardinality(Admitted(t)) = 0
      BY <1>2, <1>6, <1>11, FS_EmptySet
    <2> QED
      BY <1>2, <1>5, <1>6, <1>9, <1>10, <2>1
  <1>12. CASE t # s
    BY <1>2, <1>5, <1>6, <1>9, <1>10, <1>12
  <1> QED
    BY <1>11, <1>12

\* A registration ends in an account, and the token is used.
LEMMA CountedCommit ==
    ASSUME A!Configured, A!AccountsTypeOK, TokensCounted, NEW r \in Requests, A!CommitUser(r)
    PROVE  TokensCounted'
  <1> DEFINE s == ask[r].token
  <1>0. /\ accounts \in Seq(A!Row) /\ ask \in [Requests -> A!Request]
        /\ tokens \in [A!Tokens -> {"unborn", "open", "lapsed", "used", "gone"}]
        /\ s \in A!Tokens /\ IsFiniteSet(Requests) /\ ask[r].pc = "computed"
    BY CountingAccounts DEF A!AccountsTypeOK, A!CommitUser, A!Configured
  <1>1. A!Unasked.pc = "idle" /\ ask' = [ask EXCEPT ![r] = A!Unasked]
    BY DEF A!CommitUser, A!Leave, A!Unasked
  <1>2. \A t : Registering(t)' \subseteq Registering(t)
    BY <1>0, <1>1, RegistrationsEnd
  <1>3. CASE UNCHANGED <<accounts, tokens>>
    BY <1>2, <1>3, TokensQuiet
  <1>4. CASE /\ accounts' = Append(accounts, A!NewAccount(ask[r].name, TokenRole[s], ask[r].seen, s))
             /\ tokens' = [tokens EXCEPT ![s] = "used"]
    <2> DEFINE row == A!NewAccount(ask[r].name, TokenRole[s], ask[r].seen, s)
    <2>1. row.via = s
      BY NewRowFields
    <2>2. accounts' = Append(accounts, row)
      BY <1>4
    <2>3. tokens'[s] = "used" /\ \A t \in A!Tokens : t # s => tokens'[t] = tokens[t]
      BY <1>0, <1>4
    <2> HIDE DEF row, s
    <2>4. DOMAIN accounts' = DOMAIN accounts \cup {Len(accounts) + 1} /\ Len(accounts) + 1 \notin DOMAIN accounts
          /\ accounts'[Len(accounts) + 1] = row /\ \A a \in DOMAIN accounts : accounts'[a] = accounts[a]
      BY <1>0, <2>2
    <2> SUFFICES ASSUME NEW t \in A!Tokens
                 PROVE  /\ tokens'[t] \in {"unborn", "open"} => Admitted(t)' = {}
                        /\ IsFiniteSet(Admitted(t)')
                        /\ Cardinality(Admitted(t)') + Cardinality(Registering(t)') <= Cardinality(Requests)
      BY Zenon DEF TokensCounted
    <2>5. /\ tokens[t] \in {"unborn", "open"} => Admitted(t) = {}
          /\ IsFiniteSet(Admitted(t))
          /\ Cardinality(Admitted(t)) + Cardinality(Registering(t)) <= Cardinality(Requests)
      BY DEF TokensCounted
    <2>6. Admitted(t)' = IF t = s THEN Admitted(t) \cup {Len(accounts) + 1} ELSE Admitted(t)
      BY <2>1, <2>4 DEF Admitted
    <2>7. Registering(t) \subseteq Requests /\ Registering(t)' \subseteq Registering(t)
      BY <1>2 DEF Registering
    <2>8. t = s => r \in Registering(t) /\ Registering(t)' \subseteq Registering(t) \ {r}
      BY <1>0, <1>1, <2>7 DEF Registering, s
    <2>9. Len(accounts) + 1 \notin Admitted(t)
      BY <2>4 DEF Admitted
    <2> HIDE DEF Admitted, Registering
    <2>10. IsFiniteSet(Registering(t)) /\ IsFiniteSet(Registering(t)')
           /\ Cardinality(Registering(t)') <= Cardinality(Registering(t))
      BY <1>0, <2>7, FS_Subset
    <2>11. Cardinality(Registering(t)) \in Nat /\ Cardinality(Registering(t)') \in Nat
           /\ Cardinality(Admitted(t)) \in Nat /\ Cardinality(Requests) \in Nat
      BY <1>0, <2>5, <2>10, FS_CardinalityType
    <2>12. CASE t = s
      <3>1. IsFiniteSet(Registering(t) \ {r}) /\ Cardinality(Registering(t) \ {r}) = Cardinality(Registering(t)) - 1
        BY <2>8, <2>10, <2>12, FS_RemoveElement
      <3>2. Cardinality(Registering(t)') <= Cardinality(Registering(t)) - 1
        BY <2>8, <2>12, <3>1, FS_Subset
      <3>3. IsFiniteSet(Admitted(t)') /\ Cardinality(Admitted(t)') = Cardinality(Admitted(t)) + 1
        BY <2>5, <2>6, <2>9, <2>12, FS_AddElement
      <3> QED
        BY <2>3, <2>5, <2>11, <2>12, <3>2, <3>3
    <2>13. CASE t # s
      BY <2>3, <2>5, <2>6, <2>10, <2>11, <2>13
    <2> QED
      BY <2>12, <2>13
  <1> QED
    BY <1>3, <1>4 DEF A!CommitUser

LEMMA CountedStep ==
    A!Configured /\ A!AccountsTypeOK /\ TokensCounted /\ [A!Next]_A!avars => TokensCounted'
  <1> SUFFICES ASSUME A!Configured, A!AccountsTypeOK, TokensCounted, [A!Next]_A!avars
               PROVE  TokensCounted'
    OBVIOUS
  <1>0. /\ accounts \in Seq(A!Row) /\ ask \in [Requests -> A!Request]
        /\ tokens \in [A!Tokens -> {"unborn", "open", "lapsed", "used", "gone"}]
        /\ DOMAIN accounts = 1 .. Len(accounts) /\ Len(accounts) \in Nat
    BY DEF A!AccountsTypeOK
  <1>1. A!Unasked.pc = "idle"
    BY DEF A!Unasked
  <1> DEFINE tokensKept == \A t \in A!Tokens : tokens'[t] \in {"unborn", "open"} => tokens[t] \in {"unborn", "open"}
             rowsKept == /\ DOMAIN accounts' = DOMAIN accounts
                         /\ \A a \in DOMAIN accounts : accounts'[a].via = accounts[a].via
             registrationsEnd == \A t : Registering(t)' \subseteq Registering(t)
  <1>2. ASSUME UNCHANGED tokens PROVE tokensKept
    BY <1>2
  <1>3. ASSUME UNCHANGED accounts PROVE rowsKept
    BY <1>3
  <1>4. ASSUME UNCHANGED ask PROVE registrationsEnd
    BY <1>4, RegistrationsStay
  <1>5. ASSUME NEW r \in Requests, A!Leave(r) PROVE registrationsEnd
    BY <1>0, <1>1, <1>5, RegistrationsEnd DEF A!Leave
  <1>6. ASSUME tokensKept, rowsKept, registrationsEnd PROVE TokensCounted'
    BY <1>6, TokensQuiet
  <1> HIDE DEF tokensKept, registrationsEnd
  <1>7. CASE UNCHANGED A!avars
    BY <1>2, <1>3, <1>4, <1>6, <1>7 DEF A!avars
  <1>8. ASSUME NEW r \in Requests, NEW name \in Names, NEW t \in A!Tokens, A!Check(r, name, t)
        PROVE  TokensCounted'
    BY <1>8, CountedCheck
  <1>9. ASSUME NEW r \in Requests, A!InsertUser(r) PROVE TokensCounted'
    <2>1. ask[r].pc = "admitted" /\ UNCHANGED <<accounts, tokens>>
          /\ (A!Leave(r) \/ ask' = [ask EXCEPT ![r].pc = "inserted"])
      BY <1>9 DEF A!InsertUser, A!Go
    <2>2. ASSUME ask' = [ask EXCEPT ![r].pc = "inserted"] PROVE registrationsEnd
      <3>1. ask' = [ask EXCEPT ![r] = [ask[r] EXCEPT !.pc = "inserted"]]
        BY <2>2
      <3>2. [ask[r] EXCEPT !.pc = "inserted"].token = ask[r].token
        BY RequestFields
      <3> QED
        BY <1>0, <2>1, <3>1, <3>2, RegistrationsEnd DEF registrationsEnd
    <2> QED
      BY <1>2, <1>3, <1>5, <1>6, <2>1, <2>2
  <1>10. ASSUME NEW r \in Requests, A!ComputeCache(r) PROVE TokensCounted'
    <2>1. ask' = [ask EXCEPT ![r] = [ask[r] EXCEPT !.pc = "computed", !.seen = editions]]
          /\ ask[r].pc = "inserted" /\ UNCHANGED <<accounts, tokens>>
      BY <1>10 DEF A!ComputeCache
    <2>2. [ask[r] EXCEPT !.pc = "computed", !.seen = editions].token = ask[r].token
      BY RequestFields
    <2>3. registrationsEnd
      BY <1>0, <2>1, <2>2, RegistrationsEnd DEF registrationsEnd
    <2> QED
      BY <1>2, <1>3, <1>6, <2>1, <2>3
  <1>11. ASSUME NEW r \in Requests, A!CommitUser(r) PROVE TokensCounted'
    BY <1>11, CountedCommit
  <1>12. ASSUME NEW r \in Requests, NEW t \in A!Tokens, A!CreateToken(r, t) PROVE TokensCounted'
    <2>1. tokensKept
      BY <1>0, <1>12 DEF A!CreateToken, tokensKept
    <2> QED
      BY <1>3, <1>4, <1>6, <1>12, <2>1 DEF A!CreateToken
  <1>13. ASSUME NEW r \in Requests, NEW t \in A!Tokens, A!ReadToken(r, t) PROVE TokensCounted'
    <2> DEFINE held == [A!Unasked EXCEPT !.pc = "unused", !.token = t]
    <2>1. ask' = [ask EXCEPT ![r] = held] /\ held.pc = "unused" /\ UNCHANGED <<accounts, tokens>>
      BY <1>13 DEF A!ReadToken, A!Unasked
    <2> HIDE DEF held
    <2>2. registrationsEnd
      BY <1>0, <2>1, RegistrationsEnd DEF registrationsEnd
    <2> QED
      BY <1>2, <1>3, <1>6, <2>1, <2>2
  <1>14. ASSUME NEW r \in Requests, A!DeleteToken(r) PROVE TokensCounted'
    <2>1. tokensKept
      BY <1>0, <1>14 DEF A!DeleteToken, tokensKept
    <2> QED
      BY <1>3, <1>5, <1>6, <1>14, <2>1 DEF A!DeleteToken
  <1>15. ASSUME NEW t \in A!Tokens, A!Lapse(t) PROVE TokensCounted'
    <2>1. tokensKept
      BY <1>0, <1>15 DEF A!Lapse, tokensKept
    <2> QED
      BY <1>3, <1>4, <1>6, <1>15, <2>1 DEF A!Lapse
  \* Rows that are rewritten keep the token they came by.
  <1>16. ASSUME NEW a \in DOMAIN accounts, NEW row, accounts' = [accounts EXCEPT ![a] = row],
                row.via = accounts[a].via
         PROVE  rowsKept
    BY <1>0, <1>16
  <1>17. ASSUME NEW fixed, A!Amend(fixed),
                \A a \in DOMAIN accounts \cap DOMAIN fixed : fixed[a].via = accounts[a].via
         PROVE  rowsKept
    BY <1>17 DEF A!Amend
  <1> HIDE DEF rowsKept
  <1>18. ASSUME NEW r \in Requests, NEW a \in A!Live, A!DeleteAccount(r, a) PROVE TokensCounted'
    <2> DEFINE row == [accounts[a] EXCEPT !.live = FALSE, !.sees = A!Nothing]
    <2>1. a \in DOMAIN accounts
      BY DEF A!Live
    <2>2. row.via = accounts[a].via
      BY <2>1, RowFields
    <2>3. accounts' = [accounts EXCEPT ![a] = row] /\ UNCHANGED <<tokens, ask>>
      BY <1>18 DEF A!DeleteAccount
    <2> HIDE DEF row
    <2> QED
      BY <1>2, <1>4, <1>6, <1>16, <2>1, <2>2, <2>3
  <1>19. ASSUME NEW r \in Requests, NEW a \in A!Live, NEW level \in A!SpoilerLevels,
                A!ChangeLevel(r, a, level)
         PROVE  TokensCounted'
    <2> DEFINE row == [accounts[a] EXCEPT !.level = IF A!Restricted(a) THEN @ ELSE level]
    <2>1. a \in DOMAIN accounts
      BY DEF A!Live
    <2>2. row.via = accounts[a].via
      BY <2>1, RowFields
    <2>3. accounts' = [accounts EXCEPT ![a] = row] /\ UNCHANGED <<tokens, ask>>
      BY <1>19 DEF A!ChangeLevel
    <2> HIDE DEF row
    <2> QED
      BY <1>2, <1>4, <1>6, <1>16, <2>1, <2>2, <2>3
  \* A request that refreshes caches registers nobody.
  <1>20. ASSUME NEW r \in Requests, NEW left, A!Remaining(r, left) PROVE registrationsEnd
    <2> DEFINE held == IF left = {} THEN A!Unasked ELSE [ask[r] EXCEPT !.pc = "users", !.todo = left]
    <2>1. held.pc \in {"idle", "users"}
      BY <1>1, RequestFields
    <2>2. ask' = [ask EXCEPT ![r] = held]
      BY <1>20 DEF A!Remaining
    <2> HIDE DEF held
    <2> QED
      BY <1>0, <2>1, <2>2, RegistrationsEnd DEF registrationsEnd
  <1>21. ASSUME NEW r \in Requests, NEW s \in Shows, A!Publish(r, s) PROVE TokensCounted'
    <2> DEFINE held == [A!Unasked EXCEPT !.pc = "published", !.show = s]
    <2>1. ask' = [ask EXCEPT ![r] = held] /\ held.pc = "published" /\ UNCHANGED <<accounts, tokens>>
      BY <1>21 DEF A!Publish, A!Unasked
    <2> HIDE DEF held
    <2>2. registrationsEnd
      BY <1>0, <2>1, RegistrationsEnd DEF registrationsEnd
    <2> QED
      BY <1>2, <1>3, <1>6, <2>1, <2>2
  <1>22. ASSUME NEW r \in Requests, A!ReadShow(r) PROVE TokensCounted'
    <2> DEFINE held == [ask[r] EXCEPT !.pc = "grouped", !.seen = editions]
    <2>1. held.pc = "grouped"
      BY RequestFields
    <2>2. ask' = [ask EXCEPT ![r] = held] /\ UNCHANGED <<accounts, tokens>>
      BY <1>22 DEF A!ReadShow
    <2> HIDE DEF held
    <2>3. registrationsEnd
      BY <1>0, <2>1, <2>2, RegistrationsEnd DEF registrationsEnd
    <2> QED
      BY <1>2, <1>3, <1>6, <2>2, <2>3
  <1>23. ASSUME NEW r \in Requests, A!ReadUsers(r) PROVE TokensCounted'
    BY <1>2, <1>3, <1>6, <1>20, <1>23 DEF A!ReadUsers
  <1>24. ASSUME NEW r \in Requests, NEW a \in ask[r].todo, A!RefreshUser(r, a) PROVE TokensCounted'
    <2> DEFINE row == [accounts[a] EXCEPT !.sees = [accounts[a].sees EXCEPT ![ask[r].show] = ask[r].seen[ask[r].show]]]
    <2>1. a \in DOMAIN accounts
      BY RequestFields
    <2>2. row.via = accounts[a].via
      BY <2>1, RowFields
    <2>3. accounts' = [accounts EXCEPT ![a] = row] /\ UNCHANGED tokens
      BY <1>24 DEF A!RefreshUser
    <2>4. registrationsEnd
      BY <1>20, <1>24 DEF A!RefreshUser
    <2> HIDE DEF row
    <2> QED
      BY <1>2, <1>6, <1>16, <2>1, <2>2, <2>3, <2>4
  <1>25. ASSUME NEW r \in Requests, NEW a \in ask[r].todo, A!SkipUser(r, a) PROVE TokensCounted'
    BY <1>2, <1>3, <1>6, <1>20, <1>25 DEF A!SkipUser
  <1>26. ASSUME NEW r \in Requests, A!Disconnect(r) PROVE TokensCounted'
    BY <1>2, <1>3, <1>5, <1>6, <1>26 DEF A!Disconnect
  <1>27. CASE A!Start \/ A!ListBlind \/ A!Repaired
    BY <1>2, <1>3, <1>4, <1>6, <1>27 DEF A!Start, A!ListBlind, A!Repaired, A!Pass
  <1>28. ASSUME NEW i \in {1, 2}, A!SeedUser(i) PROVE TokensCounted'
    <2>1. UNCHANGED <<tokens, ask>>
      BY <1>28 DEF A!SeedUser, A!Pass
    <2>2. CASE UNCHANGED accounts
      BY <1>2, <1>3, <1>4, <1>6, <2>1, <2>2
    <2>3. CASE accounts' = Append(accounts, A!NewAccount(Seeds[i][1], Seeds[i][2], editions, ""))
      <3> DEFINE row == A!NewAccount(Seeds[i][1], Seeds[i][2], editions, "")
      <3>1. row.via = ""
        BY DEF A!NewAccount, A!Account
      <3>6. "" \notin A!Tokens
        BY Zenon DEF A!Configured
      <3>2. accounts' = Append(accounts, row)
        BY <2>3
      <3> HIDE DEF row
      <3>3. DOMAIN accounts' = DOMAIN accounts \cup {Len(accounts) + 1}
            /\ accounts'[Len(accounts) + 1] = row /\ \A a \in DOMAIN accounts : accounts'[a] = accounts[a]
        BY <1>0, <3>2
      <3>4. \A t \in A!Tokens : Admitted(t)' = Admitted(t)
        BY <3>1, <3>3, <3>6 DEF Admitted
      <3>5. \A t \in A!Tokens : Registering(t)' = Registering(t)
        BY <2>1 DEF Registering
      <3> HIDE DEF Admitted, Registering
      <3> QED
        BY <2>1, <3>4, <3>5 DEF TokensCounted
    <2> QED
      BY <1>28, <2>2, <2>3 DEF A!SeedUser
  <1>29. CASE A!BackfillSettings
    <2> DEFINE fixed == [a \in {b \in A!Live : accounts[b].level = "none"} |-> [accounts[a] EXCEPT !.level = "off"]]
    <2>1. \A a \in DOMAIN accounts \cap DOMAIN fixed : fixed[a].via = accounts[a].via
      BY RowFields
    <2>2. A!Amend(fixed)
      BY <1>29, Zenon DEF A!BackfillSettings
    <2>3. UNCHANGED <<tokens, ask>>
      BY <1>29 DEF A!BackfillSettings, A!Pass
    <2> HIDE DEF fixed
    <2> QED
      BY <1>2, <1>4, <1>6, <1>17, <2>1, <2>2, <2>3
  <1>30. CASE A!BackfillTags
    <2> DEFINE fixed == [a \in {b \in A!Rated : ~accounts[b].tag} |-> [accounts[a] EXCEPT !.tag = TRUE]]
    <2>1. \A a \in DOMAIN accounts \cap DOMAIN fixed : fixed[a].via = accounts[a].via
      BY RowFields
    <2>2. A!Amend(fixed)
      BY <1>30, Zenon DEF A!BackfillTags
    <2>3. UNCHANGED <<tokens, ask>>
      BY <1>30 DEF A!BackfillTags, A!Pass
    <2> HIDE DEF fixed
    <2> QED
      BY <1>2, <1>4, <1>6, <1>17, <2>1, <2>2, <2>3
  <1>31. ASSUME NEW b \in blind, A!RepairUser(b) PROVE TokensCounted'
    <2> DEFINE fixed == [a \in {b} |-> [accounts[a] EXCEPT !.sees = editions]]
    <2>1. \A a \in DOMAIN accounts \cap DOMAIN fixed : fixed[a].via = accounts[a].via
      BY RowFields
    <2>2. A!Amend(fixed) \/ UNCHANGED accounts
      BY <1>31 DEF A!RepairUser
    <2>3. UNCHANGED <<tokens, ask>>
      BY <1>31 DEF A!RepairUser, A!Pass
    <2> HIDE DEF fixed
    <2> QED
      BY <1>2, <1>3, <1>4, <1>6, <1>17, <2>1, <2>2, <2>3
  <1>32. CASE A!PurgeRestricted
    <2> DEFINE fixed == [a \in {b \in A!Live : A!Restricted(b)} |->
                            [accounts[a] EXCEPT !.level = "off", !.sees = A!Nothing]]
    <2>1. \A a \in DOMAIN accounts \cap DOMAIN fixed : fixed[a].via = accounts[a].via
      BY RowFields
    <2>2. A!Amend(fixed)
      BY <1>32, Zenon DEF A!PurgeRestricted
    <2>3. UNCHANGED <<tokens, ask>>
      BY <1>32 DEF A!PurgeRestricted, A!Pass
    <2> HIDE DEF fixed
    <2> QED
      BY <1>2, <1>4, <1>6, <1>17, <2>1, <2>2, <2>3
  <1>33. CASE A!Crash
    <2>1. registrationsEnd
      BY <1>1, <1>33 DEF A!Crash, Registering, registrationsEnd
    <2> QED
      BY <1>2, <1>3, <1>6, <1>33, <2>1 DEF A!Crash
  <1> QED
    BY <1>7, <1>8, <1>9, <1>10, <1>11, <1>12, <1>13, <1>14, <1>15, <1>18, <1>19, <1>21, <1>22, <1>23,
       <1>24, <1>25, <1>26, <1>27, <1>28, <1>29, <1>30, <1>31, <1>32, <1>33, Zenon DEF A!Next

\* A token admits no more accounts than requests can be between its check and its use,
\* whoever deletes accounts or the token meanwhile (register, delete_token).
THEOREM TokenIsSpent == A!Spec => []TokenBuysOne
  <1>1. A!Init => A!AccountsTypeOK /\ TokensCounted
    BY AccountsInit, UpkeepAssumption, CountedInit
  <1>2. A!AccountsTypeOK /\ TokensCounted /\ [A!Next]_A!avars => (A!AccountsTypeOK /\ TokensCounted)'
    BY AccountsStep, UpkeepAssumption, CountedStep
  <1>3. TokensCounted => TokenBuysOne
    BY CountedBuysOne, UpkeepAssumption DEF TokenBuysOne
  <1> QED
    BY <1>1, <1>2, <1>3, PTL DEF A!Spec

-----------------------------------------------------------------------------
(* Admission: counting *)

LEMMA CountingJobs ==
    ASSUME NEW S PROVE J!Cardinality(S) = Cardinality(S) /\ J!IsFiniteSet(S) = IsFiniteSet(S)
  BY DEF J!Cardinality, Cardinality, J!IsFiniteSet, IsFiniteSet

-----------------------------------------------------------------------------
(* Admission: types *)

LEMMA NoSubmission ==
    /\ J!Cancelled \in [pc : {"idle"}, user : {""}, title : {""}]
    /\ J!Cancelled.pc = "idle"
  BY DEF J!Cancelled

\* A request that is under way has a user and a title.
LEMMA UnderWay ==
    ASSUME J!AdmissionTypeOK, NEW r \in Submissions, submitting[r].pc # "idle"
    PROVE  submitting[r] \in J!Submission
  BY NoSubmission DEF J!AdmissionTypeOK

LEMMA NewRow ==
    ASSUME jobs \in Seq(J!JobRow), NEW user \in People \cup {"system"},
           NEW title \in Titles \cup {"season", "backup"},
           jobs' = Append(jobs, J!Row(user, title, 0))
    PROVE  /\ jobs' \in Seq(J!JobRow)
           /\ DOMAIN jobs' = DOMAIN jobs \cup {Len(jobs) + 1}
           /\ \A i \in DOMAIN jobs : jobs'[i] = jobs[i]
           /\ jobs'[Len(jobs) + 1].user = user
  <1> DEFINE row == J!Row(user, title, 0)
  <1>1. row \in J!JobRow /\ row.user = user
    BY DEF J!Row, J!JobRow
  <1>2. jobs' = Append(jobs, row)
    OBVIOUS
  <1> HIDE DEF row
  <1> QED
    BY <1>1, <1>2

\* A row is given another status.
LEMMA RestatedRow ==
    ASSUME jobs \in Seq(J!JobRow), NEW i, NEW status \in {"queued", "running", "succeeded", "failed"},
           jobs' = [jobs EXCEPT ![i].status = status]
    PROVE  /\ jobs' \in Seq(J!JobRow)
           /\ DOMAIN jobs' = DOMAIN jobs
           /\ \A j \in DOMAIN jobs : /\ jobs'[j].user = jobs[j].user /\ jobs'[j].title = jobs[j].title
                                     /\ j # i => jobs'[j] = jobs[j]
           /\ i \in DOMAIN jobs => jobs'[i].status = status
  <1>1. DOMAIN jobs = 1 .. Len(jobs) /\ Len(jobs) \in Nat /\ jobs \in [1 .. Len(jobs) -> J!JobRow]
    OBVIOUS
  <1>2. DOMAIN jobs' = DOMAIN jobs /\ \A j \in DOMAIN jobs : j # i => jobs'[j] = jobs[j]
    OBVIOUS
  <1>3. i \in DOMAIN jobs => jobs'[i] = [jobs[i] EXCEPT !.status = status]
    OBVIOUS
  <1>4. ASSUME i \in DOMAIN jobs
        PROVE  jobs'[i] \in J!JobRow /\ jobs'[i].user = jobs[i].user /\ jobs'[i].title = jobs[i].title
               /\ jobs'[i].status = status
    <2>1. jobs[i] \in J!JobRow
      BY <1>1, <1>4
    <2> QED
      BY <1>3, <1>4, <2>1 DEF J!JobRow
  <1>5. \A j \in DOMAIN jobs : jobs'[j] \in J!JobRow
    BY <1>1, <1>2, <1>4
  <1>6. jobs' \in [1 .. Len(jobs) -> J!JobRow]
    BY <1>1, <1>2, <1>5
  <1> QED
    BY <1>1, <1>2, <1>4, <1>6, SeqDef

\* The sweep ends, and its flock is appended.
LEMMA SweptRows ==
    ASSUME J!Configured, J!AdmissionTypeOK, NEW i \in DOMAIN jobs, NEW entries \in SUBSET Titles,
           J!Sweep(i, entries)
    PROVE  /\ jobs' \in Seq(J!JobRow)
           /\ \A j \in DOMAIN jobs : /\ j \in DOMAIN jobs' /\ jobs'[j].user = jobs[j].user
                                     /\ jobs'[j].title = jobs[j].title
                                     /\ j # i => jobs'[j] = jobs[j]
           /\ jobs'[i].status = "succeeded"
           /\ \A j \in DOMAIN jobs' \ DOMAIN jobs : jobs'[j].user = "system"
  <1> DEFINE fresh == entries \ saved
             ended == [jobs EXCEPT ![i].status = "succeeded"]
  <1>1. PICK drawn \in [1 .. J!Cardinality(fresh) -> fresh] :
            jobs' = ended \o [x \in DOMAIN drawn |-> J!Row("system", drawn[x], i)]
    BY DEF J!Sweep
  <1> DEFINE n == Cardinality(fresh)
             flock == [x \in DOMAIN drawn |-> J!Row("system", drawn[x], i)]
  <1>2. J!Cardinality(fresh) = n /\ n \in Nat
    <2>1. IsFiniteSet(Titles)
      BY CountingJobs DEF J!Configured
    <2>2. IsFiniteSet(fresh)
      BY <2>1, FS_Subset
    <2> QED
      BY <2>2, CountingJobs, FS_CardinalityType
  <1>3. DOMAIN drawn = 1 .. n /\ \A x \in 1 .. n : drawn[x] \in Titles
    BY <1>2
  <1>4. i \in Nat
    BY DEF J!AdmissionTypeOK
  <1>5. flock \in Seq(J!JobRow) /\ Len(flock) = n /\ \A x \in 1 .. n : flock[x].user = "system"
    <2>1. \A x \in 1 .. n : flock[x] = J!Row("system", drawn[x], i)
      BY <1>3
    <2>2. \A x \in 1 .. n : flock[x] \in J!JobRow /\ flock[x].user = "system"
      BY <1>3, <1>4, <2>1 DEF J!Row, J!JobRow
    <2>3. flock \in [1 .. n -> J!JobRow]
      BY <1>3, <2>2
    <2> HIDE DEF flock
    <2>4. flock \in Seq(J!JobRow)
      BY <1>2, <2>3, SeqDef
    <2>5. Len(flock) = n
      BY <1>2, <2>3, <2>4, LenProperties
    <2> QED
      BY <2>2, <2>4, <2>5
  <1>6. ended \in Seq(J!JobRow) /\ Len(ended) = Len(jobs) /\ DOMAIN jobs = 1 .. Len(jobs)
    <2>1. jobs \in [1 .. Len(jobs) -> J!JobRow] /\ Len(jobs) \in Nat /\ DOMAIN jobs = 1 .. Len(jobs)
      BY DEF J!AdmissionTypeOK
    <2>2. \A j \in 1 .. Len(jobs) : ended[j] \in J!JobRow
      BY <2>1 DEF J!JobRow
    <2>3. ended \in [1 .. Len(jobs) -> J!JobRow]
      BY <2>1, <2>2
    <2> HIDE DEF ended
    <2> QED
      BY <2>1, <2>3, SeqDef, LenProperties
  <1>7. /\ \A j \in DOMAIN jobs : ended[j].user = jobs[j].user /\ ended[j].title = jobs[j].title
                                  /\ (j # i => ended[j] = jobs[j])
        /\ ended[i].status = "succeeded"
    <2>1. \A j \in DOMAIN jobs : jobs[j] \in J!JobRow
      BY DEF J!AdmissionTypeOK
    <2> QED
      BY <2>1 DEF J!JobRow
  <1> HIDE DEF ended, flock, n, fresh
  <1>8. jobs' = ended \o flock
    BY <1>1 DEF flock
  <1>9. /\ jobs' \in Seq(J!JobRow) /\ DOMAIN jobs' = 1 .. Len(jobs) + n
        /\ \A j \in 1 .. Len(jobs) : jobs'[j] = ended[j]
        /\ \A j \in Len(jobs) + 1 .. Len(jobs) + n : jobs'[j] = flock[j - Len(jobs)]
    <2>10. flock \in Seq(J!JobRow) /\ ended \in Seq(J!JobRow)
      BY <1>5, <1>6
    <2>1. ended \o flock \in Seq(J!JobRow) /\ Len(ended \o flock) = Len(ended) + Len(flock)
      BY <2>10
    <2>4. \A j \in 1 .. Len(ended) + Len(flock) :
             (ended \o flock)[j] = IF j <= Len(ended) THEN ended[j] ELSE flock[j - Len(ended)]
      BY <2>10
    <2>2. DOMAIN (ended \o flock) = 1 .. Len(ended) + Len(flock)
      BY <2>1, LenProperties
    <2>3. Len(jobs) \in Nat
      BY DEF J!AdmissionTypeOK
    <2> QED
      BY <1>2, <1>5, <1>6, <1>8, <2>1, <2>2, <2>3, <2>4
  <1>10. Len(jobs) \in Nat
    BY <1>6
  <1>11. \A j \in DOMAIN jobs : j \in DOMAIN jobs' /\ jobs'[j] = ended[j]
    BY <1>2, <1>6, <1>9, <1>10
  <1>12. ASSUME NEW j \in DOMAIN jobs' \ DOMAIN jobs PROVE jobs'[j].user = "system"
    <2>1. j - Len(jobs) \in 1 .. n /\ jobs'[j] = flock[j - Len(jobs)]
      BY <1>2, <1>6, <1>9, <1>10, <1>12
    <2> QED
      BY <1>5, <2>1
  <1> QED
    BY <1>7, <1>9, <1>11, <1>12

LEMMA AdmissionInit == J!Configured /\ J!Init => J!AdmissionTypeOK
  BY DEF J!Init, J!AdmissionTypeOK

\* One request goes on, is through, or is turned away.
LEMMA SubmissionGoesOn ==
    ASSUME J!AdmissionTypeOK, NEW r \in Submissions, NEW held \in J!Submission \cup {J!Cancelled},
           submitting' = [submitting EXCEPT ![r] = held], UNCHANGED <<window, memory, saved>>,
           jobs' \in Seq(J!JobRow)
    PROVE  J!AdmissionTypeOK'
  BY DEF J!AdmissionTypeOK

LEMMA Checked ==
    ASSUME J!AdmissionTypeOK, NEW r \in Submissions,
           NEW check \in {"active", "today", "duplicate"}, NEW next \in {"today", "duplicate", "insert"},
           NEW ok, J!Pass(r, check, next, ok)
    PROVE  /\ J!AdmissionTypeOK'
           /\ submitting[r].pc = check
           /\ submitting' = [submitting EXCEPT ![r] = submitting'[r]]
           /\ IF ok THEN submitting'[r] \in J!Submission /\ submitting'[r].pc = next
                         /\ submitting'[r].user = submitting[r].user
                    ELSE submitting'[r].pc = "idle"
           /\ UNCHANGED <<jobs, window, memory, saved>>
  <1> DEFINE held == IF ok THEN [submitting[r] EXCEPT !.pc = next] ELSE J!Cancelled
  <1>1. submitting[r].pc = check /\ UNCHANGED <<jobs, window, memory, saved>>
    BY Zenon DEF J!Pass
  <1>2. submitting' = [submitting EXCEPT ![r] = held]
    BY Zenon DEF J!Pass
  <1>3. submitting[r] \in J!Submission
    BY <1>1, UnderWay
  <1>4. IF ok THEN held \in J!Submission /\ held.pc = next /\ held.user = submitting[r].user
              ELSE held = J!Cancelled /\ held.pc = "idle"
    BY <1>3, NoSubmission DEF J!Submission
  <1>5. jobs' \in Seq(J!JobRow)
    BY <1>1 DEF J!AdmissionTypeOK
  <1>6. submitting \in [Submissions -> J!Submission \cup {J!Cancelled}]
    BY DEF J!AdmissionTypeOK
  <1> HIDE DEF held
  <1>7. held \in J!Submission \cup {J!Cancelled}
    BY <1>4
  <1>8. J!AdmissionTypeOK'
    BY <1>1, <1>2, <1>5, <1>7, SubmissionGoesOn
  <1>9. submitting'[r] = held
    BY <1>2, <1>6
  <1> QED
    BY <1>1, <1>2, <1>4, <1>8, <1>9

LEMMA AdmissionStep == J!Configured /\ J!AdmissionTypeOK /\ [J!Next]_J!jvars => J!AdmissionTypeOK'
  <1> SUFFICES ASSUME J!Configured, J!AdmissionTypeOK, [J!Next]_J!jvars PROVE J!AdmissionTypeOK'
    OBVIOUS
  <1>0. /\ jobs \in Seq(J!JobRow) /\ window \in Nat /\ memory \in Nat /\ saved \subseteq Titles
        /\ submitting \in [Submissions -> J!Submission \cup {J!Cancelled}]
    BY DEF J!AdmissionTypeOK
  <1>1. CASE UNCHANGED J!jvars
    BY <1>1 DEF J!jvars, J!AdmissionTypeOK
  <1>2. ASSUME NEW r \in Submissions, NEW user \in People, NEW title \in Titles, J!Submit(r, user, title)
        PROVE  J!AdmissionTypeOK'
    <2>1. [pc |-> "active", user |-> user, title |-> title] \in J!Submission
      BY DEF J!Submission
    <2> QED
      BY <1>0, <1>2, <2>1, SubmissionGoesOn DEF J!Submit
  <1>3. ASSUME NEW r \in Submissions, J!CountActive(r) PROVE J!AdmissionTypeOK'
    BY <1>3, Checked DEF J!CountActive
  <1>4. ASSUME NEW r \in Submissions, J!CountToday(r) PROVE J!AdmissionTypeOK'
    BY <1>4, Checked DEF J!CountToday
  <1>5. ASSUME NEW r \in Submissions, J!FindDuplicate(r) PROVE J!AdmissionTypeOK'
    BY <1>5, Checked DEF J!FindDuplicate
  <1>6. ASSUME NEW r \in Submissions, J!Insert(r) PROVE J!AdmissionTypeOK'
    <2>1. submitting[r] \in J!Submission
      BY <1>6, UnderWay DEF J!Insert
    <2>2. submitting[r].user \in People /\ submitting[r].title \in Titles
      BY <2>1 DEF J!Submission
    <2>3. jobs' = Append(jobs, J!Row(submitting[r].user, submitting[r].title, 0))
          /\ submitting' = [submitting EXCEPT ![r] = J!Cancelled] /\ UNCHANGED <<window, memory, saved>>
      BY <1>6, Zenon DEF J!Insert
    <2>4. jobs' \in Seq(J!JobRow)
      BY <1>0, <2>2, <2>3, NewRow
    <2> QED
      BY <2>3, <2>4, SubmissionGoesOn
  <1>7. ASSUME NEW user \in People \cup {"system"}, NEW kind \in {"season", "backup"}, J!Schedule(user, kind)
        PROVE  J!AdmissionTypeOK'
    <2>1. jobs' = Append(jobs, J!Row(user, kind, 0)) /\ UNCHANGED <<window, memory, saved, submitting>>
      BY <1>7 DEF J!Schedule
    <2>2. jobs' \in Seq(J!JobRow)
      BY <1>0, <2>1, NewRow
    <2> QED
      BY <1>0, <2>1, <2>2 DEF J!AdmissionTypeOK
  <1>8. CASE J!Take
    <2>1. PICK i : jobs' = [jobs EXCEPT ![i].status = "running"]
      BY <1>8 DEF J!Take
    <2>2. jobs' \in Seq(J!JobRow)
      BY <1>0, <2>1, RestatedRow
    <2> QED
      BY <1>0, <1>8, <2>2 DEF J!AdmissionTypeOK, J!Take
  <1>9. ASSUME NEW i \in DOMAIN jobs, NEW entries \in SUBSET Titles, J!Sweep(i, entries)
        PROVE  J!AdmissionTypeOK'
    <2>1. jobs' \in Seq(J!JobRow)
      BY <1>9, SweptRows
    <2> QED
      BY <1>0, <1>9, <2>1 DEF J!AdmissionTypeOK, J!Sweep
  <1>10. ASSUME NEW i \in DOMAIN jobs, J!Scrape(i) PROVE J!AdmissionTypeOK'
    <2>1. PICK status \in {"succeeded", "failed"} : jobs' = [jobs EXCEPT ![i].status = status]
      BY <1>10 DEF J!Scrape
    <2>2. jobs' \in Seq(J!JobRow)
      BY <1>0, <2>1, RestatedRow
    <2>3. saved' \subseteq Titles /\ UNCHANGED <<window, memory, submitting>>
      BY <1>0, <1>10 DEF J!Scrape, J!IsScrape
    <2> QED
      BY <1>0, <2>2, <2>3 DEF J!AdmissionTypeOK
  <1>11. ASSUME NEW i \in DOMAIN jobs, J!EndBackup(i) PROVE J!AdmissionTypeOK'
    <2>1. PICK status \in {"succeeded", "failed"} : jobs' = [jobs EXCEPT ![i].status = status]
      BY <1>11 DEF J!EndBackup
    <2>2. jobs' \in Seq(J!JobRow)
      BY <1>0, <2>1, RestatedRow
    <2> QED
      BY <1>0, <1>11, <2>2 DEF J!AdmissionTypeOK, J!EndBackup
  <1>12. CASE J!Age
    BY <1>0, <1>12 DEF J!AdmissionTypeOK, J!Age
  <1>13. ASSUME NEW root, J!OpenLog(root) PROVE J!AdmissionTypeOK'
    BY <1>0, <1>13 DEF J!AdmissionTypeOK, J!OpenLog
  <1>14. CASE J!ReadPage
    BY <1>0, <1>14 DEF J!AdmissionTypeOK, J!ReadPage
  <1>15. J!Schedule("system", "season") \/ (\E user \in Operators : J!Schedule(user, "backup"))
         => J!AdmissionTypeOK'
    BY <1>7 DEF J!Configured
  <1> QED
    BY <1>1, <1>2, <1>3, <1>4, <1>5, <1>6, <1>8, <1>9, <1>10, <1>11, <1>12, <1>13, <1>14, <1>15,
       Zenon DEF J!Next

-----------------------------------------------------------------------------
(* Admission: the limits *)

Clients == People \ Operators

\* The requests of a user that the first check has let through, and the second.
Counted(user) ==
    {r \in Submissions : /\ submitting[r].user = user
                         /\ submitting[r].pc \in {"today", "duplicate", "insert"}}
Entering(user) ==
    {r \in Submissions : submitting[r].user = user /\ submitting[r].pc \in {"duplicate", "insert"}}

Overlap(limit) == limit + Cardinality(Submissions) - 1

\* With the rows that count against a limit the requests that were let through by it.
LimitsCounted == \A user \in Clients :
    /\ Within(J!ActiveOf(user), Counted(user), Overlap(ActiveLimit))
    /\ Within(J!ScrapesToday(user), Entering(user), Overlap(DailyLimit))

LEMMA Overlapping ==
    ASSUME J!Configured
    PROVE  /\ IsFiniteSet(Submissions) /\ Submissions # {} /\ Cardinality(Submissions) \in Nat
           /\ ActiveLimit \in Nat /\ DailyLimit \in Nat
           /\ Overlap(ActiveLimit) \in Int /\ Overlap(DailyLimit) \in Int
           /\ J!Cardinality(Submissions) = Cardinality(Submissions)
  <1>1. IsFiniteSet(Submissions) /\ Submissions # {} /\ ActiveLimit \in Nat /\ DailyLimit \in Nat
    BY CountingJobs DEF J!Configured
  <1>2. Cardinality(Submissions) \in Nat
    BY <1>1, FS_CardinalityType
  <1>3. J!Cardinality(Submissions) = Cardinality(Submissions)
    BY CountingJobs
  <1> QED
    BY <1>1, <1>2, <1>3 DEF Overlap

LEMMA CountedBounds == J!Configured /\ LimitsCounted => J!LimitsBounded
  <1> SUFFICES ASSUME J!Configured, LimitsCounted, NEW user \in Clients
               PROVE  /\ Cardinality(J!ActiveOf(user)) <= Overlap(ActiveLimit)
                      /\ Cardinality(J!ScrapesToday(user)) <= Overlap(DailyLimit)
    BY CountingJobs DEF J!LimitsBounded, Clients, Overlap
  <1>1. /\ Within(J!ActiveOf(user), Counted(user), Overlap(ActiveLimit))
        /\ Within(J!ScrapesToday(user), Entering(user), Overlap(DailyLimit))
    BY DEF LimitsCounted
  <1> QED
    BY <1>1, Overlapping, WithinLimit

LEMMA LimitsInit == J!Configured /\ J!Init => LimitsCounted
  <1> SUFFICES ASSUME J!Configured, J!Init, NEW user \in Clients
               PROVE  /\ Within(J!ActiveOf(user), Counted(user), Overlap(ActiveLimit))
                      /\ Within(J!ScrapesToday(user), Entering(user), Overlap(DailyLimit))
    BY DEF LimitsCounted
  <1>1. J!ActiveOf(user) = {} /\ J!ScrapesToday(user) = {}
    BY DEF J!Init, J!ActiveOf, J!ScrapesToday, J!Of
  <1>2. Counted(user) = {} /\ Entering(user) = {}
    BY NoSubmission DEF J!Init, Counted, Entering
  <1>3. /\ Within({}, {}, ActiveLimit + Cardinality(Submissions) - 1)
        /\ Within({}, {}, DailyLimit + Cardinality(Submissions) - 1)
    BY Overlapping, WithinNothing
  <1> QED
    BY <1>1, <1>2, <1>3, Zenon DEF Overlap

\* Rows that leave a queue and requests that end make room.
LEMMA LimitsQuiet ==
    ASSUME J!Configured, LimitsCounted,
           \A user \in Clients : /\ J!ActiveOf(user)' \subseteq J!ActiveOf(user)
                                 /\ J!ScrapesToday(user)' \subseteq J!ScrapesToday(user)
                                 /\ Counted(user)' \subseteq Counted(user)
                                 /\ Entering(user)' \subseteq Entering(user)
    PROVE  LimitsCounted'
  <1> SUFFICES ASSUME NEW user \in Clients
               PROVE  /\ Within(J!ActiveOf(user)', Counted(user)', Overlap(ActiveLimit))
                      /\ Within(J!ScrapesToday(user)', Entering(user)', Overlap(DailyLimit))
    BY Zenon DEF LimitsCounted, Within, Overlap
  <1>1. /\ Within(J!ActiveOf(user), Counted(user), Overlap(ActiveLimit))
        /\ Within(J!ScrapesToday(user), Entering(user), Overlap(DailyLimit))
    BY DEF LimitsCounted
  <1>2. /\ J!ActiveOf(user)' \subseteq J!ActiveOf(user)
        /\ J!ScrapesToday(user)' \subseteq J!ScrapesToday(user)
        /\ Counted(user)' \subseteq Counted(user)
        /\ Entering(user)' \subseteq Entering(user)
    OBVIOUS
  <1>3. Overlap(ActiveLimit) \in Int /\ Overlap(DailyLimit) \in Int
    BY Overlapping
  <1>4. Within(J!ActiveOf(user)', Counted(user)', Overlap(ActiveLimit))
    BY <1>1, <1>2, <1>3, WithinFewer, Zenon
  <1>5. Within(J!ScrapesToday(user)', Entering(user)', Overlap(DailyLimit))
    BY <1>1, <1>2, <1>3, WithinFewer, Zenon
  <1> QED
    BY <1>4, <1>5

\* What a step does to the rows and to the requests, looked at apart.
LEMMA RowsStay ==
    ASSUME UNCHANGED <<jobs, window>>
    PROVE  \A user : J!ActiveOf(user)' = J!ActiveOf(user) /\ J!ScrapesToday(user)' = J!ScrapesToday(user)
  BY DEF J!ActiveOf, J!ScrapesToday, J!Of, J!IsScrape

LEMMA RequestsStay ==
    ASSUME UNCHANGED submitting
    PROVE  \A user : Counted(user)' = Counted(user) /\ Entering(user)' = Entering(user)
  BY DEF Counted, Entering

LEMMA CountedEnds ==
    ASSUME J!AdmissionTypeOK, NEW r \in Submissions, NEW held,
           submitting' = [submitting EXCEPT ![r] = held],
           \/ held.pc \notin {"today", "duplicate", "insert"}
           \/ submitting[r].pc \in {"today", "duplicate", "insert"} /\ held.user = submitting[r].user
    PROVE  \A user : Counted(user)' \subseteq Counted(user)
  <1>1. submitting'[r] = held /\ \A q \in Submissions \ {r} : submitting'[q] = submitting[q]
    BY DEF J!AdmissionTypeOK
  <1> QED
    BY <1>1 DEF Counted

LEMMA EnteringEnds ==
    ASSUME J!AdmissionTypeOK, NEW r \in Submissions, NEW held,
           submitting' = [submitting EXCEPT ![r] = held],
           \/ held.pc \notin {"duplicate", "insert"}
           \/ submitting[r].pc \in {"duplicate", "insert"} /\ held.user = submitting[r].user
    PROVE  \A user : Entering(user)' \subseteq Entering(user)
  <1>1. submitting'[r] = held /\ \A q \in Submissions \ {r} : submitting'[q] = submitting[q]
    BY DEF J!AdmissionTypeOK
  <1> QED
    BY <1>1 DEF Entering

\* A row that was active goes on or ends.
LEMMA RowsEnd ==
    ASSUME J!AdmissionTypeOK, NEW i \in DOMAIN jobs, jobs[i].status \in J!Active,
           NEW status \in {"queued", "running", "succeeded", "failed"},
           jobs' = [jobs EXCEPT ![i].status = status], UNCHANGED window
    PROVE  \A user : /\ J!ActiveOf(user)' \subseteq J!ActiveOf(user)
                     /\ J!ScrapesToday(user)' \subseteq J!ScrapesToday(user)
  <1>1. /\ DOMAIN jobs' = DOMAIN jobs
        /\ \A j \in DOMAIN jobs : /\ jobs'[j].user = jobs[j].user /\ jobs'[j].title = jobs[j].title
                                  /\ j # i => jobs'[j] = jobs[j]
    BY RestatedRow DEF J!AdmissionTypeOK
  <1> QED
    BY <1>1 DEF J!ActiveOf, J!ScrapesToday, J!Of, J!IsScrape

\* A row of nobody who is limited is added.
LEMMA RowOfOthers ==
    ASSUME J!AdmissionTypeOK, NEW user, user \notin Clients, user \in People \cup {"system"},
           NEW title \in Titles \cup {"season", "backup"},
           jobs' = Append(jobs, J!Row(user, title, 0)), UNCHANGED window
    PROVE  \A u \in Clients : /\ J!ActiveOf(u)' \subseteq J!ActiveOf(u)
                              /\ J!ScrapesToday(u)' \subseteq J!ScrapesToday(u)
  <1>1. /\ DOMAIN jobs' = DOMAIN jobs \cup {Len(jobs) + 1}
        /\ \A i \in DOMAIN jobs : jobs'[i] = jobs[i]
        /\ jobs'[Len(jobs) + 1].user = user
    BY NewRow DEF J!AdmissionTypeOK
  <1> QED
    BY <1>1 DEF J!ActiveOf, J!ScrapesToday, J!Of, J!IsScrape

\* The count was below the limit: whoever is let through beside it, the limit is passed
\* by fewer than the requests there can be.
LEMMA LimitsCountActive ==
    ASSUME J!Configured, J!AdmissionTypeOK, LimitsCounted, NEW r \in Submissions, J!CountActive(r)
    PROVE  LimitsCounted'
  <1> DEFINE ok == J!Cardinality(J!ActiveOf(submitting[r].user)) < ActiveLimit
  <1>1. J!Pass(r, "active", "today", ok)
    BY DEF J!CountActive
  <1> HIDE DEF ok
  <1>2. /\ submitting[r].pc = "active" /\ submitting' = [submitting EXCEPT ![r] = submitting'[r]]
        /\ IF ok THEN submitting'[r].pc = "today" /\ submitting'[r].user = submitting[r].user
                 ELSE submitting'[r].pc = "idle"
        /\ UNCHANGED <<jobs, window>>
    BY <1>1, Checked
  <1>3. \A user : Entering(user)' \subseteq Entering(user)
    BY <1>2, EnteringEnds
  <1>4. \A user : J!ActiveOf(user)' = J!ActiveOf(user) /\ J!ScrapesToday(user)' = J!ScrapesToday(user)
    BY <1>2, RowsStay
  <1>5. CASE ~ok
    <2>1. \A user : Counted(user)' \subseteq Counted(user)
      BY <1>2, <1>5, CountedEnds
    <2> QED
      BY <1>3, <1>4, <2>1, LimitsQuiet
  <1>6. CASE ok
    <2> SUFFICES ASSUME NEW user \in Clients
                 PROVE  /\ Within(J!ActiveOf(user)', Counted(user)', Overlap(ActiveLimit))
                        /\ Within(J!ScrapesToday(user)', Entering(user)', Overlap(DailyLimit))
      BY Zenon DEF LimitsCounted, Within, Overlap
    <2>1. /\ Within(J!ActiveOf(user), Counted(user), Overlap(ActiveLimit))
          /\ Within(J!ScrapesToday(user), Entering(user), Overlap(DailyLimit))
      BY DEF LimitsCounted
    <2>2. Within(J!ScrapesToday(user)', Entering(user)', Overlap(DailyLimit))
      <3>1. Entering(user)' \subseteq Entering(user) /\ J!ScrapesToday(user)' = J!ScrapesToday(user)
        BY <1>3, <1>4
      <3> QED
        BY <2>1, <3>1, Overlapping, WithinFewer
    <2>3. CASE user # submitting[r].user
      <3>1. submitting'[r].user = submitting[r].user
            /\ \A q \in Submissions \ {r} : submitting'[q] = submitting[q]
        BY <1>2, <1>6 DEF J!AdmissionTypeOK
      <3>2. Counted(user)' \subseteq Counted(user)
        BY <2>3, <3>1 DEF Counted
      <3>3. J!ActiveOf(user)' = J!ActiveOf(user)
        BY <1>4
      <3> QED
        BY <2>1, <2>2, <3>2, <3>3, Overlapping, WithinFewer
    <2>4. CASE user = submitting[r].user
      <3>1. Cardinality(J!ActiveOf(user)) < ActiveLimit
        BY <1>6, <2>4, CountingJobs DEF ok
      <3>2. Counted(user)' \subseteq Submissions
        BY DEF Counted
      <3>3. IsFiniteSet(J!ActiveOf(user))
        BY <2>1 DEF Within
      <3>4. ActiveLimit \in Int /\ IsFiniteSet(Submissions)
        BY Overlapping
      <3>5. J!ActiveOf(user)' = J!ActiveOf(user)
        BY <1>4
      <3> HIDE DEF Counted
      <3>6. Within(J!ActiveOf(user), Counted(user)', ActiveLimit + Cardinality(Submissions) - 1)
        BY <3>1, <3>2, <3>3, <3>4, WithinAdmitted
      <3> QED
        BY <2>2, <3>5, <3>6 DEF Overlap
    <2> QED
      BY <2>3, <2>4
  <1> QED
    BY <1>5, <1>6

LEMMA LimitsCountToday ==
    ASSUME J!Configured, J!AdmissionTypeOK, LimitsCounted, NEW r \in Submissions, J!CountToday(r)
    PROVE  LimitsCounted'
  <1> DEFINE ok == \/ submitting[r].user \in Operators
                   \/ J!Cardinality(J!ScrapesToday(submitting[r].user)) < DailyLimit
  <1>1. J!Pass(r, "today", "duplicate", ok)
    BY DEF J!CountToday
  <1> HIDE DEF ok
  <1>2. /\ submitting[r].pc = "today" /\ submitting' = [submitting EXCEPT ![r] = submitting'[r]]
        /\ IF ok THEN submitting'[r].pc = "duplicate" /\ submitting'[r].user = submitting[r].user
                 ELSE submitting'[r].pc = "idle"
        /\ UNCHANGED <<jobs, window>>
    BY <1>1, Checked
  <1>3. \A user : Counted(user)' \subseteq Counted(user)
    BY <1>2, CountedEnds
  <1>4. \A user : J!ActiveOf(user)' = J!ActiveOf(user) /\ J!ScrapesToday(user)' = J!ScrapesToday(user)
    BY <1>2, RowsStay
  <1>5. CASE ~ok
    <2>1. \A user : Entering(user)' \subseteq Entering(user)
      BY <1>2, <1>5, EnteringEnds
    <2> QED
      BY <1>3, <1>4, <2>1, LimitsQuiet
  <1>6. CASE ok
    <2> SUFFICES ASSUME NEW user \in Clients
                 PROVE  /\ Within(J!ActiveOf(user)', Counted(user)', Overlap(ActiveLimit))
                        /\ Within(J!ScrapesToday(user)', Entering(user)', Overlap(DailyLimit))
      BY Zenon DEF LimitsCounted, Within, Overlap
    <2>1. /\ Within(J!ActiveOf(user), Counted(user), Overlap(ActiveLimit))
          /\ Within(J!ScrapesToday(user), Entering(user), Overlap(DailyLimit))
      BY DEF LimitsCounted
    <2>2. Within(J!ActiveOf(user)', Counted(user)', Overlap(ActiveLimit))
      <3>1. Counted(user)' \subseteq Counted(user) /\ J!ActiveOf(user)' = J!ActiveOf(user)
        BY <1>3, <1>4
      <3> QED
        BY <2>1, <3>1, Overlapping, WithinFewer
    <2>3. CASE user # submitting[r].user
      <3>1. submitting'[r].user = submitting[r].user
            /\ \A q \in Submissions \ {r} : submitting'[q] = submitting[q]
        BY <1>2, <1>6 DEF J!AdmissionTypeOK
      <3>2. Entering(user)' \subseteq Entering(user)
        BY <2>3, <3>1 DEF Entering
      <3>3. J!ScrapesToday(user)' = J!ScrapesToday(user)
        BY <1>4
      <3> QED
        BY <2>1, <2>2, <3>2, <3>3, Overlapping, WithinFewer
    <2>4. CASE user = submitting[r].user
      <3>1. Cardinality(J!ScrapesToday(user)) < DailyLimit
        BY <1>6, <2>4, CountingJobs DEF ok, Clients
      <3>2. Entering(user)' \subseteq Submissions
        BY DEF Entering
      <3>3. IsFiniteSet(J!ScrapesToday(user))
        BY <2>1 DEF Within
      <3>4. DailyLimit \in Int /\ IsFiniteSet(Submissions)
        BY Overlapping
      <3>5. J!ScrapesToday(user)' = J!ScrapesToday(user)
        BY <1>4
      <3> HIDE DEF Entering
      <3>6. Within(J!ScrapesToday(user), Entering(user)', DailyLimit + Cardinality(Submissions) - 1)
        BY <3>1, <3>2, <3>3, <3>4, WithinAdmitted
      <3> QED
        BY <2>2, <3>5, <3>6 DEF Overlap
    <2> QED
      BY <2>3, <2>4
  <1> QED
    BY <1>5, <1>6

\* The request gets the row it was let through for.
LEMMA LimitsInsert ==
    ASSUME J!Configured, J!AdmissionTypeOK, LimitsCounted, NEW r \in Submissions, J!Insert(r)
    PROVE  LimitsCounted'
  <1> DEFINE me == submitting[r].user
             row == Len(jobs) + 1
  <1>1. /\ submitting[r].pc = "insert"
        /\ jobs' = Append(jobs, J!Row(me, submitting[r].title, 0))
        /\ submitting' = [submitting EXCEPT ![r] = J!Cancelled] /\ UNCHANGED window
    BY Zenon DEF J!Insert
  <1>2. me \in People /\ submitting[r].title \in Titles
    BY <1>1, UnderWay DEF J!Submission
  <1>3. /\ DOMAIN jobs' = DOMAIN jobs \cup {row}
        /\ \A i \in DOMAIN jobs : jobs'[i] = jobs[i]
        /\ jobs'[row].user = me
    BY <1>1, <1>2, NewRow DEF J!AdmissionTypeOK
  <1>4. submitting'[r].pc = "idle" /\ \A q \in Submissions \ {r} : submitting'[q] = submitting[q]
    BY <1>1, NoSubmission DEF J!AdmissionTypeOK
  <1> SUFFICES ASSUME NEW user \in Clients
               PROVE  /\ Within(J!ActiveOf(user)', Counted(user)', Overlap(ActiveLimit))
                      /\ Within(J!ScrapesToday(user)', Entering(user)', Overlap(DailyLimit))
    BY Zenon DEF LimitsCounted, Within, Overlap
  <1>5. /\ Within(J!ActiveOf(user), Counted(user), Overlap(ActiveLimit))
        /\ Within(J!ScrapesToday(user), Entering(user), Overlap(DailyLimit))
    BY DEF LimitsCounted
  <1>6. Overlap(ActiveLimit) \in Int /\ Overlap(DailyLimit) \in Int
    BY Overlapping
  <1>7. Counted(user)' \subseteq Counted(user) \ {r} /\ Entering(user)' \subseteq Entering(user) \ {r}
    BY <1>4 DEF Counted, Entering
  <1>8. CASE user = me
    <2>1. r \in Counted(user) /\ r \in Entering(user)
      BY <1>1, <1>8 DEF Counted, Entering
    <2>2. J!ActiveOf(user)' \subseteq J!ActiveOf(user) \cup {row}
      BY <1>3 DEF J!ActiveOf, J!Of
    <2>3. J!ScrapesToday(user)' \subseteq J!ScrapesToday(user) \cup {row}
      BY <1>1, <1>3 DEF J!ScrapesToday, J!Of, J!IsScrape
    <2> HIDE DEF me, row, Counted, Entering
    <2>4. Within(J!ActiveOf(user)', Counted(user)', Overlap(ActiveLimit))
      <3>1. Counted(user)' \subseteq Counted(user) \ {r} /\ r \in Counted(user)
        BY <1>7, <2>1
      <3>2. Within(J!ActiveOf(user), Counted(user), Overlap(ActiveLimit)) /\ Overlap(ActiveLimit) \in Int
        BY <1>5, <1>6
      <3>3. Within(J!ActiveOf(user) \cup {row}, Counted(user) \ {r}, Overlap(ActiveLimit))
        BY <3>1, <3>2, WithinEntered
      <3> QED
        BY <2>2, <3>1, <3>2, <3>3, WithinFewer
    <2>5. Within(J!ScrapesToday(user)', Entering(user)', Overlap(DailyLimit))
      <3>1. Entering(user)' \subseteq Entering(user) \ {r} /\ r \in Entering(user)
        BY <1>7, <2>1
      <3>2. Within(J!ScrapesToday(user), Entering(user), Overlap(DailyLimit)) /\ Overlap(DailyLimit) \in Int
        BY <1>5, <1>6
      <3>3. Within(J!ScrapesToday(user) \cup {row}, Entering(user) \ {r}, Overlap(DailyLimit))
        BY <3>1, <3>2, WithinEntered
      <3> QED
        BY <2>3, <3>1, <3>2, <3>3, WithinFewer
    <2> QED
      BY <2>4, <2>5
  <1>9. CASE user # me
    <2>1. J!ActiveOf(user)' \subseteq J!ActiveOf(user)
      BY <1>3, <1>9 DEF J!ActiveOf, J!Of
    <2>2. J!ScrapesToday(user)' \subseteq J!ScrapesToday(user)
      BY <1>1, <1>3, <1>9 DEF J!ScrapesToday, J!Of, J!IsScrape
    <2>3. Counted(user)' \subseteq Counted(user) /\ Entering(user)' \subseteq Entering(user)
      BY <1>7
    <2> HIDE DEF me, row, Counted, Entering
    <2>4. Within(J!ActiveOf(user)', Counted(user)', Overlap(ActiveLimit))
      BY <1>5, <1>6, <2>1, <2>3, WithinFewer, Zenon
    <2>5. Within(J!ScrapesToday(user)', Entering(user)', Overlap(DailyLimit))
      BY <1>5, <1>6, <2>2, <2>3, WithinFewer, Zenon
    <2> QED
      BY <2>4, <2>5
  <1> QED
    BY <1>8, <1>9

LEMMA LimitsStep ==
    J!Configured /\ J!AdmissionTypeOK /\ LimitsCounted /\ [J!Next]_J!jvars => LimitsCounted'
  <1> SUFFICES ASSUME J!Configured, J!AdmissionTypeOK, LimitsCounted, [J!Next]_J!jvars
               PROVE  LimitsCounted'
    OBVIOUS
  <1> DEFINE rowsFall == \A user \in Clients : /\ J!ActiveOf(user)' \subseteq J!ActiveOf(user)
                                               /\ J!ScrapesToday(user)' \subseteq J!ScrapesToday(user)
             requestsFall == \A user \in Clients : /\ Counted(user)' \subseteq Counted(user)
                                                   /\ Entering(user)' \subseteq Entering(user)
  <1>1. rowsFall /\ requestsFall => LimitsCounted'
    BY LimitsQuiet
  <1>2. UNCHANGED <<jobs, window>> => rowsFall
    BY RowsStay
  <1>3. UNCHANGED submitting => requestsFall
    BY RequestsStay
  <1>4. CASE UNCHANGED J!jvars
    BY <1>1, <1>2, <1>3, <1>4 DEF J!jvars
  <1>5. ASSUME NEW r \in Submissions, NEW user \in People, NEW title \in Titles, J!Submit(r, user, title)
        PROVE  LimitsCounted'
    <2> DEFINE held == [pc |-> "active", user |-> user, title |-> title]
    <2>1. submitting' = [submitting EXCEPT ![r] = held] /\ UNCHANGED <<jobs, window>>
      BY <1>5 DEF J!Submit
    <2>2. held.pc = "active"
      OBVIOUS
    <2> HIDE DEF held
    <2>3. requestsFall
      BY <2>1, <2>2, CountedEnds, EnteringEnds
    <2> QED
      BY <1>1, <1>2, <2>1, <2>3
  <1>6. ASSUME NEW r \in Submissions, J!FindDuplicate(r) PROVE LimitsCounted'
    <2> DEFINE ok == J!RecentScrapes(submitting[r].title) = {}
    <2>1. J!Pass(r, "duplicate", "insert", ok)
      BY <1>6 DEF J!FindDuplicate
    <2> HIDE DEF ok
    <2>2. /\ submitting[r].pc = "duplicate" /\ submitting' = [submitting EXCEPT ![r] = submitting'[r]]
          /\ IF ok THEN submitting'[r].pc = "insert" /\ submitting'[r].user = submitting[r].user
                   ELSE submitting'[r].pc = "idle"
          /\ UNCHANGED <<jobs, window>>
      BY <2>1, Checked
    <2>3. requestsFall
      BY <2>2, CountedEnds, EnteringEnds
    <2> QED
      BY <1>1, <1>2, <2>2, <2>3
  <1>7. ASSUME NEW user \in Operators \cup {"system"}, NEW kind \in {"season", "backup"},
               J!Schedule(user, kind)
        PROVE  LimitsCounted'
    <2>1. user \in People \cup {"system"} /\ user \notin Clients
      BY DEF J!Configured, Clients
    <2>2. jobs' = Append(jobs, J!Row(user, kind, 0)) /\ UNCHANGED <<window, submitting>>
      BY <1>7 DEF J!Schedule
    <2>3. rowsFall
      BY <2>1, <2>2, RowOfOthers
    <2> QED
      BY <1>1, <1>3, <2>2, <2>3
  <1>8. CASE J!Take
    <2>1. PICK i \in {i \in DOMAIN jobs : jobs[i].status = "queued"} :
              jobs' = [jobs EXCEPT ![i].status = "running"]
      BY <1>8 DEF J!Take
    <2>2. UNCHANGED <<window, submitting>>
      BY <1>8 DEF J!Take
    <2>3. rowsFall
      BY <2>1, <2>2, RowsEnd DEF J!Active
    <2> QED
      BY <1>1, <1>3, <2>2, <2>3
  <1>9. ASSUME NEW i \in DOMAIN jobs, NEW entries \in SUBSET Titles, J!Sweep(i, entries)
        PROVE  LimitsCounted'
    <2>1. /\ \A j \in DOMAIN jobs : /\ j \in DOMAIN jobs' /\ jobs'[j].user = jobs[j].user
                                    /\ jobs'[j].title = jobs[j].title
                                    /\ j # i => jobs'[j] = jobs[j]
          /\ jobs'[i].status = "succeeded"
          /\ \A j \in DOMAIN jobs' \ DOMAIN jobs : jobs'[j].user = "system"
      BY <1>9, SweptRows
    <2>2. UNCHANGED <<window, submitting>> /\ "system" \notin Clients
      BY <1>9 DEF J!Sweep, J!Configured, Clients
    <2>3. rowsFall
      BY <2>1, <2>2 DEF J!ActiveOf, J!ScrapesToday, J!Of, J!IsScrape, J!Active
    <2> QED
      BY <1>1, <1>3, <2>2, <2>3
  <1>10. ASSUME NEW i \in DOMAIN jobs, J!Scrape(i) \/ J!EndBackup(i) PROVE LimitsCounted'
    <2>1. PICK status \in {"succeeded", "failed"} : jobs' = [jobs EXCEPT ![i].status = status]
      BY <1>10 DEF J!Scrape, J!EndBackup
    <2>2. jobs[i].status = "running" /\ UNCHANGED <<window, submitting>>
      BY <1>10 DEF J!Scrape, J!EndBackup
    <2>3. rowsFall
      BY <2>1, <2>2, RowsEnd DEF J!Active
    <2> QED
      BY <1>1, <1>3, <2>2, <2>3
  <1>11. CASE J!Age
    <2>1. UNCHANGED <<jobs, submitting>> /\ window' \in Nat /\ window' >= window
      BY <1>11 DEF J!Age, J!AdmissionTypeOK
    <2>2. DOMAIN jobs \subseteq Nat /\ window \in Nat
      BY DEF J!AdmissionTypeOK
    <2>3. rowsFall
      BY <2>1, <2>2 DEF J!ActiveOf, J!ScrapesToday, J!Of, J!IsScrape
    <2> QED
      BY <1>1, <1>3, <2>1, <2>3
  <1>12. ASSUME NEW root, J!OpenLog(root) PROVE LimitsCounted'
    BY <1>1, <1>2, <1>3, <1>12 DEF J!OpenLog
  <1>13. CASE J!ReadPage
    BY <1>1, <1>2, <1>3, <1>13 DEF J!ReadPage
  <1>14. J!Schedule("system", "season") \/ (\E user \in Operators : J!Schedule(user, "backup"))
         => LimitsCounted'
    BY <1>7
  <1> QED
    BY <1>4, <1>5, <1>6, <1>8, <1>9, <1>10, <1>11, <1>12, <1>13, <1>14,
       LimitsCountActive, LimitsCountToday, LimitsInsert, Zenon DEF J!Next

\* The rows, and what each request has been let through for, are of their types.
THEOREM AdmissionTypeCorrect == J!Spec => []J!AdmissionTypeOK
  <1>1. J!Init => J!AdmissionTypeOK
    BY AdmissionInit, UpkeepAssumption
  <1>2. J!AdmissionTypeOK /\ [J!Next]_J!jvars => J!AdmissionTypeOK'
    BY AdmissionStep, UpkeepAssumption
  <1> QED
    BY <1>1, <1>2, PTL DEF J!Spec

\* However the requests of one user overlap, and whatever the worker and a season sweep do
\* meanwhile: the caps on a queue and on a day are passed by no more than the requests
\* that can count before one of them inserts (enqueue_user_scrape).
THEOREM LimitsHold == J!Spec => []LimitsBounded
  <1>1. J!Init => J!AdmissionTypeOK /\ LimitsCounted
    BY AdmissionInit, LimitsInit, UpkeepAssumption
  <1>2. J!AdmissionTypeOK /\ LimitsCounted /\ [J!Next]_J!jvars => (J!AdmissionTypeOK /\ LimitsCounted)'
    BY AdmissionStep, LimitsStep, UpkeepAssumption
  <1>3. LimitsCounted => LimitsBounded
    BY CountedBounds, UpkeepAssumption DEF LimitsBounded
  <1> QED
    BY <1>1, <1>2, <1>3, PTL DEF J!Spec

-----------------------------------------------------------------------------
(* Admission: paging through the log *)

\* The newer rows push a row back: its place in the list only grows.
Place(rows, i) == Cardinality({j \in rows : j >= i})

ReaderFields == {"pc", "parent", "offset", "due", "read"}

\* What was there when the reader began and has not been read is behind the pages read.
Reading ==
    /\ reader.pc \in {"away", "reading", "done"} /\ reader.offset \in Nat
    /\ DOMAIN reader = ReaderFields
    /\ reader.pc # "away" => reader.due \subseteq J!Listed(reader.parent)
    /\ reader.pc = "reading" =>
         \A i \in reader.due \ reader.read : Place(J!Listed(reader.parent), i) > reader.offset

\* Rows are never removed and stay under their parents, and new ones come after.
LEMMA RowsOnlyAdded ==
    ASSUME J!Configured, J!AdmissionTypeOK, [J!Next]_J!jvars
    PROVE  \A i \in DOMAIN jobs : i \in DOMAIN jobs' /\ jobs'[i].parent = jobs[i].parent
  <1> DEFINE kept == \A i \in DOMAIN jobs : i \in DOMAIN jobs' /\ jobs'[i].parent = jobs[i].parent
  <1> SUFFICES kept
    OBVIOUS
  <1>1. jobs \in Seq(J!JobRow)
    BY DEF J!AdmissionTypeOK
  <1>2. ASSUME NEW row, jobs' = Append(jobs, row) PROVE kept
    BY <1>1, <1>2
  <1>3. ASSUME NEW i, NEW status, jobs' = [jobs EXCEPT ![i].status = status] PROVE kept
    <2>1. DOMAIN jobs' = DOMAIN jobs /\ \A j \in DOMAIN jobs : j # i => jobs'[j] = jobs[j]
      BY <1>1, <1>3
    <2>2. ASSUME i \in DOMAIN jobs PROVE jobs'[i].parent = jobs[i].parent
      <3>1. jobs'[i] = [jobs[i] EXCEPT !.status = status] /\ jobs[i] \in J!JobRow
        BY <1>1, <1>3, <2>2
      <3> QED
        BY <3>1 DEF J!JobRow
    <2> QED
      BY <2>1, <2>2
  <1>4. ASSUME NEW i \in DOMAIN jobs, NEW entries \in SUBSET Titles, J!Sweep(i, entries) PROVE kept
    <2> DEFINE ended == [jobs EXCEPT ![i].status = "succeeded"]
               fresh == entries \ saved
    <2>1. PICK drawn \in [1 .. J!Cardinality(fresh) -> fresh] :
            jobs' = ended \o [x \in DOMAIN drawn |-> J!Row("system", drawn[x], i)]
      BY <1>4 DEF J!Sweep
    <2> DEFINE flock == [x \in DOMAIN drawn |-> J!Row("system", drawn[x], i)]
    <2>2. IsFiniteSet(fresh) /\ J!Cardinality(fresh) \in Nat
      BY CountingJobs, FS_Subset, FS_CardinalityType DEF J!Configured
    <2>3. ended \in Seq(J!JobRow) /\ DOMAIN ended = DOMAIN jobs
      <3>1. jobs[i] \in J!JobRow
        BY <1>1
      <3>2. [jobs[i] EXCEPT !.status = "succeeded"] \in J!JobRow
        BY <3>1 DEF J!JobRow
      <3> QED
        BY <1>1, <3>2
    <2>4. \A j \in DOMAIN jobs : ended[j].parent = jobs[j].parent
      <3>1. \A j \in DOMAIN jobs : jobs[j] \in J!JobRow
        BY <1>1
      <3>2. \A j \in DOMAIN jobs : j # i => ended[j] = jobs[j]
        BY <1>1
      <3>3. ended[i] = [jobs[i] EXCEPT !.status = "succeeded"]
        BY <1>1
      <3> QED
        BY <3>1, <3>2, <3>3 DEF J!JobRow
    <2>5. flock \in Seq({J!Row("system", t, i) : t \in fresh})
      <3>1. DOMAIN flock = 1 .. J!Cardinality(fresh)
        OBVIOUS
      <3>2. \A x \in 1 .. J!Cardinality(fresh) : flock[x] \in {J!Row("system", t, i) : t \in fresh}
        OBVIOUS
      <3> DEFINE n == J!Cardinality(fresh)
                 flocks == {J!Row("system", t, i) : t \in fresh}
      <3>3. flock \in [1 .. n -> flocks] /\ n \in Nat
        BY <2>2, <3>1, <3>2
      <3> HIDE DEF flock, n, flocks
      <3>4. flock \in Seq(flocks)
        BY <3>3, SeqDef
      <3> QED
        BY <3>4 DEF flocks
    <2>6. jobs' = ended \o flock
      BY <2>1
    <2> HIDE DEF ended, flock
    <2>7. \A j \in DOMAIN ended : j \in DOMAIN jobs' /\ jobs'[j] = ended[j]
      BY <2>3, <2>5, <2>6
    <2> QED
      BY <2>3, <2>4, <2>7
  <1>5. ASSUME UNCHANGED jobs PROVE kept
    BY <1>5
  <1>6. ASSUME NEW r \in Submissions,
               \/ \E user \in People, title \in Titles : J!Submit(r, user, title)
               \/ J!CountActive(r) \/ J!CountToday(r) \/ J!FindDuplicate(r) \/ J!Insert(r)
        PROVE  kept
    BY <1>2, <1>5, <1>6, Zenon
       DEF J!Submit, J!CountActive, J!CountToday, J!FindDuplicate, J!Pass, J!Insert
  <1>7. ASSUME NEW user, NEW kind, J!Schedule(user, kind) PROVE kept
    BY <1>2, <1>7, Zenon DEF J!Schedule
  <1>8. CASE J!Take
    BY <1>3, <1>8, Zenon DEF J!Take
  <1>9. ASSUME NEW i \in DOMAIN jobs, J!Scrape(i) \/ J!EndBackup(i) PROVE kept
    BY <1>3, <1>9, Zenon DEF J!Scrape, J!EndBackup
  <1>10. ASSUME J!Age \/ J!ReadPage \/ (\E root \in 0 .. Len(jobs) : J!OpenLog(root)) PROVE kept
    BY <1>5, <1>10, Zenon DEF J!Age, J!ReadPage, J!OpenLog
  <1>11. J!Next => kept
    BY <1>4, <1>6, <1>7, <1>8, <1>9, <1>10, Zenon DEF J!Next
  <1> QED
    BY <1>5, <1>11, Zenon DEF J!jvars

LEMMA ListedFinite ==
    ASSUME J!AdmissionTypeOK, NEW root
    PROVE  /\ J!Listed(root) \subseteq Nat \ {0} /\ IsFiniteSet(J!Listed(root))
           /\ \A i : {j \in J!Listed(root) : j >= i} \subseteq J!Listed(root)
  <1>1. DOMAIN jobs = 1 .. Len(jobs) /\ Len(jobs) \in Nat
    BY DEF J!AdmissionTypeOK
  <1>2. IsFiniteSet(1 .. Len(jobs))
    BY <1>1, FS_Interval
  <1>3. J!Listed(root) \subseteq 1 .. Len(jobs)
    BY <1>1 DEF J!Listed
  <1> QED
    BY <1>2, <1>3, FS_Subset

\* The place of a row is its index in the newest first.
LEMMA PlaceIsIndex ==
    ASSUME NEW rows, IsFiniteSet(rows), rows \subseteq Nat, NEW i \in rows
    PROVE  /\ Place(rows, i) \in 1 .. Cardinality(rows)
           /\ J!Newest(rows)[Place(rows, i)] = i
  <1> DEFINE above(x) == {j \in rows : j >= x}
  <1>1. \A x : IsFiniteSet(above(x)) /\ Cardinality(above(x)) \in Nat
               /\ Cardinality(above(x)) <= Cardinality(rows)
    BY FS_Subset, FS_CardinalityType
  <1>2. Cardinality(rows) \in Nat
    BY FS_CardinalityType
  <1>3. i \in above(i)
    OBVIOUS
  <1>4. Cardinality(above(i)) # 0
    BY <1>1, <1>3, FS_EmptySet
  <1>5. Place(rows, i) = Cardinality(above(i))
    BY DEF Place
  <1>6. Place(rows, i) \in 1 .. Cardinality(rows)
    BY <1>1, <1>2, <1>4, <1>5
  <1>7. ASSUME NEW x \in rows, NEW y \in rows, x < y PROVE Cardinality(above(x)) # Cardinality(above(y))
    <2>1. above(y) \in SUBSET above(x) /\ x \in above(x) /\ x \notin above(y)
      <3>1. x \in Nat /\ y \in Nat /\ \A j \in rows : j \in Nat
        OBVIOUS
      <3>2. \A j \in rows : j >= y => j >= x
        BY <1>7, <3>1
      <3>3. x >= x /\ ~(x >= y)
        BY <1>7, <3>1
      <3> QED
        BY <3>2, <3>3
    <2> QED
      BY <1>1, <2>1, FS_Subset
  <1>8. ASSUME NEW x \in rows, Cardinality(above(x)) = Cardinality(above(i)) PROVE x = i
    <2>1. x \in Nat /\ i \in Nat
      OBVIOUS
    <2> QED
      BY <1>7, <1>8, <2>1
  <1>9. J!Newest(rows)[Place(rows, i)] = CHOOSE x \in rows : Cardinality(above(x)) = Place(rows, i)
    BY <1>6, CountingJobs DEF J!Newest
  <1> HIDE DEF above
  <1> QED
    BY <1>5, <1>6, <1>8, <1>9

\* Rows that are added push others back, and never forward.
LEMMA PlacesGrow ==
    ASSUME J!AdmissionTypeOK, J!AdmissionTypeOK', NEW root, NEW i,
           \A j \in DOMAIN jobs : j \in DOMAIN jobs' /\ jobs'[j].parent = jobs[j].parent
    PROVE  /\ J!Listed(root) \subseteq J!Listed(root)'
           /\ Place(J!Listed(root), i) \in Nat /\ Place(J!Listed(root)', i) \in Nat
           /\ Place(J!Listed(root), i) <= Place(J!Listed(root)', i)
  <1> DEFINE old == J!Listed(root)
             new == J!Listed(root)'
  <1>1. old \subseteq new
    BY DEF J!Listed
  <1>2. IsFiniteSet(old)
    BY ListedFinite
  <1>3. IsFiniteSet(new)
    <2>1. DOMAIN jobs' = 1 .. Len(jobs') /\ Len(jobs') \in Nat
      BY DEF J!AdmissionTypeOK
    <2>2. new \in SUBSET (1 .. Len(jobs'))
      BY <2>1 DEF J!Listed
    <2>3. IsFiniteSet(1 .. Len(jobs'))
      BY <2>1, FS_Interval
    <2> HIDE DEF new
    <2> QED
      BY <2>2, <2>3, FS_Subset
  <1> HIDE DEF old, new
  <1>4. {j \in old : j >= i} \in SUBSET {j \in new : j >= i} /\ {j \in new : j >= i} \in SUBSET new
    BY <1>1
  <1>5. IsFiniteSet({j \in new : j >= i})
    BY <1>3, <1>4, FS_Subset
  <1> QED
    BY <1>1, <1>4, <1>5, FS_Subset, FS_CardinalityType DEF Place, old, new

\* A page shows the rows whose places it covers, and a short one is the last.
LEMMA PageShows ==
    ASSUME J!Configured, J!AdmissionTypeOK, Reading, NoRowOverlooked, J!ReadPage
    PROVE  Reading' /\ NoRowOverlooked'
  <1> PICK root : root = reader.parent
    OBVIOUS
  <1> DEFINE rows == J!Listed(root)
             all == J!Newest(rows)
             page == {k \in DOMAIN all : reader.offset < k /\ k <= reader.offset + PageLimit}
             shown == {all[k] : k \in page}
  <1>1. /\ reader.pc = "reading" /\ DOMAIN reader = ReaderFields
        /\ reader.offset \in Nat /\ PageLimit \in Nat \ {0} /\ UNCHANGED jobs
    BY DEF J!ReadPage, Reading, J!Configured
  <1>2. reader' = [reader EXCEPT !.offset = reader.offset + PageLimit, !.read = reader.read \cup shown,
                                 !.pc = IF J!Cardinality(page) < PageLimit THEN "done" ELSE reader.pc]
    BY DEF J!ReadPage
  <1>3. /\ rows \subseteq Nat /\ IsFiniteSet(rows) /\ Cardinality(rows) \in Nat
    BY ListedFinite, FS_CardinalityType
  <1>4. DOMAIN all = 1 .. Cardinality(rows)
    BY CountingJobs DEF J!Newest
  <1>5. \A i \in rows : Place(rows, i) \in 1 .. Cardinality(rows) /\ all[Place(rows, i)] = i
    BY <1>3, PlaceIsIndex
  <1>6. reader.due \subseteq rows /\ \A i \in reader.due \ reader.read : Place(rows, i) > reader.offset
    BY <1>1 DEF Reading
  <1>7. J!Listed(reader.parent)' = rows
    <2>1. reader'.parent = root
      BY <1>1, <1>2 DEF ReaderFields
    <2> QED
      BY <1>1, <2>1 DEF J!Listed
  <1> HIDE DEF rows, all
  <1>8. /\ DOMAIN reader' = ReaderFields /\ reader'.due = reader.due /\ reader'.read = reader.read \cup shown
        /\ reader'.offset = reader.offset + PageLimit /\ reader'.offset \in Nat
        /\ reader'.pc = IF J!Cardinality(page) < PageLimit THEN "done" ELSE "reading"
    BY <1>1, <1>2 DEF ReaderFields
  <1>9. ASSUME NEW i \in reader.due, i \notin reader'.read
        PROVE  Place(rows, i) > reader.offset + PageLimit
    <2> DEFINE k == Place(rows, i)
    <2>1. k \in 1 .. Cardinality(rows) /\ all[k] = i /\ k > reader.offset
      BY <1>5, <1>6, <1>8, <1>9
    <2> HIDE DEF k
    <2>2. k \notin page
      BY <1>8, <1>9, <2>1
    <2> QED
      BY <1>1, <1>3, <1>4, <2>1, <2>2 DEF k
  <1>10. ASSUME NEW i \in reader.due, i \notin reader'.read PROVE J!Cardinality(page) >= PageLimit
    <2>1. Place(rows, i) \in 1 .. Cardinality(rows) /\ Place(rows, i) > reader.offset + PageLimit
      BY <1>5, <1>6, <1>9, <1>10
    <2>2. page = reader.offset + 1 .. reader.offset + PageLimit
      BY <1>1, <1>3, <1>4, <2>1
    <2> DEFINE from == reader.offset + 1
               to == reader.offset + PageLimit
    <2>3. from \in Int /\ to \in Int /\ to - from + 1 = PageLimit /\ ~(from > to)
      BY <1>1
    <2> HIDE DEF from, to, page
    <2>4. Cardinality(from .. to) = PageLimit
      BY <2>3, FS_Interval
    <2>5. Cardinality(page) = PageLimit
      BY <2>2, <2>4 DEF from, to
    <2> QED
      BY <1>1, <2>5, CountingJobs
  <1>11. NoRowOverlooked'
    <2> SUFFICES ASSUME reader'.pc = "done", NEW i \in reader'.due, i \notin reader'.read PROVE FALSE
      BY DEF NoRowOverlooked, J!NoRowOverlooked
    <2>1. i \in reader.due /\ J!Cardinality(page) < PageLimit
      BY <1>8
    <2>2. J!Cardinality(page) >= PageLimit
      BY <1>10, <2>1
    <2>3. J!Cardinality(page) \in Nat
      <3>1. page \in SUBSET (1 .. Cardinality(rows)) /\ IsFiniteSet(1 .. Cardinality(rows))
        BY <1>3, <1>4, FS_Interval
      <3>2. IsFiniteSet(page)
        BY <3>1, FS_Subset
      <3> QED
        BY <3>2, FS_CardinalityType, CountingJobs
    <2> QED
      BY <1>1, <2>1, <2>2, <2>3
  <1>12. Reading'
    <2> DEFINE now == J!Listed(reader.parent)'
    <2>1. now = rows
      BY <1>7
    <2>2. reader'.pc \in {"away", "reading", "done"} /\ reader'.due \subseteq now
      BY <1>6, <1>8, <2>1
    <2>3. \A i \in reader'.due \ reader'.read : Place(now, i) > reader'.offset
      BY <1>8, <1>9, <2>1
    <2> HIDE DEF now
    <2> QED
      BY <1>8, <2>2, <2>3 DEF Reading, now
  <1> QED
    BY <1>11, <1>12

LEMMA ReadingStep ==
    ASSUME J!Configured, J!AdmissionTypeOK, J!AdmissionTypeOK', Reading, NoRowOverlooked, [J!Next]_J!jvars
    PROVE  Reading' /\ NoRowOverlooked'
  <1>1. CASE J!ReadPage
    BY <1>1, PageShows
  <1>2. ASSUME NEW root, J!OpenLog(root) PROVE Reading' /\ NoRowOverlooked'
    <2>1. /\ reader' = [pc |-> "reading", parent |-> root, offset |-> 0, due |-> J!Listed(root), read |-> {}]
          /\ UNCHANGED jobs
      BY <1>2 DEF J!OpenLog
    <2>2. /\ DOMAIN reader' = ReaderFields /\ reader'.pc = "reading" /\ reader'.offset = 0
          /\ reader'.parent = root /\ reader'.due = J!Listed(root)
      BY <2>1 DEF ReaderFields
    <2>3. J!Listed(root)' = J!Listed(root)
      BY <2>1 DEF J!Listed
    <2>4. \A i \in J!Listed(root) : Place(J!Listed(root), i) > 0
      BY ListedFinite, PlaceIsIndex, FS_CardinalityType
    <2> QED
      BY <2>2, <2>3, <2>4 DEF Reading, NoRowOverlooked, J!NoRowOverlooked
  <1>3. CASE UNCHANGED reader
    <2>1. \A i \in DOMAIN jobs : i \in DOMAIN jobs' /\ jobs'[i].parent = jobs[i].parent
      BY RowsOnlyAdded
    <2> PICK root : root = reader.parent
      OBVIOUS
    <2> DEFINE old == J!Listed(root)
               new == J!Listed(root)'
    <2>2. \A i : /\ old \subseteq new /\ Place(old, i) \in Nat /\ Place(new, i) \in Nat
                 /\ Place(old, i) <= Place(new, i)
      BY <1>3, <2>1, PlacesGrow
    <2>3. new = J!Listed(reader.parent)' /\ old = J!Listed(reader.parent)
      BY <1>3 DEF J!Listed
    <2> HIDE DEF old, new
    <2>4. reader.offset \in Nat
      BY DEF Reading
    <2>5. reader.pc # "away" => reader.due \subseteq new
      BY <2>2, <2>3 DEF Reading
    <2>6. reader.pc = "reading" => \A i \in reader.due \ reader.read : Place(new, i) > reader.offset
      BY <2>2, <2>3, <2>4 DEF Reading
    <2>7. Reading'
      BY <1>3, <2>3, <2>5, <2>6 DEF Reading
    <2> QED
      BY <1>3, <2>7 DEF NoRowOverlooked, J!NoRowOverlooked
  <1>4. J!Next => J!ReadPage \/ (\E root \in 0 .. Len(jobs) : J!OpenLog(root)) \/ UNCHANGED reader
    BY DEF J!Next, J!Submit, J!CountActive, J!CountToday, J!FindDuplicate, J!Pass, J!Insert, J!Schedule,
           J!Take, J!Age, J!Scrape, J!EndBackup, J!Sweep
  <1> QED
    BY <1>1, <1>2, <1>3, <1>4, Zenon DEF J!jvars

\* Whatever is enqueued, taken or ended while an administrator pages by offset through the
\* newest rows first, whole flocks at once: a row that was there is on one of the pages.
THEOREM LogShowsAll == J!Spec => []NoRowOverlooked
  <1>1. J!Init => J!AdmissionTypeOK /\ Reading /\ NoRowOverlooked
    <2>1. J!Init => Reading /\ NoRowOverlooked
      BY DEF J!Init, Reading, ReaderFields, NoRowOverlooked, J!NoRowOverlooked
    <2> QED
      BY <2>1, AdmissionInit, UpkeepAssumption
  <1>2. J!AdmissionTypeOK /\ Reading /\ NoRowOverlooked /\ [J!Next]_J!jvars =>
            (J!AdmissionTypeOK /\ Reading /\ NoRowOverlooked)'
    BY AdmissionStep, ReadingStep, UpkeepAssumption
  <1> QED
    BY <1>1, <1>2, PTL DEF J!Spec

-----------------------------------------------------------------------------
(* Vectors: the invariant *)

Busy(w) == txn[w].pc # "idle"

\* Only requests change documents, and of a document whose changes have not overlapped
\* the one that is under way has read the text there is, unless it has been deleted.
WritersRead == \A w \in Writers : Busy(w) =>
    /\ pass \in {"serving", "reembed"}
    /\ txn[w].old \notin {V!Nil, V!Gone} /\ txn[w].new # V!Nil
    /\ txn[w].doc \notin crossed => text[txn[w].doc] \in {txn[w].old, V!Gone}

SoleWriters == \A w, o \in Writers :
    w # o /\ Busy(w) /\ Busy(o) /\ txn[w].doc = txn[o].doc => txn[w].doc \in crossed

\* A pass of a start finds the texts it has read; the re-embedding may find a document
\* changed, which then counts as crossed, or deleted.
PassRead ==
    /\ pass \in {"down", "serving"} => todo = {} /\ batch = <<>>
    /\ pass \in {"strip", "fill"} => texts = text
    /\ \A d \in todo : texts[d] # V!Nil /\ (pass = "strip" => texts[d].names = 1)
    /\ \A d \in DOMAIN batch :
         /\ batch[d][2] # V!Nil
         /\ IF pass = "strip" THEN batch[d][1] = batch[d][2] ELSE batch[d][2] = texts[d]
    /\ pass = "reembed" => \A d \in todo \cup DOMAIN batch :
         /\ V!Writing(d) # {} => d \in crossed
         /\ d \notin crossed => text[d] \in {texts[d], V!Gone}

VectorsInv == WritersRead /\ SoleWriters /\ PassRead

-----------------------------------------------------------------------------
(* Vectors: types *)

LEMMA Texts ==
    /\ DOMAIN V!Nil = {"names", "description"}
    /\ V!Nil \in V!Text /\ V!Gone \in V!Text /\ V!Nil # V!Gone
    /\ [names |-> 1, description |-> 1] \in V!Text
    /\ [names |-> 1, description |-> 1] \notin {V!Nil, V!Gone}
  BY DEF V!Nil, V!Gone, V!Text

LEMMA StrippedText ==
    ASSUME NEW t \in V!Text
    PROVE  V!Stripped(t) \in V!Text /\ (t.names = 1 => V!Stripped(t) # V!Nil)
  BY DEF V!Stripped, V!Text, V!Nil

LEMMA ChangedText ==
    ASSUME NEW t \in V!Text, NEW n \in Nat, NEW part \in DOMAIN V!Nil
    PROVE  [t EXCEPT ![part] = n + 2] \in V!Text /\ [t EXCEPT ![part] = n + 2] # V!Nil
  BY DEF V!Text, V!Nil

\* The columns that differ from what was read are written over those there are.
Merged(t, old, new) == [p \in DOMAIN V!Nil |-> IF new[p] # old[p] THEN new[p] ELSE t[p]]

LEMMA MergedText ==
    ASSUME NEW t \in V!Text, NEW old \in V!Text, NEW new \in V!Text
    PROVE  Merged(t, old, new) \in V!Text /\ (t = old => Merged(t, old, new) = new)
  BY DEF Merged, V!Text, V!Nil

TxnType == [pc : {"idle", "encode", "replace", "waiting", "replaced"},
            doc : Documents, old : V!Text, new : V!Text]

LEMMA NoTxnType == V!Configured => V!NoTxn \in TxnType /\ V!NoTxn.pc = "idle"
  <1> SUFFICES ASSUME V!Configured PROVE V!NoTxn \in TxnType /\ V!NoTxn.pc = "idle"
    OBVIOUS
  <1>1. (CHOOSE d \in Documents : TRUE) \in Documents
    BY DEF V!Configured
  <1> QED
    BY <1>1, Texts DEF V!NoTxn, TxnType

\* Where a transaction stands, and nothing else of it, changes; or it ends.
LEMMA TxnMoved ==
    ASSUME V!Configured, V!VectorsTypeOK, NEW w \in Writers,
           NEW pc \in {"idle", "encode", "replace", "waiting", "replaced"}, V!Move(w, pc)
    PROVE  /\ txn' \in [Writers -> TxnType]
           /\ txn'[w].pc = pc /\ txn'[w].doc = txn[w].doc
           /\ txn'[w].old = txn[w].old /\ txn'[w].new = txn[w].new
           /\ \A o \in Writers \ {w} : txn'[o] = txn[o]
  <1>1. txn \in [Writers -> TxnType]
    BY DEF V!VectorsTypeOK, TxnType
  <1> QED
    BY <1>1 DEF V!Move, TxnType

LEMMA TxnEnded ==
    ASSUME V!Configured, V!VectorsTypeOK, NEW w \in Writers, V!Quit(w)
    PROVE  /\ txn' \in [Writers -> TxnType] /\ txn'[w].pc = "idle"
           /\ \A o \in Writers \ {w} : txn'[o] = txn[o]
  <1>1. txn \in [Writers -> TxnType]
    BY DEF V!VectorsTypeOK, TxnType
  <1> QED
    BY <1>1, NoTxnType DEF V!Quit

\* A document's text and vector, written beside what the batch already holds.
LEMMA Batched ==
    ASSUME V!VectorsTypeOK, NEW d \in Documents, NEW t \in V!Text, NEW v \in V!Text, V!Write(d, t, v)
    PROVE  /\ DOMAIN batch' = DOMAIN batch \cup {d} /\ DOMAIN batch' \subseteq Documents
           /\ batch' \in [DOMAIN batch' -> V!Text \X V!Text]
           /\ batch'[d] = <<t, v>> /\ \A x \in DOMAIN batch \ {d} : batch'[x] = batch[x]
  BY DEF V!Write, V!VectorsTypeOK

LEMMA EmptyBatch == DOMAIN <<>> = {} /\ <<>> \in [DOMAIN <<>> -> V!Text \X V!Text]
  OBVIOUS

\* The batch goes to the tables, its texts only where names were stripped.
LEMMA FlushedTables ==
    ASSUME V!VectorsTypeOK, V!Flushed
    PROVE  /\ text' \in [Documents -> V!Text] /\ vector' \in [Documents -> V!Text] /\ batch' = <<>>
           /\ \A d \in Documents :
                /\ text'[d] = IF d \in DOMAIN batch /\ pass = "strip" THEN batch[d][1] ELSE text[d]
                /\ vector'[d] = IF d \in DOMAIN batch THEN batch[d][2] ELSE vector[d]
  BY DEF V!Flushed, V!VectorsTypeOK

LEMMA VectorsInit == V!Configured /\ V!Init => V!VectorsTypeOK /\ VectorsInv
  <1> SUFFICES ASSUME V!Configured, V!Init PROVE V!VectorsTypeOK /\ VectorsInv
    OBVIOUS
  <1>1. txn \in [Writers -> TxnType] /\ \A w \in Writers : txn[w].pc = "idle"
    BY NoTxnType DEF V!Init
  <1>2. V!VectorsTypeOK
    BY <1>1, Texts, EmptyBatch DEF V!Init, V!VectorsTypeOK, TxnType
  <1>3. WritersRead /\ SoleWriters
    BY <1>1 DEF WritersRead, SoleWriters, Busy
  <1>4. PassRead
    BY EmptyBatch DEF V!Init, PassRead
  <1> QED
    BY <1>2, <1>3, <1>4 DEF VectorsInv

LEMMA VectorsTypeStep == V!Configured /\ V!VectorsTypeOK /\ [V!Next]_V!vvars => V!VectorsTypeOK'
  <1> SUFFICES ASSUME V!Configured, V!VectorsTypeOK, [V!Next]_V!vvars PROVE V!VectorsTypeOK'
    OBVIOUS
  <1>0. /\ text \in [Documents -> V!Text] /\ vector \in [Documents -> V!Text]
        /\ texts \in [Documents -> V!Text] /\ txn \in [Writers -> TxnType] /\ changes \in Nat
        /\ DOMAIN batch \subseteq Documents /\ batch \in [DOMAIN batch -> V!Text \X V!Text]
        /\ crossed \subseteq Documents /\ todo \subseteq Documents
    BY DEF V!VectorsTypeOK, TxnType
  <1>1. CASE UNCHANGED V!vvars
    BY <1>1 DEF V!VectorsTypeOK, V!vvars
  <1>2. ASSUME NEW d \in Documents, V!Save(d) PROVE V!VectorsTypeOK'
    BY <1>2, Texts DEF V!Save, V!VectorsTypeOK
  <1>3. ASSUME NEW d \in Documents, V!Delete(d) PROVE V!VectorsTypeOK'
    BY <1>3, Texts DEF V!Delete, V!VectorsTypeOK
  <1>4. ASSUME NEW d \in Documents, NEW w \in Writers, NEW part \in DOMAIN V!Nil, V!Change(w, d, part)
        PROVE  V!VectorsTypeOK'
    <2> DEFINE new == [text[d] EXCEPT ![part] = changes + 2]
               held == [pc |-> "encode", doc |-> d, old |-> text[d], new |-> new]
    <2>1. txn' = [txn EXCEPT ![w] = held]
      BY <1>4 DEF V!Change
    <2>2. text[d] \in V!Text /\ new \in V!Text
      BY <1>0, ChangedText
    <2> HIDE DEF new
    <2>3. held \in TxnType
      BY <2>2 DEF TxnType
    <2> HIDE DEF held
    <2>4. txn' \in [Writers -> TxnType]
      BY <1>0, <2>1, <2>3
    <2>5. crossed' \subseteq Documents /\ changes' \in Nat
          /\ UNCHANGED <<text, vector, pass, todo, texts, batch>>
      BY <1>0, <1>4 DEF V!Change
    <2> QED
      BY <2>4, <2>5 DEF V!VectorsTypeOK, TxnType
  <1>5. ASSUME NEW w \in Writers, V!Encode(w) \/ V!Replace(w) PROVE V!VectorsTypeOK'
    <2>1. txn' \in [Writers -> TxnType]
      BY <1>5, TxnMoved, TxnEnded DEF V!Encode, V!Replace
    <2>2. UNCHANGED <<text, vector, changes, crossed, pass, todo, texts, batch>>
      BY <1>5 DEF V!Encode, V!Replace
    <2> QED
      BY <2>1, <2>2 DEF V!VectorsTypeOK, TxnType
  <1>6. ASSUME NEW w \in Writers, V!Commit(w) PROVE V!VectorsTypeOK'
    <2>1. txn' \in [Writers -> TxnType]
      BY <1>6, TxnEnded DEF V!Commit
    <2>2. UNCHANGED <<changes, crossed, pass, todo, texts, batch>>
      BY <1>6 DEF V!Commit
    <2>3. txn[w] \in TxnType /\ txn[w].doc \in Documents /\ txn[w].old \in V!Text /\ txn[w].new \in V!Text
      BY <1>0 DEF TxnType
    <2>4. \/ UNCHANGED <<text, vector>>
          \/ /\ text' = [text EXCEPT ![txn[w].doc] = Merged(text[txn[w].doc], txn[w].old, txn[w].new)]
             /\ vector' = [vector EXCEPT ![txn[w].doc] = txn[w].new]
      BY <1>0, <1>6, <2>3 DEF V!Commit, Merged
    <2>5. text' \in [Documents -> V!Text] /\ vector' \in [Documents -> V!Text]
      BY <1>0, <2>3, <2>4, MergedText
    <2> QED
      BY <2>1, <2>2, <2>5 DEF V!VectorsTypeOK, TxnType
  <1>7. ASSUME NEW d \in Documents, V!StripTitle(d) PROVE V!VectorsTypeOK'
    <2>1. V!Stripped(texts[d]) \in V!Text
      BY <1>0, StrippedText
    <2>2. DOMAIN batch' \subseteq Documents /\ batch' \in [DOMAIN batch' -> V!Text \X V!Text]
      BY <1>0, <1>7, <2>1, Batched DEF V!StripTitle
    <2> QED
      BY <1>7, <2>2 DEF V!StripTitle, V!Does, V!PassUnchanged, V!VectorsTypeOK
  <1>8. ASSUME NEW d \in Documents, V!FillVector(d) PROVE V!VectorsTypeOK'
    <2>1. texts[d] \in V!Text
      BY <1>0
    <2>2. DOMAIN batch' \subseteq Documents /\ batch' \in [DOMAIN batch' -> V!Text \X V!Text]
      BY <1>0, <1>8, <2>1, Batched DEF V!FillVector
    <2> QED
      BY <1>8, <2>2 DEF V!FillVector, V!Does, V!PassUnchanged, V!VectorsTypeOK
  <1>9. ASSUME NEW d \in Documents, V!Reembed(d) PROVE V!VectorsTypeOK'
    <2>1. texts[d] \in V!Text
      BY <1>0
    <2>2. DOMAIN batch' \subseteq Documents /\ batch' \in [DOMAIN batch' -> V!Text \X V!Text]
      BY <1>9, <2>1, Batched DEF V!Reembed
    <2> QED
      BY <1>9, <2>2 DEF V!Reembed, V!PassUnchanged, V!VectorsTypeOK
  <1>10. CASE V!Start
    BY <1>0, <1>10 DEF V!Start, V!VectorsTypeOK, V!Saved
  <1>11. CASE V!EndPass
    <2>1. text' \in [Documents -> V!Text] /\ vector' \in [Documents -> V!Text] /\ batch' = <<>>
      BY <1>11, FlushedTables DEF V!EndPass
    <2>2. /\ texts' = text' /\ todo' \subseteq Documents /\ pass' \in {"fill", "serving"}
          /\ UNCHANGED <<txn, changes, crossed>>
      BY <1>11 DEF V!EndPass, V!Saved
    <2> QED
      BY <1>0, <2>1, <2>2, EmptyBatch DEF V!VectorsTypeOK, TxnType
  <1>12. CASE V!StartReembed
    BY <1>0, <1>12 DEF V!StartReembed, V!VectorsTypeOK, V!Saved
  <1>13. CASE V!CommitBatch
    <2>1. text' \in [Documents -> V!Text] /\ vector' \in [Documents -> V!Text] /\ batch' = <<>>
      BY <1>13, FlushedTables DEF V!CommitBatch
    <2>2. /\ texts' \in [Documents -> V!Text] /\ pass' \in {"reembed", "serving"}
          /\ UNCHANGED <<txn, changes, crossed, todo>>
      BY <1>0, <1>13, Texts DEF V!CommitBatch
    <2> QED
      BY <1>0, <2>1, <2>2, EmptyBatch DEF V!VectorsTypeOK, TxnType
  <1>14. CASE V!ReembedFails
    BY <1>0, <1>14, Texts, EmptyBatch DEF V!ReembedFails, V!VectorsTypeOK
  <1>15. CASE V!Crash
    <2>1. txn' \in [Writers -> TxnType]
      BY <1>15, NoTxnType DEF V!Crash
    <2> QED
      BY <1>0, <1>15, <2>1, Texts, EmptyBatch DEF V!Crash, V!VectorsTypeOK, TxnType
  <1> QED
    BY <1>1, <1>2, <1>3, <1>4, <1>5, <1>6, <1>7, <1>8, <1>9, <1>10, <1>11, <1>12, <1>13, <1>14, <1>15,
       Zenon DEF V!Next

-----------------------------------------------------------------------------
(* Vectors: the invariant is kept *)

\* Transactions go on or end, and nothing else changes.
LEMMA WritersFall ==
    ASSUME V!VectorsTypeOK, VectorsInv, UNCHANGED <<text, crossed, pass, todo, texts, batch>>,
           \A w \in Writers : Busy(w)' => /\ Busy(w) /\ txn'[w].doc = txn[w].doc
                                          /\ txn'[w].old = txn[w].old /\ txn'[w].new = txn[w].new
    PROVE  VectorsInv'
  <1>1. WritersRead'
    BY DEF VectorsInv, WritersRead
  <1>2. SoleWriters'
    BY DEF VectorsInv, SoleWriters
  <1>3. \A d : V!Writing(d)' \subseteq V!Writing(d)
    BY DEF V!Writing, Busy
  <1>4. PassRead'
    BY <1>3 DEF VectorsInv, PassRead
  <1> QED
    BY <1>1, <1>2, <1>4 DEF VectorsInv

\* The passes go on while texts and transactions stay as they are.
LEMMA WritersStay ==
    ASSUME VectorsInv, UNCHANGED <<text, txn, crossed>>,
           pass' = pass \/ ({pass, pass'} \subseteq {"serving", "reembed"})
           \/ \A w \in Writers : ~Busy(w)
    PROVE  WritersRead' /\ SoleWriters'
  BY DEF VectorsInv, WritersRead, SoleWriters, Busy

LEMMA SaveKeeps ==
    ASSUME V!Configured, V!VectorsTypeOK, VectorsInv, NEW d \in Documents, V!Save(d)
    PROVE  VectorsInv'
  <1>1. /\ pass \in {"serving", "reembed"} /\ text[d] = V!Nil
        /\ \A x \in Documents \ {d} : text'[x] = text[x]
        /\ UNCHANGED <<txn, crossed, pass, todo, texts, batch>>
    BY DEF V!Save, V!VectorsTypeOK
  <1>2. \A w \in Writers : txn[w].doc \in Documents
    BY DEF V!VectorsTypeOK
  <1>3. V!Nil # V!Gone
    BY Texts
  <1>4. WritersRead'
    BY <1>1, <1>2, <1>3 DEF VectorsInv, WritersRead, Busy
  <1>5. SoleWriters'
    BY <1>1 DEF VectorsInv, SoleWriters, Busy
  <1>6. \A x : V!Writing(x)' = V!Writing(x)
    BY <1>1 DEF V!Writing
  <1>7. todo \subseteq Documents /\ DOMAIN batch \subseteq Documents
    BY DEF V!VectorsTypeOK
  <1>8. PassRead'
    BY <1>1, <1>3, <1>6, <1>7 DEF VectorsInv, PassRead
  <1> QED
    BY <1>4, <1>5, <1>8 DEF VectorsInv

LEMMA DeleteKeeps ==
    ASSUME V!Configured, V!VectorsTypeOK, VectorsInv, NEW d \in Documents, V!Delete(d)
    PROVE  VectorsInv'
  <1>1. /\ pass \in {"serving", "reembed"} /\ text'[d] = V!Gone
        /\ \A x \in Documents \ {d} : text'[x] = text[x]
        /\ UNCHANGED <<txn, crossed, pass, todo, texts, batch>>
    BY DEF V!Delete, V!VectorsTypeOK
  <1>2. \A w \in Writers : txn[w].doc \in Documents
    BY DEF V!VectorsTypeOK
  <1>4. WritersRead'
    BY <1>1, <1>2 DEF VectorsInv, WritersRead, Busy
  <1>5. SoleWriters'
    BY <1>1 DEF VectorsInv, SoleWriters, Busy
  <1>6. \A x : V!Writing(x)' = V!Writing(x)
    BY <1>1 DEF V!Writing
  <1>7. todo \subseteq Documents /\ DOMAIN batch \subseteq Documents
    BY DEF V!VectorsTypeOK
  <1>8. PassRead'
    BY <1>1, <1>6, <1>7 DEF VectorsInv, PassRead
  <1> QED
    BY <1>4, <1>5, <1>8 DEF VectorsInv

LEMMA ChangeKeeps ==
    ASSUME V!Configured, V!VectorsTypeOK, VectorsInv, NEW w \in Writers, NEW d \in Documents,
           NEW part \in DOMAIN V!Nil, V!Change(w, d, part)
    PROVE  VectorsInv'
  <1> DEFINE new == [text[d] EXCEPT ![part] = changes + 2]
             held == [pc |-> "encode", doc |-> d, old |-> text[d], new |-> new]
  <1>1. new # V!Nil
    BY ChangedText DEF V!VectorsTypeOK
  <1>2. /\ pass \in {"serving", "reembed"} /\ txn[w].pc = "idle" /\ text[d] \notin {V!Nil, V!Gone}
        /\ txn' = [txn EXCEPT ![w] = held]
        /\ crossed' = IF V!Crossing(d) THEN crossed \cup {d} ELSE crossed
        /\ UNCHANGED <<text, pass, todo, texts, batch>>
    BY DEF V!Change, V!Saved
  <1>3. held.pc = "encode" /\ held.doc = d /\ held.old = text[d] /\ held.new # V!Nil
    BY <1>1
  <1> HIDE DEF new, held
  <1>4. txn'[w] = held /\ \A o \in Writers \ {w} : txn'[o] = txn[o]
    BY <1>2 DEF V!VectorsTypeOK
  <1>5. crossed \subseteq crossed' /\ (V!Crossing(d) => d \in crossed')
    BY <1>2
  <1>6. WritersRead'
    BY <1>2, <1>3, <1>4, <1>5 DEF VectorsInv, WritersRead, Busy
  <1>7. \A o \in Writers \ {w} : Busy(o) /\ txn[o].doc = d => d \in crossed'
    BY <1>5 DEF V!Crossing, V!Writing, Busy
  <1>8. SoleWriters'
    BY <1>3, <1>4, <1>5, <1>7 DEF VectorsInv, SoleWriters, Busy
  <1>9. \A x : x # d => V!Writing(x)' \subseteq V!Writing(x)
    BY <1>3, <1>4 DEF V!Writing
  <1>10. pass = "reembed" /\ d \in todo \cup DOMAIN batch => d \in crossed'
    BY <1>5 DEF V!Crossing
  <1>11. PassRead'
    BY <1>2, <1>5, <1>9, <1>10 DEF VectorsInv, PassRead
  <1> QED
    BY <1>6, <1>8, <1>11 DEF VectorsInv

\* What a commit writes, to the one document.
LEMMA Committed ==
    ASSUME V!Configured, V!VectorsTypeOK, NEW w \in Writers, V!Commit(w)
    PROVE  /\ txn[w].doc \in Documents /\ txn[w].old \in V!Text /\ txn[w].new \in V!Text
           /\ text[txn[w].doc] \in V!Text
           /\ Busy(w) /\ txn'[w].pc = "idle" /\ \A o \in Writers \ {w} : txn'[o] = txn[o]
           /\ \/ UNCHANGED <<text, vector>>
              \/ /\ text[txn[w].doc] \notin {V!Nil, V!Gone}
                 /\ text' = [text EXCEPT ![txn[w].doc] = Merged(text[txn[w].doc], txn[w].old, txn[w].new)]
                 /\ vector' = [vector EXCEPT ![txn[w].doc] = txn[w].new]
           /\ UNCHANGED <<changes, crossed, pass, todo, texts, batch>>
  <1>1. txn[w].doc \in Documents /\ txn[w].old \in V!Text /\ txn[w].new \in V!Text
        /\ text[txn[w].doc] \in V!Text
    BY DEF V!VectorsTypeOK
  <1>2. txn'[w].pc = "idle" /\ \A o \in Writers \ {w} : txn'[o] = txn[o]
    BY TxnEnded DEF V!Commit
  <1>3. Busy(w) /\ UNCHANGED <<changes, crossed, pass, todo, texts, batch>>
    BY DEF V!Commit, Busy
  <1>4. \/ UNCHANGED <<text, vector>>
        \/ /\ text[txn[w].doc] \notin {V!Nil, V!Gone}
           /\ text' = [text EXCEPT ![txn[w].doc] = Merged(text[txn[w].doc], txn[w].old, txn[w].new)]
           /\ vector' = [vector EXCEPT ![txn[w].doc] = txn[w].new]
    BY <1>1 DEF V!Commit, V!Saved, V!VectorsTypeOK, Merged
  <1> QED
    BY <1>1, <1>2, <1>3, <1>4

LEMMA CommitKeeps ==
    ASSUME V!Configured, V!VectorsTypeOK, VectorsInv, NEW w \in Writers, V!Commit(w)
    PROVE  VectorsInv'
  <1> DEFINE d == txn[w].doc
  <1>1. /\ Busy(w) /\ txn'[w].pc = "idle" /\ \A o \in Writers \ {w} : txn'[o] = txn[o]
        /\ UNCHANGED <<crossed, pass, todo, texts, batch>>
    BY Committed
  <1>2. \A x \in Documents \ {d} : text'[x] = text[x]
    BY Committed DEF V!VectorsTypeOK
  <1>3. \A o \in Writers : txn[o].doc \in Documents
    BY DEF V!VectorsTypeOK
  <1>4. pass \in {"serving", "reembed"}
    BY <1>1 DEF VectorsInv, WritersRead
  <1>5. \A o \in Writers \ {w} : Busy(o) /\ txn[o].doc = d => d \in crossed
    BY <1>1 DEF VectorsInv, SoleWriters
  <1>6. w \in V!Writing(d)
    BY <1>1 DEF V!Writing, Busy
  <1>7. pass = "reembed" /\ d \in todo \cup DOMAIN batch => d \in crossed
    BY <1>6 DEF VectorsInv, PassRead
  <1> HIDE DEF d
  <1>8. WritersRead'
    BY <1>1, <1>2, <1>3, <1>5 DEF VectorsInv, WritersRead, Busy
  <1>9. SoleWriters'
    BY <1>1 DEF VectorsInv, SoleWriters, Busy
  <1>10. \A x : V!Writing(x)' \subseteq V!Writing(x)
    BY <1>1 DEF V!Writing
  <1>11. todo \subseteq Documents /\ DOMAIN batch \subseteq Documents
    BY DEF V!VectorsTypeOK
  <1>12. PassRead'
    BY <1>1, <1>2, <1>4, <1>7, <1>10, <1>11 DEF VectorsInv, PassRead
  <1> QED
    BY <1>8, <1>9, <1>12 DEF VectorsInv

\* A pass takes its next document.
LEMMA PassKeeps ==
    ASSUME V!Configured, V!VectorsTypeOK, VectorsInv, NEW d \in Documents,
           V!StripTitle(d) \/ V!FillVector(d) \/ V!Reembed(d)
    PROVE  VectorsInv'
  <1>1. /\ pass \in {"strip", "fill", "reembed"} /\ d \in todo /\ todo' = todo \ {d}
        /\ UNCHANGED <<text, txn, crossed, pass, texts>>
    BY DEF V!StripTitle, V!FillVector, V!Reembed, V!Does, V!PassUnchanged
  <1>2. WritersRead' /\ SoleWriters'
    BY <1>1, WritersStay
  <1>3. texts[d] # V!Nil /\ texts[d] \in V!Text /\ (pass = "strip" => texts[d].names = 1)
    BY <1>1 DEF VectorsInv, PassRead, V!VectorsTypeOK
  <1>4. V!Stripped(texts[d]) \in V!Text /\ (pass = "strip" => V!Stripped(texts[d]) # V!Nil)
    BY <1>3, StrippedText
  <1>5. \/ UNCHANGED batch /\ pass # "reembed"
        \/ V!Write(d, V!Stripped(texts[d]), V!Stripped(texts[d])) /\ pass = "strip"
        \/ V!Write(d, texts[d], texts[d]) /\ pass # "strip"
    BY DEF V!StripTitle, V!FillVector, V!Reembed, V!Does
  <1>6. \A x : V!Writing(x)' = V!Writing(x)
    BY <1>1 DEF V!Writing
  <1>7. CASE UNCHANGED batch /\ pass # "reembed"
    <2>1. PassRead'
      BY <1>1, <1>7 DEF VectorsInv, PassRead
    <2> QED
      BY <1>2, <2>1 DEF VectorsInv
  <1>8. CASE \/ V!Write(d, V!Stripped(texts[d]), V!Stripped(texts[d])) /\ pass = "strip"
             \/ V!Write(d, texts[d], texts[d]) /\ pass # "strip"
    <2>1. /\ DOMAIN batch' = DOMAIN batch \cup {d} /\ \A x \in DOMAIN batch \ {d} : batch'[x] = batch[x]
          /\ batch'[d][2] # V!Nil
          /\ IF pass = "strip" THEN batch'[d][1] = batch'[d][2] ELSE batch'[d][2] = texts[d]
      BY <1>3, <1>4, <1>8, Batched
    <2>2. \A x \in DOMAIN batch' :
            /\ batch'[x][2] # V!Nil
            /\ IF pass = "strip" THEN batch'[x][1] = batch'[x][2] ELSE batch'[x][2] = texts[x]
      BY <2>1 DEF VectorsInv, PassRead
    <2>3. todo' \cup DOMAIN batch' \subseteq todo \cup DOMAIN batch
      BY <1>1, <2>1
    <2>4. PassRead'
      BY <1>1, <1>6, <2>2, <2>3 DEF VectorsInv, PassRead
    <2> QED
      BY <1>2, <2>4 DEF VectorsInv
  <1> QED
    BY <1>5, <1>7, <1>8

LEMMA StartKeeps == V!Configured /\ V!VectorsTypeOK /\ VectorsInv /\ V!Start => VectorsInv'
  <1> SUFFICES ASSUME V!VectorsTypeOK, VectorsInv, V!Start PROVE VectorsInv'
    OBVIOUS
  <1>1. /\ pass = "down" /\ pass' = "strip" /\ texts' = text
        /\ \A d \in todo' : text[d] # V!Nil /\ text[d].names = 1
        /\ UNCHANGED <<text, txn, crossed, batch>>
    BY DEF V!Start, V!Saved
  <1>2. batch = <<>> /\ \A w \in Writers : ~Busy(w)
    BY <1>1 DEF VectorsInv, PassRead, WritersRead
  <1>3. WritersRead' /\ SoleWriters'
    BY <1>1, <1>2, WritersStay
  <1>4. PassRead'
    BY <1>1, <1>2, EmptyBatch DEF PassRead
  <1> QED
    BY <1>3, <1>4 DEF VectorsInv

LEMMA EndPassKeeps == V!Configured /\ V!VectorsTypeOK /\ VectorsInv /\ V!EndPass => VectorsInv'
  <1> SUFFICES ASSUME V!VectorsTypeOK, VectorsInv, V!EndPass PROVE VectorsInv'
    OBVIOUS
  <1>1. /\ pass \in {"strip", "fill"} /\ V!Flushed
        /\ pass' = IF pass = "strip" THEN "fill" ELSE "serving"
        /\ todo' = IF pass = "strip" THEN {d \in V!Saved : vector'[d] = V!Nil} ELSE {}
        /\ texts' = text' /\ UNCHANGED <<txn, crossed>>
    BY DEF V!EndPass
  <1>2. \A w \in Writers : ~Busy(w)
    BY <1>1 DEF VectorsInv, WritersRead
  <1>3. WritersRead' /\ SoleWriters'
    BY <1>1, <1>2 DEF WritersRead, SoleWriters, Busy
  <1>4. /\ batch' = <<>>
        /\ \A d \in Documents :
             text'[d] = IF d \in DOMAIN batch /\ pass = "strip" THEN batch[d][1] ELSE text[d]
    BY <1>1, FlushedTables
  <1>5. \A d \in todo' : text'[d] # V!Nil
    BY <1>1, <1>4 DEF VectorsInv, PassRead, V!Saved
  <1>6. PassRead'
    BY <1>1, <1>4, <1>5, EmptyBatch DEF PassRead
  <1> QED
    BY <1>3, <1>6 DEF VectorsInv

LEMMA StartReembedKeeps == V!Configured /\ V!VectorsTypeOK /\ VectorsInv /\ V!StartReembed => VectorsInv'
  <1> SUFFICES ASSUME V!VectorsTypeOK, VectorsInv, V!StartReembed PROVE VectorsInv'
    OBVIOUS
  <1>1. /\ pass = "serving" /\ pass' = "reembed" /\ todo' = V!Saved /\ texts' = text
        /\ crossed' = crossed \cup {d \in Documents : V!Writing(d) # {}}
        /\ UNCHANGED <<text, txn, batch>>
    BY DEF V!StartReembed
  <1>2. batch = <<>>
    BY <1>1 DEF VectorsInv, PassRead
  <1>3. WritersRead' /\ SoleWriters'
    BY <1>1 DEF VectorsInv, WritersRead, SoleWriters, Busy
  <1>4. \A x : V!Writing(x)' = V!Writing(x)
    BY <1>1 DEF V!Writing
  <1>5. PassRead'
    BY <1>1, <1>2, <1>4, EmptyBatch DEF PassRead, V!Saved
  <1> QED
    BY <1>3, <1>5 DEF VectorsInv

LEMMA CommitBatchKeeps == V!Configured /\ V!VectorsTypeOK /\ VectorsInv /\ V!CommitBatch => VectorsInv'
  <1> SUFFICES ASSUME V!VectorsTypeOK, VectorsInv, V!CommitBatch PROVE VectorsInv'
    OBVIOUS
  <1>1. /\ pass = "reembed" /\ V!Flushed /\ UNCHANGED <<txn, crossed, todo>>
        /\ (todo = {} /\ pass' = "serving") \/ UNCHANGED <<pass, texts>>
    BY DEF V!CommitBatch
  <1>2. batch' = <<>> /\ \A d \in Documents : text'[d] = text[d]
    BY <1>1, FlushedTables
  <1>3. todo \subseteq Documents /\ \A w \in Writers : txn[w].doc \in Documents
    BY DEF V!VectorsTypeOK
  <1>4. WritersRead' /\ SoleWriters'
    BY <1>1, <1>2, <1>3 DEF VectorsInv, WritersRead, SoleWriters, Busy
  <1>5. \A x : V!Writing(x)' = V!Writing(x)
    BY <1>1 DEF V!Writing
  <1>6. PassRead'
    BY <1>1, <1>2, <1>3, <1>5, EmptyBatch DEF VectorsInv, PassRead
  <1> QED
    BY <1>4, <1>6 DEF VectorsInv

LEMMA VectorsStep ==
    V!Configured /\ V!VectorsTypeOK /\ VectorsInv /\ [V!Next]_V!vvars => VectorsInv'
  <1> SUFFICES ASSUME V!Configured, V!VectorsTypeOK, VectorsInv, [V!Next]_V!vvars PROVE VectorsInv'
    OBVIOUS
  <1>1. CASE UNCHANGED V!vvars
    BY <1>1, WritersFall DEF V!vvars, Busy
  <1>2. ASSUME NEW w \in Writers, V!Encode(w) \/ V!Replace(w) PROVE VectorsInv'
    <2>1. Busy(w)
      BY <1>2 DEF V!Encode, V!Replace, Busy
    <2>2. UNCHANGED <<text, crossed, pass, todo, texts, batch>>
      BY <1>2 DEF V!Encode, V!Replace
    <2>3. /\ \A o \in Writers \ {w} : txn'[o] = txn[o]
          /\ \/ ~Busy(w)'
             \/ txn'[w].doc = txn[w].doc /\ txn'[w].old = txn[w].old /\ txn'[w].new = txn[w].new
      BY <1>2, TxnMoved, TxnEnded DEF V!Encode, V!Replace, Busy
    <2>4. \A o \in Writers : Busy(o)' => /\ Busy(o) /\ txn'[o].doc = txn[o].doc
                                         /\ txn'[o].old = txn[o].old /\ txn'[o].new = txn[o].new
      BY <2>1, <2>3 DEF Busy
    <2> QED
      BY <2>2, <2>4, WritersFall
  <1>3. CASE V!ReembedFails
    <2>1. /\ pass = "reembed" /\ pass' = "serving" /\ todo' = {} /\ batch' = <<>>
          /\ UNCHANGED <<text, txn, crossed>>
      BY <1>3 DEF V!ReembedFails
    <2>2. WritersRead' /\ SoleWriters'
      BY <2>1, WritersStay
    <2>3. PassRead'
      BY <2>1, EmptyBatch DEF PassRead
    <2> QED
      BY <2>2, <2>3 DEF VectorsInv
  <1>4. CASE V!Crash
    <2>1. /\ pass' = "down" /\ todo' = {} /\ batch' = <<>> /\ \A w \in Writers : ~Busy(w)'
      BY <1>4, NoTxnType DEF V!Crash, Busy
    <2>2. WritersRead' /\ SoleWriters'
      BY <2>1 DEF WritersRead, SoleWriters
    <2>3. PassRead'
      BY <2>1, EmptyBatch DEF PassRead
    <2> QED
      BY <2>2, <2>3 DEF VectorsInv
  <1>5. ASSUME NEW d \in Documents, V!StripTitle(d) \/ V!FillVector(d) \/ V!Reembed(d) PROVE VectorsInv'
    BY <1>5, PassKeeps
  <1> QED
    BY <1>1, <1>2, <1>3, <1>4, <1>5, SaveKeeps, DeleteKeeps, ChangeKeeps, CommitKeeps, StartKeeps,
       EndPassKeeps, StartReembedKeeps, CommitBatchKeeps, Zenon DEF V!Next

-----------------------------------------------------------------------------
(* Vectors: a step that writes a text or a vector *)

\* What may happen to a document's text and vector in one step.
Follows(d) ==
    (text'[d] # text[d] \/ vector'[d] # vector[d]) /\ text'[d] # V!Gone =>
        /\ vector'[d] # V!Nil
        /\ d \notin crossed' => vector'[d] = text'[d]

LEMMA CommitFollows ==
    ASSUME V!Configured, V!VectorsTypeOK, VectorsInv, NEW w \in Writers, V!Commit(w), NEW d \in Documents
    PROVE  Follows(d)
  <1> DEFINE x == txn[w]
  <1>1. /\ x.doc \in Documents /\ x.old \in V!Text /\ x.new \in V!Text /\ text[x.doc] \in V!Text
        /\ Busy(w) /\ UNCHANGED crossed
        /\ \/ UNCHANGED <<text, vector>>
           \/ /\ text[x.doc] \notin {V!Nil, V!Gone}
              /\ text' = [text EXCEPT ![x.doc] = Merged(text[x.doc], x.old, x.new)]
              /\ vector' = [vector EXCEPT ![x.doc] = x.new]
    BY Committed
  <1>2. x.new # V!Nil /\ (x.doc \notin crossed => text[x.doc] \in {x.old, V!Gone})
    BY <1>1 DEF VectorsInv, WritersRead
  <1>3. text[x.doc] = x.old => Merged(text[x.doc], x.old, x.new) = x.new
    BY <1>1, MergedText
  <1>4. text \in [Documents -> V!Text] /\ vector \in [Documents -> V!Text]
    BY DEF V!VectorsTypeOK
  <1> HIDE DEF x
  <1> QED
    BY <1>1, <1>2, <1>3, <1>4 DEF Follows

LEMMA FlushFollows ==
    ASSUME V!Configured, V!VectorsTypeOK, VectorsInv, V!EndPass \/ V!CommitBatch, NEW d \in Documents
    PROVE  Follows(d)
  <1>1. pass \in {"strip", "fill", "reembed"} /\ UNCHANGED crossed
    BY DEF V!EndPass, V!CommitBatch
  <1>2. /\ text'[d] = IF d \in DOMAIN batch /\ pass = "strip" THEN batch[d][1] ELSE text[d]
        /\ vector'[d] = IF d \in DOMAIN batch THEN batch[d][2] ELSE vector[d]
    BY FlushedTables DEF V!EndPass, V!CommitBatch
  <1>3. ASSUME d \in DOMAIN batch, text'[d] # V!Gone, d \notin crossed PROVE batch[d][2] = text'[d]
    <2>1. CASE pass = "strip"
      BY <1>2, <1>3, <2>1 DEF VectorsInv, PassRead
    <2>2. CASE pass = "fill"
      BY <1>2, <1>3, <2>2 DEF VectorsInv, PassRead
    <2>3. CASE pass = "reembed"
      BY <1>2, <1>3, <2>3 DEF VectorsInv, PassRead
    <2> QED
      BY <1>1, <2>1, <2>2, <2>3
  <1>4. d \in DOMAIN batch => batch[d][2] # V!Nil
    BY DEF VectorsInv, PassRead
  <1> QED
    BY <1>1, <1>2, <1>3, <1>4 DEF Follows

LEMMA FollowsStep ==
    V!Configured /\ V!VectorsTypeOK /\ VectorsInv /\ [V!Next]_V!vvars => \A d \in Documents : Follows(d)
  <1> SUFFICES ASSUME V!Configured, V!VectorsTypeOK, VectorsInv, [V!Next]_V!vvars, NEW d \in Documents
               PROVE  Follows(d)
    OBVIOUS
  <1>1. UNCHANGED <<text, vector>> => Follows(d)
    BY DEF Follows
  <1>2. UNCHANGED V!vvars => Follows(d)
    BY <1>1 DEF V!vvars
  <1>3. ASSUME NEW e \in Documents, V!Save(e) PROVE Follows(d)
    BY <1>3, Texts DEF V!Save, V!VectorsTypeOK, Follows
  <1>4. ASSUME NEW e \in Documents, V!Delete(e) PROVE Follows(d)
    BY <1>4 DEF V!Delete, V!VectorsTypeOK, Follows
  <1>5. ASSUME NEW e \in Documents, V!StripTitle(e) \/ V!FillVector(e) \/ V!Reembed(e) PROVE Follows(d)
    BY <1>1, <1>5 DEF V!StripTitle, V!FillVector, V!Reembed, V!PassUnchanged
  <1>6. ASSUME NEW e \in Documents, NEW w \in Writers, NEW part \in DOMAIN V!Nil, V!Change(w, e, part)
        PROVE  Follows(d)
    BY <1>1, <1>6 DEF V!Change
  <1>7. ASSUME NEW w \in Writers, V!Encode(w) \/ V!Replace(w) PROVE Follows(d)
    BY <1>1, <1>7 DEF V!Encode, V!Replace
  <1>8. ASSUME NEW w \in Writers, V!Commit(w) PROVE Follows(d)
    BY <1>8, CommitFollows
  <1>9. V!EndPass \/ V!CommitBatch => Follows(d)
    BY FlushFollows
  <1>10. V!Start \/ V!StartReembed \/ V!ReembedFails \/ V!Crash => Follows(d)
    BY <1>1 DEF V!Start, V!StartReembed, V!ReembedFails, V!Crash
  <1> QED
    BY <1>2, <1>3, <1>4, <1>5, <1>6, <1>7, <1>8, <1>9, <1>10, Zenon DEF V!Next

\* Whatever writes a text or a vector, a save, a change that commits, a pass of a start or a
\* batch of the re-embedding, leaves the document with a vector, and unless changes of it
\* have overlapped with the vector of its text (the encoder runs before the tables are
\* written, and the two go in one transaction).
THEOREM VectorsKeepUp == V!Spec => VectorsFollow
  <1>1. V!Init => V!VectorsTypeOK /\ VectorsInv
    BY VectorsInit, UpkeepAssumption
  <1>2. V!VectorsTypeOK /\ VectorsInv /\ [V!Next]_V!vvars => (V!VectorsTypeOK /\ VectorsInv)'
    BY VectorsTypeStep, VectorsStep, UpkeepAssumption
  <1>3. V!VectorsTypeOK /\ VectorsInv /\ [V!Next]_V!vvars
        => [\A d \in Documents : (text'[d] # text[d] \/ vector'[d] # vector[d]) /\ text'[d] # V!Gone =>
               /\ vector'[d] # V!Nil
               /\ d \notin crossed' => vector'[d] = text'[d]]_<<text, vector, crossed>>
    BY FollowsStep, UpkeepAssumption DEF Follows
  <1> QED
    BY <1>1, <1>2, <1>3, PTL DEF V!Spec, VectorsFollow, V!VectorsFollow

-----------------------------------------------------------------------------
(* The wheel: an order of finitely many things, and how many come before each *)

LEMMA CountingMoods ==
    ASSUME NEW S PROVE D!Cardinality(S) = Cardinality(S) /\ D!IsFiniteSet(S) = IsFiniteSet(S)
  BY DEF D!Cardinality, Cardinality, D!IsFiniteSet, IsFiniteSet

\* Of an element of S, before holds what comes before it.
Orders(before, S) ==
    /\ \A m \in S : before[m] \subseteq S /\ m \notin before[m]
    /\ \A m, o \in S : m = o \/ m \in before[o] \/ o \in before[m]
    /\ \A m, o \in S : o \in before[m] => before[o] \subseteq before[m]

\* Every place from 0 on is that of one element: the first k elements are k.
LEMMA PlacesOfOrder ==
    ASSUME NEW S, IsFiniteSet(S), NEW before, Orders(before, S)
    PROVE  /\ \A m \in S : Cardinality(before[m]) \in 0 .. Cardinality(S) - 1
           /\ \A m, o \in S : Cardinality(before[m]) = Cardinality(before[o]) => m = o
           /\ \A i \in 0 .. Cardinality(S) - 1 : \E m \in S : Cardinality(before[m]) = i
           /\ \A k \in 0 .. Cardinality(S) : Cardinality({m \in S : Cardinality(before[m]) < k}) = k
  <1> DEFINE n == Cardinality(S)
             place == [m \in S |-> Cardinality(before[m])]
             First(k) == {m \in S : Cardinality(before[m]) < k}
  <1>1. n \in Nat
    BY FS_CardinalityType
  <1>2. \A m \in S : IsFiniteSet(before[m]) /\ Cardinality(before[m]) \in Nat
    BY FS_Subset, FS_CardinalityType DEF Orders
  <1>3. ASSUME NEW m \in S, NEW o \in S, o \in before[m]
        PROVE  Cardinality(before[o]) < Cardinality(before[m])
    <2>1. before[o] \in SUBSET before[m] /\ before[o] # before[m]
      BY <1>3 DEF Orders
    <2>2. Cardinality(before[o]) <= Cardinality(before[m]) /\ Cardinality(before[o]) # Cardinality(before[m])
      BY <1>2, <2>1, FS_Subset
    <2> QED
      BY <1>2, <2>2
  <1>4. \A m \in S : Cardinality(before[m]) \in 0 .. n - 1
    <2> SUFFICES ASSUME NEW m \in S PROVE Cardinality(before[m]) \in 0 .. n - 1
      OBVIOUS
    <2>1. before[m] \in SUBSET S /\ before[m] # S
      BY DEF Orders
    <2>2. Cardinality(before[m]) <= n /\ Cardinality(before[m]) # n
      BY <2>1, FS_Subset
    <2> QED
      BY <1>1, <1>2, <2>2
  <1>5. \A m, o \in S : Cardinality(before[m]) = Cardinality(before[o]) => m = o
    <2> SUFFICES ASSUME NEW m \in S, NEW o \in S, Cardinality(before[m]) = Cardinality(before[o]), m # o
                 PROVE  FALSE
      OBVIOUS
    <2>1. m \in before[o] \/ o \in before[m]
      BY DEF Orders
    <2>2. Cardinality(before[m]) < Cardinality(before[o]) \/ Cardinality(before[o]) < Cardinality(before[m])
      BY <1>3, <2>1
    <2> QED
      BY <1>2, <2>2
  <1>6. IsFiniteSet(0 .. n - 1) /\ Cardinality(0 .. n - 1) = n
    BY <1>1, FS_Interval
  <1>7. place \in Injection(S, 0 .. n - 1)
    BY <1>4, <1>5 DEF Injection, IsInjective
  <1>8. place \in Surjection(S, 0 .. n - 1)
    BY <1>6, <1>7, FS_Injection
  <1>9. \A i \in 0 .. n - 1 : \E m \in S : Cardinality(before[m]) = i
    BY <1>8 DEF Surjection
  <1>10. ASSUME NEW k \in 0 .. n PROVE Cardinality(First(k)) = k
    <2> DEFINE f == [m \in First(k) |-> Cardinality(before[m])]
    <2>a. k \in Nat /\ k - 1 \in Int /\ 0 \in Int /\ (k = 0 <=> 0 > k - 1)
      BY <1>1
    <2>1. IsFiniteSet(0 .. k - 1) /\ Cardinality(0 .. k - 1) = k
      <3>1. IsFiniteSet(0 .. k - 1) /\ Cardinality(0 .. k - 1) = IF 0 > k - 1 THEN 0 ELSE k - 1 - 0 + 1
        BY <2>a, FS_Interval
      <3> QED
        BY <2>a, <3>1
    <2>2. \A m \in First(k) : Cardinality(before[m]) \in 0 .. k - 1
      BY <1>1, <1>4
    <2>3. f \in Injection(First(k), 0 .. k - 1)
      BY <1>5, <2>2 DEF Injection, IsInjective
    <2>4. \A i \in 0 .. k - 1 : \E m \in First(k) : f[m] = i
      BY <1>1, <1>9
    <2>5. f \in Surjection(First(k), 0 .. k - 1)
      BY <2>3, <2>4 DEF Surjection, Injection
    <2> HIDE DEF f, First
    <2> QED
      BY <2>1, <2>3, <2>5, FS_Injection
  <1> QED
    BY <1>4, <1>5, <1>9, <1>10

\* The order by numbers that tell the elements apart, ...
Telling(h, S) ==
    /\ \A m \in S : h[m] \in Int
    /\ \A m, o \in S : h[m] = h[o] => m = o

LEMMA OrderedUp ==
    ASSUME NEW S, NEW h, Telling(h, S)
    PROVE  Orders([m \in S |-> {o \in S : h[o] < h[m]}], S)
  BY DEF Orders, Telling

LEMMA OrderedDown ==
    ASSUME NEW S, NEW h, Telling(h, S)
    PROVE  Orders([m \in S |-> {o \in S : h[o] > h[m]}], S)
  BY DEF Orders, Telling

\* ... and with some of them moved to the front.
LEMMA OrderedMoved ==
    ASSUME NEW S, NEW h, Telling(h, S), NEW front, front \subseteq S
    PROVE  Orders([m \in S |-> IF m \in front THEN {o \in front : h[o] < h[m]}
                               ELSE front \cup {o \in S : h[o] < h[m]}], S)
  BY DEF Orders, Telling

-----------------------------------------------------------------------------
(* The wheel: the bag *)

\* A cycle that is drawn from, of one of the wheels.
InUse(wheel, cycle) ==
    /\ IsFiniteSet(wheel) /\ Rest \in Nat /\ 3 * Rest <= Cardinality(wheel)
    /\ cycle \in Nat
    /\ Telling(hash[cycle], wheel)
    /\ cycle > 0 => Telling(hash[cycle - 1], wheel)

Places(wheel, cycle) == [m \in wheel |-> D!Before(wheel, cycle, m)]

LEMMA BagOrdered ==
    ASSUME NEW wheel, NEW cycle, InUse(wheel, cycle)
    PROVE  Orders(Places(wheel, cycle), wheel)
  <1> DEFINE front == D!Opening(wheel, cycle)
             h == hash[cycle]
  <1>1. front \subseteq wheel
    BY DEF D!Opening
  <1>2. Telling(h, wheel)
    BY DEF InUse
  <1>3. Places(wheel, cycle) = [m \in wheel |-> IF m \in front THEN {o \in front : h[o] < h[m]}
                                               ELSE front \cup {o \in wheel : h[o] < h[m]}]
    BY DEF Places, D!Before, D!Lower
  <1> HIDE DEF front, h
  <1> QED
    BY <1>1, <1>2, <1>3, OrderedMoved

\* At most Rest moods close a cycle, and exactly Rest open the next.
LEMMA ClosingIsSmall ==
    ASSUME NEW wheel, NEW cycle, IsFiniteSet(wheel), Rest \in 0 .. Cardinality(wheel), Telling(hash[cycle], wheel)
    PROVE  IsFiniteSet(D!Closing(wheel, cycle)) /\ Cardinality(D!Closing(wheel, cycle)) = Rest
  <1> DEFINE h == hash[cycle]
             after == [m \in wheel |-> {o \in wheel : h[o] > h[m]}]
  <1>1. Orders(after, wheel)
    BY OrderedDown
  <1>2. D!Closing(wheel, cycle) = {m \in wheel : Cardinality(after[m]) < Rest}
    BY CountingMoods DEF D!Closing, D!Higher
  <1> HIDE DEF after
  <1>3. Cardinality({m \in wheel : Cardinality(after[m]) < Rest}) = Rest
    BY <1>1, PlacesOfOrder
  <1>4. D!Closing(wheel, cycle) \in SUBSET wheel
    BY <1>2
  <1> QED
    BY <1>2, <1>3, <1>4, FS_Subset

LEMMA OpeningIsFull ==
    ASSUME NEW wheel, NEW cycle, InUse(wheel, cycle), cycle > 0
    PROVE  IsFiniteSet(D!Opening(wheel, cycle)) /\ Cardinality(D!Opening(wheel, cycle)) = Rest
  <1> DEFINE rested == D!Rested(wheel, cycle)
             closing == D!Closing(wheel, cycle - 1)
             h == hash[cycle]
             before == [m \in rested |-> {o \in rested : h[o] < h[m]}]
  <1>1. IsFiniteSet(wheel) /\ Cardinality(wheel) \in Nat /\ Rest \in Nat /\ 3 * Rest <= Cardinality(wheel)
    BY FS_CardinalityType DEF InUse
  <1>2. IsFiniteSet(closing) /\ Cardinality(closing) = Rest
    BY <1>1, ClosingIsSmall DEF InUse
  <1>3. closing \subseteq wheel /\ rested = wheel \ closing
    BY DEF D!Closing, D!Rested
  <1> HIDE DEF closing
  <1>4. IsFiniteSet(rested) /\ Cardinality(rested) = Cardinality(wheel) - Rest
    <2>1. wheel \cap closing = closing
      BY <1>3
    <2> QED
      BY <1>1, <1>2, <1>3, <2>1, FS_Difference
  <1>5. Telling(h, rested)
    BY <1>3 DEF InUse, Telling
  <1>6. D!Opening(wheel, cycle) = {m \in rested : Cardinality(before[m]) < Rest}
    BY <1>3, CountingMoods DEF D!Opening, D!Lower
  <1>7. Orders(before, rested)
    BY <1>5, OrderedUp
  <1> HIDE DEF before, rested
  <1>8. Rest \in 0 .. Cardinality(rested)
    BY <1>1, <1>4
  <1>9. Cardinality({m \in rested : Cardinality(before[m]) < Rest}) = Rest
    BY <1>4, <1>7, <1>8, PlacesOfOrder
  <1>10. D!Opening(wheel, cycle) \in SUBSET rested
    BY <1>6
  <1> QED
    BY <1>4, <1>6, <1>9, <1>10, FS_Subset

\* Rest moods before the end of a bag there are only those that close its plain order: the
\* opening has moved what stands in its first 2 * Rest places.
LEMMA ClosesPlain ==
    ASSUME NEW wheel, NEW cycle, InUse(wheel, cycle), NEW m \in wheel,
           Cardinality(D!Before(wheel, cycle, m)) >= Cardinality(wheel) - Rest
    PROVE  m \in D!Closing(wheel, cycle)
  <1> DEFINE opening == D!Opening(wheel, cycle)
             rested == D!Rested(wheel, cycle)
             closing == D!Closing(wheel, cycle - 1)
             h == hash[cycle]
             higher == {o \in wheel : h[o] > h[m]}
             lower(S, o) == {p \in S : h[p] < h[o]}
             before == D!Before(wheel, cycle, m)
             n == Cardinality(wheel)
  <1>1. IsFiniteSet(wheel) /\ n \in Nat /\ Rest \in Nat /\ 3 * Rest <= n /\ cycle \in Nat /\ Telling(h, wheel)
    BY FS_CardinalityType DEF InUse
  <1>2. opening \subseteq wheel /\ before = IF m \in opening THEN lower(opening, m) ELSE opening \cup lower(wheel, m)
    BY DEF D!Opening, D!Before, D!Lower
  <1>3. \A S : S \subseteq wheel => IsFiniteSet(S) /\ Cardinality(S) \in Nat /\ Cardinality(S) <= n
    BY <1>1, FS_Subset, FS_CardinalityType
  <1>4. cycle > 0 => Cardinality(opening) = Rest
    BY OpeningIsFull
  <1>5. cycle = 0 => opening = {}
    BY DEF D!Opening
  <1>6. before \subseteq wheel /\ m \notin before
    BY <1>1, <1>2 DEF Telling
  <1>7. m \notin opening
    <2> SUFFICES ASSUME m \in opening PROVE FALSE
      OBVIOUS
    <2>1. cycle > 0
      BY <1>1, <1>5
    <2>2. before \in SUBSET opening /\ before # opening
      BY <1>2, <1>6
    <2>3. Cardinality(before) < Rest
      BY <1>1, <1>2, <1>3, <1>4, <1>6, <2>1, <2>2, FS_Subset
    <2> QED
      BY <1>1, <1>3, <1>6, <2>3
  <1>8. before = opening \cup lower(wheel, m)
    BY <1>2, <1>7
  <1>9. \A o \in opening : h[o] < h[m]
    <2> SUFFICES ASSUME NEW o \in opening, ~(h[o] < h[m]) PROVE FALSE
      OBVIOUS
    <2>1. cycle > 0
      BY <1>1, <1>5
    <2>2. h[m] \in Int /\ h[o] \in Int /\ h[m] < h[o]
      BY <1>1, <1>2, <1>7 DEF Telling
    <2>3. rested = wheel \ closing /\ closing \subseteq wheel
      BY DEF D!Rested, D!Closing
    <2>4. \A p \in wheel : p \in opening <=> p \in rested /\ Cardinality(lower(rested, p)) < Rest
      BY <2>1, CountingMoods DEF D!Opening, D!Lower
    <2>5. ASSUME NEW p \in rested, h[p] < h[o] PROVE p \in opening
      <3>1. p \in wheel /\ h[p] \in Int
        BY <1>1, <2>3 DEF Telling
      <3>2. \A q \in rested : h[q] < h[p] => h[q] < h[o]
        BY <1>1, <2>2, <2>3, <2>5, <3>1 DEF Telling
      <3>3. lower(rested, p) \in SUBSET lower(rested, o) /\ lower(rested, o) \subseteq wheel
        BY <2>3, <3>2
      <3>4. Cardinality(lower(rested, p)) <= Cardinality(lower(rested, o))
        BY <1>3, <3>3, FS_Subset
      <3>5. Cardinality(lower(rested, o)) < Rest
        BY <1>2, <2>4
      <3>6. Cardinality(lower(rested, p)) < Rest
        <4>1. lower(rested, p) \subseteq wheel
          BY <3>3
        <4>2. Cardinality(lower(rested, p)) \in Nat /\ Cardinality(lower(rested, o)) \in Nat
          BY <1>3, <3>3, <4>1
        <4> HIDE DEF lower
        <4> QED
          BY <1>1, <3>4, <3>5, <4>2
      <3> QED
        BY <2>4, <3>1, <3>6
    <2>6. m \in closing
      BY <1>7, <2>2, <2>3, <2>5
    <2>7. before \subseteq opening \cup (closing \ {m})
      <3>1. \A p \in lower(wheel, m) : p \in wheel /\ h[p] < h[o] /\ p # m
        BY <1>1, <2>2 DEF Telling
      <3>2. \A p \in lower(wheel, m) : p \in opening \cup (closing \ {m})
        BY <2>3, <2>5, <3>1
      <3> QED
        BY <1>8, <3>2
    <2> HIDE DEF before, opening, closing, rested, h
    <2>8. IsFiniteSet(closing) /\ Cardinality(closing) = Rest
      <3>1. Rest \in 0 .. Cardinality(wheel) /\ Telling(hash[cycle - 1], wheel)
        BY <1>1, <2>1 DEF InUse
      <3> QED
        BY <1>1, <3>1, ClosingIsSmall DEF closing
    <2>9. IsFiniteSet(closing \ {m}) /\ Cardinality(closing \ {m}) = Rest - 1
      BY <2>6, <2>8, FS_RemoveElement
    <2>10. IsFiniteSet(opening) /\ Cardinality(opening) = Rest
      BY <1>2, <1>3, <1>4, <2>1
    <2>11. /\ IsFiniteSet(opening \cup (closing \ {m}))
           /\ Cardinality(opening \cup (closing \ {m})) <= 2 * Rest - 1
      <3>1. IsFiniteSet(opening \cap (closing \ {m})) /\ Cardinality(opening \cap (closing \ {m})) \in Nat
        BY <2>10, FS_Intersection, FS_CardinalityType
      <3>2. IsFiniteSet(opening \cup (closing \ {m})) /\ Cardinality(opening \cup (closing \ {m}))
              = Cardinality(opening) + Cardinality(closing \ {m}) - Cardinality(opening \cap (closing \ {m}))
        BY <2>9, <2>10, FS_Union
      <3> QED
        BY <1>1, <2>9, <2>10, <3>1, <3>2
    <2>12. Cardinality(before) <= Cardinality(opening \cup (closing \ {m}))
      BY <2>7, <2>11, FS_Subset
    <2>13. Cardinality(opening \cup (closing \ {m})) \in Nat /\ Cardinality(before) \in Nat
      BY <1>3, <1>6, <2>11, FS_CardinalityType
    <2>14. Cardinality(before) >= n - Rest
      BY DEF before
    <2> QED
      BY <1>1, <2>11, <2>12, <2>13, <2>14
  <1>10. before = lower(wheel, m)
    BY <1>2, <1>8, <1>9
  <1>11. higher \subseteq wheel \ (before \cup {m})
    BY <1>1, <1>10 DEF Telling
  <1> HIDE DEF before, opening, h
  <1>12. IsFiniteSet(before) /\ Cardinality(before) \in Nat
    BY <1>3, <1>6
  <1>13. IsFiniteSet(before \cup {m}) /\ Cardinality(before \cup {m}) = Cardinality(before) + 1
    BY <1>6, <1>12, FS_AddElement
  <1>14. IsFiniteSet(wheel \ (before \cup {m})) /\ Cardinality(wheel \ (before \cup {m})) = n - (Cardinality(before) + 1)
    <2> DEFINE there == before \cup {m}
    <2>1. wheel \cap there = there
      BY <1>6
    <2>2. IsFiniteSet(wheel \ there) /\ Cardinality(wheel \ there) = Cardinality(wheel) - Cardinality(wheel \cap there)
      BY <1>1, FS_Difference
    <2> QED
      BY <1>13, <2>1, <2>2
  <1>15. Cardinality(higher) <= n - (Cardinality(before) + 1) /\ Cardinality(higher) \in Nat
    BY <1>11, <1>14, FS_Subset, FS_CardinalityType
  <1>16. Cardinality(before) >= n - Rest
    BY DEF before
  <1>17. Cardinality(higher) < Rest
    BY <1>1, <1>12, <1>15, <1>16
  <1> QED
    BY <1>17, CountingMoods DEF D!Closing, D!Higher, h

-----------------------------------------------------------------------------
(* The wheel: the draws *)

\* A draw of a release that may come while the days last.
Drawable(k, n) == k \in DOMAIN Wheels /\ n \in 0 .. MaxDay

LEMMA DivMod ==
    ASSUME NEW x \in Int, NEW d \in Nat \ {0} PROVE x = d * (x \div d) + (x % d)
  OBVIOUS

LEMMA CycleInUse ==
    ASSUME D!Configured, hash \in Hashes, NEW k, NEW n, Drawable(k, n)
    PROVE  /\ Cardinality(Wheels[k]) \in Nat \ {0}
           /\ n % Cardinality(Wheels[k]) \in 0 .. Cardinality(Wheels[k]) - 1
           /\ InUse(Wheels[k], n \div Cardinality(Wheels[k]))
  <1> DEFINE size == Cardinality(Wheels[k])
             last == MaxDay \div size
             cycle == n \div size
  <1>1. /\ IsFiniteSet(Wheels[k]) /\ Wheels[k] # {} /\ 3 * Rest <= size
        /\ Rest \in Nat /\ MaxDay \in Nat /\ n \in 0 .. MaxDay
        /\ \A c \in 0 .. last : Telling(hash[c], Wheels[k])
    BY CountingMoods DEF D!Configured, Drawable, Telling
  <1>2. size \in Nat \ {0}
    BY <1>1, FS_CardinalityType, FS_EmptySet
  <1> HIDE DEF size
  <1>3. n % size \in 0 .. size - 1
    BY <1>1, <1>2
  <1>4. last \in Nat /\ cycle \in Nat /\ cycle <= last
    <2>a. MaxDay \in Int /\ n \in Int
      BY <1>1
    <2>1. last \in Int /\ MaxDay < size * last + size
      BY <1>2, <2>a, DivBounds, Zenon
    <2>2. cycle \in Int /\ size * cycle <= n /\ n < size * cycle + size
      BY <1>2, <2>a, DivBounds, Zenon
    <2> HIDE DEF last, cycle
    <2>3. size * cycle < size * (last + 1)
      BY <1>1, <1>2, <2>1, <2>2
    <2>4. cycle < last + 1
      BY <1>2, <2>1, <2>2, <2>3, MulLess
    <2>5. cycle >= 0
      <3>1. size * 0 < size * (cycle + 1)
        BY <1>1, <1>2, <2>2
      <3>2. 0 < cycle + 1
        BY <1>2, <2>2, <3>1, MulLess
      <3> QED
        BY <2>2, <3>2
    <2> QED
      BY <2>1, <2>2, <2>4, <2>5
  <1> HIDE DEF last, cycle
  <1>5. cycle \in 0 .. last /\ (cycle > 0 => cycle - 1 \in 0 .. last)
    BY <1>4
  <1>6. InUse(Wheels[k], cycle)
    BY <1>1, <1>4, <1>5 DEF InUse, size
  <1> QED
    BY <1>2, <1>3, <1>6 DEF size, cycle

LEMMA MoodIsDrawn ==
    ASSUME D!Configured, hash \in Hashes, NEW k, NEW n, Drawable(k, n)
    PROVE  LET size == Cardinality(Wheels[k])
               mood == D!MoodFor(Wheels[k], n)
           IN  /\ mood \in Wheels[k]
               /\ Cardinality(D!Before(Wheels[k], n \div size, mood)) = n % size
  <1> DEFINE wheel == Wheels[k]
             size == Cardinality(wheel)
             cycle == n \div size
             before == Places(wheel, cycle)
  <1>1. size \in Nat \ {0} /\ n % size \in 0 .. size - 1 /\ InUse(wheel, cycle)
    BY CycleInUse
  <1>2. Orders(before, wheel) /\ IsFiniteSet(wheel)
    BY <1>1, BagOrdered DEF InUse
  <1> HIDE DEF before
  <1>3. \E m \in wheel : Cardinality(before[m]) = n % size
    BY <1>1, <1>2, PlacesOfOrder
  <1>4. \E m \in wheel : Cardinality(D!Before(wheel, cycle, m)) = n % size
    BY <1>3 DEF before, Places
  <1>5. D!MoodFor(wheel, n) = CHOOSE m \in wheel : Cardinality(D!Before(wheel, cycle, m)) = n % size
    BY CountingMoods DEF D!MoodFor
  <1> QED
    BY <1>4, <1>5

\* What is drawn sits out the next Rest draws, and the rest of its cycle.
LEMMA SitsOut ==
    ASSUME D!Configured, hash \in Hashes, NEW k, NEW n, NEW m, Drawable(k, n), Drawable(k, m), n < m,
           D!MoodFor(Wheels[k], n) = D!MoodFor(Wheels[k], m)
    PROVE  /\ m - n > Rest
           /\ n \div Cardinality(Wheels[k]) # m \div Cardinality(Wheels[k])
  <1> DEFINE wheel == Wheels[k]
             size == Cardinality(wheel)
             c == n \div size
             d == m \div size
             i == n % size
             j == m % size
             mood == D!MoodFor(wheel, n)
  <1>1. /\ size \in Nat \ {0} /\ i \in 0 .. size - 1 /\ j \in 0 .. size - 1
        /\ InUse(wheel, c) /\ InUse(wheel, d)
    BY CycleInUse
  <1>2. /\ mood \in wheel /\ Cardinality(D!Before(wheel, c, mood)) = i
        /\ Cardinality(D!Before(wheel, d, mood)) = j
    BY MoodIsDrawn
  <1>3. n \in Int /\ m \in Int /\ Rest \in Nat /\ 3 * Rest <= size /\ c \in Nat /\ d \in Nat
    BY <1>1 DEF Drawable, InUse
  <1>4. n = size * c + i /\ m = size * d + j
    BY <1>1, <1>3, DivMod
  <1> HIDE DEF mood, wheel, size, c, d, i, j
  <1>5. c < d
    <2>1. c = d => i = j
      BY <1>2
    <2>2. c # d
      BY <1>3, <1>4, <2>1
    <2>3. size * c < size * (d + 1)
      BY <1>1, <1>3, <1>4
    <2>4. c < d + 1
      BY <1>1, <1>3, <2>3, MulLess
    <2> QED
      BY <1>3, <2>2, <2>4
  <1>6. ASSUME d = c + 1 PROVE m - n > Rest
    <2>1. m - n = size - i + j
      BY <1>1, <1>3, <1>4, <1>6
    <2>2. CASE i >= size - Rest
      <3>1. mood \in D!Closing(wheel, c)
        BY <1>1, <1>2, <2>2, ClosesPlain DEF size
      <3>2. d > 0 /\ d - 1 = c
        BY <1>3, <1>6
      <3>3. mood \notin D!Opening(wheel, d)
        BY <3>1, <3>2 DEF D!Opening, D!Rested
      <3>4. D!Opening(wheel, d) \subseteq D!Before(wheel, d, mood) /\ D!Before(wheel, d, mood) \subseteq wheel
        BY <3>3 DEF D!Before, D!Opening, D!Lower
      <3>5. Cardinality(D!Opening(wheel, d)) = Rest
        BY <1>1, <3>2, OpeningIsFull
      <3>6. IsFiniteSet(D!Before(wheel, d, mood))
        BY <1>1, <3>4, FS_Subset DEF InUse
      <3>7. Rest <= j
        BY <1>2, <3>4, <3>5, <3>6, FS_Subset
      <3> QED
        BY <1>1, <1>3, <2>1, <3>7
    <2>3. CASE i < size - Rest
      BY <1>1, <1>3, <2>1, <2>3
    <2> QED
      BY <1>1, <1>3, <2>2, <2>3
  <1>7. ASSUME d > c + 1 PROVE m - n > Rest
    <2> DEFINE e == d - c - 2
    <2>1. e \in Nat /\ d = c + 2 + e
      BY <1>3, <1>7
    <2> HIDE DEF e
    <2>2. size * d = size * c + 2 * size + size * e /\ size * e \in Nat
      BY <1>1, <1>3, <2>1
    <2> QED
      BY <1>1, <1>3, <1>4, <2>2
  <1>8. m - n > Rest
    BY <1>3, <1>5, <1>6, <1>7
  <1>9. c # d
    BY <1>3, <1>5
  <1> QED
    BY <1>8, <1>9 DEF c, d, size, wheel

LEMMA MoodsFixed ==
    ASSUME hash' = hash, NEW wheel, NEW n
    PROVE  D!MoodFor(wheel, n)' = D!MoodFor(wheel, n)
  <1>1. \A moods, m, c : D!Lower(c, moods, m)' = D!Lower(c, moods, m)
    BY DEF D!Lower
  <1>2. \A c : D!Closing(wheel, c)' = D!Closing(wheel, c)
    BY DEF D!Closing, D!Higher
  <1>3. \A c : D!Rested(wheel, c)' = D!Rested(wheel, c)
    BY <1>2 DEF D!Rested
  <1>4. \A c : D!Opening(wheel, c)' = D!Opening(wheel, c)
    BY <1>1, <1>3 DEF D!Opening
  <1>5. \A c, m : D!Before(wheel, c, m)' = D!Before(wheel, c, m)
    BY <1>1, <1>4 DEF D!Before
  <1> QED
    BY <1>5 DEF D!MoodFor

-----------------------------------------------------------------------------
(* The wheel: the inductive invariant *)

\* A row counts no more spins than there were days to its last one.
IsProgress(row) ==
    /\ row = [count |-> row.count, on |-> row.on, mood |-> row.mood]
    /\ row.count \in Nat /\ row.on \in Int /\ -1 <= row.on /\ row.count <= row.on + 1
    /\ row.count = 0 => row = D!NoRow

\* A spin that has its row holds it as it is, or as the first of its day makes it.
IsSpin(spin) ==
    /\ spin = [pc |-> spin.pc, day |-> spin.day, row |-> spin.row]
    /\ spin.pc \in {"idle", "asked", "recorded"}
    /\ spin.pc = "asked" => spin.day \in 0 .. day
    /\ spin.pc = "recorded" =>
         /\ IsProgress(spin.row) /\ spin.row.count > 0 /\ spin.row.on <= day
         /\ \/ spin.row = progress
            \/ spin.row.count = progress.count + 1 /\ spin.row.mood = ""

SpinsInv ==
    /\ restricted \in BOOLEAN /\ hash \in Hashes
    /\ release \in DOMAIN Wheels /\ day \in 0 .. MaxDay
    /\ IsProgress(progress) /\ progress.on <= day
    /\ DOMAIN spinning = Spins
    /\ \A r \in Spins : IsSpin(spinning[r]) /\ (restricted => spinning[r].pc = "idle")
    /\ \A r, q \in Spins : spinning[r].pc = "recorded" /\ spinning[q].pc = "recorded" => r = q

\* An answer is of a day that was, and of a release; a mood that the bag of its release
\* does not give for its draw was shown by an earlier release too.
IsAnswer(x) ==
    /\ x.release \in 0 .. release /\ x.draw \in 0 .. day
    /\ restricted => x.release > 0 /\ ~x.kept /\ x.mood = D!MoodFor(Wheels[x.release], x.draw)
    /\ ~restricted => x.draw < progress.count
    /\ x.release > 0 =>
         /\ x.mood \in Wheels[x.release]
         /\ \/ x.mood = D!MoodFor(Wheels[x.release], x.draw)
            \/ \E y \in answers : y.draw = x.draw /\ y.release < x.release

\* Of the user's last draw: what this release has shown it would show again, and what was
\* stored is stored still, unless a release has dropped it.
IsCurrent(x) ==
    x.draw = progress.count - 1 =>
        /\ x.release = release => x.mood = D!Kept(progress)
        /\ x.kept /\ (\A k \in x.release + 1 .. release : x.mood \in Wheels[k]) => x.mood = progress.mood

\* What is stored was shown.
StoredIsShown ==
    progress.mood # "" =>
        \E y \in answers : y.draw = progress.count - 1 /\ y.mood = progress.mood

AnswersInv ==
    /\ \A x \in answers : IsAnswer(x) /\ (~restricted => IsCurrent(x))
    /\ ~restricted => StoredIsShown
    /\ D!DrawHasOneMood

LEMMA WheelsInTurn ==
    ASSUME D!Configured
    PROVE  /\ DOMAIN Wheels = 1 .. Len(Wheels) /\ Len(Wheels) \in Nat /\ 1 \in DOMAIN Wheels
           /\ MaxDay \in Nat /\ FirstDay \in Nat /\ FirstDay <= MaxDay
           /\ \A k \in DOMAIN Wheels : "" \notin Wheels[k]
  <1> DEFINE all == {Wheels[k] : k \in DOMAIN Wheels}
  <1>1. Wheels \in Seq(all) /\ Wheels # <<>>
    BY DEF D!Configured
  <1>2. MaxDay \in Nat /\ FirstDay \in Nat /\ FirstDay <= MaxDay
    BY DEF D!Configured
  <1>3. \A k \in DOMAIN Wheels : "" \notin Wheels[k]
    BY DEF D!Configured
  <1> HIDE DEF all
  <1>4. DOMAIN Wheels = 1 .. Len(Wheels) /\ Len(Wheels) \in Nat /\ Len(Wheels) # 0
    BY <1>1
  <1>5. 1 \in 1 .. Len(Wheels)
    BY <1>4
  <1>6. 1 \in DOMAIN Wheels
    BY <1>4, <1>5, Zenon
  <1> QED
    BY <1>2, <1>3, <1>4, <1>6, Zenon

\* A release and a number of a draw that may come now.
LEMMA NextDrawable ==
    ASSUME D!Configured, SpinsInv
    PROVE  /\ \A k, n : k \in 1 .. release /\ n \in 0 .. day => Drawable(k, n)
           /\ release \in Nat /\ release > 0 /\ day \in Nat
           /\ \A k \in DOMAIN Wheels : "" \notin Wheels[k]
  <1>1. release \in DOMAIN Wheels /\ day \in 0 .. MaxDay
    BY DEF SpinsInv
  <1> DEFINE last == Len(Wheels)
  <1>2. DOMAIN Wheels = 1 .. last /\ last \in Nat /\ MaxDay \in Nat
    BY WheelsInTurn, Zenon
  <1>3. release \in 1 .. last
    BY <1>1, <1>2, Zenon
  <1> HIDE DEF last
  <1>4. /\ release \in Nat /\ release > 0 /\ day \in Nat
        /\ \A k \in 1 .. release : k \in 1 .. last
        /\ \A n \in 0 .. day : n \in 0 .. MaxDay
    BY <1>1, <1>2, <1>3
  <1>5. \A k, n : k \in 1 .. release /\ n \in 0 .. day => Drawable(k, n)
    BY <1>2, <1>4, Zenon DEF Drawable
  <1> QED
    BY <1>4, <1>5, WheelsInTurn, Zenon

LEMMA KeptIs ==
    ASSUME D!Configured, SpinsInv, NEW row, IsProgress(row), row.count > 0, row.on <= day
    PROVE  /\ D!Kept(row) \in Wheels[release]
           /\ D!Kept(row) = IF row.mood \in Wheels[release] THEN row.mood
                             ELSE D!MoodFor(Wheels[release], row.count - 1)
           /\ row.count - 1 \in 0 .. day
  <1>0. day \in Nat /\ release \in 1 .. release
    <2>1. day \in Nat /\ release \in Nat /\ release > 0
      BY NextDrawable, Zenon
    <2> QED
      BY <2>1
  <1>1. row.count - 1 \in 0 .. day
    BY <1>0 DEF IsProgress
  <1>2. Drawable(release, row.count - 1)
    BY <1>0, <1>1, NextDrawable
  <1>3. D!MoodFor(Wheels[release], row.count - 1) \in Wheels[release]
    BY <1>2, MoodIsDrawn DEF SpinsInv
  <1> QED
    BY <1>1, <1>3 DEF D!Kept, D!Wheel

LEMMA WheelInit == D!Configured /\ D!Init => SpinsInv /\ AnswersInv
  <1> SUFFICES ASSUME D!Configured, D!Init PROVE SpinsInv /\ AnswersInv
    OBVIOUS
  <1>1. /\ DOMAIN Wheels = 1 .. Len(Wheels) /\ Len(Wheels) \in Nat /\ 1 \in DOMAIN Wheels
        /\ MaxDay \in Nat /\ FirstDay \in Nat /\ FirstDay <= MaxDay
    BY WheelsInTurn
  <1>3. IsProgress(progress) /\ progress.on <= FirstDay
    <2>1. IsProgress(D!NoRow) /\ D!NoRow.on <= FirstDay
      BY <1>1 DEF IsProgress, D!NoRow
    <2>2. ASSUME NEW row \in Progresses PROVE IsProgress(row) /\ row.on <= FirstDay
      <3>1. /\ row = [count |-> row.count, on |-> row.on, mood |-> row.mood]
            /\ row.count \in Nat /\ row.on \in -1 .. FirstDay /\ row.count <= row.on + 1
            /\ row.count = 0 => row = D!NoRow
        BY DEF D!Configured
      <3> QED
        BY <1>1, <3>1 DEF IsProgress
    <2> QED
      BY <2>1, <2>2 DEF D!Init
  <1>a. /\ restricted \in BOOLEAN /\ hash \in Hashes /\ release = 1 /\ day = FirstDay
        /\ restricted => progress = D!NoRow
    BY DEF D!Init
  <1>b. D!NoRow.mood = "" /\ D!NoRow.count = 0
    BY DEF D!NoRow
  <1>4. DOMAIN spinning = Spins /\ \A r \in Spins : spinning[r] = D!Unspun
    BY DEF D!Init
  <1>5. SpinsInv
    <2>1. IsSpin(D!Unspun) /\ D!Unspun.pc = "idle"
      BY DEF IsSpin, D!Unspun
    <2>2. \A r \in Spins : IsSpin(spinning[r]) /\ spinning[r].pc = "idle"
      BY <1>4, <2>1
    <2>3. \A r, q \in Spins : spinning[r].pc = "recorded" /\ spinning[q].pc = "recorded" => r = q
      BY <2>2
    <2> QED
      BY <1>1, <1>3, <1>4, <1>a, <2>2, <2>3 DEF SpinsInv
  <1>6. progress.mood = "" => answers = {}
    BY DEF D!Init
  <1>7. restricted => progress.mood = ""
    BY <1>a, <1>b
  <1>8. ASSUME progress.mood # "" PROVE AnswersInv
    <2>1. ~restricted /\ progress # D!NoRow
      BY <1>7, <1>8, <1>b
    <2>2. progress.count \in Nat /\ progress.count > 0 /\ progress.count - 1 \in 0 .. day /\ day = FirstDay
      BY <1>1, <1>3, <1>a, <2>1 DEF IsProgress
    <2> DEFINE a == [draw |-> progress.count - 1, mood |-> progress.mood, release |-> 0, kept |-> TRUE]
    <2>3. answers = {a} /\ release = 1
      BY <1>8, <1>a DEF D!Init
    <2>4. a.draw = progress.count - 1 /\ a.mood = progress.mood /\ a.release = 0
      OBVIOUS
    <2> HIDE DEF a
    <2>5. IsAnswer(a) /\ IsCurrent(a)
      BY <2>1, <2>2, <2>3, <2>4 DEF IsAnswer, IsCurrent
    <2>6. D!DrawHasOneMood
      BY <2>3 DEF D!DrawHasOneMood
    <2> QED
      BY <2>3, <2>4, <2>5, <2>6 DEF AnswersInv, StoredIsShown
  <1>9. ASSUME progress.mood = "" PROVE AnswersInv
    BY <1>6, <1>9 DEF AnswersInv, StoredIsShown, D!DrawHasOneMood
  <1> QED
    BY <1>5, <1>8, <1>9

\* One spin goes on; the others are as they were.
LEMMA SpinMoves ==
    ASSUME D!Configured, SpinsInv, NEW CONSTANT r \in Spins, ~restricted,
           UNCHANGED <<restricted, hash, release, day>>,
           IsProgress(progress)', progress'.on <= day,
           NEW CONSTANT spin, spinning' = [spinning EXCEPT ![r] = spin], IsSpin(spin)',
           \A q \in Spins \ {r} : spinning[q].pc = "recorded" => spin.pc # "recorded" /\ progress' = progress
    PROVE  SpinsInv'
  <1>1. day \in Nat
    BY NextDrawable, Zenon
  <1>2. DOMAIN spinning' = Spins /\ spinning'[r] = spin /\ \A q \in Spins \ {r} : spinning'[q] = spinning[q]
    BY DEF SpinsInv
  <1>3. ASSUME NEW CONSTANT q \in Spins PROVE IsSpin(spinning[q])'
    <2>1. IsSpin(spinning[q])
      BY DEF SpinsInv
    <2>2. q # r => spinning'[q] = spinning[q] /\ (spinning[q].pc = "recorded" => progress' = progress)
      BY <1>2
    <2>3. ASSUME q # r PROVE IsSpin(spinning[q])'
      BY <1>1, <2>1, <2>2, <2>3 DEF IsSpin, IsProgress
    <2>4. ASSUME q = r PROVE IsSpin(spinning[q])'
      BY <1>2, <2>4 DEF IsSpin, IsProgress
    <2> QED
      BY <2>3, <2>4
  <1>4. \A p, q \in Spins : spinning'[p].pc = "recorded" /\ spinning'[q].pc = "recorded" => p = q
    BY <1>2 DEF SpinsInv
  <1> QED
    BY <1>2, <1>3, <1>4 DEF SpinsInv

LEMMA SpinsStep == D!Configured /\ SpinsInv /\ [D!Next]_D!dvars => SpinsInv'
  <1> SUFFICES ASSUME D!Configured, SpinsInv, [D!Next]_D!dvars PROVE SpinsInv'
    OBVIOUS
  <1>1. day \in Nat /\ release \in Nat /\ MaxDay \in Nat
    BY NextDrawable, WheelsInTurn, Zenon
  <1>2. ASSUME UNCHANGED <<restricted, hash, release, progress, spinning>>, day' \in 0 .. MaxDay, day <= day'
        PROVE  SpinsInv'
    <2>1. ASSUME NEW CONSTANT r \in Spins PROVE IsSpin(spinning[r])'
      <3>1. PICK spin : spin = spinning[r]
        OBVIOUS
      <3>2. IsSpin(spin) /\ spinning'[r] = spin /\ progress' = progress
        BY <1>2, <3>1 DEF SpinsInv
      <3>3. day' \in Nat /\ (\A n \in 0 .. day : n \in 0 .. day') /\ (\A n \in Int : n <= day => n <= day')
        BY <1>1, <1>2
      <3> QED
        BY <3>2, <3>3 DEF IsSpin, IsProgress
    <2>2. IsProgress(progress)' /\ progress'.on <= day'
      BY <1>1, <1>2 DEF SpinsInv, IsProgress
    <2> QED
      BY <1>2, <2>1, <2>2 DEF SpinsInv
  <1>3. ASSUME NEW CONSTANT r \in Spins, D!Spin(r) PROVE SpinsInv'
    <2>1. PICK spin : spin = [pc |-> "asked", day |-> day, row |-> D!NoRow]
      OBVIOUS
    <2>2. /\ ~restricted /\ spinning' = [spinning EXCEPT ![r] = spin]
          /\ UNCHANGED <<restricted, hash, release, day, progress>>
      BY <1>3, <2>1 DEF D!Spin
    <2>3. IsSpin(spin)' /\ spin.pc = "asked"
      BY <1>1, <2>1, <2>2 DEF IsSpin
    <2>4. IsProgress(progress)' /\ progress'.on <= day
      BY <2>2 DEF SpinsInv, IsProgress
    <2> QED
      BY <2>2, <2>3, <2>4, SpinMoves
  <1>4. ASSUME NEW CONSTANT r \in Spins, D!RecordSpin(r) PROVE SpinsInv'
    <2>1. PICK on : on = spinning[r].day
      OBVIOUS
    <2>2. PICK row : row = IF progress = D!NoRow \/ progress.on < on
                           THEN [count |-> progress.count + 1, on |-> on, mood |-> ""] ELSE progress
      OBVIOUS
    <2>3. /\ spinning[r].pc = "asked" /\ \A q \in Spins : spinning[q].pc # "recorded"
          /\ spinning' = [spinning EXCEPT ![r].pc = "recorded", ![r].row = row]
          /\ UNCHANGED <<restricted, hash, release, day, progress>>
      BY <1>4, <2>1, <2>2 DEF D!RecordSpin, D!Upsert
    <2>4. IsSpin(spinning[r]) /\ ~restricted /\ IsProgress(progress) /\ progress.on <= day
      BY <2>3 DEF SpinsInv
    <2>5. spinning[r] = [pc |-> "asked", day |-> on, row |-> spinning[r].row] /\ on \in 0 .. day
      BY <2>1, <2>3, <2>4 DEF IsSpin
    <2>6. D!NoRow.count = 0 /\ D!NoRow.on = -1
      BY DEF D!NoRow
    <2>7. IsProgress(row) /\ row.count > 0 /\ row.on <= day
      <3>1. CASE progress = D!NoRow \/ progress.on < on
        <4>1. row = [count |-> progress.count + 1, on |-> on, mood |-> ""]
          BY <2>2, <3>1
        <4>2. /\ progress.count \in Nat /\ progress.on \in Int /\ progress.count <= progress.on + 1
              /\ on \in Int /\ 0 <= on /\ on <= day
          BY <1>1, <2>4, <2>5 DEF IsProgress
        <4>3. progress.count <= on
          BY <2>6, <3>1, <4>2
        <4>a. PICK n : n = progress.count
          OBVIOUS
        <4>4. row.count = n + 1 /\ row.on = on /\ row.mood = ""
          BY <4>1, <4>a
        <4>b. n \in Nat /\ n <= on
          BY <4>2, <4>3, <4>a
        <4>5. row = [count |-> row.count, on |-> row.on, mood |-> row.mood]
          BY <4>1, <4>4
        <4>6. /\ row.count \in Nat /\ row.count > 0 /\ row.on \in Int /\ -1 <= row.on
              /\ row.count <= row.on + 1 /\ row.on <= day
          <5>1. /\ n + 1 \in Nat /\ n + 1 > 0 /\ on \in Int /\ -1 <= on /\ n + 1 <= on + 1 /\ on <= day
            BY <1>1, <4>2, <4>b
          <5> QED
            BY <4>4, <5>1, Zenon
        <4>7. row.count # 0
          BY <4>6
        <4> QED
          BY <4>5, <4>6, <4>7 DEF IsProgress
      <3>2. CASE ~(progress = D!NoRow \/ progress.on < on)
        BY <1>1, <2>2, <2>4, <2>5, <3>2 DEF IsProgress
      <3> QED
        BY <3>1, <3>2
    <2>8. row = progress \/ (row.count = progress.count + 1 /\ row.mood = "")
      BY <2>2
    <2>9. PICK spin : spin = [pc |-> "recorded", day |-> on, row |-> row]
      OBVIOUS
    <2>10. spinning' = [spinning EXCEPT ![r] = spin]
      <3>1. [spinning[r] EXCEPT !.pc = "recorded", !.row = row] = spin
        <4>1. PICK held : held = spinning[r].row
          OBVIOUS
        <4>2. PICK old : old = spinning[r]
          OBVIOUS
        <4>3. old = [pc |-> "asked", day |-> on, row |-> held]
          BY <2>5, <4>1, <4>2
        <4>4. [old EXCEPT !.pc = "recorded"] = [pc |-> "recorded", day |-> on, row |-> held]
          BY <4>3
        <4>5. [[pc |-> "recorded", day |-> on, row |-> held] EXCEPT !.row = row] = spin
          BY <2>9
        <4>6. [old EXCEPT !.pc = "recorded", !.row = row] = [[old EXCEPT !.pc = "recorded"] EXCEPT !.row = row]
          OBVIOUS
        <4> QED
          BY <4>2, <4>4, <4>5, <4>6
      <3>2. spinning' = [spinning EXCEPT ![r] = [spinning[r] EXCEPT !.pc = "recorded", !.row = row]]
        BY <2>3 DEF SpinsInv
      <3> QED
        BY <3>1, <3>2
    <2>11. IsSpin(spin)'
      BY <2>3, <2>7, <2>8, <2>9 DEF IsSpin, IsProgress
    <2>12. IsProgress(progress)' /\ progress'.on <= day
      BY <2>3, <2>4 DEF IsProgress
    <2> QED
      BY <2>3, <2>4, <2>10, <2>11, <2>12, SpinMoves
  <1>5. ASSUME NEW CONSTANT r \in Spins, D!KeepMood(r) PROVE SpinsInv'
    <2>1. PICK row : row = spinning[r].row
      OBVIOUS
    <2>2. /\ spinning[r].pc = "recorded" /\ progress' = [row EXCEPT !.mood = D!Kept(row)]
          /\ spinning' = [spinning EXCEPT ![r] = D!Unspun]
          /\ UNCHANGED <<restricted, hash, release, day>>
      BY <1>5, <2>1 DEF D!KeepMood
    <2>3. IsSpin(spinning[r]) /\ ~restricted
      BY <2>2 DEF SpinsInv
    <2>4. IsProgress(row) /\ row.count > 0 /\ row.on <= day
      BY <2>1, <2>2, <2>3 DEF IsSpin
    <2>5. progress' = [count |-> row.count, on |-> row.on, mood |-> D!Kept(row)]
      BY <2>2, <2>4 DEF IsProgress
    <2>6. IsProgress(progress)' /\ progress'.on <= day
      BY <2>4, <2>5 DEF IsProgress
    <2>7. IsSpin(D!Unspun)'
      BY DEF IsSpin, D!Unspun
    <2>8. \A q \in Spins \ {r} : spinning[q].pc # "recorded"
      BY <2>2 DEF SpinsInv
    <2> QED
      BY <2>2, <2>3, <2>6, <2>7, <2>8, SpinMoves
  <1>6. ASSUME NEW CONSTANT r \in Spins, D!Abort(r) PROVE SpinsInv'
    <2>1. /\ spinning[r].pc # "idle" /\ spinning' = [spinning EXCEPT ![r] = D!Unspun]
          /\ UNCHANGED <<restricted, hash, release, day, progress>>
      BY <1>6 DEF D!Abort
    <2>2. ~restricted
      BY <2>1 DEF SpinsInv
    <2>3. IsSpin(D!Unspun)' /\ D!Unspun.pc = "idle"
      BY DEF IsSpin, D!Unspun
    <2>4. IsProgress(progress)' /\ progress'.on <= day
      BY <2>1 DEF SpinsInv, IsProgress
    <2> QED
      BY <2>1, <2>2, <2>3, <2>4, SpinMoves
  <1>7. CASE D!Look
    BY <1>1, <1>2, <1>7 DEF D!Look, SpinsInv
  <1>8. CASE D!Midnight
    <2>1. day' \in 0 .. MaxDay /\ day <= day'
      BY <1>1, <1>8 DEF D!Midnight
    <2> QED
      BY <1>2, <1>8, <2>1 DEF D!Midnight
  <1>9. CASE D!Deploy
    <2>1. /\ release < Len(Wheels) /\ release' = release + 1 /\ spinning' = [r \in Spins |-> D!Unspun]
          /\ UNCHANGED <<restricted, hash, day, progress>>
      BY <1>9 DEF D!Deploy
    <2>2. release' \in 1 .. Len(Wheels) /\ DOMAIN Wheels = 1 .. Len(Wheels)
      <3>1. DOMAIN Wheels = 1 .. Len(Wheels) /\ Len(Wheels) \in Nat
        BY WheelsInTurn, Zenon
      <3>2. release' \in 1 .. Len(Wheels)
        BY <1>1, <2>1, <3>1
      <3> QED
        BY <3>1, <3>2
    <2>3. release' \in DOMAIN Wheels
      BY <2>2, Zenon
    <2>4. DOMAIN spinning' = Spins /\ \A r \in Spins : spinning'[r] = D!Unspun
      BY <2>1
    <2>5. ASSUME NEW CONSTANT r \in Spins PROVE IsSpin(spinning[r])' /\ spinning'[r].pc = "idle"
      <3>1. PICK spin : spin = spinning'[r]
        OBVIOUS
      <3>2. spin = [pc |-> "idle", day |-> 0, row |-> D!NoRow]
        BY <2>4, <3>1 DEF D!Unspun
      <3> QED
        BY <3>1, <3>2 DEF IsSpin
    <2>6. IsProgress(progress)' /\ progress'.on <= day'
      BY <2>1 DEF SpinsInv, IsProgress
    <2> QED
      BY <2>1, <2>3, <2>4, <2>5, <2>6 DEF SpinsInv
  <1>10. CASE UNCHANGED D!dvars
    BY <1>1, <1>2, <1>10 DEF D!dvars, SpinsInv
  <1> QED
    BY <1>3, <1>4, <1>5, <1>6, <1>7, <1>8, <1>9, <1>10, Zenon DEF D!Next

-----------------------------------------------------------------------------
(* The wheel: its answers *)

\* An answer stays one while the days and the releases go on and the count does not fall.
LEMMA AnswerStays ==
    ASSUME D!Configured, SpinsInv, UNCHANGED <<restricted, hash>>, day' \in Nat, day <= day',
           release' \in Nat, release <= release', progress'.count \in Nat,
           progress.count <= progress'.count, answers \subseteq answers', NEW x, IsAnswer(x)
    PROVE  IsAnswer(x)'
  <1>1. day \in Nat /\ release \in Nat /\ progress.count \in Nat
    BY NextDrawable, Zenon DEF SpinsInv, IsProgress
  <1>2. \A wheel, n : D!MoodFor(wheel, n)' = D!MoodFor(wheel, n)
    BY MoodsFixed
  <1>3. x.release \in 0 .. release' /\ x.draw \in 0 .. day'
    BY <1>1 DEF IsAnswer
  <1>4. ~restricted' => x.draw < progress'.count
    <2> PICK old : old = progress.count
      OBVIOUS
    <2> PICK new : new = progress'.count
      OBVIOUS
    <2> QED
      BY <1>1 DEF IsAnswer
  <1> QED
    BY <1>2, <1>3, <1>4 DEF IsAnswer

\* A day or a release that begins changes nothing that was shown.
LEMMA TimeGoesOn ==
    ASSUME D!Configured, SpinsInv, AnswersInv, UNCHANGED <<restricted, hash, progress, answers>>,
           day' \in Nat, day <= day', release' \in {release, release + 1}
    PROVE  AnswersInv'
  <1>1. release \in Nat /\ progress.count \in Nat
    BY NextDrawable, Zenon DEF SpinsInv, IsProgress
  <1>2. \A x \in answers : IsAnswer(x)'
    BY <1>1, AnswerStays DEF AnswersInv
  <1>3. \A wheel, n : D!MoodFor(wheel, n)' = D!MoodFor(wheel, n)
    BY MoodsFixed
  <1>4. ASSUME ~restricted, NEW x \in answers PROVE IsCurrent(x)'
    <2>1. IsCurrent(x) /\ x.release \in 0 .. release
      BY <1>4 DEF AnswersInv, IsAnswer
    <2>2. CASE release' = release
      <3>1. D!Kept(progress)' = D!Kept(progress)
        BY <1>3, <2>2 DEF D!Kept, D!Wheel
      <3> QED
        BY <2>1, <2>2, <3>1 DEF IsCurrent
    <2>3. CASE release' = release + 1
      <3>1. x.release # release' /\ \A k \in x.release + 1 .. release : k \in x.release + 1 .. release'
        BY <1>1, <2>1, <2>3
      <3> QED
        BY <2>1, <3>1 DEF IsCurrent
    <2> QED
      BY <2>2, <2>3
  <1>5. ~restricted' => StoredIsShown'
    BY DEF AnswersInv, StoredIsShown
  <1>6. D!DrawHasOneMood'
    BY DEF AnswersInv, D!DrawHasOneMood
  <1> QED
    BY <1>2, <1>4, <1>5, <1>6 DEF AnswersInv

\* A new answer agrees with those that were, when this release has shown nothing else for
\* its draw, and what was stored for the draw before is shown if the wheel still has it.
LEMMA OneMoreAnswer ==
    ASSUME D!Configured, SpinsInv, AnswersInv, NEW a, a.release = release, answers' = answers \cup {a},
           \A x \in answers : x.draw = a.draw =>
               /\ x.release = release => x.mood = a.mood
               /\ /\ x.kept /\ x.release < release
                  /\ \A k \in x.release + 1 .. release : x.mood \in Wheels[k]
                  => x.mood = a.mood
    PROVE  D!DrawHasOneMood'
  <1>1. \A x \in answers : x.release \in 0 .. release
    BY DEF AnswersInv, IsAnswer
  <1>2. release \in Nat
    BY NextDrawable, Zenon
  <1>3. \A x \in answers : ~(a.release < x.release)
    BY <1>1, <1>2
  <1>4. SUFFICES ASSUME NEW x \in answers', NEW y \in answers', x.draw = y.draw,
                        \/ x.release = y.release
                        \/ /\ x.kept /\ x.release < y.release
                           /\ \A k \in x.release + 1 .. y.release : x.mood \in Wheels[k]
                 PROVE  x.mood = y.mood
    BY DEF D!DrawHasOneMood
  <1>5. CASE x \in answers /\ y \in answers
    BY <1>4, <1>5 DEF AnswersInv, D!DrawHasOneMood
  <1>6. CASE x \in answers /\ y = a
    BY <1>4, <1>6
  <1>7. CASE x = a /\ y \in answers
    BY <1>3, <1>4, <1>7
  <1> QED
    BY <1>5, <1>6, <1>7

\* The step shows the mood of a row, the committed one or one draw after it, and keeps it
\* if it says so.
ShowsMood(row, a) ==
    /\ UNCHANGED <<restricted, hash, release, day>>
    /\ row = progress \/ (row.count = progress.count + 1 /\ row.mood = "")
    /\ progress'.count = row.count /\ D!Kept(progress)' = D!Kept(row)
    /\ a.draw = row.count - 1 /\ a.mood = D!Kept(row) /\ a.release = release
    /\ answers' = answers \cup {a}
    /\ progress'.mood = D!Kept(row) \/ (progress'.mood = row.mood /\ row = progress)
    /\ a.kept => progress'.mood = D!Kept(row)

LEMMA StoredAnswer ==
    ASSUME D!Configured, SpinsInv, AnswersInv, ~restricted,
           NEW row, IsProgress(row), row.count > 0, row.on <= day, NEW a, ShowsMood(row, a)
    PROVE  AnswersInv'
  <1>1. day \in Nat /\ release \in Nat /\ release > 0
    BY NextDrawable, Zenon
  <1>b. release \in DOMAIN Wheels /\ \A k \in DOMAIN Wheels : "" \notin Wheels[k]
    BY NextDrawable, Zenon DEF SpinsInv
  <1> PICK count : count = row.count
    OBVIOUS
  <1> PICK old : old = progress.count
    OBVIOUS
  <1> PICK mood : mood = D!Kept(row)
    OBVIOUS
  <1>a. /\ UNCHANGED <<restricted, hash, release, day>> /\ answers' = answers \cup {a}
        /\ row = progress \/ (row.count = old + 1 /\ row.mood = "")
        /\ progress'.count = row.count /\ D!Kept(progress)' = mood
        /\ a.draw = row.count - 1 /\ a.mood = mood /\ a.release = release
        /\ progress'.mood = mood \/ (progress'.mood = row.mood /\ row = progress)
        /\ a.kept => progress'.mood = mood
    BY DEF ShowsMood
  <1>2. /\ mood \in Wheels[release] /\ row.count - 1 \in 0 .. day
        /\ mood = IF row.mood \in Wheels[release] THEN row.mood ELSE D!MoodFor(Wheels[release], row.count - 1)
    BY KeptIs
  <1>3. old \in Nat /\ count \in Nat /\ old <= count
    <2>1. old \in Nat /\ count \in Nat /\ (old = count \/ count = old + 1)
      BY <1>a DEF SpinsInv, IsProgress
    <2> QED
      BY <2>1
  <1>4. \A x \in answers : IsAnswer(x) /\ IsCurrent(x) /\ x.draw < old /\ x.release \in 0 .. release
    BY DEF AnswersInv, IsAnswer
  <1>5. ASSUME row # progress, NEW x \in answers PROVE x.draw # row.count - 1
    <2>1. count = old + 1 /\ x.draw \in Int /\ x.draw < old
      <3>1. count = old + 1
        BY <1>5, <1>a
      <3>2. x.draw \in 0 .. day
        BY <1>4 DEF IsAnswer
      <3>3. x.draw \in Int
        BY <1>1, <3>2
      <3> QED
        BY <1>4, <3>1, <3>3
    <2>2. x.draw # count - 1
      BY <1>3, <2>1
    <2> QED
      BY <2>2
  <1>6. ASSUME row = progress, NEW x \in answers, x.draw = row.count - 1
        PROVE  /\ x.release = release => x.mood = mood
               /\ /\ x.kept /\ x.release < release
                  /\ \A k \in x.release + 1 .. release : x.mood \in Wheels[k]
                  => x.mood = mood /\ x.mood = row.mood
    <2>1. IsCurrent(x) /\ x.release \in Nat
      BY <1>4
    <2>2. x.release < release => release \in x.release + 1 .. release
      BY <1>1, <2>1
    <2> QED
      BY <1>2, <1>6, <1>a, <2>1, <2>2 DEF IsCurrent
  <1>7. D!DrawHasOneMood'
    <2>1. ASSUME NEW x \in answers, x.draw = a.draw
          PROVE  /\ x.release = release => x.mood = a.mood
                 /\ /\ x.kept /\ x.release < release
                    /\ \A k \in x.release + 1 .. release : x.mood \in Wheels[k]
                    => x.mood = a.mood
      <3>1. row = progress /\ x.draw = row.count - 1
        BY <1>5, <1>a, <2>1
      <3> QED
        BY <1>6, <1>a, <3>1
    <2>2. a.release = release /\ answers' = answers \cup {a}
      BY <1>a
    <2> QED
      BY <2>1, <2>2, OneMoreAnswer
  <1>8. ASSUME NEW x \in answers PROVE IsAnswer(x)'
    <2>1. progress'.count \in Nat /\ progress.count <= progress'.count
      BY <1>3, <1>a
    <2>2. /\ UNCHANGED <<restricted, hash>> /\ day' \in Nat /\ day <= day'
          /\ release' \in Nat /\ release <= release' /\ answers \subseteq answers'
      <3>1. UNCHANGED <<restricted, hash, release, day>> /\ answers \subseteq answers'
        BY <1>a
      <3>2. day <= day /\ release <= release
        BY <1>1
      <3> QED
        BY <1>1, <3>1, <3>2, Zenon
    <2>3. IsAnswer(x)
      BY <1>4
    <2> QED
      BY <2>1, <2>2, <2>3, AnswerStays
  <1>9. \A wheel, n : D!MoodFor(wheel, n)' = D!MoodFor(wheel, n)
    BY <1>a, MoodsFixed
  <1>10. IsAnswer(a)'
    <2>1. ASSUME row.mood \in Wheels[release]
          PROVE  \/ mood = D!MoodFor(Wheels[release], a.draw)
                 \/ \E y \in answers : y.draw = a.draw /\ y.release < release
      <3>1. row = progress /\ row.mood # "" /\ mood = row.mood
        BY <1>b, <1>2, <1>a, <2>1
      <3>2. PICK y \in answers : y.draw = a.draw /\ y.mood = mood
        BY <1>a, <3>1 DEF AnswersInv, StoredIsShown
      <3>3. IsAnswer(y) /\ y.release \in 0 .. release
        BY <1>4
      <3>4. CASE y.release = release
        BY <1>1, <3>2, <3>3, <3>4 DEF IsAnswer
      <3>5. CASE y.release # release
        <4>1. y.release < release
          BY <1>1, <3>3, <3>5
        <4> QED
          BY <3>2, <4>1
      <3> QED
        BY <3>4, <3>5
    <2>2. \/ mood = D!MoodFor(Wheels[release], a.draw)
          \/ \E y \in answers' : y.draw = a.draw /\ y.release < release
      BY <1>2, <1>a, <2>1
    <2>3. release \in 0 .. release /\ count - 1 < count
      BY <1>1, <1>3
    <2>4. a.release \in 0 .. release /\ a.draw \in 0 .. day /\ a.draw < progress'.count
      BY <1>2, <1>a, <2>3
    <2> QED
      BY <1>1, <1>2, <1>9, <1>a, <2>2, <2>4 DEF IsAnswer
  <1>11. ASSUME NEW x \in answers PROVE IsCurrent(x)'
    <2>1. SUFFICES ASSUME x.draw = row.count - 1
                   PROVE  /\ x.release = release => x.mood = mood
                          /\ x.kept /\ (\A k \in x.release + 1 .. release : x.mood \in Wheels[k])
                               => x.mood = progress'.mood
      BY <1>a DEF IsCurrent
    <2>2. row = progress
      BY <1>5, <2>1
    <2>3. x.release = release => x.mood = mood
      BY <1>6, <2>1, <2>2
    <2>4. ASSUME x.kept, \A k \in x.release + 1 .. release : x.mood \in Wheels[k]
          PROVE  x.mood = progress'.mood
      <3>1. x.mood = progress.mood
        BY <1>4, <2>1, <2>2, <2>4 DEF IsCurrent
      <3>2. CASE x.release = release
        BY <1>a, <2>2, <2>3, <3>1, <3>2
      <3>3. CASE x.release < release
        BY <1>6, <1>a, <2>1, <2>2, <2>4, <3>3
      <3>4. x.release = release \/ x.release < release
        BY <1>1, <1>4
      <3> QED
        BY <3>2, <3>3, <3>4
    <2> QED
      BY <2>3, <2>4
  <1>12. IsCurrent(a)'
    BY <1>a DEF IsCurrent
  <1>13. StoredIsShown'
    <2>1. CASE progress'.mood = mood
      BY <1>a, <2>1 DEF StoredIsShown
    <2>2. CASE progress'.mood = row.mood /\ row = progress
      BY <1>a, <2>2 DEF AnswersInv, StoredIsShown
    <2> QED
      BY <1>a, <2>1, <2>2
  <1> QED
    BY <1>7, <1>8, <1>10, <1>11, <1>12, <1>13, <1>a DEF AnswersInv

LEMMA GuestAnswer ==
    ASSUME D!Configured, SpinsInv, AnswersInv, restricted, NEW a, a.kept = FALSE,
           a.draw = day, a.mood = D!MoodFor(Wheels[release], day), a.release = release,
           UNCHANGED <<restricted, hash, release, day, progress>>, answers' = answers \cup {a}
    PROVE  AnswersInv'
  <1>1. /\ day \in Nat /\ release \in Nat /\ release > 0 /\ progress.count \in Nat
        /\ release \in 0 .. release /\ day \in 0 .. day
    <2>1. day \in Nat /\ release \in Nat /\ release > 0
      BY NextDrawable, Zenon
    <2> QED
      BY <2>1 DEF SpinsInv, IsProgress
  <1>2. D!MoodFor(Wheels[release], day) \in Wheels[release]
    <2>1. release \in 1 .. release
      BY <1>1
    <2>2. Drawable(release, day)
      BY <1>1, <2>1, NextDrawable
    <2> QED
      BY <2>2, MoodIsDrawn DEF SpinsInv
  <1>3. \A wheel, n : D!MoodFor(wheel, n)' = D!MoodFor(wheel, n)
    BY MoodsFixed
  <1>4. \A x \in answers : ~x.kept /\ x.mood = D!MoodFor(Wheels[x.release], x.draw) /\ IsAnswer(x)
    BY DEF AnswersInv, IsAnswer
  <1>5. D!DrawHasOneMood'
    BY <1>4, OneMoreAnswer
  <1>6. ASSUME NEW x \in answers PROVE IsAnswer(x)'
    <2>1. /\ UNCHANGED <<restricted, hash>> /\ day' \in Nat /\ day <= day' /\ release' \in Nat /\ release <= release'
          /\ progress'.count \in Nat /\ progress.count <= progress'.count /\ answers \subseteq answers'
      BY <1>1
    <2> QED
      BY <1>4, <2>1, AnswerStays
  <1>7. IsAnswer(a)'
    BY <1>1, <1>2, <1>3 DEF IsAnswer
  <1> QED
    BY <1>5, <1>6, <1>7 DEF AnswersInv

LEMMA AnswersStep == D!Configured /\ SpinsInv /\ AnswersInv /\ [D!Next]_D!dvars => AnswersInv'
  <1> SUFFICES ASSUME D!Configured, SpinsInv, AnswersInv, [D!Next]_D!dvars PROVE AnswersInv'
    OBVIOUS
  <1>1. day \in Nat /\ release \in Nat /\ day <= day
    <2>1. day \in Nat /\ release \in Nat
      BY NextDrawable, Zenon
    <2> QED
      BY <2>1
  <1>2. ASSUME UNCHANGED <<restricted, hash, release, progress, answers, day>> PROVE AnswersInv'
    BY <1>1, <1>2, TimeGoesOn
  <1>3. ASSUME NEW CONSTANT r \in Spins, D!KeepMood(r) PROVE AnswersInv'
    <2>1. PICK row : row = spinning[r].row
      OBVIOUS
    <2>2. PICK mood : mood = D!Kept(row)
      OBVIOUS
    <2>3. PICK a : a = [draw |-> row.count - 1, mood |-> mood, release |-> release, kept |-> TRUE]
      OBVIOUS
    <2>4. /\ spinning[r].pc = "recorded" /\ progress' = [row EXCEPT !.mood = mood]
          /\ answers' = answers \cup {a} /\ UNCHANGED <<restricted, hash, release, day>>
      BY <1>3, <2>1, <2>2, <2>3 DEF D!KeepMood, D!Answer
    <2>5. IsSpin(spinning[r]) /\ ~restricted
      BY <2>4 DEF SpinsInv
    <2>6. /\ IsProgress(row) /\ row.count > 0 /\ row.on <= day
          /\ row = progress \/ (row.count = progress.count + 1 /\ row.mood = "")
      BY <2>1, <2>4, <2>5 DEF IsSpin
    <2>7. progress' = [count |-> row.count, on |-> row.on, mood |-> mood]
      BY <2>4, <2>6 DEF IsProgress
    <2>8. mood \in Wheels[release]
      BY <2>2, <2>6, KeptIs
    <2>9. D!Kept(progress)' = mood
      BY <2>4, <2>7, <2>8 DEF D!Kept, D!Wheel
    <2>10. progress'.count = row.count /\ progress'.mood = mood
      BY <2>7
    <2>11. a.draw = row.count - 1 /\ a.mood = mood /\ a.release = release
      BY <2>3
    <2>12. ShowsMood(row, a)
      BY <2>2, <2>4, <2>6, <2>9, <2>10, <2>11 DEF ShowsMood
    <2> QED
      BY <2>5, <2>6, <2>12, StoredAnswer
  <1>4. CASE D!Look
    <2>1. UNCHANGED <<restricted, hash, release, day, progress>>
      BY <1>4 DEF D!Look
    <2>2. CASE restricted /\ D!Answer(day, D!MoodFor(D!Wheel, day), FALSE)
      <3>1. PICK a : a = [draw |-> day, mood |-> D!MoodFor(Wheels[release], day), release |-> release, kept |-> FALSE]
        OBVIOUS
      <3>2. answers' = answers \cup {a}
        BY <2>2, <3>1 DEF D!Answer, D!Wheel
      <3>3. a.draw = day /\ a.mood = D!MoodFor(Wheels[release], day) /\ a.release = release /\ a.kept = FALSE
        BY <3>1
      <3> QED
        BY <2>1, <2>2, <3>2, <3>3, GuestAnswer
    <2>3. CASE ~restricted /\ progress.on = day /\ D!Answer(progress.count - 1, D!Kept(progress), progress.mood \in D!Wheel)
      <3>1. PICK row : row = progress
        OBVIOUS
      <3>2. PICK a : a = [draw |-> row.count - 1, mood |-> D!Kept(row), release |-> release,
                          kept |-> row.mood \in Wheels[release]]
        OBVIOUS
      <3>3. answers' = answers \cup {a} /\ ~restricted /\ row.on = day
        BY <2>3, <3>1, <3>2 DEF D!Answer, D!Wheel
      <3>4. a.draw = row.count - 1 /\ a.mood = D!Kept(row) /\ a.release = release
        BY <3>2
      <3>5. a.kept = (row.mood \in Wheels[release])
        BY <3>2
      <3>6. IsProgress(row) /\ row.on <= day
        BY <3>1 DEF SpinsInv
      <3>7. row.count > 0
        <4>1. row.on # -1
          BY <1>1, <3>3
        <4>2. row # D!NoRow
          <5>1. D!NoRow.on = -1
            BY DEF D!NoRow
          <5> QED
            BY <4>1, <5>1
        <4>3. row.count \in Nat /\ row.count # 0
          BY <3>6, <4>2 DEF IsProgress
        <4> QED
          BY <4>3
      <3>8. D!Kept(progress)' = D!Kept(row)
        <4>1. \A wheel, n : D!MoodFor(wheel, n)' = D!MoodFor(wheel, n)
          BY <2>1, MoodsFixed
        <4> QED
          BY <2>1, <3>1, <4>1 DEF D!Kept, D!Wheel
      <3>9. row.mood \in Wheels[release] => D!Kept(row) = row.mood
        BY DEF D!Kept, D!Wheel
      <3>10. progress' = row
        BY <2>1, <3>1
      <3>11. ShowsMood(row, a)
        BY <2>1, <3>1, <3>3, <3>4, <3>5, <3>8, <3>9, <3>10 DEF ShowsMood
      <3> QED
        BY <3>3, <3>6, <3>7, <3>11, StoredAnswer
    <2> QED
      BY <1>4, <2>2, <2>3 DEF D!Look
  <1>5. CASE D!Midnight
    BY <1>1, <1>5, TimeGoesOn DEF D!Midnight
  <1>6. CASE D!Deploy
    BY <1>1, <1>6, TimeGoesOn DEF D!Deploy
  <1>7. ASSUME NEW r \in Spins, D!Spin(r) \/ D!RecordSpin(r) \/ D!Abort(r) PROVE AnswersInv'
    BY <1>2, <1>7 DEF D!Spin, D!RecordSpin, D!Upsert, D!Abort
  <1>8. CASE UNCHANGED D!dvars
    BY <1>2, <1>8 DEF D!dvars
  <1> QED
    BY <1>3, <1>4, <1>5, <1>6, <1>7, <1>8, Zenon DEF D!Next

\* What the invariants say of the draws that were made: each is of its release's bag.
LEMMA WheelSafe == D!Configured /\ SpinsInv /\ AnswersInv => WheelHolds
  <1> SUFFICES ASSUME D!Configured, SpinsInv, AnswersInv PROVE D!WheelHolds
    BY DEF WheelHolds
  <1>1. D!OneSpinADay
    <2>1. day \in Nat
      BY NextDrawable, Zenon
    <2> PICK count : count = progress.count
      OBVIOUS
    <2> PICK on : on = progress.on
      OBVIOUS
    <2>2. count \in Nat /\ on \in Int /\ count <= on + 1 /\ on <= day
      BY DEF SpinsInv, IsProgress
    <2>3. count <= day + 1
      BY <2>1, <2>2
    <2> QED
      BY <2>3 DEF D!OneSpinADay
  <1>2. D!MoodsSitOut
    <2> SUFFICES ASSUME NEW x \in D!Drawn, NEW y \in D!Drawn, x.release = y.release, x.release > 0,
                        x.mood = y.mood, x.draw < y.draw
                 PROVE  /\ y.draw - x.draw > Rest
                        /\ x.draw \div Cardinality(Wheels[x.release]) # y.draw \div Cardinality(Wheels[x.release])
      BY CountingMoods DEF D!MoodsSitOut
    <2>1. ASSUME NEW z \in D!Drawn, z.release > 0
          PROVE  Drawable(z.release, z.draw) /\ z.mood = D!MoodFor(Wheels[z.release], z.draw)
      <3>1. IsAnswer(z) /\ ~\E y_1 \in answers : y_1.draw = z.draw /\ y_1.release < z.release
        BY DEF D!Drawn, AnswersInv
      <3>2. z.release \in 1 .. release /\ z.draw \in 0 .. day
        <4>1. release \in Nat
          BY NextDrawable, Zenon
        <4>2. z.release \in 0 .. release /\ z.draw \in 0 .. day
          BY <3>1 DEF IsAnswer
        <4>3. z.release \in 1 .. release
          BY <2>1, <4>1, <4>2
        <4> QED
          BY <4>2, <4>3
      <3>3. Drawable(z.release, z.draw)
        BY <3>2, NextDrawable
      <3> QED
        BY <2>1, <3>1, <3>3 DEF IsAnswer
    <2> PICK k : k = x.release
      OBVIOUS
    <2> PICK n : n = x.draw
      OBVIOUS
    <2> PICK m : m = y.draw
      OBVIOUS
    <2>2. Drawable(k, n) /\ Drawable(k, m) /\ n < m /\ D!MoodFor(Wheels[k], n) = D!MoodFor(Wheels[k], m)
      BY <2>1
    <2>3. hash \in Hashes
      BY DEF SpinsInv
    <2> QED
      BY <2>2, <2>3, SitsOut
  <1> QED
    BY <1>1, <1>2 DEF D!WheelHolds, AnswersInv

\* A user draws once a day, a draw keeps its mood for as long as the releases do, and a
\* mood that was drawn sits out its rest (mood_for, record_spin, _kept).
THEOREM WheelIsFair == D!Spec => []WheelHolds
  <1>1. D!Init => SpinsInv /\ AnswersInv
    BY UpkeepAssumption, WheelInit
  <1>2. SpinsInv /\ AnswersInv /\ [D!Next]_D!dvars => (SpinsInv /\ AnswersInv)'
    BY UpkeepAssumption, SpinsStep, AnswersStep
  <1>3. SpinsInv /\ AnswersInv => WheelHolds
    BY UpkeepAssumption, WheelSafe
  <1> QED
    BY <1>1, <1>2, <1>3, PTL DEF D!Spec

-----------------------------------------------------------------------------
(* The nightly sweep: what it excludes, from its selection to its end *)

\* The shapes of the catalogue and of the sweep's memory, as far as the proofs look.
CatalogueOfMedia == DOMAIN parent = Media
SweepFields == DOMAIN sweep = {"pc", "queue", "excluded", "failures", "changed", "payloads"}

\* From its selection to its end a sweep excludes the whole catalogue and the blacklist:
\* the administrator is locked out, and what the sweep itself adds to either it excludes
\* in the same commit, or had excluded before.
Excluding ==
    sweep.pc \in {"refreshing", "probing", "stamping"} =>
        Known \cup unwanted \subseteq sweep.excluded

BlacklistInv ==
    /\ CatalogueOfMedia
    /\ SweepFields
    /\ Excluding

\* No media changes its anime, and none that is blacklisted and out comes in.
Steady ==
    /\ \A m \in Known : parent'[m] \in {parent[m], None}
    /\ \A m \in unwanted \ Known : m \notin Known'

LEMMA InitBlacklist == Init => BlacklistInv
  <1> SUFFICES ASSUME Init PROVE BlacklistInv
    OBVIOUS
  <1> QED
    BY DEF Init, BlacklistInv, CatalogueOfMedia, SweepFields, Excluding, NoSweep

\* A step that leaves the rows and the blacklist alone, and forgets no exclusion of a
\* sweep that goes on.
LEMMA QuietSweep ==
    ASSUME BlacklistInv, UNCHANGED <<parent, unwanted>>, SweepFields',
           \/ sweep'.pc \in {"idle", "selecting"}
           \/ /\ sweep.pc \in {"refreshing", "probing", "stamping"}
              /\ sweep.excluded \subseteq sweep'.excluded
    PROVE  BlacklistInv' /\ Steady
  BY DEF BlacklistInv, CatalogueOfMedia, Excluding, Steady, Known

\* A step that takes media out of the catalogue.
LEMMA RemovingMedia ==
    ASSUME BlacklistInv, NEW gone,
           parent' = [m \in Media |-> IF m \in gone THEN None ELSE parent[m]]
    PROVE  /\ CatalogueOfMedia'
           /\ Known' \subseteq Known \ gone
           /\ Steady
  <1>1. CatalogueOfMedia'
    BY DEF CatalogueOfMedia
  <1>2. Known' \subseteq Known \ gone
    BY DEF Known
  <1>3. \A m \in Known : parent'[m] \in {parent[m], None}
    BY DEF Known
  <1> QED
    BY <1>1, <1>2, <1>3 DEF Steady

LEMMA FailKeeps ==
    ASSUME BlacklistInv, sweep.pc = "refreshing", NEW outage, Fail(outage)
    PROVE  SweepFields' /\ (sweep'.pc = "idle" \/ sweep'.excluded = sweep.excluded)
  BY DEF Fail, BlacklistInv, SweepFields, NoSweep

\* A probe attaches only what it found, and blacklists that or a seed of the catalogue.
LEMMA ProbeStep ==
    ASSUME BlacklistInv, Probe
    PROVE  BlacklistInv' /\ Steady
  <1> DEFINE found == Found(SeedMedia)
             turned == {s \in SeedMedia : Turned(s)}
             flagged == {m \in found : mal[m] = "hentai"} \cup turned
             fresh == found \ flagged
  <1>1. /\ parent' = [m \in Media |-> IF m \in fresh THEN Current ELSE parent[m]]
        /\ unwanted' = unwanted \cup flagged
        /\ sweep' = [NextAnime EXCEPT !.excluded = @ \cup found]
        /\ sweep.pc = "probing"
    BY DEF Probe, AttachTo
  <1>2. Known \cup unwanted \subseteq sweep.excluded
    BY <1>1 DEF BlacklistInv, Excluding
  <1>3. found \cap sweep.excluded = {} /\ fresh \subseteq found
    BY DEF Found
  <1>4. flagged \subseteq found \cup Known
    BY DEF SeedMedia, Members
  <1> HIDE DEF found, turned, flagged, fresh
  <1>5. Known' \subseteq Known \cup fresh
    BY <1>1 DEF Known
  <1>6. SweepFields' /\ sweep'.excluded = sweep.excluded \cup found
    BY <1>1 DEF NextAnime, BlacklistInv, SweepFields
  <1>7. Excluding'
    BY <1>1, <1>2, <1>3, <1>4, <1>5, <1>6 DEF Excluding
  <1>8. \A m \in Known : parent'[m] = parent[m]
    BY <1>1, <1>2, <1>3 DEF Known
  <1>9. \A m \in unwanted \ Known : m \notin Known'
    BY <1>2, <1>3, <1>5
  <1>10. CatalogueOfMedia'
    BY <1>1 DEF CatalogueOfMedia
  <1> QED
    BY <1>6, <1>7, <1>8, <1>9, <1>10 DEF BlacklistInv, Steady

LEMMA BlacklistStep ==
    BlacklistInv /\ [Next]_vars => BlacklistInv' /\ Steady
  <1> SUFFICES ASSUME BlacklistInv, [Next]_vars
               PROVE  BlacklistInv' /\ Steady
    OBVIOUS
  <1> USE DEF world, mediaRows, animeRows, curation
  <1>1. SweepFields
    BY DEF BlacklistInv
  <1>2. ASSUME UNCHANGED <<parent, unwanted>>, SweepFields',
               \/ sweep'.pc \in {"idle", "selecting"}
               \/ /\ sweep.pc \in {"refreshing", "probing", "stamping"}
                  /\ sweep.excluded \subseteq sweep'.excluded
        PROVE  BlacklistInv' /\ Steady
    BY <1>2, QuietSweep
  <1>3. ASSUME UNCHANGED <<parent, unwanted, sweep>>
        PROVE  BlacklistInv' /\ Steady
    BY <1>3 DEF BlacklistInv, CatalogueOfMedia, SweepFields, Excluding, Steady, Known
  <1>4. CASE MalMoves
    BY <1>3, <1>4 DEF MalMoves
  <1>5. CASE Night
    BY <1>1, <1>2, <1>5 DEF Night, SweepFields
  <1>6. ASSUME NEW m \in Known, Rule(m)
        PROVE  BlacklistInv' /\ Steady
    BY <1>3, <1>6 DEF Rule
  <1>7. ASSUME NEW m \in Known, NEW blacklist \in BOOLEAN, RemoveMedia(m, blacklist)
        PROVE  BlacklistInv' /\ Steady
    <2>1. parent' = [k \in Media |-> IF k \in {m} THEN None ELSE parent[k]]
      BY <1>7 DEF RemoveMedia, BlacklistInv, CatalogueOfMedia
    <2>2. CatalogueOfMedia' /\ Steady
      BY <2>1, RemovingMedia
    <2>3. sweep' = sweep /\ sweep.pc = "idle"
      BY <1>7 DEF RemoveMedia
    <2> QED
      BY <1>1, <2>2, <2>3 DEF BlacklistInv, SweepFields, Excluding
  <1>8. CASE Select
    <2>1. /\ UNCHANGED <<parent, unwanted>> /\ SweepFields'
          /\ sweep'.excluded = Known \cup unwanted
      BY <1>8 DEF Select, SweepFields, NoSweep, Exclusions
    <2> QED
      BY <2>1 DEF BlacklistInv, CatalogueOfMedia, Excluding, Steady, Known
  <1>9. ASSUME NEW scored, Refresh(scored)
        PROVE  BlacklistInv' /\ Steady
    <2>1. /\ UNCHANGED <<parent, unwanted>> /\ SweepFields'
          /\ sweep.pc = "refreshing" /\ sweep'.excluded = sweep.excluded
      BY <1>1, <1>9 DEF Refresh, AtWork, Reached, SweepFields
    <2> QED
      BY <1>2, <2>1
  <1>10. CASE RemoveHentai
    <2>1. parent' = [m \in Media |-> IF m \in Members(Current) THEN None ELSE parent[m]]
      BY <1>10 DEF RemoveHentai
    <2>2. unwanted' = unwanted \cup Members(Current) /\ Members(Current) \subseteq Known
      BY <1>10 DEF RemoveHentai, Members
    <2>3. CatalogueOfMedia' /\ Steady /\ Known' \subseteq Known
      BY <2>1, RemovingMedia
    <2>4. SweepFields' /\ sweep.pc = "refreshing" /\ sweep'.excluded = sweep.excluded
      BY <1>1, <1>10 DEF RemoveHentai, AtWork, Reached, SweepFields
    <2>5. Excluding'
      BY <2>2, <2>3, <2>4 DEF BlacklistInv, Excluding
    <2> QED
      BY <2>3, <2>4, <2>5 DEF BlacklistInv
  <1>11. CASE RefreshFails \/ RefreshFailsOnce
    <2>1. PICK outage : Fail(outage)
      BY <1>11 DEF RefreshFails, RefreshFailsOnce
    <2>2. sweep.pc = "refreshing" /\ UNCHANGED <<parent, unwanted>>
      BY <1>11 DEF RefreshFails, RefreshFailsOnce, AtWork
    <2> QED
      BY <1>2, <2>1, <2>2, FailKeeps
  <1>12. CASE SkipProbe
    <2>1. /\ UNCHANGED <<parent, unwanted>> /\ SweepFields'
          /\ sweep.pc = "stamping" /\ sweep'.excluded = sweep.excluded
      BY <1>1, <1>12 DEF SkipProbe, NextAnime, SweepFields
    <2> QED
      BY <1>2, <2>1
  <1>13. CASE Probe
    BY <1>13, ProbeStep
  <1>14. CASE ProbeFails \/ ProbeFailsOnce
    <2>1. PICK walked : sweep' = [NextAnime EXCEPT !.excluded = @ \cup Found(walked)]
      BY <1>14 DEF ProbeFails, ProbeFailsOnce, ProbeRolledBack
    <2>2. sweep.pc = "probing" /\ UNCHANGED <<parent, unwanted>>
      BY <1>14 DEF ProbeFails, ProbeFailsOnce, ProbeRolledBack
    <2>3. SweepFields' /\ sweep.excluded \subseteq sweep'.excluded
      BY <1>1, <2>1 DEF NextAnime, SweepFields
    <2> QED
      BY <1>2, <2>2, <2>3
  <1>15. CASE Finish \/ Die
    BY <1>2, <1>15 DEF Finish, Die, NoSweep, SweepFields
  <1>16. CASE UNCHANGED vars
    BY <1>3, <1>16 DEF vars
  <1> QED
    BY <1>4, <1>5, <1>6, <1>7, <1>8, <1>9, <1>10, <1>11, <1>12, <1>13, <1>14, <1>15, <1>16
    DEF Next, Administrator, SweepStep, Fault

-----------------------------------------------------------------------------
(* The nightly sweep: the theorems *)

\* Once a blacklisted entry is out of the catalogue it stays out, whatever the probes of
\* later sweeps reach and however they fail.
THEOREM BlacklistedStayOut == Spec => BlacklistHolds
  <1>1. BlacklistInv /\ [Next]_vars =>
          BlacklistInv' /\ [\A m \in unwanted \ Known : m \notin Known']_vars
    BY BlacklistStep DEF Steady
  <1> QED
    BY InitBlacklist, <1>1, PTL DEF Spec, BlacklistHolds

\* A sweep only adds to the catalogue or removes from it: an entry that two franchises
\* list stays with the anime that has it.
ParentsStay == [][\A m \in Known : parent'[m] \in {parent[m], None}]_vars

\* Neither a probe that reaches the other franchise, nor one that is retried, moves it.
THEOREM SweepsMoveNoMedia == Spec => ParentsStay
  <1>1. BlacklistInv /\ [Next]_vars =>
          BlacklistInv' /\ [\A m \in Known : parent'[m] \in {parent[m], None}]_vars
    BY BlacklistStep DEF Steady
  <1> QED
    BY InitBlacklist, <1>1, PTL DEF Spec, ParentsStay
=============================================================================
