--------------------------- MODULE CurationProofs ---------------------------
(***************************************************************************)
(* What an admin decides of the catalogue stands, for every value of the       *)
(* constants: a row of the two queues is resolved once, and what was dismissed *)
(* is not proposed again.  Each theorem names the requests that may overlap.    *)
(***************************************************************************)
EXTENDS MCCuration, Counting, FiniteSetTheorems, SequenceTheorems, TLAPS

-----------------------------------------------------------------------------
(* The two queues *)

Fields == {"pc", "op", "row", "keep", "drop", "seen", "moved", "named", "labels", "shares",
           "new", "status", "added", "old"}

IsTable(table) ==
    /\ table \in Seq({table[i] : i \in DOMAIN table})
    /\ \A i \in DOMAIN table : IsRow(table[i])

\* The row a decision is about, as its request holds it.
Deciding(t, table, may) ==
    \/ /\ t.op = "dismiss" /\ t.pc = "commit" /\ table[t.row].status = "pending"
       /\ t.row \in DOMAIN t.status /\ t.status[t.row] = "dismissed"
    \/ /\ t.op = "forget" /\ t.pc = "commit" /\ table[t.row].status = "dismissed"
       /\ t.row \in DOMAIN t.status /\ t.status[t.row] = "gone"
    \/ /\ t.op = "merge" /\ table[t.row].status = "pending" /\ table[t.row].queue = "merge"
       /\ \/ t.pc \in {"move", "drop"} /\ t.drop \in table[t.row].anime /\ t.old = {} /\ t.added = {}
          \/ /\ t.pc \in {"load", "settle", "flag", "commit"}
             /\ t.row \in DOMAIN t.status /\ t.status[t.row] = "gone"
    \/ /\ t.op = "split" /\ "split" \in may
       /\ table[t.row].status = "pending" /\ table[t.row].queue = "split"
       /\ \/ t.pc \in {"cut", "load", "settle", "flag"} /\ DOMAIN t.status = {}
          \/ t.pc = "commit" /\ t.row \in DOMAIN t.status /\ t.status[t.row] = "split"

\* What a request may write over a row, and the rows it would supersede and add.
WritesOK(t, table) ==
    /\ \A i \in DOMAIN t.status :
         /\ i \in DOMAIN table /\ table[i].status # "gone"
         /\ t.status[i] \in {"gone", "dismissed"} \/ (t.status[i] = "split" /\ i = t.row /\ t.op = "split")
    /\ \A i \in t.old : i \in DOMAIN table /\ table[i].queue = "split" /\ i \notin DOMAIN t.status

AddsOK(t) ==
    /\ IsFiniteSet(t.added) /\ \A c \in t.added : IsRow(c) /\ c.status = "pending"
    /\ \A c, d \in t.added : c.queue = d.queue /\ c.anime = d.anime => c = d
    /\ t.pc = "flag" => \A c \in t.added : c.queue = "split"

StageOK(t, table, may) ==
    \/ /\ t.op = "none" /\ t.pc \in {"idle", "redetect"} /\ t.row = 0
       /\ DOMAIN t.status = {} /\ t.old = {} /\ t.added = {}
    \/ t.op \in {"bundles", "pairs"} /\ t.pc \in {"flag", "commit"} /\ t.row = 0
    \/ /\ t.op = "refresh" /\ t.pc = "fetch" /\ t.row = 0
       /\ DOMAIN t.status = {} /\ t.old = {} /\ t.added = {}
    \/ t.row \in DOMAIN table /\ Deciding(t, table, may)

TxOK(t, table, may) ==
    DOMAIN t = Fields /\ WritesOK(t, table) /\ AddsOK(t) /\ StageOK(t, table, may)

Locks(t) == ({t.row} \cup DOMAIN t.status) \ {0}

\* What the log of decisions says of the rows.
Settled(log, table) ==
    \A j \in DOMAIN log :
        /\ log[j][1] \in DOMAIN table /\ log[j][2] \in Decisions
        /\ table[log[j][1]].status # "pending"
        /\ log[j][2] \in {"merge", "forget"} => table[log[j][1]].status = "gone"
        /\ log[j][2] = "dismiss" => table[log[j][1]].status \in {"dismissed", "gone"}

DecidedTwice(log) ==
    \A j, k \in DOMAIN log :
        j < k /\ log[j][1] = log[k][1] => log[k][2] = "forget" /\ log[j][2] \in {"dismiss", "split"}

PairsUnique(table) ==
    \A i, j \in DOMAIN table : table[i].queue = "merge" /\ Same(table[i], table[j]) => i = j

QueueInv ==
    /\ IsTable(rows) /\ PairsUnique(rows)
    /\ \A r \in DOMAIN req : TxOK(req[r], rows, ops)
    /\ \A r, q \in DOMAIN req : r # q => Locks(req[r]) \cap Locks(req[q]) = {}
    /\ decided \in Seq(Nat \X Decisions) /\ Settled(decided, rows) /\ DecidedTwice(decided)

-----------------------------------------------------------------------------
LEMMA ListedOnce ==
    ASSUME NEW S, IsFiniteSet(S)
    PROVE  /\ SetToSeq(S) \in Seq(S)
           /\ \A i, j \in DOMAIN SetToSeq(S) : SetToSeq(S)[i] = SetToSeq(S)[j] => i = j
  <1> DEFINE n == Cardinality(S)
             Listing(f) == f \in [1 .. n -> S] /\ IsInjective(f)
  <1>1. n \in Nat /\ ExistsBijection(1 .. n, S)
    BY FS_CardinalityType, FS_NatBijection, FS_CountingElements
  <1>2. PICK f \in Bijection(1 .. n, S) : TRUE
    BY <1>1 DEF ExistsBijection
  <1>3. Listing(f)
    BY <1>2 DEF Bijection, Injection, IsInjective
  <1>4. SetToSeq(S) = CHOOSE g : Listing(g)
    BY DEF SetToSeq
  <1>5. Listing(SetToSeq(S))
    BY <1>3, <1>4
  <1> HIDE DEF n
  <1> QED
    BY <1>1, <1>5 DEF IsInjective

LEMMA Appended ==
    ASSUME NEW S, NEW T, NEW s \in Seq(S), NEW t \in Seq(T)
    PROVE  /\ s \o t \in Seq({(s \o t)[i] : i \in DOMAIN (s \o t)})
           /\ DOMAIN s \subseteq DOMAIN (s \o t) /\ \A i \in DOMAIN s : (s \o t)[i] = s[i]
           /\ \A i \in DOMAIN (s \o t) \ DOMAIN s :
                i - Len(s) \in DOMAIN t /\ (s \o t)[i] = t[i - Len(s)] /\ i \in Int
           /\ Len(s) \in Nat
  <1>1. s \in Seq(S \cup T) /\ t \in Seq(S \cup T)
    OBVIOUS
  <1>2. s \o t \in Seq(S \cup T) /\ Len(s \o t) = Len(s) + Len(t) /\ Len(s) \in Nat /\ Len(t) \in Nat
    BY <1>1
  <1>3. DOMAIN (s \o t) = 1 .. Len(s) + Len(t) /\ DOMAIN s = 1 .. Len(s) /\ DOMAIN t = 1 .. Len(t)
    BY <1>2
  <1>4. \A i \in DOMAIN (s \o t) : (s \o t)[i] = IF i <= Len(s) THEN s[i] ELSE t[i - Len(s)]
    BY <1>1, <1>2
  <1>5. s \o t \in Seq({(s \o t)[i] : i \in DOMAIN (s \o t)})
    <2> DEFINE u == s \o t
    <2>1. u \in Seq(S \cup T)
      BY <1>2
    <2> HIDE DEF u
    <2>2. u = [i \in 1 .. Len(u) |-> u[i]] /\ Len(u) \in Nat /\ DOMAIN u = 1 .. Len(u)
      BY <2>1
    <2>3. u \in Seq({u[i] : i \in DOMAIN u})
      BY <2>2
    <2> QED
      BY <2>3 DEF u
  <1>6. DOMAIN s \subseteq DOMAIN (s \o t)
    BY <1>2, <1>3
  <1>7. ASSUME NEW i \in DOMAIN s PROVE (s \o t)[i] = s[i]
    <2>1. i \in DOMAIN (s \o t) /\ i <= Len(s)
      BY <1>2, <1>3, <1>6, <1>7
    <2> QED
      BY <1>4, <2>1
  <1>8. ASSUME NEW i \in DOMAIN (s \o t) \ DOMAIN s
        PROVE  i - Len(s) \in DOMAIN t /\ (s \o t)[i] = t[i - Len(s)] /\ i \in Int
    <2>1. i \in Int /\ i - Len(s) \in DOMAIN t /\ ~(i <= Len(s))
      BY <1>2, <1>3, <1>8
    <2> QED
      BY <1>4, <1>8, <2>1
  <1> QED
    BY <1>2, <1>5, <1>6, <1>7, <1>8

\* A table takes over statuses and gets rows.
Grows(table, status, added, next) ==
    /\ IsTable(next) /\ DOMAIN table \subseteq DOMAIN next
    /\ \A i \in DOMAIN table :
         /\ next[i].queue = table[i].queue /\ next[i].anime = table[i].anime
         /\ next[i].clusters = table[i].clusters
         /\ next[i].status = IF i \in DOMAIN status THEN status[i] ELSE table[i].status
    /\ \A i \in DOMAIN next \ DOMAIN table : next[i] \in added
    /\ \A i, j \in DOMAIN next \ DOMAIN table : next[i] = next[j] => i = j

LEMMA TableGrows ==
    ASSUME NEW table, IsTable(table), NEW status, NEW added, IsFiniteSet(added),
           \A c \in added : IsRow(c),
           \A i \in DOMAIN status : status[i] \in {"pending", "dismissed", "split", "gone"}
    PROVE  LET kept == [i \in DOMAIN table |->
                          IF i \in DOMAIN status THEN [table[i] EXCEPT !.status = status[i]] ELSE table[i]]
           IN  Grows(table, status, added, kept \o SetToSeq(added))
  <1> DEFINE kept == [i \in DOMAIN table |->
                        IF i \in DOMAIN status THEN [table[i] EXCEPT !.status = status[i]] ELSE table[i]]
             more == SetToSeq(added)
             next == kept \o more
  <1>1. more \in Seq(added) /\ \A i, j \in DOMAIN more : more[i] = more[j] => i = j
    BY ListedOnce
  <1>2. kept \in Seq({kept[i] : i \in DOMAIN table}) /\ DOMAIN kept = DOMAIN table
    <2>1. DOMAIN table = 1 .. Len(table) /\ Len(table) \in Nat
      BY DEF IsTable
    <2> QED
      BY <2>1
  <1>3. ASSUME NEW i \in DOMAIN table
        PROVE  /\ kept[i].queue = table[i].queue /\ kept[i].anime = table[i].anime
               /\ kept[i].clusters = table[i].clusters
               /\ kept[i].status = IF i \in DOMAIN status THEN status[i] ELSE table[i].status
               /\ IsRow(kept[i])
    <2>1. table[i] = [queue |-> table[i].queue, anime |-> table[i].anime, clusters |-> table[i].clusters,
                      status |-> table[i].status] /\ IsRow(table[i])
      BY DEF IsTable, IsRow
    <2>2. CASE i \notin DOMAIN status
      BY <2>1, <2>2
    <2>3. CASE i \in DOMAIN status
      <3>1. kept[i] = [table[i] EXCEPT !.status = status[i]]
        BY <2>3
      <3>2. /\ kept[i].queue = table[i].queue /\ kept[i].anime = table[i].anime
            /\ kept[i].clusters = table[i].clusters /\ kept[i].status = status[i]
            /\ kept[i] = [queue |-> kept[i].queue, anime |-> kept[i].anime, clusters |-> kept[i].clusters,
                          status |-> kept[i].status]
        BY <2>1, <3>1
      <3> HIDE DEF kept
      <3> QED
        BY <2>1, <2>3, <3>2 DEF IsRow
    <2> QED
      BY <2>2, <2>3
  <1> HIDE DEF kept, more
  <1>4. /\ next \in Seq({next[i] : i \in DOMAIN next})
        /\ DOMAIN kept \subseteq DOMAIN next /\ \A i \in DOMAIN kept : next[i] = kept[i]
        /\ \A i \in DOMAIN next \ DOMAIN kept :
             i - Len(kept) \in DOMAIN more /\ next[i] = more[i - Len(kept)] /\ i \in Int
        /\ Len(kept) \in Nat
    BY <1>1, <1>2, Appended
  <1>5. \A j \in DOMAIN more : more[j] \in added
    BY <1>1
  <1> HIDE DEF next
  <1>6. \A i \in DOMAIN next : IsRow(next[i])
    BY <1>2, <1>3, <1>4, <1>5
  <1>7. \A i, j \in DOMAIN next \ DOMAIN table : next[i] = next[j] => i = j
    BY <1>1, <1>2, <1>4
  <1>8. Grows(table, status, added, next)
    BY <1>2, <1>3, <1>4, <1>5, <1>6, <1>7 DEF Grows, IsTable
  <1> QED
    BY <1>8 DEF next, more, kept

LEMMA PlainTable ==
    ASSUME NEW table, IsTable(table)
    PROVE  0 \notin DOMAIN table /\ DOMAIN table \subseteq Nat /\ \A i \in DOMAIN table : IsRow(table[i])
  BY DEF IsTable

\* A request goes on with the rows it holds as they are, whatever else is committed.
LEMMA TxKept ==
    ASSUME NEW t, NEW table, NEW next, NEW may, TxOK(t, table, may), IsTable(table),
           \A i \in DOMAIN table :
             /\ i \in DOMAIN next /\ next[i].queue = table[i].queue /\ next[i].anime = table[i].anime
             /\ i \in Locks(t) => next[i].status = table[i].status
    PROVE  TxOK(t, next, may)
  <1>1. 0 \notin DOMAIN table
    BY PlainTable
  <1>2. WritesOK(t, next)
    BY <1>1 DEF TxOK, WritesOK, Locks
  <1>3. StageOK(t, next, may)
    <2>1. CASE t.row \in DOMAIN table /\ Deciding(t, table, may)
      <3>1. t.row \in Locks(t)
        BY <1>1, <2>1 DEF Locks
      <3>2. /\ next[t.row].status = table[t.row].status /\ next[t.row].queue = table[t.row].queue
            /\ next[t.row].anime = table[t.row].anime /\ t.row \in DOMAIN next
        BY <2>1, <3>1
      <3>3. Deciding(t, next, may)
        BY <2>1, <3>2 DEF Deciding
      <3> QED
        BY <3>2, <3>3 DEF StageOK
    <2> QED
      BY <2>1 DEF TxOK, StageOK
  <1> QED
    BY <1>2, <1>3 DEF TxOK

LEMMA FreeOK ==
    ASSUME NEW table, NEW may, NEW keep
    PROVE  /\ TxOK(Free, table, may) /\ Locks(Free) = {}
           /\ TxOK([Free EXCEPT !.pc = "redetect", !.keep = keep], table, may)
           /\ Locks([Free EXCEPT !.pc = "redetect", !.keep = keep]) = {}
  <1>1. DOMAIN <<>> = {}
    OBVIOUS
  <1>2. IsFiniteSet({})
    BY FS_EmptySet
  <1>3. /\ DOMAIN Free = Fields /\ Free.op = "none" /\ Free.pc = "idle" /\ Free.row = 0
        /\ DOMAIN Free.status = {} /\ Free.old = {} /\ Free.added = {}
    BY <1>1 DEF Free, Fields
  <1> DEFINE t == [Free EXCEPT !.pc = "redetect", !.keep = keep]
  <1>4. /\ DOMAIN t = Fields /\ t.op = "none" /\ t.pc = "redetect" /\ t.row = 0
        /\ DOMAIN t.status = {} /\ t.old = {} /\ t.added = {}
    BY <1>1 DEF Free, Fields
  <1> HIDE DEF t
  <1>5. TxOK(Free, table, may) /\ Locks(Free) = {}
    BY <1>2, <1>3 DEF TxOK, WritesOK, AddsOK, StageOK, Locks
  <1>6. TxOK(t, table, may) /\ Locks(t) = {}
    BY <1>2, <1>4 DEF TxOK, WritesOK, AddsOK, StageOK, Locks
  <1> QED
    BY <1>5, <1>6 DEF t

\* What a status will be once a request commits.
After(t, table, i) == IF i \in DOMAIN t.status THEN t.status[i] ELSE table[i].status

\* It supersedes no row that a split has decided ...
Spares(t, table) ==
    /\ \A i \in t.old : table[i].status # "split"
    /\ \A i \in DOMAIN t.status : t.status[i] = "dismissed" => table[i].status # "split"

\* ... and the bundles it adds are news to the table.
NewsOK(t, table) ==
    \A c \in t.added, i \in DOMAIN table :
        c.queue = "split" /\ table[i].queue = "split" /\ table[i].anime = c.anime /\ After(t, table, i) # "gone"
          => Signature(table[i].clusters) # Signature(c.clusters)

\* A step of one request that commits nothing.
Advances(r) ==
    /\ DOMAIN req' = DOMAIN req /\ \A q \in DOMAIN req \ {r} : req'[q] = req[q]
    /\ rows' = rows /\ ops' = ops /\ decided' = decided
    /\ TxOK(req'[r], rows, ops)
    /\ \A i \in Locks(req'[r]) : i \in Locks(req[r]) \/ RowFree(r, i)
    /\ Spares(req[r], rows) => Spares(req'[r], rows)
    /\ NewsOK(req[r], rows) => NewsOK(req'[r], rows)

LEMMA AdvanceKeeps ==
    ASSUME QueueInv, NEW r \in DOMAIN req, Advances(r)
    PROVE  QueueInv'
  <1> USE DEF Advances
  <1>1. \A q \in DOMAIN req : TxOK(req'[q], rows, ops)
    BY DEF QueueInv
  <1>2. ASSUME NEW q \in DOMAIN req, q # r PROVE Locks(req'[r]) \cap Locks(req'[q]) = {}
    <2>1. Locks(req'[q]) = Locks(req[q]) /\ Locks(req[r]) \cap Locks(req[q]) = {}
      BY <1>2 DEF QueueInv
    <2>2. \A i \in Locks(req[q]) : ~RowFree(r, i)
      BY <1>2 DEF RowFree, Others, Locks
    <2> QED
      BY <2>1, <2>2
  <1>3. \A p, q \in DOMAIN req : p # q => Locks(req'[p]) \cap Locks(req'[q]) = {}
    <2>1. ASSUME NEW p \in DOMAIN req, NEW q \in DOMAIN req, p # q, p # r, q # r
          PROVE  Locks(req'[p]) \cap Locks(req'[q]) = {}
      <3>1. req'[p] = req[p] /\ req'[q] = req[q]
        BY <2>1
      <3> QED
        BY <2>1, <3>1 DEF QueueInv
    <2> QED
      BY <1>2, <2>1
  <1> QED
    BY <1>1, <1>3 DEF QueueInv

\* A step that puts t in the place of a request.
LEMMA Proceeds ==
    ASSUME NEW r \in DOMAIN req, NEW t, req' = [req EXCEPT ![r] = t], rows' = rows, ops' = ops,
           decided' = decided, TxOK(t, rows, ops),
           \A i \in Locks(t) : i \in Locks(req[r]) \/ RowFree(r, i),
           Spares(req[r], rows) => Spares(t, rows), NewsOK(req[r], rows) => NewsOK(t, rows)
    PROVE  Advances(r)
  <1>1. DOMAIN req' = DOMAIN req /\ req'[r] = t /\ \A q \in DOMAIN req \ {r} : req'[q] = req[q]
    OBVIOUS
  <1> QED
    BY <1>1 DEF Advances

LEMMA NothingAdded ==
    ASSUME NEW t, NEW table, t.added = {}
    PROVE  AddsOK(t) /\ NewsOK(t, table)
  BY FS_EmptySet DEF AddsOK, NewsOK

\* What a detection finds.
Finds(r, found, news, pairs, t) ==
    /\ MaxAnime \in Nat /\ WritesOK(req[r], rows)
    /\ news \subseteq Anime /\ \A a \in news : IsNews(r, a, found[a])
    /\ \A p \in pairs : p \subseteq Anime /\ Cardinality(p) = 2
    /\ t.status = req[r].status /\ t.old \in Superseding(r, news)
    /\ t.pc = "flag" => pairs = {}
    /\ t.added = Inserted(found, news) \cup {Pair(p) : p \in pairs}

LEMMA AnimeFinite ==
    ASSUME MaxAnime \in Nat PROVE IsFiniteSet(Anime) /\ IsFiniteSet(SUBSET Anime)
  <1>1. IsFiniteSet(Anime)
    <2>1. 1 \in Int /\ MaxAnime \in Int
      OBVIOUS
    <2> QED
      BY <2>1, FS_Interval DEF Anime
  <1> QED
    BY <1>1, FS_SUBSET

LEMMA Found ==
    ASSUME NEW r, NEW found, NEW news, NEW pairs, NEW t, Finds(r, found, news, pairs, t)
    PROVE  /\ AddsOK(t) /\ NewsOK(t, rows)
           /\ \A i \in t.old : /\ i \in DOMAIN rows /\ rows[i].queue = "split" /\ i \notin DOMAIN t.status
                               /\ rows[i].status = "pending"
  <1> USE DEF Finds
  <1>1. IsFiniteSet(Anime) /\ IsFiniteSet(SUBSET Anime)
    BY AnimeFinite
  <1>2. IsFiniteSet(news) /\ IsFiniteSet(pairs)
    <2>1. pairs \subseteq SUBSET Anime /\ news \subseteq Anime
      OBVIOUS
    <2> HIDE DEF Finds
    <2> QED
      BY <1>1, <2>1, FS_Subset
  <1>3. IsFiniteSet(Inserted(found, news))
    <2> DEFINE f == [a \in news |-> Bundle(a, found[a])]
    <2>1. Inserted(found, news) = {f[a] : a \in news}
      BY DEF Inserted
    <2> HIDE DEF f
    <2> QED
      BY <1>2, <2>1, ImageFinite
  <1>4. IsFiniteSet({Pair(p) : p \in pairs})
    <2> DEFINE f == [p \in pairs |-> Pair(p)]
    <2>1. {Pair(p) : p \in pairs} = {f[p] : p \in pairs}
      OBVIOUS
    <2> HIDE DEF f
    <2>2. IsFiniteSet({f[p] : p \in pairs})
      BY <1>2, ImageFinite
    <2> QED
      BY <2>1, <2>2
  <1>5. IsFiniteSet(t.added)
    <2>1. IsFiniteSet(Inserted(found, news) \cup {Pair(p) : p \in pairs})
      <3> DEFINE ps == {Pair(p) : p \in pairs}
      <3> HIDE DEF ps, Finds
      <3>1. IsFiniteSet(ps)
        BY <1>4 DEF ps
      <3>2. IsFiniteSet(Inserted(found, news) \cup ps)
        BY <1>3, <3>1, FS_Union
      <3> QED
        BY <3>2 DEF ps
    <2> QED
      BY <2>1
  <1>6. ASSUME NEW a \in Anime, NEW fs
        PROVE  /\ Bundle(a, fs).queue = "split" /\ Bundle(a, fs).anime = {a}
               /\ Bundle(a, fs).clusters = fs /\ Bundle(a, fs).status = "pending" /\ IsRow(Bundle(a, fs))
    BY DEF Bundle, IsRow
  <1>7. ASSUME NEW p, p \subseteq Anime, Cardinality(p) = 2
        PROVE  /\ Pair(p).queue = "merge" /\ Pair(p).anime = p
               /\ Pair(p).clusters = {} /\ Pair(p).status = "pending" /\ IsRow(Pair(p))
    BY <1>7 DEF Pair, IsRow
  <1>8. \A c \in t.added :
          \/ \E a \in news : a \in Anime /\ c = Bundle(a, found[a])
          \/ \E p \in pairs : c = Pair(p) /\ p \subseteq Anime /\ Cardinality(p) = 2
    BY DEF Inserted
  <1> HIDE DEF Finds
  <1>9. \A c \in t.added : IsRow(c) /\ c.status = "pending"
    BY <1>6, <1>7, <1>8
  <1>10. \A c, d \in t.added : c.queue = d.queue /\ c.anime = d.anime => c = d
    <2> SUFFICES ASSUME NEW c \in t.added, NEW d \in t.added, c.queue = d.queue, c.anime = d.anime
                 PROVE  c = d
      OBVIOUS
    <2>1. CASE c.queue = "merge"
      <3>1. PICK p \in pairs : c = Pair(p) /\ p \subseteq Anime /\ Cardinality(p) = 2
        BY <1>6, <1>8, <2>1
      <3>2. PICK q \in pairs : d = Pair(q) /\ q \subseteq Anime /\ Cardinality(q) = 2
        <4>1. d.queue = "merge"
          BY <2>1
        <4> QED
          BY <1>6, <1>8, <4>1
      <3>3. c.anime = p /\ d.anime = q
        BY <1>7, <3>1, <3>2
      <3> QED
        BY <3>1, <3>2, <3>3
    <2>2. CASE c.queue # "merge"
      <3>1. PICK a \in news : a \in Anime /\ c = Bundle(a, found[a])
        BY <1>7, <1>8, <2>2
      <3>2. PICK b \in news : b \in Anime /\ d = Bundle(b, found[b])
        BY <1>7, <1>8, <2>2
      <3>3. {a} = {b}
        <4>1. c.anime = {a} /\ d.anime = {b}
          BY <1>6, <3>1, <3>2
        <4> QED
          BY <4>1
      <3>4. a = b
        BY <3>3
      <3> QED
        BY <3>1, <3>2, <3>4
    <2> QED
      BY <2>1, <2>2
  <1>11. AddsOK(t)
    <2>1. t.pc = "flag" => \A c \in t.added : c.queue = "split"
      BY <1>6, <1>8 DEF Finds
    <2> QED
      BY <1>5, <1>9, <1>10, <2>1 DEF AddsOK
  <1>12. NewsOK(t, rows)
    <2> SUFFICES ASSUME NEW c \in t.added, NEW i \in DOMAIN rows, c.queue = "split",
                        rows[i].queue = "split", rows[i].anime = c.anime, After(t, rows, i) # "gone"
                 PROVE  Signature(rows[i].clusters) # Signature(c.clusters)
      BY DEF NewsOK
    <2>1. PICK a \in news : a \in Anime /\ c = Bundle(a, found[a])
      BY <1>7, <1>8
    <2>2. Status(r, i) # "gone"
      BY DEF After, Status, Finds
    <2>3. i \in History(r, a)
      BY <1>6, <2>1, <2>2 DEF History
    <2>4. Signature(rows[i].clusters) # Signature(found[a])
      BY <2>1, <2>3 DEF IsNews, Finds
    <2> QED
      BY <1>6, <2>1, <2>4
  <1>13. ASSUME NEW i \in t.old
         PROVE  /\ i \in DOMAIN rows /\ rows[i].queue = "split" /\ i \notin DOMAIN t.status
                /\ rows[i].status = "pending"
    <2>1. PICK a \in news : i \in History(r, a) /\ Status(r, i) = "pending"
      BY DEF Superseding, Open, Finds
    <2>2. i \notin DOMAIN req[r].status
      BY <2>1 DEF WritesOK, Status, Finds
    <2> QED
      BY <2>1, <2>2 DEF History, Status, Finds
  <1> QED
    BY <1>11, <1>12, <1>13

\* The pairs a split finds last come on top of the bundles.
LEMMA PairsToo ==
    ASSUME MaxAnime \in Nat, NEW u, AddsOK(u), u.pc = "flag", NEW pairs,
           \A p \in pairs : p \subseteq Anime /\ Cardinality(p) = 2,
           NEW t, t.pc # "flag", t.added = u.added \cup {Pair(p) : p \in pairs}
    PROVE  AddsOK(t) /\ \A c \in t.added : c.queue = "split" => c \in u.added
  <1> DEFINE more == {Pair(p) : p \in pairs}
  <1>1. IsFiniteSet(more)
    <2> DEFINE f == [p \in pairs |-> Pair(p)]
    <2>1. pairs \subseteq SUBSET Anime
      OBVIOUS
    <2>2. IsFiniteSet(pairs)
      BY <2>1, AnimeFinite, FS_Subset
    <2>3. more = {f[p] : p \in pairs}
      OBVIOUS
    <2> HIDE DEF f, more
    <2> QED
      BY <2>2, <2>3, ImageFinite
  <1>2. \A p \in pairs : /\ Pair(p).queue = "merge" /\ Pair(p).anime = p
                         /\ Pair(p).status = "pending" /\ IsRow(Pair(p))
    BY DEF Pair, IsRow
  <1>3. \A c \in more : \E p \in pairs : c = Pair(p)
    OBVIOUS
  <1>4. t.added = u.added \cup more
    OBVIOUS
  <1> HIDE DEF more
  <1>5. \A c \in more : c = Pair(c.anime) /\ c.queue = "merge" /\ IsRow(c) /\ c.status = "pending"
    BY <1>2, <1>3
  <1>6. /\ IsFiniteSet(u.added) /\ \A c \in u.added : IsRow(c) /\ c.status = "pending"
        /\ \A c, d \in u.added : c.queue = d.queue /\ c.anime = d.anime => c = d
        /\ \A c \in u.added : c.queue = "split"
    BY DEF AddsOK
  <1>7. IsFiniteSet(t.added)
    <2> DEFINE all == u.added
    <2>1. IsFiniteSet(all)
      BY <1>6
    <2> HIDE DEF all
    <2>2. IsFiniteSet(all \cup more)
      BY <1>1, <2>1, FS_Union
    <2> QED
      BY <1>4, <2>2 DEF all
  <1>8. ASSUME NEW c \in t.added, NEW d \in t.added, c.queue = d.queue, c.anime = d.anime PROVE c = d
    <2>1. CASE c.queue = "merge"
      <3>1. c \in more /\ d \in more
        BY <1>4, <1>6, <1>8, <2>1
      <3>2. c = Pair(c.anime) /\ d = Pair(d.anime)
        BY <1>5, <3>1
      <3> QED
        BY <1>8, <3>2
    <2>2. CASE c.queue # "merge"
      <3>1. c \in u.added /\ d \in u.added
        BY <1>4, <1>5, <1>8, <2>2
      <3> QED
        BY <1>6, <1>8, <3>1
    <2> QED
      BY <2>1, <2>2
  <1> QED
    BY <1>4, <1>5, <1>6, <1>7, <1>8 DEF AddsOK

-----------------------------------------------------------------------------
(* The steps that commit nothing *)

LEMMA MarkAdvances ==
    ASSUME QueueInv, NEW r \in DOMAIN req, NEW op, NEW i \in DOMAIN rows, Mark(r, op, i)
    PROVE  Advances(r)
  <1> DEFINE t == [Free EXCEPT !.pc = "commit", !.op = op, !.row = i,
                     !.status = [j \in {i} |-> IF op = "forget" THEN "gone" ELSE "dismissed"]]
  <1>1. /\ DOMAIN t = Fields /\ t.pc = "commit" /\ t.op = op /\ t.row = i /\ t.old = {} /\ t.added = {}
        /\ DOMAIN t.status = {i} /\ t.status[i] = IF op = "forget" THEN "gone" ELSE "dismissed"
    BY DEF Free, Fields
  <1>2. /\ req' = [req EXCEPT ![r] = t] /\ op \in {"dismiss", "forget"} /\ RowFree(r, i)
        /\ rows[i].status = IF op = "forget" THEN "dismissed" ELSE "pending"
        /\ rows' = rows /\ ops' = ops /\ decided' = decided
    BY DEF Mark, Request, CanTake, catalogue
  <1> HIDE DEF t
  <1>3. AddsOK(t) /\ NewsOK(t, rows)
    BY <1>1, NothingAdded
  <1>4. WritesOK(t, rows) /\ Spares(t, rows)
    BY <1>1, <1>2 DEF WritesOK, Spares
  <1>5. Deciding(t, rows, ops)
    BY <1>1, <1>2 DEF Deciding
  <1>6. TxOK(t, rows, ops)
    BY <1>1, <1>3, <1>4, <1>5 DEF TxOK, StageOK
  <1>7. \A j \in Locks(t) : RowFree(r, j)
    BY <1>1, <1>2 DEF Locks
  <1> QED
    BY <1>2, <1>3, <1>4, <1>6, <1>7, Proceeds

LEMMA StartMergeAdvances ==
    ASSUME QueueInv, NEW r \in DOMAIN req, NEW i \in DOMAIN rows, NEW keep \in rows[i].anime,
           StartMerge(r, i, keep)
    PROVE  Advances(r)
  <1> DEFINE drop == CHOOSE d \in rows[i].anime : d # keep
             t == [Free EXCEPT !.pc = "move", !.op = "merge", !.row = i, !.keep = keep, !.drop = drop]
  <1>1. /\ DOMAIN t = Fields /\ t.pc = "move" /\ t.op = "merge" /\ t.row = i /\ t.old = {}
        /\ t.added = {} /\ DOMAIN t.status = {} /\ t.drop = drop
    <2>1. DOMAIN <<>> = {}
      OBVIOUS
    <2> HIDE DEF drop
    <2> QED
      BY <2>1 DEF Free, Fields
  <1>2. /\ req' = [req EXCEPT ![r] = t] /\ RowFree(r, i) /\ rows[i].status = "pending"
        /\ rows[i].queue = "merge" /\ rows' = rows /\ ops' = ops /\ decided' = decided
    BY DEF StartMerge, Request, CanTake, catalogue
  <1>3. drop \in rows[i].anime
    <2>1. Cardinality(rows[i].anime) = 2
      BY <1>2, PlainTable DEF QueueInv, IsRow
    <2>2. rows[i].anime # {keep}
      BY <2>1, FS_Singleton
    <2> QED
      BY <2>2
  <1> HIDE DEF t, drop
  <1>4. AddsOK(t) /\ NewsOK(t, rows)
    BY <1>1, NothingAdded
  <1>5. WritesOK(t, rows) /\ Spares(t, rows)
    BY <1>1, <1>2 DEF WritesOK, Spares
  <1>6. Deciding(t, rows, ops)
    BY <1>1, <1>2, <1>3 DEF Deciding
  <1>7. TxOK(t, rows, ops)
    BY <1>1, <1>4, <1>5, <1>6 DEF TxOK, StageOK
  <1>8. \A j \in Locks(t) : RowFree(r, j)
    BY <1>1, <1>2 DEF Locks
  <1> QED
    BY <1>2, <1>4, <1>5, <1>7, <1>8, Proceeds

LEMMA StartSplitAdvances ==
    ASSUME QueueInv, NEW r \in DOMAIN req, NEW i \in DOMAIN rows, StartSplit(r, i)
    PROVE  Advances(r)
  <1> DEFINE source == CHOOSE a \in rows[i].anime : TRUE
             seen == Load(Unread, home, source)
             t == [Free EXCEPT !.pc = "cut", !.op = "split", !.row = i, !.keep = source, !.seen = seen]
  <1>1. /\ DOMAIN t = Fields /\ t.pc = "cut" /\ t.op = "split" /\ t.row = i /\ t.old = {}
        /\ t.added = {} /\ DOMAIN t.status = {}
    <2>1. DOMAIN <<>> = {}
      OBVIOUS
    <2> HIDE DEF source, seen
    <2> QED
      BY <2>1 DEF Free, Fields
  <1>2. /\ req' = [req EXCEPT ![r] = t] /\ RowFree(r, i) /\ rows[i].status = "pending" /\ "split" \in ops
        /\ rows[i].queue = "split" /\ rows' = rows /\ ops' = ops /\ decided' = decided
    BY DEF StartSplit, Request, CanTake, catalogue
  <1> HIDE DEF t, source, seen
  <1>4. AddsOK(t) /\ NewsOK(t, rows)
    BY <1>1, NothingAdded
  <1>5. WritesOK(t, rows) /\ Spares(t, rows)
    BY <1>1, <1>2 DEF WritesOK, Spares
  <1>6. Deciding(t, rows, ops)
    BY <1>1, <1>2 DEF Deciding
  <1>7. TxOK(t, rows, ops)
    BY <1>1, <1>4, <1>5, <1>6 DEF TxOK, StageOK
  <1>8. \A j \in Locks(t) : RowFree(r, j)
    BY <1>1, <1>2 DEF Locks
  <1> QED
    BY <1>2, <1>4, <1>5, <1>7, <1>8, Proceeds

LEMMA ReparentAdvances ==
    ASSUME QueueInv, NEW r \in DOMAIN req, Reparent(r)
    PROVE  Advances(r)
  <1> DEFINE ms == MediaOf(home, req[r].drop)
             moved == [m \in ms |-> req[r].keep]
             shares == IF ms = {} THEN {} ELSE {req[r].keep}
             t == [req[r] EXCEPT !.pc = "drop", !.moved = moved, !.shares = shares]
  <1>1. TxOK(req[r], rows, ops) /\ req[r].pc = "move"
    BY DEF QueueInv, Reparent
  <1>2. /\ DOMAIN t = Fields /\ t.pc = "drop" /\ t.op = req[r].op /\ t.row = req[r].row
        /\ t.drop = req[r].drop /\ t.status = req[r].status /\ t.old = req[r].old
        /\ t.added = req[r].added
    <2> HIDE DEF moved, shares
    <2> QED
      BY <1>1 DEF TxOK, Fields
  <1>3. req' = [req EXCEPT ![r] = t] /\ rows' = rows /\ ops' = ops /\ decided' = decided
    BY DEF Reparent, catalogue
  <1> HIDE DEF t
  <1>4. Deciding(t, rows, ops) /\ t.row \in DOMAIN rows
    <2>1. req[r].row \in DOMAIN rows /\ Deciding(req[r], rows, ops)
      BY <1>1 DEF TxOK, StageOK
    <2> QED
      BY <1>1, <1>2, <2>1 DEF Deciding
  <1>5. WritesOK(t, rows) /\ AddsOK(t)
    BY <1>1, <1>2 DEF TxOK, WritesOK, AddsOK
  <1>6. TxOK(t, rows, ops)
    BY <1>2, <1>4, <1>5 DEF TxOK, StageOK
  <1>7. \A i \in Locks(t) : i \in Locks(req[r]) \/ RowFree(r, i)
    BY <1>2 DEF Locks
  <1>8. (Spares(req[r], rows) => Spares(t, rows)) /\ (NewsOK(req[r], rows) => NewsOK(t, rows))
    BY <1>2 DEF Spares, NewsOK, After
  <1> HIDE DEF ms, moved, shares
  <1> QED
    BY <1>3, <1>6, <1>7, <1>8, Proceeds

LEMMA DropAdvances ==
    ASSUME QueueInv, NEW r \in DOMAIN req, Drop(r)
    PROVE  Advances(r)
  <1> DEFINE late == MediaOf(Home(r), req[r].drop)
             held == {i \in DOMAIN rows : req[r].drop \in rows[i].anime /\ Live(i)}
             named == (req[r].drop :> Gone)
             moved == [m \in late |-> Gone] @@ req[r].moved
             status == [i \in held |-> "gone"]
             t == [req[r] EXCEPT !.pc = "load", !.named = named, !.moved = moved, !.status = status]
  <1>1. TxOK(req[r], rows, ops) /\ req[r].pc = "drop"
    BY DEF QueueInv, Drop
  <1>2. /\ DOMAIN t = Fields /\ t.pc = "load" /\ t.op = req[r].op /\ t.row = req[r].row
        /\ t.status = status /\ t.old = req[r].old /\ t.added = req[r].added
    <2> HIDE DEF moved, named, status
    <2> QED
      BY <1>1 DEF TxOK, Fields
  <1>3. /\ req' = [req EXCEPT ![r] = t] /\ rows' = rows /\ ops' = ops /\ decided' = decided
        /\ \A i \in held : RowFree(r, i)
    BY DEF Drop, catalogue
  <1>4. req[r].row \in DOMAIN rows /\ Deciding(req[r], rows, ops)
    BY <1>1 DEF TxOK, StageOK
  <1>5. /\ req[r].op = "merge" /\ rows[req[r].row].status = "pending" /\ rows[req[r].row].queue = "merge"
        /\ req[r].drop \in rows[req[r].row].anime /\ req[r].old = {} /\ req[r].added = {}
    BY <1>1, <1>4 DEF Deciding
  <1>6. /\ DOMAIN status = held /\ \A i \in held : status[i] = "gone"
        /\ \A i \in held : i \in DOMAIN rows /\ rows[i].status # "gone"
        /\ req[r].row \in held
    BY <1>4, <1>5 DEF Live
  <1> HIDE DEF t, status, held
  <1>7. Deciding(t, rows, ops)
    BY <1>2, <1>4, <1>5, <1>6 DEF Deciding
  <1>8. WritesOK(t, rows) /\ Spares(t, rows)
    BY <1>2, <1>5, <1>6 DEF WritesOK, Spares
  <1>9. AddsOK(t) /\ NewsOK(t, rows)
    BY <1>2, <1>5, NothingAdded
  <1>10. TxOK(t, rows, ops)
    BY <1>2, <1>4, <1>7, <1>8, <1>9 DEF TxOK, StageOK
  <1>11. \A i \in Locks(t) : RowFree(r, i)
    BY <1>2, <1>3, <1>6 DEF Locks
  <1> QED
    BY <1>3, <1>8, <1>9, <1>10, <1>11, Proceeds

LEMMA CutAdvances ==
    ASSUME QueueInv, NEW r \in DOMAIN req, Cut(r)
    PROVE  Advances(r)
  <1> DEFINE u == req[r]
             ids == [f \in Parts(u) |-> made + Cardinality({g \in Parts(u) : g.anchor <= f.anchor})]
             members(f) == f.members \cap DOMAIN u.seen.media
             whole == UNION {members(f) : f \in Parts(u)}
             of(m) == CHOOSE f \in Parts(u) : m \in members(f)
             new == {ids[f] : f \in Parts(u)}
             named == [a \in {ids[f] : f \in Parts(u)} |-> (CHOOSE f \in Parts(u) : ids[f] = a).anchor]
             moved == [m \in whole |-> ids[of(m)]]
             labels == [m \in whole |-> PartLabels(u, of(m))[m]]
             t == [req[r] EXCEPT !.pc = "load", !.new = new, !.named = named, !.moved = moved,
                                 !.labels = labels]
  <1>1. req' = [req EXCEPT ![r] = t]
    BY DEF Cut
  <1>2. TxOK(req[r], rows, ops) /\ req[r].pc = "cut"
    BY DEF QueueInv, Cut
  <1>3. /\ DOMAIN t = Fields /\ t.pc = "load" /\ t.op = req[r].op /\ t.row = req[r].row
        /\ t.status = req[r].status /\ t.old = req[r].old /\ t.added = req[r].added
    <2> HIDE DEF new, named, moved, labels
    <2> QED
      BY <1>2 DEF TxOK, Fields
  <1>4. rows' = rows /\ ops' = ops /\ decided' = decided
    BY DEF Cut
  <1> HIDE DEF t
  <1>5. Deciding(t, rows, ops) /\ t.row \in DOMAIN rows
    <2>1. req[r].row \in DOMAIN rows /\ Deciding(req[r], rows, ops)
      BY <1>2 DEF TxOK, StageOK
    <2> QED
      BY <1>2, <1>3, <2>1 DEF Deciding
  <1>6. WritesOK(t, rows) /\ AddsOK(t)
    BY <1>2, <1>3 DEF TxOK, WritesOK, AddsOK
  <1>7. TxOK(t, rows, ops)
    BY <1>3, <1>5, <1>6 DEF TxOK, StageOK
  <1>8. \A i \in Locks(t) : i \in Locks(req[r]) \/ RowFree(r, i)
    BY <1>3 DEF Locks
  <1>9. (Spares(req[r], rows) => Spares(t, rows)) /\ (NewsOK(req[r], rows) => NewsOK(t, rows))
    BY <1>3 DEF Spares, NewsOK, After
  <1> QED
    BY <1>1, <1>4, <1>7, <1>8, <1>9, Proceeds

LEMMA ReloadAdvances ==
    ASSUME QueueInv, NEW r \in DOMAIN req, Reload(r)
    PROVE  Advances(r)
  <1> DEFINE seen == Load(req[r].seen, Home(r), req[r].keep)
             t == [req[r] EXCEPT !.pc = "settle", !.seen = seen]
  <1>1. /\ TxOK(req[r], rows, ops) /\ req[r].pc = "load"
        /\ req' = [req EXCEPT ![r] = t] /\ rows' = rows /\ ops' = ops /\ decided' = decided
    BY DEF QueueInv, Reload, catalogue
  <1>2. /\ DOMAIN t = Fields /\ t.pc = "settle" /\ t.op = req[r].op /\ t.row = req[r].row
        /\ t.status = req[r].status /\ t.old = req[r].old /\ t.added = req[r].added
    <2> HIDE DEF seen
    <2> QED
      BY <1>1 DEF TxOK, Fields
  <1> HIDE DEF t
  <1>3. Deciding(t, rows, ops) /\ t.row \in DOMAIN rows
    <2>1. req[r].row \in DOMAIN rows /\ Deciding(req[r], rows, ops)
      BY <1>1 DEF TxOK, StageOK
    <2> QED
      BY <1>1, <1>2, <2>1 DEF Deciding
  <1>4. WritesOK(t, rows) /\ AddsOK(t)
    BY <1>1, <1>2 DEF TxOK, WritesOK, AddsOK
  <1>5. TxOK(t, rows, ops)
    BY <1>2, <1>3, <1>4 DEF TxOK, StageOK
  <1>6. \A i \in Locks(t) : i \in Locks(req[r]) \/ RowFree(r, i)
    BY <1>2 DEF Locks
  <1>7. (Spares(req[r], rows) => Spares(t, rows)) /\ (NewsOK(req[r], rows) => NewsOK(t, rows))
    BY <1>2 DEF Spares, NewsOK, After
  <1> HIDE DEF seen
  <1> QED
    BY <1>1, <1>5, <1>6, <1>7, Proceeds

LEMMA SettleAdvances ==
    ASSUME QueueInv, NEW r \in DOMAIN req, Settle(r), MaxAnime \in Nat
    PROVE  Advances(r)
  <1> DEFINE u == req[r]
             nodes == Among(u.seen.media, u.seen.under)
             changed == IF nodes = <<>> THEN {} ELSE Relabelled(nodes, u.seen)
             renamed == nodes # <<>> /\ Renamed(nodes, u.seen)
             part(a) == IF a = u.keep THEN nodes ELSE Among(u.seen.media, MediaOf(u.moved, a))
             found == [a \in Anime \cap ({u.keep} \cup u.new) |-> Bundled(part(a), u.seen.edges)]
             news == {a \in DOMAIN found : IsNews(r, a, found[a])}
             named == (IF renamed THEN u.keep :> PickAnchor(nodes) ELSE <<>>) @@ u.named
             labels == [m \in changed |-> Classify(nodes, u.seen.edges)[m]] @@ u.labels
             added == Inserted(found, news)
             t(old) == [req[r] EXCEPT !.pc = "flag", !.old = old, !.named = named, !.labels = labels,
                                      !.added = added]
  <1>1. PICK old \in Superseding(r, news) : req' = [req EXCEPT ![r] = t(old)]
    <2>1. PICK old \in Superseding(r, news) :
            req' = [req EXCEPT ![r].pc = "flag", ![r].old = old, ![r].named = named,
                               ![r].labels = labels, ![r].added = added]
      BY Zenon DEF Settle
    <2> HIDE DEF named, labels, added, news
    <2>2. req' = [req EXCEPT ![r] = t(old)]
      BY <2>1
    <2> QED
      BY <2>2
  <1>2. TxOK(req[r], rows, ops) /\ req[r].pc = "settle"
    BY DEF QueueInv, Settle
  <1>3. /\ DOMAIN t(old) = Fields /\ t(old).pc = "flag" /\ t(old).op = req[r].op
        /\ t(old).row = req[r].row /\ t(old).status = req[r].status /\ t(old).old = old
        /\ t(old).added = Inserted(found, news) \cup {Pair(p) : p \in {}}
    <2>1. added = Inserted(found, news) \cup {Pair(p) : p \in {}}
      OBVIOUS
    <2> HIDE DEF named, labels, added, found, news
    <2> QED
      BY <1>2, <2>1 DEF TxOK, Fields
  <1>4. rows' = rows /\ ops' = ops /\ decided' = decided
    BY DEF Settle, catalogue
  <1>5. news \subseteq Anime /\ \A a \in news : IsNews(r, a, found[a])
    OBVIOUS
  <1>6. WritesOK(req[r], rows)
    BY <1>2 DEF TxOK
  <1> DEFINE next == t(old)
  <1>7. req' = [req EXCEPT ![r] = next]
    BY <1>1
  <1> HIDE DEF t, news, found, named, labels, nodes, changed, renamed, added
  <1>8. Finds(r, found, news, {}, next)
    <2>1. \A p \in {} : p \subseteq Anime /\ Cardinality(p) = 2
      OBVIOUS
    <2> QED
      BY <1>1, <1>3, <1>5, <1>6, <2>1 DEF Finds
  <1>9. /\ AddsOK(next) /\ NewsOK(next, rows)
        /\ \A i \in next.old : /\ i \in DOMAIN rows /\ rows[i].queue = "split"
                               /\ i \notin DOMAIN next.status /\ rows[i].status = "pending"
    BY <1>8, Found
  <1>10. Deciding(next, rows, ops) /\ next.row \in DOMAIN rows
    <2>1. req[r].row \in DOMAIN rows /\ Deciding(req[r], rows, ops)
      BY <1>2 DEF TxOK, StageOK
    <2> QED
      BY <1>2, <1>3, <2>1 DEF Deciding
  <1>11. WritesOK(next, rows)
    BY <1>3, <1>6, <1>9 DEF WritesOK
  <1>12. TxOK(next, rows, ops)
    BY <1>3, <1>9, <1>10, <1>11 DEF TxOK, StageOK
  <1>13. \A i \in Locks(next) : i \in Locks(req[r]) \/ RowFree(r, i)
    BY <1>3 DEF Locks
  <1>14. Spares(req[r], rows) => Spares(next, rows)
    BY <1>3, <1>9 DEF Spares
  <1> HIDE DEF next
  <1> QED
    BY <1>4, <1>7, <1>9, <1>12, <1>13, <1>14, Proceeds

LEMMA FlagAdvances ==
    ASSUME QueueInv, NEW r \in DOMAIN req, Flag(r), MaxAnime \in Nat
    PROVE  Advances(r)
  <1> DEFINE own == IF req[r].op = "split" THEN {req[r].row} ELSE {}
             pairs == IF req[r].op = "split" THEN NewPairs(Umbrella(r), Home(r), req[r].new, FALSE) ELSE {}
             added == req[r].added \cup {Pair(p) : p \in pairs}
             status == [i \in own \cup req[r].old \cup DOMAIN req[r].status |->
                          IF i \in own THEN "split" ELSE IF i \in req[r].old THEN "dismissed"
                          ELSE req[r].status[i]]
             t == [req[r] EXCEPT !.pc = "commit", !.old = {}, !.added = added, !.status = status]
  <1>1. TxOK(req[r], rows, ops) /\ req[r].pc = "flag"
    BY DEF QueueInv, Flag
  <1>2. /\ DOMAIN t = Fields /\ t.pc = "commit" /\ t.op = req[r].op /\ t.row = req[r].row
        /\ t.status = status /\ t.old = {} /\ t.added = added
    <2> HIDE DEF status, added
    <2> QED
      BY <1>1 DEF TxOK, Fields
  <1>3. req' = [req EXCEPT ![r] = t]
    BY DEF Flag
  <1>4. /\ rows' = rows /\ ops' = ops /\ decided' = decided
        /\ \A i \in req[r].old : RowFree(r, i) /\ rows[i].status # "gone"
    BY DEF Flag, catalogue
  <1>5. /\ DOMAIN status = own \cup req[r].old \cup DOMAIN req[r].status
        /\ \A i \in own : status[i] = "split" /\ i = req[r].row /\ req[r].op = "split"
        /\ \A i \in req[r].old \ own : status[i] = "dismissed"
        /\ \A i \in DOMAIN req[r].status \ (own \cup req[r].old) : status[i] = req[r].status[i]
        /\ req[r].op = "split" => req[r].row \in own
    OBVIOUS
  <1> HIDE DEF t, status, own
  <1>6. \A p \in pairs : p \subseteq Anime /\ Cardinality(p) = 2
    BY DEF NewPairs
  <1> HIDE DEF pairs, added
  <1>7. AddsOK(t) /\ \A c \in t.added : c.queue = "split" => c \in req[r].added
    <2>1. AddsOK(req[r]) /\ req[r].pc = "flag" /\ t.pc # "flag"
      BY <1>1, <1>2 DEF TxOK
    <2>2. t.added = req[r].added \cup {Pair(p) : p \in pairs}
      <3>1. t.added = added
        BY <1>2
      <3> QED
        BY <3>1 DEF added
    <2> QED
      BY <1>6, <2>1, <2>2, PairsToo
  <1>8. /\ WritesOK(req[r], rows)
        /\ \/ req[r].op \in {"bundles", "pairs"} /\ req[r].row = 0 /\ own = {}
           \/ req[r].row \in DOMAIN rows /\ Deciding(req[r], rows, ops)
    BY <1>1, <1>5 DEF TxOK, StageOK
  <1>9. \A i \in own : i \in DOMAIN rows /\ rows[i].status = "pending"
    BY <1>1, <1>5, <1>8 DEF Deciding
  <1>10. WritesOK(t, rows)
    BY <1>2, <1>4, <1>5, <1>8, <1>9 DEF WritesOK
  <1>11. StageOK(t, rows, ops)
    <2>1. CASE req[r].row \in DOMAIN rows /\ Deciding(req[r], rows, ops)
      <3>1. CASE req[r].op = "merge"
        <4>1. /\ req[r].row \in DOMAIN req[r].status /\ req[r].status[req[r].row] = "gone"
              /\ rows[req[r].row].status = "pending" /\ rows[req[r].row].queue = "merge"
          BY <1>1, <2>1, <3>1 DEF Deciding
        <4>2. req[r].row \notin req[r].old /\ req[r].row \notin own
          BY <1>5, <1>8, <3>1, <4>1 DEF WritesOK
        <4>3. Deciding(t, rows, ops)
          BY <1>2, <1>5, <3>1, <4>1, <4>2 DEF Deciding
        <4> QED
          BY <1>2, <2>1, <4>3 DEF StageOK
      <3>2. CASE req[r].op = "split"
        <4>1. Deciding(t, rows, ops)
          BY <1>1, <1>2, <1>5, <2>1, <3>2 DEF Deciding
        <4> QED
          BY <1>2, <2>1, <4>1 DEF StageOK
      <3> QED
        BY <1>1, <2>1, <3>1, <3>2 DEF Deciding
    <2>2. CASE req[r].op \in {"bundles", "pairs"} /\ req[r].row = 0
      BY <1>2, <2>2 DEF StageOK
    <2> QED
      BY <1>8, <2>1, <2>2
  <1>12. TxOK(t, rows, ops)
    BY <1>2, <1>10, <1>11, <1>7 DEF TxOK
  <1>13. \A i \in Locks(t) : i \in Locks(req[r]) \/ RowFree(r, i)
    BY <1>2, <1>4, <1>5 DEF Locks
  <1>14. Spares(req[r], rows) => Spares(t, rows)
    BY <1>2, <1>5, <1>8 DEF Spares
  <1>15. \A i \in DOMAIN rows : After(t, rows, i) # "gone" => After(req[r], rows, i) # "gone"
    <2> SUFFICES ASSUME NEW i \in DOMAIN rows, After(t, rows, i) # "gone"
                 PROVE  After(req[r], rows, i) # "gone"
      OBVIOUS
    <2>1. CASE i \in own
      <3>1. i \in DOMAIN req[r].status => FALSE
        BY <1>1, <1>5, <1>8, <2>1 DEF Deciding
      <3> QED
        BY <1>9, <2>1, <3>1 DEF After
    <2>2. CASE i \in req[r].old \ own
      BY <1>4, <1>8, <2>2 DEF After, WritesOK
    <2>3. CASE i \notin own \cup req[r].old
      BY <1>2, <1>5, <2>3 DEF After
    <2> QED
      BY <2>1, <2>2, <2>3
  <1>16. NewsOK(req[r], rows) => NewsOK(t, rows)
    BY <1>15, <1>7 DEF NewsOK
  <1> QED
    BY <1>3, <1>4, <1>12, <1>13, <1>14, <1>16, Proceeds

LEMMA DetectBundlesAdvances ==
    ASSUME QueueInv, NEW r \in DOMAIN req, DetectBundles(r), MaxAnime \in Nat
    PROVE  Advances(r)
  <1> DEFINE found == [a \in Anime |-> Bundled(Among(show, MediaOf(home, a)), edges)]
             news == {a \in Anime : IsNews(r, a, found[a])}
             added == Inserted(found, news)
             tx(old) == [Free EXCEPT !.pc = "flag", !.op = "bundles", !.old = old, !.added = added]
  <1>1. PICK old \in Superseding(r, news) : req' = [req EXCEPT ![r] = tx(old)]
    BY DEF DetectBundles
  <1> DEFINE t == tx(old)
  <1>2. /\ DOMAIN t = Fields /\ t.pc = "flag" /\ t.op = "bundles" /\ t.row = 0
        /\ t.status = Free.status /\ t.old = old /\ t.added = added /\ DOMAIN t.status = {}
    <2>1. DOMAIN <<>> = {}
      OBVIOUS
    <2> HIDE DEF added
    <2> QED
      BY <2>1 DEF Free, Fields
  <1>3. req' = [req EXCEPT ![r] = t] /\ req[r] = Free
    BY <1>1 DEF DetectBundles, Request
  <1>4. rows' = rows /\ ops' = ops /\ decided' = decided
    BY DEF DetectBundles, Request, catalogue
  <1>5. t.status = req[r].status /\ t.old \in Superseding(r, news)
    BY <1>2, <1>3, <1>1
  <1>6. t.added = Inserted(found, news) \cup {Pair(p) : p \in {}}
    BY <1>2
  <1>7. news \subseteq Anime /\ \A a \in news : IsNews(r, a, found[a])
    OBVIOUS
  <1> HIDE DEF t, tx, news, found, added
  <1>8. WritesOK(req[r], rows)
    BY <1>3, FreeOK DEF TxOK
  <1>9. Finds(r, found, news, {}, t)
    <2>1. \A p \in {} : p \subseteq Anime /\ Cardinality(p) = 2
      OBVIOUS
    <2> QED
      BY <1>5, <1>6, <1>7, <1>8, <2>1 DEF Finds
  <1>10. /\ AddsOK(t) /\ NewsOK(t, rows)
        /\ \A i \in t.old : /\ i \in DOMAIN rows /\ rows[i].queue = "split" /\ i \notin DOMAIN t.status
                            /\ rows[i].status = "pending"
    BY <1>9, Found
  <1>11. WritesOK(t, rows) /\ Spares(t, rows)
    BY <1>2, <1>10 DEF WritesOK, Spares
  <1>12. TxOK(t, rows, ops)
    BY <1>2, <1>10, <1>11 DEF TxOK, StageOK
  <1>13. Locks(t) = {}
    BY <1>2 DEF Locks
  <1> QED
    BY <1>3, <1>4, <1>10, <1>11, <1>12, <1>13, Proceeds

LEMMA DetectPairsAdvances ==
    ASSUME QueueInv, NEW r \in DOMAIN req, DetectPairs(r), MaxAnime \in Nat
    PROVE  Advances(r)
  <1> DEFINE pairs == NewPairs(umbrella, home, Anime, TRUE)
             added == {Pair(p) : p \in pairs}
             t == [Free EXCEPT !.pc = "commit", !.op = "pairs", !.added = added]
  <1>1. /\ DOMAIN t = Fields /\ t.pc = "commit" /\ t.op = "pairs" /\ t.row = 0
        /\ t.status = Free.status /\ t.old = {} /\ t.added = added /\ DOMAIN t.status = {}
    <2>1. DOMAIN <<>> = {}
      OBVIOUS
    <2> HIDE DEF added
    <2> QED
      BY <2>1 DEF Free, Fields
  <1>2. req' = [req EXCEPT ![r] = t] /\ req[r] = Free
    BY DEF DetectPairs, Request
  <1>3. rows' = rows /\ ops' = ops /\ decided' = decided
    BY DEF DetectPairs, Request, catalogue
  <1>4. t.status = req[r].status /\ t.old \in Superseding(r, {})
    BY <1>1, <1>2 DEF Superseding
  <1>5. t.added = Inserted(<<>>, {}) \cup {Pair(p) : p \in pairs}
    BY <1>1 DEF Inserted
  <1>6. \A p \in pairs : p \subseteq Anime /\ Cardinality(p) = 2
    BY DEF NewPairs
  <1> HIDE DEF t, pairs, added
  <1>7. WritesOK(req[r], rows)
    BY <1>2, FreeOK DEF TxOK
  <1>8. Finds(r, <<>>, {}, pairs, t)
    <2>1. {} \subseteq Anime /\ \A a \in {} : IsNews(r, a, <<>>[a])
      OBVIOUS
    <2> QED
      BY <1>1, <1>4, <1>5, <1>6, <1>7, <2>1 DEF Finds
  <1>9. AddsOK(t) /\ NewsOK(t, rows)
    BY <1>8, Found
  <1>10. WritesOK(t, rows) /\ Spares(t, rows)
    BY <1>1 DEF WritesOK, Spares
  <1>11. TxOK(t, rows, ops)
    BY <1>1, <1>9, <1>10 DEF TxOK, StageOK
  <1>12. Locks(t) = {}
    BY <1>1 DEF Locks
  <1> QED
    BY <1>2, <1>3, <1>9, <1>10, <1>11, <1>12, Proceeds

LEMMA StartRefreshAdvances ==
    ASSUME QueueInv, NEW r \in DOMAIN req, NEW a \in Anime, StartRefresh(r, a)
    PROVE  Advances(r)
  <1> DEFINE seen == Load(Unread, home, a)
             t == [Free EXCEPT !.pc = "fetch", !.op = "refresh", !.keep = a, !.seen = seen]
  <1>1. /\ DOMAIN t = Fields /\ t.pc = "fetch" /\ t.op = "refresh" /\ t.row = 0 /\ t.old = {}
        /\ t.added = {} /\ DOMAIN t.status = {}
    <2>1. DOMAIN <<>> = {}
      OBVIOUS
    <2> HIDE DEF seen
    <2> QED
      BY <2>1 DEF Free, Fields
  <1>2. req' = [req EXCEPT ![r] = t] /\ rows' = rows /\ ops' = ops /\ decided' = decided
    BY DEF StartRefresh, Request, catalogue
  <1> HIDE DEF t, seen
  <1>3. AddsOK(t) /\ NewsOK(t, rows)
    BY <1>1, NothingAdded
  <1>4. WritesOK(t, rows) /\ Spares(t, rows) /\ Locks(t) = {}
    BY <1>1 DEF WritesOK, Spares, Locks
  <1>5. TxOK(t, rows, ops)
    BY <1>1, <1>3, <1>4 DEF TxOK, StageOK
  <1> QED
    BY <1>2, <1>3, <1>4, <1>5, Proceeds

\* A request that ends without a word to the queues.
LEMMA FreeAdvances ==
    ASSUME QueueInv, NEW r \in DOMAIN req, req' = [req EXCEPT ![r] = Free],
           UNCHANGED <<rows, ops, decided>>
    PROVE  Advances(r)
  <1>1. Free.added = {} /\ Free.old = {} /\ DOMAIN Free.status = {}
    <2>1. DOMAIN <<>> = {}
      OBVIOUS
    <2> QED
      BY <2>1 DEF Free
  <1>2. Spares(Free, rows) /\ NewsOK(Free, rows)
    BY <1>1, NothingAdded DEF Spares
  <1> QED
    BY <1>2, FreeOK, Proceeds

-----------------------------------------------------------------------------
(* The steps that commit *)

\* Nothing but what is on the way to commit.
LEMMA Deciders ==
    ASSUME NEW t, NEW table, NEW may, TxOK(t, table, may), t.pc = "commit"
    PROVE  /\ t.op \in Decisions => t.row \in DOMAIN table /\ Deciding(t, table, may)
           /\ t.op \notin Decisions => t.row = 0 /\ \A i \in DOMAIN t.status : t.status[i] # "split"
           /\ \A i \in DOMAIN t.status : t.status[i] \in {"dismissed", "split", "gone"}
  BY DEF TxOK, StageOK, WritesOK, Deciding, Decisions

\* What Commit does to the rows.
LEMMA CommitGrows ==
    ASSUME QueueInv, NEW r \in DOMAIN req, Commit(r)
    PROVE  LET added == {c \in req[r].added : c.queue = "split" \/ ~Held(c.anime)}
           IN  Grows(rows, req[r].status, added, rows')
  <1> DEFINE added == {c \in req[r].added : c.queue = "split" \/ ~Held(c.anime)}
             status == req[r].status
  <1>1. TxOK(req[r], rows, ops) /\ req[r].pc = "commit" /\ IsTable(rows)
    BY DEF QueueInv, Commit
  <1>2. IsFiniteSet(added) /\ \A c \in added : IsRow(c)
    BY <1>1, FS_Subset DEF TxOK, AddsOK
  <1>3. \A i \in DOMAIN status : status[i] \in {"pending", "dismissed", "split", "gone"}
    BY <1>1, Deciders
  <1>4. rows' = [i \in DOMAIN rows |->
                   IF i \in DOMAIN status THEN [rows[i] EXCEPT !.status = status[i]] ELSE rows[i]]
                \o SetToSeq(added)
    BY DEF Commit, Committed
  <1> HIDE DEF added, status
  <1>5. Grows(rows, status, added, rows')
    BY <1>1, <1>2, <1>3, <1>4, TableGrows
  <1> QED
    BY <1>5 DEF added, status

LEMMA RedetectGrows ==
    ASSUME QueueInv, NEW r \in DOMAIN req, Redetect(r), MaxAnime \in Nat
    PROVE  \E pairs : /\ \A p \in pairs : p \subseteq Anime /\ Cardinality(p) = 2 /\ ~Held(p)
                      /\ Grows(rows, <<>>, {Pair(p) : p \in pairs}, rows')
  <1> DEFINE pairs == NewPairs(umbrella, home, {req[r].keep}, FALSE)
             added == {Pair(p) : p \in pairs}
  <1>1. IsTable(rows) /\ rows' = rows \o SetToSeq(added)
    BY DEF QueueInv, Redetect
  <1>2. \A p \in pairs : p \subseteq Anime /\ Cardinality(p) = 2 /\ ~Held(p)
    BY DEF NewPairs
  <1> HIDE DEF pairs
  <1>3. IsFiniteSet(added)
    <2> DEFINE f == [p \in pairs |-> Pair(p)]
    <2>1. pairs \subseteq SUBSET Anime
      BY <1>2
    <2>2. IsFiniteSet(pairs)
      BY <2>1, AnimeFinite, FS_Subset
    <2>3. added = {f[p] : p \in pairs}
      OBVIOUS
    <2> HIDE DEF f, added
    <2> QED
      BY <2>2, <2>3, ImageFinite
  <1>4. \A c \in added : IsRow(c)
    BY <1>2 DEF Pair, IsRow
  <1> HIDE DEF added
  <1> DEFINE none == <<>>
             kept == [i \in DOMAIN rows |->
                        IF i \in DOMAIN none THEN [rows[i] EXCEPT !.status = none[i]] ELSE rows[i]]
  <1>5. DOMAIN none = {}
    OBVIOUS
  <1>6. kept = rows
    <2>1. rows = [i \in DOMAIN rows |-> rows[i]]
      BY <1>1 DEF IsTable
    <2> HIDE DEF none
    <2> QED
      BY <1>5, <2>1
  <1>7. Grows(rows, none, added, kept \o SetToSeq(added))
    <2>1. \A i \in DOMAIN none : none[i] \in {"pending", "dismissed", "split", "gone"}
      BY <1>5
    <2> HIDE DEF none
    <2> QED
      BY <1>1, <1>3, <1>4, <2>1, TableGrows
  <1>8. Grows(rows, none, added, rows')
    <2> HIDE DEF none, kept
    <2> QED
      BY <1>1, <1>6, <1>7
  <1> QED
    BY <1>2, <1>8 DEF added, none

\* The pairs that are added have no row, and each is added once.
PairsAdded(table, status, added) ==
    /\ \A i \in DOMAIN status : i \in DOMAIN table => table[i].status # "gone"
    /\ \A c, d \in added : c.queue = d.queue /\ c.anime = d.anime => c = d
    /\ \A c \in added, i \in DOMAIN table :
         c.queue = "merge" /\ table[i].queue = "merge" /\ table[i].anime = c.anime => table[i].status = "gone"

LEMMA PairsGrow ==
    ASSUME NEW table, PairsUnique(table), NEW status, NEW added, NEW next,
           Grows(table, status, added, next),
           PairsAdded(table, status, added)
    PROVE  PairsUnique(next)
  <1> USE DEF PairsAdded
  <1> SUFFICES ASSUME NEW i \in DOMAIN next, NEW j \in DOMAIN next, next[i].queue = "merge",
                      Same(next[i], next[j])
               PROVE  i = j
    BY DEF PairsUnique
  <1>1. /\ next[j].queue = "merge" /\ next[i].anime = next[j].anime
        /\ next[i].status # "gone" /\ next[j].status # "gone"
    BY DEF Same
  <1>2. \A k \in DOMAIN table : next[k].status # "gone" => table[k].status # "gone"
    BY DEF Grows
  <1>3. CASE i \in DOMAIN table /\ j \in DOMAIN table
    <2>1. Same(table[i], table[j]) /\ table[i].queue = "merge"
      BY <1>1, <1>2, <1>3 DEF Grows, Same
    <2> QED
      BY <1>3, <2>1 DEF PairsUnique
  <1>4. CASE i \in DOMAIN table /\ j \notin DOMAIN table
    BY <1>1, <1>2, <1>4 DEF Grows
  <1>5. CASE i \notin DOMAIN table /\ j \in DOMAIN table
    BY <1>1, <1>2, <1>5 DEF Grows
  <1>6. CASE i \notin DOMAIN table /\ j \notin DOMAIN table
    BY <1>1, <1>6 DEF Grows
  <1> QED
    BY <1>3, <1>4, <1>5, <1>6

\* The other requests do not notice a commit.
LEMMA OthersKept ==
    ASSUME QueueInv, NEW r \in DOMAIN req, NEW status, NEW added, Grows(rows, status, added, rows'),
           \A i \in DOMAIN status : i \in DOMAIN rows => i \in Locks(req[r]),
           NEW q \in DOMAIN req, q # r
    PROVE  TxOK(req[q], rows', ops)
  <1>1. TxOK(req[q], rows, ops) /\ IsTable(rows) /\ Locks(req[r]) \cap Locks(req[q]) = {}
    BY DEF QueueInv
  <1>2. \A i \in DOMAIN rows : i \in Locks(req[q]) => i \notin DOMAIN status
    BY <1>1
  <1>3. \A i \in DOMAIN rows :
          /\ i \in DOMAIN rows' /\ rows'[i].queue = rows[i].queue /\ rows'[i].anime = rows[i].anime
          /\ i \in Locks(req[q]) => rows'[i].status = rows[i].status
    BY <1>2 DEF Grows
  <1> QED
    BY <1>1, <1>3, TxKept

\* The log still tells what became of each row, and a row decided again was a dismissed
\* one, or one a split of another had taken and a detection dismissed.
LEMMA CommitLogs ==
    ASSUME QueueInv, NEW r \in DOMAIN req, Commit(r)
    PROVE  /\ decided' \in Seq(Nat \X Decisions) /\ Settled(decided', rows')
           /\ DecidedTwice(decided')
  <1> DEFINE t == req[r]
             added == {c \in t.added : c.queue = "split" \/ ~Held(c.anime)}
  <1>1. /\ TxOK(t, rows, ops) /\ t.pc = "commit" /\ IsTable(rows) /\ decided \in Seq(Nat \X Decisions)
        /\ Settled(decided, rows) /\ DecidedTwice(decided)
    BY DEF QueueInv, Commit
  <1>2. decided' = IF t.op \in Decisions THEN Append(decided, <<t.row, t.op>>) ELSE decided
    BY DEF Commit
  <1>3. Grows(rows, t.status, added, rows')
    BY CommitGrows
  <1> HIDE DEF added, t
  <1>4. /\ t.op \in Decisions => t.row \in DOMAIN rows /\ Deciding(t, rows, ops)
        /\ t.op \notin Decisions => t.row = 0 /\ \A i \in DOMAIN t.status : t.status[i] # "split"
        /\ \A i \in DOMAIN t.status : t.status[i] \in {"dismissed", "split", "gone"}
    BY <1>1, Deciders
  <1>5. WritesOK(t, rows)
    BY <1>1 DEF TxOK
  <1>6. Settled(decided, rows')
    <2> SUFFICES ASSUME NEW j \in DOMAIN decided
                 PROVE  LET i == decided[j][1]
                            op == decided[j][2]
                        IN  /\ i \in DOMAIN rows' /\ op \in Decisions /\ rows'[i].status # "pending"
                            /\ op \in {"merge", "forget"} => rows'[i].status = "gone"
                            /\ op = "dismiss" => rows'[i].status \in {"dismissed", "gone"}
      BY DEF Settled
    <2> DEFINE i == decided[j][1]
               op == decided[j][2]
    <2>1. /\ i \in DOMAIN rows /\ op \in Decisions /\ rows[i].status # "pending"
          /\ op \in {"merge", "forget"} => rows[i].status = "gone"
          /\ op = "dismiss" => rows[i].status \in {"dismissed", "gone"}
      BY <1>1 DEF Settled
    <2> HIDE DEF i, op
    <2>2. i \in DOMAIN rows' /\ rows'[i].status = IF i \in DOMAIN t.status THEN t.status[i] ELSE rows[i].status
      BY <1>3, <2>1 DEF Grows
    <2>3. CASE i \notin DOMAIN t.status
      BY <2>1, <2>2, <2>3 DEF i, op
    <2>4. CASE i \in DOMAIN t.status
      <3>1. op \notin {"merge", "forget"}
        BY <1>5, <2>1, <2>4 DEF WritesOK
      <3>2. t.status[i] = "split" => t.row = i /\ t.op = "split" /\ rows[i].status = "pending"
        <4>1. t.status[i] = "split" => t.row = i /\ t.op = "split"
          BY <1>5, <2>4 DEF WritesOK
        <4>2. t.op = "split" => rows[t.row].status = "pending"
          BY <1>4 DEF Deciding, Decisions
        <4> QED
          BY <4>1, <4>2
      <3>3. t.status[i] \in {"dismissed", "gone"}
        BY <1>4, <2>1, <2>4, <3>2
      <3>4. rows'[i].status = t.status[i]
        BY <2>2, <2>4
      <3> QED
        BY <2>1, <2>2, <3>1, <3>3, <3>4 DEF i, op
    <2> QED
      BY <2>3, <2>4
  <1>7. CASE t.op \notin Decisions
    BY <1>1, <1>2, <1>6, <1>7
  <1>8. CASE t.op \in Decisions
    <2>1. t.row \in DOMAIN rows /\ Deciding(t, rows, ops) /\ t.row \in Nat
      <3>1. t.row \in DOMAIN rows /\ Deciding(t, rows, ops)
        BY <1>4, <1>8
      <3>2. DOMAIN rows \subseteq Nat
        BY <1>1, PlainTable
      <3> QED
        BY <3>1, <3>2
    <2>2. /\ decided' \in Seq(Nat \X Decisions) /\ DOMAIN decided' = DOMAIN decided \cup {Len(decided) + 1}
          /\ decided'[Len(decided) + 1] = <<t.row, t.op>>
          /\ \A j \in DOMAIN decided : decided'[j] = decided[j] /\ j \in Nat /\ j < Len(decided) + 1
          /\ Len(decided) \in Nat /\ Len(decided) + 1 \notin DOMAIN decided
      <3>1. <<t.row, t.op>> \in Nat \X Decisions /\ decided' = Append(decided, <<t.row, t.op>>)
        BY <1>2, <1>8, <2>1
      <3> HIDE DEF t
      <3> QED
        BY <1>1, <3>1
    <2>3. /\ t.row \in DOMAIN t.status /\ t.row \in DOMAIN rows' /\ rows'[t.row].status = t.status[t.row]
      <3>1. t.row \in DOMAIN t.status
        BY <1>1, <2>1 DEF Deciding
      <3> QED
        BY <1>3, <2>1, <3>1 DEF Grows
    <2>4. /\ t.op \in {"merge", "forget"} => t.status[t.row] = "gone"
          /\ t.op = "dismiss" => t.status[t.row] = "dismissed"
          /\ t.status[t.row] # "pending"
          /\ t.op # "forget" => rows[t.row].status = "pending"
          /\ t.op = "forget" => rows[t.row].status = "dismissed"
      BY <1>1, <1>4, <2>1, <2>3 DEF Deciding
    <2>5. Settled(decided', rows')
      <3> SUFFICES ASSUME NEW j \in DOMAIN decided'
                   PROVE  /\ decided'[j][1] \in DOMAIN rows' /\ decided'[j][2] \in Decisions
                          /\ rows'[decided'[j][1]].status # "pending"
                          /\ decided'[j][2] \in {"merge", "forget"} => rows'[decided'[j][1]].status = "gone"
                          /\ decided'[j][2] = "dismiss" => rows'[decided'[j][1]].status \in {"dismissed", "gone"}
        BY DEF Settled
      <3>1. CASE j \in DOMAIN decided
        BY <1>6, <2>2, <3>1 DEF Settled
      <3>2. CASE j = Len(decided) + 1
        <4>1. decided'[j][1] = t.row /\ decided'[j][2] = t.op
          BY <2>2, <3>2
        <4> QED
          BY <1>8, <2>3, <2>4, <4>1
      <3> QED
        BY <2>2, <3>1, <3>2
    <2>6. DecidedTwice(decided')
      <3> SUFFICES ASSUME NEW j \in DOMAIN decided', NEW k \in DOMAIN decided', j < k,
                          decided'[j][1] = decided'[k][1]
                   PROVE  decided'[k][2] = "forget" /\ decided'[j][2] \in {"dismiss", "split"}
        BY DEF DecidedTwice
      <3>1. j \in DOMAIN decided
        BY <2>2
      <3>2. CASE k \in DOMAIN decided
        BY <1>1, <2>2, <3>1, <3>2 DEF DecidedTwice
      <3>3. CASE k = Len(decided) + 1
        <4>1. decided'[k][2] = t.op /\ decided[j][1] = t.row /\ decided'[j] = decided[j]
          BY <2>2, <3>1, <3>3
        <4>2. /\ rows[t.row].status # "pending" /\ decided[j][2] \in Decisions
              /\ decided[j][2] \in {"merge", "forget"} => rows[t.row].status = "gone"
          BY <1>1, <3>1, <4>1 DEF Settled
        <4>3. t.op = "forget" /\ rows[t.row].status = "dismissed"
          BY <2>4, <4>2
        <4> QED
          BY <4>1, <4>2, <4>3 DEF Decisions
      <3> QED
        BY <2>2, <3>2, <3>3
    <2> QED
      BY <1>6, <2>2, <2>5, <2>6
  <1> QED
    BY <1>7, <1>8

LEMMA CommitKeeps ==
    ASSUME QueueInv, NEW r \in DOMAIN req, Commit(r)
    PROVE  QueueInv'
  <1> DEFINE t == req[r]
             added == {c \in t.added : c.queue = "split" \/ ~Held(c.anime)}
  <1>1. TxOK(t, rows, ops) /\ t.pc = "commit" /\ IsTable(rows) /\ PairsUnique(rows)
    BY DEF QueueInv, Commit
  <1>2. Grows(rows, t.status, added, rows')
    BY CommitGrows
  <1>3. /\ DOMAIN req' = DOMAIN req /\ \A q \in DOMAIN req \ {r} : req'[q] = req[q]
        /\ req'[r] = IF t.op = "merge" THEN [Free EXCEPT !.pc = "redetect", !.keep = t.keep] ELSE Free
        /\ ops' = ops
    BY DEF Commit
  <1>4. \A c \in added, i \in DOMAIN rows :
          c.queue = "merge" /\ rows[i].queue = "merge" /\ rows[i].anime = c.anime => rows[i].status = "gone"
    BY DEF Held, Live
  <1>5. \A c, d \in added : c.queue = d.queue /\ c.anime = d.anime => c = d
    BY <1>1 DEF TxOK, AddsOK
  <1> HIDE DEF t, added
  <1>6. WritesOK(t, rows)
    BY <1>1 DEF TxOK
  <1>7. PairsUnique(rows') /\ IsTable(rows')
    <2>1. PairsAdded(rows, t.status, added)
      BY <1>4, <1>5, <1>6 DEF WritesOK, PairsAdded
    <2>2. PairsUnique(rows')
      BY <1>1, <1>2, <2>1, PairsGrow
    <2> QED
      BY <1>2, <2>2 DEF Grows
  <1>8. \A i \in DOMAIN t.status : i \in DOMAIN rows => i \in Locks(t)
    BY <1>1, PlainTable DEF Locks
  <1>9. TxOK(req'[r], rows', ops) /\ Locks(req'[r]) = {}
    <2>1. CASE t.op = "merge"
      <3>1. req'[r] = [Free EXCEPT !.pc = "redetect", !.keep = t.keep]
        BY <1>3, <2>1
      <3> DEFINE k == t.keep
                 after == [Free EXCEPT !.pc = "redetect", !.keep = k]
      <3>2. req'[r] = after
        BY <3>1
      <3> HIDE DEF k
      <3>3. TxOK(after, rows', ops) /\ Locks(after) = {}
        BY FreeOK
      <3> QED
        BY <3>2, <3>3
    <2>2. CASE t.op # "merge"
      <3>1. req'[r] = Free
        BY <1>3, <2>2
      <3> QED
        BY <3>1, FreeOK
    <2> QED
      BY <2>1, <2>2
  <1>10. ASSUME NEW q \in DOMAIN req, q # r PROVE TxOK(req'[q], rows', ops)
    <2>1. TxOK(req[q], rows', ops)
      BY <1>2, <1>8, <1>10, OthersKept DEF t
    <2> QED
      BY <1>3, <1>10, <2>1
  <1>11. \A q \in DOMAIN req' : TxOK(req'[q], rows', ops')
    BY <1>3, <1>9, <1>10
  <1>12. \A p, q \in DOMAIN req' : p # q => Locks(req'[p]) \cap Locks(req'[q]) = {}
    BY <1>3, <1>9 DEF QueueInv
  <1>13. decided' \in Seq(Nat \X Decisions) /\ Settled(decided', rows') /\ DecidedTwice(decided')
    BY CommitLogs
  <1> QED
    BY <1>7, <1>11, <1>12, <1>13 DEF QueueInv

LEMMA RedetectKeeps ==
    ASSUME QueueInv, NEW r \in DOMAIN req, Redetect(r), MaxAnime \in Nat
    PROVE  QueueInv'
  <1>1. PICK pairs : /\ \A p \in pairs : p \subseteq Anime /\ Cardinality(p) = 2 /\ ~Held(p)
                     /\ Grows(rows, <<>>, {Pair(p) : p \in pairs}, rows')
    BY RedetectGrows
  <1> DEFINE added == {Pair(p) : p \in pairs}
             none == <<>>
  <1>2. /\ IsTable(rows) /\ PairsUnique(rows) /\ decided \in Seq(Nat \X Decisions) /\ Settled(decided, rows)
        /\ DecidedTwice(decided)
    BY DEF QueueInv
  <1>3. /\ DOMAIN req' = DOMAIN req /\ \A q \in DOMAIN req \ {r} : req'[q] = req[q]
        /\ req'[r] = Free /\ ops' = ops /\ decided' = decided
    BY DEF Redetect
  <1>4. /\ \A c \in added, i \in DOMAIN rows :
             c.queue = "merge" /\ rows[i].queue = "merge" /\ rows[i].anime = c.anime => rows[i].status = "gone"
        /\ \A c, d \in added : c.queue = d.queue /\ c.anime = d.anime => c = d
    <2>1. \A p : Pair(p).anime = p /\ Pair(p).queue = "merge"
      BY DEF Pair
    <2>2. \A c \in added : \E p \in pairs : c = Pair(p) /\ ~Held(p)
      BY <1>1
    <2> HIDE DEF added
    <2>3. \A c \in added : c = Pair(c.anime) /\ ~Held(c.anime)
      BY <2>1, <2>2
    <2> QED
      BY <2>3 DEF Held, Live
  <1>5. DOMAIN none = {}
    OBVIOUS
  <1>6. Grows(rows, none, added, rows')
    BY <1>1
  <1> HIDE DEF added, none
  <1>7. PairsUnique(rows') /\ IsTable(rows')
    <2>1. PairsAdded(rows, none, added)
      BY <1>4, <1>5 DEF PairsAdded
    <2>2. PairsUnique(rows')
      BY <1>2, <1>6, <2>1, PairsGrow
    <2> QED
      BY <1>6, <2>2 DEF Grows
  <1>8. \A i \in DOMAIN rows : i \in DOMAIN rows' /\ rows'[i].status = rows[i].status
    BY <1>5, <1>6 DEF Grows
  <1>9. TxOK(req'[r], rows', ops) /\ Locks(req'[r]) = {}
    BY <1>3, FreeOK
  <1>10. ASSUME NEW q \in DOMAIN req, q # r PROVE TxOK(req'[q], rows', ops)
    <2>1. TxOK(req[q], rows', ops)
      BY <1>5, <1>6, <1>10, OthersKept
    <2> QED
      BY <1>3, <1>10, <2>1
  <1>11. \A q \in DOMAIN req' : TxOK(req'[q], rows', ops')
    BY <1>3, <1>9, <1>10
  <1>12. \A p, q \in DOMAIN req' : p # q => Locks(req'[p]) \cap Locks(req'[q]) = {}
    BY <1>3, <1>9 DEF QueueInv
  <1>13. Settled(decided', rows')
    BY <1>2, <1>3, <1>8 DEF Settled
  <1> QED
    BY <1>2, <1>3, <1>7, <1>11, <1>12, <1>13 DEF QueueInv

-----------------------------------------------------------------------------
(* The invariants of the queues *)

LEMMA StepCases ==
    ASSUME QueueInv, Next
    PROVE  \E r \in DOMAIN req : Advances(r) \/ Commit(r) \/ Redetect(r)
  <1>1. MaxAnime \in Nat
    BY CurationAssumption
  <1>2. PICK r \in DOMAIN req :
          \/ \E i \in DOMAIN rows :
               \/ \E op \in {"dismiss", "forget"} : Mark(r, op, i)
               \/ \E keep \in rows[i].anime : StartMerge(r, i, keep)
               \/ StartSplit(r, i)
          \/ Reparent(r) \/ Drop(r) \/ Cut(r) \/ Reload(r) \/ Settle(r) \/ Flag(r)
          \/ DetectBundles(r) \/ DetectPairs(r)
          \/ \E a \in Anime : StartRefresh(r, a)
          \/ \E c \in Changes : Refresh(r, c)
          \/ Commit(r) \/ Redetect(r) \/ Abort(r)
    BY DEF Next
  <1>3. ASSUME NEW i \in DOMAIN rows, NEW op, Mark(r, op, i) PROVE Advances(r)
    BY <1>3, MarkAdvances
  <1>4. ASSUME NEW i \in DOMAIN rows, NEW keep \in rows[i].anime, StartMerge(r, i, keep) PROVE Advances(r)
    BY <1>4, StartMergeAdvances
  <1>5. ASSUME NEW i \in DOMAIN rows, StartSplit(r, i) PROVE Advances(r)
    BY <1>5, StartSplitAdvances
  <1>6. CASE Reparent(r) \/ Drop(r) \/ Cut(r)
    BY <1>6, ReparentAdvances, DropAdvances, CutAdvances
  <1>7. CASE Reload(r) \/ Settle(r) \/ Flag(r)
    BY <1>1, <1>7, ReloadAdvances, SettleAdvances, FlagAdvances
  <1>8. CASE DetectBundles(r) \/ DetectPairs(r)
    BY <1>1, <1>8, DetectBundlesAdvances, DetectPairsAdvances
  <1>9. ASSUME NEW a \in Anime, StartRefresh(r, a) PROVE Advances(r)
    BY <1>9, StartRefreshAdvances
  <1>10. ASSUME NEW c, Refresh(r, c) PROVE Advances(r)
    BY <1>10, FreeAdvances DEF Refresh
  <1>11. CASE Abort(r)
    BY <1>11, FreeAdvances DEF Abort, catalogue
  <1> QED
    BY <1>2, <1>3, <1>4, <1>5, <1>6, <1>7, <1>8, <1>9, <1>10, <1>11

LEMMA QueueInit == Init => QueueInv
  <1> SUFFICES ASSUME Init PROVE QueueInv
    OBVIOUS
  <1>1. PICK s \in Starts : rows = s.rows /\ req = [r \in s.by |-> Free] /\ decided = <<>>
    BY DEF Init
  <1>2. IsTable(rows) /\ PairsUnique(rows)
    BY <1>1, CurationAssumption DEF IsTable, PairsUnique
  <1>3. \A r \in DOMAIN req : TxOK(req[r], rows, ops) /\ Locks(req[r]) = {}
    BY <1>1, FreeOK
  <1>4. decided \in Seq(Nat \X Decisions) /\ DOMAIN decided = {}
    BY <1>1
  <1>5. Settled(decided, rows) /\ DecidedTwice(decided)
    BY <1>4 DEF Settled, DecidedTwice
  <1> QED
    BY <1>2, <1>3, <1>4, <1>5 DEF QueueInv

LEMMA QueueStep == QueueInv /\ [Next]_vars => QueueInv'
  <1> SUFFICES ASSUME QueueInv, [Next]_vars PROVE QueueInv'
    OBVIOUS
  <1>1. CASE UNCHANGED <<rows, req, ops, decided>>
    BY <1>1 DEF QueueInv
  <1>2. ASSUME NEW r \in DOMAIN req, Advances(r) PROVE QueueInv'
    BY <1>2, AdvanceKeeps
  <1>3. ASSUME NEW r \in DOMAIN req, Commit(r) PROVE QueueInv'
    BY <1>3, CommitKeeps
  <1>4. ASSUME NEW r \in DOMAIN req, Redetect(r) PROVE QueueInv'
    BY <1>4, RedetectKeeps, CurationAssumption
  <1>5. CASE UNCHANGED vars
    BY <1>1, <1>5 DEF vars
  <1> QED
    BY <1>1, <1>2, <1>3, <1>4, <1>5, StepCases

\* Nobody splits beside anyone else ...
SplitsAlone == "split" \in ops => \A r, q \in DOMAIN req : r = q
\* ... or nobody does anything beside anyone else.
Sole == \A r, q \in DOMAIN req : r = q

\* A row that was split stays split, until its anime is deleted.
SplitInv ==
    SplitsAlone =>
      /\ \A r \in DOMAIN req : Spares(req[r], rows)
      /\ \A j \in DOMAIN decided : decided[j][2] = "split" => rows[decided[j][1]].status \in {"split", "gone"}
      /\ OneDecision

\* The rows that stand are for different decisions, those under way included.
SoleInv ==
    Sole => /\ \A r \in DOMAIN req : NewsOK(req[r], rows)
            /\ \A i, j \in DOMAIN rows : Same(rows[i], rows[j]) => i = j

LEMMA SplitInit == Init => SplitInv
  <1> SUFFICES ASSUME Init PROVE SplitInv
    OBVIOUS
  <1>1. PICK s \in Starts : req = [r \in s.by |-> Free] /\ decided = <<>>
    BY DEF Init
  <1>2. Free.old = {} /\ DOMAIN Free.status = {}
    <2>1. DOMAIN <<>> = {}
      OBVIOUS
    <2> QED
      BY <2>1 DEF Free
  <1>3. \A r \in DOMAIN req : Spares(req[r], rows)
    <2>1. Spares(Free, rows)
      BY <1>2 DEF Spares
    <2> QED
      BY <1>1, <2>1
  <1>4. DOMAIN decided = {}
    BY <1>1
  <1> QED
    BY <1>3, <1>4 DEF SplitInv, OneDecision

LEMMA SplitCommit ==
    ASSUME QueueInv, SplitInv, NEW r \in DOMAIN req, Commit(r)
    PROVE  SplitInv'
  <1> DEFINE t == req[r]
             added == {c \in t.added : c.queue = "split" \/ ~Held(c.anime)}
  <1>1. /\ TxOK(t, rows, ops) /\ t.pc = "commit" /\ IsTable(rows) /\ decided \in Seq(Nat \X Decisions)
        /\ Settled(decided, rows) /\ DecidedTwice(decided)
    BY DEF QueueInv, Commit
  <1>2. /\ decided' = IF t.op \in Decisions THEN Append(decided, <<t.row, t.op>>) ELSE decided
        /\ DOMAIN req' = DOMAIN req /\ \A q \in DOMAIN req \ {r} : req'[q] = req[q]
        /\ req'[r] = IF t.op = "merge" THEN [Free EXCEPT !.pc = "redetect", !.keep = t.keep] ELSE Free
        /\ ops' = ops
    BY DEF Commit
  <1>3. Grows(rows, t.status, added, rows')
    BY CommitGrows
  <1> SUFFICES ASSUME SplitsAlone'
               PROVE  /\ \A q \in DOMAIN req' : Spares(req'[q], rows')
                      /\ \A j \in DOMAIN decided' :
                           decided'[j][2] = "split" => rows'[decided'[j][1]].status \in {"split", "gone"}
                      /\ OneDecision'
    BY DEF SplitInv
  <1>4. SplitsAlone
    BY <1>2 DEF SplitsAlone
  <1>5. /\ \A q \in DOMAIN req : Spares(req[q], rows)
        /\ \A j \in DOMAIN decided : decided[j][2] = "split" => rows[decided[j][1]].status \in {"split", "gone"}
        /\ OneDecision
    BY <1>4 DEF SplitInv
  <1> HIDE DEF added, t
  <1>6. /\ t.op \in Decisions => t.row \in DOMAIN rows /\ Deciding(t, rows, ops)
        /\ t.op \notin Decisions => t.row = 0 /\ \A i \in DOMAIN t.status : t.status[i] # "split"
        /\ \A i \in DOMAIN t.status : t.status[i] \in {"dismissed", "split", "gone"}
    BY <1>1, Deciders
  <1>7. WritesOK(t, rows) /\ Spares(t, rows)
    BY <1>1, <1>5 DEF TxOK, t
  <1>8. ASSUME NEW i \in DOMAIN rows
        PROVE  /\ rows'[i].status = IF i \in DOMAIN t.status THEN t.status[i] ELSE rows[i].status
               /\ rows[i].status \in {"split", "gone"} => rows'[i].status \in {"split", "gone"}
    <2>1. rows'[i].status = IF i \in DOMAIN t.status THEN t.status[i] ELSE rows[i].status
      BY <1>3 DEF Grows
    <2>2. i \in DOMAIN t.status => rows[i].status # "gone"
      BY <1>7 DEF WritesOK
    <2>3. i \in DOMAIN t.status /\ t.status[i] = "dismissed" => rows[i].status # "split"
      BY <1>7 DEF Spares
    <2> QED
      BY <1>6, <2>1, <2>2, <2>3
  <1>9. ASSUME NEW q \in DOMAIN req' PROVE Spares(req'[q], rows')
    <2>1. CASE q = r
      <3>1. DOMAIN <<>> = {}
        OBVIOUS
      <3>2. req'[q].old = {} /\ DOMAIN req'[q].status = {}
        <4>1. CASE t.op = "merge"
          <5>1. req'[q] = [Free EXCEPT !.pc = "redetect", !.keep = t.keep]
            BY <1>2, <2>1, <4>1
          <5> QED
            BY <3>1, <5>1 DEF Free
        <4>2. CASE t.op # "merge"
          <5>1. req'[q] = Free
            BY <1>2, <2>1, <4>2
          <5> QED
            BY <3>1, <5>1 DEF Free
        <4> QED
          BY <4>1, <4>2
      <3> QED
        BY <3>2 DEF Spares
    <2>2. CASE q # r
      <3>1. "split" \notin ops
        BY <1>2, <1>4, <1>9, <2>2 DEF SplitsAlone
      <3>2. t.op # "split"
        BY <1>6, <3>1 DEF Deciding, Decisions
      <3>3. \A i \in DOMAIN t.status : t.status[i] # "split"
        BY <1>7, <3>2 DEF WritesOK
      <3>4. \A i \in DOMAIN rows : rows'[i].status = "split" => rows[i].status = "split"
        BY <1>8, <3>3
      <3>5. Spares(req[q], rows) /\ WritesOK(req[q], rows) /\ req'[q] = req[q]
        BY <1>2, <1>5, <1>9, <2>2 DEF QueueInv, TxOK
      <3> QED
        BY <3>4, <3>5 DEF Spares, WritesOK
    <2> QED
      BY <2>1, <2>2
  <1>10. \A j \in DOMAIN decided : decided[j][2] = "split" => rows'[decided[j][1]].status \in {"split", "gone"}
    BY <1>1, <1>5, <1>8 DEF Settled
  <1>11. CASE t.op \notin Decisions
    <2>1. decided' = decided
      BY <1>2, <1>11
    <2> QED
      BY <1>5, <1>9, <1>10, <2>1 DEF OneDecision
  <1>12. CASE t.op \in Decisions
    <2>1. t.row \in DOMAIN rows /\ Deciding(t, rows, ops) /\ t.row \in Nat
      <3>1. t.row \in DOMAIN rows /\ Deciding(t, rows, ops)
        BY <1>6, <1>12
      <3>2. DOMAIN rows \subseteq Nat
        BY <1>1, PlainTable
      <3> QED
        BY <3>1, <3>2
    <2>2. /\ DOMAIN decided' = DOMAIN decided \cup {Len(decided) + 1}
          /\ decided'[Len(decided) + 1] = <<t.row, t.op>>
          /\ \A j \in DOMAIN decided : decided'[j] = decided[j] /\ j \in Nat /\ j < Len(decided) + 1
          /\ Len(decided) \in Nat
      <3>1. <<t.row, t.op>> \in Nat \X Decisions /\ decided' = Append(decided, <<t.row, t.op>>)
        BY <1>2, <1>12, <2>1
      <3> QED
        BY <1>1, <3>1
    <2>3. t.op = "split" => rows'[t.row].status = "split"
      <3>1. t.op = "split" => t.row \in DOMAIN t.status /\ t.status[t.row] = "split"
        BY <1>1, <2>1 DEF Deciding
      <3> QED
        BY <1>8, <2>1, <3>1
    <2>4. \A j \in DOMAIN decided' :
            decided'[j][2] = "split" => rows'[decided'[j][1]].status \in {"split", "gone"}
      <3> SUFFICES ASSUME NEW j \in DOMAIN decided', decided'[j][2] = "split"
                   PROVE  rows'[decided'[j][1]].status \in {"split", "gone"}
        OBVIOUS
      <3>1. CASE j \in DOMAIN decided
        BY <1>10, <2>2, <3>1
      <3>2. CASE j = Len(decided) + 1
        <4>1. decided'[j][1] = t.row /\ decided'[j][2] = t.op
          BY <2>2, <3>2
        <4> QED
          BY <2>3, <4>1
      <3> QED
        BY <2>2, <3>1, <3>2
    <2>5. OneDecision'
      <3> SUFFICES ASSUME NEW j \in DOMAIN decided', NEW k \in DOMAIN decided', j < k,
                          decided'[j][1] = decided'[k][1]
                   PROVE  decided'[k][2] = "forget" /\ decided'[j][2] = "dismiss"
        BY DEF OneDecision
      <3>1. decided'[k][2] = "forget" /\ decided'[j][2] \in {"dismiss", "split"}
        <4>1. DecidedTwice(decided')
          BY CommitLogs
        <4> QED
          BY <4>1 DEF DecidedTwice
      <3>2. j \in DOMAIN decided
        BY <2>2
      <3>3. CASE k \in DOMAIN decided
        BY <1>5, <2>2, <3>2, <3>3 DEF OneDecision
      <3>4. CASE k = Len(decided) + 1
        <4>1. decided'[k][2] = t.op /\ decided[j][1] = t.row /\ decided'[j] = decided[j]
          BY <2>2, <3>2, <3>4
        <4>2. rows[t.row].status = "dismissed"
          BY <2>1, <3>1, <4>1 DEF Deciding
        <4>3. decided[j][2] # "split"
          BY <1>5, <3>2, <4>1, <4>2
        <4> QED
          BY <3>1, <4>1, <4>3
      <3> QED
        BY <2>2, <3>3, <3>4
    <2> QED
      BY <1>9, <2>4, <2>5
  <1> QED
    BY <1>11, <1>12

LEMMA SplitStep == QueueInv /\ SplitInv /\ [Next]_vars => SplitInv'
  <1> SUFFICES ASSUME QueueInv, SplitInv, [Next]_vars PROVE SplitInv'
    OBVIOUS
  <1>1. CASE UNCHANGED <<rows, req, ops, decided>>
    BY <1>1 DEF SplitInv, SplitsAlone, OneDecision
  <1>2. ASSUME NEW r \in DOMAIN req, Advances(r) PROVE SplitInv'
    <2>1. /\ DOMAIN req' = DOMAIN req /\ \A q \in DOMAIN req \ {r} : req'[q] = req[q]
          /\ rows' = rows /\ ops' = ops /\ decided' = decided
          /\ Spares(req[r], rows) => Spares(req'[r], rows)
      BY <1>2 DEF Advances
    <2>2. SplitsAlone' => SplitsAlone
      BY <2>1 DEF SplitsAlone
    <2>3. SplitsAlone => \A q \in DOMAIN req : Spares(req'[q], rows)
      BY <2>1 DEF SplitInv
    <2> QED
      BY <2>1, <2>2, <2>3 DEF SplitInv, OneDecision
  <1>3. ASSUME NEW r \in DOMAIN req, Commit(r) PROVE SplitInv'
    BY <1>3, SplitCommit
  <1>4. ASSUME NEW r \in DOMAIN req, Redetect(r) PROVE SplitInv'
    <2>1. PICK added : Grows(rows, <<>>, added, rows')
      BY <1>4, RedetectGrows, CurationAssumption
    <2>2. DOMAIN <<>> = {}
      OBVIOUS
    <2>3. \A i \in DOMAIN rows : rows'[i].status = rows[i].status
      BY <2>1, <2>2 DEF Grows
    <2>4. /\ DOMAIN req' = DOMAIN req /\ \A q \in DOMAIN req \ {r} : req'[q] = req[q]
          /\ req'[r] = Free /\ ops' = ops /\ decided' = decided
      BY <1>4 DEF Redetect
    <2>5. Free.old = {} /\ DOMAIN Free.status = {}
      BY <2>2 DEF Free
    <2>6. ASSUME SplitsAlone, NEW q \in DOMAIN req PROVE Spares(req'[q], rows')
      <3>1. CASE q = r
        BY <2>4, <2>5, <3>1 DEF Spares
      <3>2. CASE q # r
        <4>1. Spares(req[q], rows) /\ WritesOK(req[q], rows) /\ req'[q] = req[q]
          BY <2>4, <2>6, <3>2 DEF SplitInv, QueueInv, TxOK
        <4> QED
          BY <2>3, <4>1 DEF Spares, WritesOK
      <3> QED
        BY <3>1, <3>2
    <2>7. SplitsAlone' => SplitsAlone
      BY <2>4 DEF SplitsAlone
    <2>8. \A j \in DOMAIN decided : decided[j][1] \in DOMAIN rows
      BY DEF QueueInv, Settled
    <2> QED
      BY <2>3, <2>4, <2>6, <2>7, <2>8 DEF SplitInv, OneDecision
  <1>5. CASE UNCHANGED vars
    BY <1>1, <1>5 DEF vars
  <1> QED
    BY <1>1, <1>2, <1>3, <1>4, <1>5, StepCases

LEMMA SoleInit == Init => SoleInv
  <1> SUFFICES ASSUME Init PROVE SoleInv
    OBVIOUS
  <1>1. PICK s \in Starts : rows = s.rows /\ req = [r \in s.by |-> Free]
    BY DEF Init
  <1>2. NewsOK(Free, rows)
    BY NothingAdded DEF Free
  <1> QED
    BY <1>1, <1>2, CurationAssumption DEF SoleInv

\* What is added is news to the rows that stand.
LEMMA AllGrow ==
    ASSUME NEW table, \A i, j \in DOMAIN table : Same(table[i], table[j]) => i = j,
           NEW status, NEW added, NEW next, Grows(table, status, added, next), PairsUnique(next),
           \A i \in DOMAIN status : i \in DOMAIN table => table[i].status # "gone",
           \A c, d \in added : c.queue = d.queue /\ c.anime = d.anime => c = d,
           \A c \in added : IsRow(c),
           \A c \in added, i \in DOMAIN table :
             c.queue = "split" /\ table[i].queue = "split" /\ table[i].anime = c.anime /\ next[i].status # "gone"
               => Signature(table[i].clusters) # Signature(c.clusters)
    PROVE  \A i, j \in DOMAIN next : Same(next[i], next[j]) => i = j
  <1> SUFFICES ASSUME NEW i \in DOMAIN next, NEW j \in DOMAIN next, Same(next[i], next[j])
               PROVE  i = j
    OBVIOUS
  <1>1. /\ next[i].queue = next[j].queue /\ next[i].anime = next[j].anime
        /\ Signature(next[i].clusters) = Signature(next[j].clusters)
        /\ next[i].status # "gone" /\ next[j].status # "gone"
    BY DEF Same
  <1>2. CASE next[i].queue = "merge"
    BY <1>2 DEF PairsUnique
  <1>3. CASE next[i].queue # "merge"
    <2>1. \A k \in DOMAIN table : next[k].status # "gone" => table[k].status # "gone"
      BY DEF Grows
    <2>2. CASE i \in DOMAIN table /\ j \in DOMAIN table
      <3>1. /\ table[i].queue = table[j].queue /\ table[i].anime = table[j].anime
            /\ table[i].clusters = next[i].clusters /\ table[j].clusters = next[j].clusters
            /\ table[i].status # "gone" /\ table[j].status # "gone"
        BY <1>1, <2>1, <2>2 DEF Grows
      <3>2. Same(table[i], table[j])
        BY <1>1, <3>1 DEF Same
      <3> QED
        BY <2>2, <3>2
    <2>3. \A k \in DOMAIN next : next[k].queue \in {"merge", "split"}
      BY DEF Grows, IsTable, IsRow
    <2>4. CASE i \in DOMAIN table /\ j \notin DOMAIN table
      <3>1. next[j] \in added /\ table[i].queue = "split" /\ next[j].queue = "split"
            /\ table[i].anime = next[j].anime /\ table[i].clusters = next[i].clusters
        BY <1>1, <1>3, <2>3, <2>4 DEF Grows
      <3> QED
        BY <1>1, <2>4, <3>1
    <2>5. CASE i \notin DOMAIN table /\ j \in DOMAIN table
      <3>1. next[i] \in added /\ table[j].queue = "split" /\ next[i].queue = "split"
            /\ table[j].anime = next[i].anime /\ table[j].clusters = next[j].clusters
        BY <1>1, <1>3, <2>3, <2>5 DEF Grows
      <3> QED
        BY <1>1, <2>5, <3>1
    <2>6. CASE i \notin DOMAIN table /\ j \notin DOMAIN table
      BY <1>1, <2>6 DEF Grows
    <2> QED
      BY <2>2, <2>4, <2>5, <2>6
  <1> QED
    BY <1>2, <1>3

LEMMA SoleStep == QueueInv /\ SoleInv /\ [Next]_vars => SoleInv'
  <1> SUFFICES ASSUME QueueInv, SoleInv, [Next]_vars PROVE SoleInv'
    OBVIOUS
  <1>1. CASE UNCHANGED <<rows, req, ops, decided>>
    BY <1>1 DEF SoleInv, Sole
  <1>2. ASSUME NEW r \in DOMAIN req, Advances(r) PROVE SoleInv'
    <2>1. /\ DOMAIN req' = DOMAIN req /\ \A q \in DOMAIN req \ {r} : req'[q] = req[q]
          /\ rows' = rows
          /\ NewsOK(req[r], rows) => NewsOK(req'[r], rows)
      BY <1>2 DEF Advances
    <2>2. Sole' => Sole
      BY <2>1 DEF Sole
    <2>3. Sole => \A q \in DOMAIN req : NewsOK(req'[q], rows)
      BY <2>1 DEF SoleInv
    <2> QED
      BY <2>1, <2>2, <2>3 DEF SoleInv
  <1>3. ASSUME NEW r \in DOMAIN req, Commit(r) PROVE SoleInv'
    <2> DEFINE t == req[r]
               added == {c \in t.added : c.queue = "split" \/ ~Held(c.anime)}
    <2>1. TxOK(t, rows, ops) /\ IsTable(rows)
      BY DEF QueueInv
    <2>2. Grows(rows, t.status, added, rows')
      BY <1>3, CommitGrows
    <2>3. PairsUnique(rows')
      <3>1. QueueInv'
        BY <1>3, CommitKeeps
      <3> QED
        BY <3>1 DEF QueueInv
    <2>4. /\ DOMAIN req' = DOMAIN req
          /\ req'[r] = IF t.op = "merge" THEN [Free EXCEPT !.pc = "redetect", !.keep = t.keep] ELSE Free
      BY <1>3 DEF Commit
    <2>5. NewsOK(req'[r], rows')
      <3>1. req'[r].added = {}
        BY <2>4 DEF Free
      <3> QED
        BY <3>1, NothingAdded
    <2>6. /\ \A i \in DOMAIN t.status : i \in DOMAIN rows => rows[i].status # "gone"
          /\ \A c, d \in added : c.queue = d.queue /\ c.anime = d.anime => c = d
          /\ \A c \in added : IsRow(c)
      BY <2>1 DEF TxOK, WritesOK, AddsOK
    <2> SUFFICES ASSUME Sole'
                 PROVE  /\ \A q \in DOMAIN req' : NewsOK(req'[q], rows')
                        /\ \A i, j \in DOMAIN rows' : Same(rows'[i], rows'[j]) => i = j
      BY DEF SoleInv
    <2>7. Sole
      BY <2>4 DEF Sole
    <2>8. \A q \in DOMAIN req' : q = r
      BY <2>4, <2>7 DEF Sole
    <2>9. NewsOK(t, rows) /\ \A i, j \in DOMAIN rows : Same(rows[i], rows[j]) => i = j
      BY <2>7 DEF SoleInv
    <2>10. \A c \in added, i \in DOMAIN rows :
             c.queue = "split" /\ rows[i].queue = "split" /\ rows[i].anime = c.anime /\ rows'[i].status # "gone"
               => Signature(rows[i].clusters) # Signature(c.clusters)
      <3>1. \A i \in DOMAIN rows : rows'[i].status = After(t, rows, i)
        BY <2>2 DEF Grows, After
      <3>2. added \subseteq t.added
        OBVIOUS
      <3> HIDE DEF added, t
      <3> QED
        BY <2>9, <3>1, <3>2 DEF NewsOK
    <2> HIDE DEF added, t
    <2>11. \A i, j \in DOMAIN rows' : Same(rows'[i], rows'[j]) => i = j
      BY <2>2, <2>3, <2>6, <2>9, <2>10, AllGrow
    <2> QED
      BY <2>5, <2>8, <2>11
  <1>4. ASSUME NEW r \in DOMAIN req, Redetect(r) PROVE SoleInv'
    <2>1. PICK pairs : /\ \A p \in pairs : p \subseteq Anime /\ Cardinality(p) = 2 /\ ~Held(p)
                       /\ Grows(rows, <<>>, {Pair(p) : p \in pairs}, rows')
      BY <1>4, RedetectGrows, CurationAssumption
    <2> DEFINE added == {Pair(p) : p \in pairs}
               none == <<>>
    <2>2. DOMAIN none = {} /\ Grows(rows, none, added, rows')
      BY <2>1
    <2>3. PairsUnique(rows')
      <3>1. QueueInv'
        BY <1>4, RedetectKeeps, CurationAssumption
      <3> QED
        BY <3>1 DEF QueueInv
    <2>4. DOMAIN req' = DOMAIN req /\ req'[r] = Free
      BY <1>4 DEF Redetect
    <2>5. NewsOK(req'[r], rows')
      <3>1. req'[r].added = {}
        BY <2>4 DEF Free
      <3> QED
        BY <3>1, NothingAdded
    <2>6. /\ \A c, d \in added : c.queue = d.queue /\ c.anime = d.anime => c = d
          /\ \A c \in added : IsRow(c) /\ c.queue = "merge"
      <3>1. \A p : Pair(p).anime = p /\ Pair(p).queue = "merge"
        BY DEF Pair
      <3>2. \A p \in pairs : IsRow(Pair(p))
        BY <2>1 DEF Pair, IsRow
      <3>3. \A c \in added : \E p \in pairs : c = Pair(p)
        OBVIOUS
      <3> HIDE DEF added
      <3>4. \A c \in added : c = Pair(c.anime) /\ IsRow(c) /\ c.queue = "merge"
        BY <3>1, <3>2, <3>3
      <3> QED
        BY <3>4
    <2> SUFFICES ASSUME Sole'
                 PROVE  /\ \A q \in DOMAIN req' : NewsOK(req'[q], rows')
                        /\ \A i, j \in DOMAIN rows' : Same(rows'[i], rows'[j]) => i = j
      BY DEF SoleInv
    <2>7. Sole
      BY <2>4 DEF Sole
    <2>8. \A q \in DOMAIN req' : q = r
      BY <2>4, <2>7 DEF Sole
    <2>9. \A i, j \in DOMAIN rows : Same(rows[i], rows[j]) => i = j
      BY <2>7 DEF SoleInv
    <2> HIDE DEF added, none
    <2>10. \A i, j \in DOMAIN rows' : Same(rows'[i], rows'[j]) => i = j
      BY <2>2, <2>3, <2>6, <2>9, AllGrow
    <2> QED
      BY <2>5, <2>8, <2>10
  <1>5. CASE UNCHANGED vars
    BY <1>1, <1>5 DEF vars
  <1> QED
    BY <1>1, <1>2, <1>3, <1>4, <1>5, StepCases

-----------------------------------------------------------------------------
(* The queues: the theorems *)

\* "A candidate resolves once": unless a split can run beside another request, no row is
\* decided again, however two admins, sweeps and detections interleave, until its
\* dismissal is forgotten (get_for_resolve locks the row and then reads its status).
THEOREM ResolvedOnce == Spec /\ SplitsAlone => []OneDecision
  <1>1. SplitsAlone /\ QueueInv /\ SplitInv => OneDecision
    BY DEF SplitInv
  <1>2. SplitsAlone /\ QueueInv /\ [Next]_vars => SplitsAlone'
    <2> SUFFICES ASSUME SplitsAlone, QueueInv, [Next]_vars PROVE SplitsAlone'
      OBVIOUS
    <2>1. DOMAIN req' = DOMAIN req /\ ops' = ops
      BY StepCases DEF vars, Advances, Commit, Redetect
    <2> QED
      BY <2>1 DEF SplitsAlone
  <1> QED
    BY QueueInit, QueueStep, SplitInit, SplitStep, <1>1, <1>2, PTL DEF Spec

\* Whoever works at the same time, at most one row holds a pair of anime, and the one an
\* admin has dismissed keeps every later detection from proposing it again
\* (uq_merge_candidates_pair, get_existing_pairs).
PairDismissalSticks ==
    ~\E i, j \in DOMAIN rows :
        /\ rows[i].queue = "merge" /\ rows[j].queue = "merge" /\ rows[i].anime = rows[j].anime
        /\ rows[i].status = "dismissed" /\ rows[j].status = "pending"

THEOREM PairsDismissedStay == Spec => []PairDismissalSticks
  <1>1. QueueInv => PairDismissalSticks
    <2> SUFFICES ASSUME QueueInv, NEW i \in DOMAIN rows, NEW j \in DOMAIN rows,
                        rows[i].queue = "merge", rows[j].queue = "merge", rows[i].anime = rows[j].anime,
                        rows[i].status = "dismissed", rows[j].status = "pending"
                 PROVE  FALSE
      BY DEF PairDismissalSticks
    <2>1. IsRow(rows[i]) /\ IsRow(rows[j])
      BY DEF QueueInv, IsTable
    <2>2. rows[i].clusters = rows[j].clusters
      BY <2>1 DEF IsRow
    <2>3. Same(rows[i], rows[j])
      BY <2>2 DEF Same
    <2>4. i = j
      BY <2>3 DEF QueueInv, PairsUnique
    <2> QED
      BY <2>4
  <1> QED
    BY QueueInit, QueueStep, <1>1, PTL DEF Spec

\* While one admin works alone this holds of both queues: what was dismissed stays
\* dismissed through every merge, split, sweep and detection that follows
\* (upsert_pending, detect_split_candidates_for_anime).
THEOREM DismissedOnesStay == Spec /\ Sole => []DismissalSticks
  <1>1. Sole /\ QueueInv /\ SoleInv => DismissalSticks
    <2> SUFFICES ASSUME QueueInv, SoleInv, Sole, NEW j \in DOMAIN decided, decided[j][2] = "dismiss",
                        rows[decided[j][1]].status = "dismissed", NEW i \in DOMAIN rows,
                        rows[i].status = "pending", rows[i].anime = rows[decided[j][1]].anime,
                        rows[i].queue = rows[decided[j][1]].queue,
                        Signature(rows[i].clusters) = Signature(rows[decided[j][1]].clusters)
                 PROVE  FALSE
      BY DEF DismissalSticks
    <2>1. decided[j][1] \in DOMAIN rows
      BY DEF QueueInv, Settled
    <2>2. Same(rows[i], rows[decided[j][1]])
      BY DEF Same
    <2>3. i = decided[j][1]
      BY <2>1, <2>2 DEF SoleInv
    <2> QED
      BY <2>3
  <1>2. Sole /\ QueueInv /\ [Next]_vars => Sole'
    <2> SUFFICES ASSUME Sole, QueueInv, [Next]_vars PROVE Sole'
      OBVIOUS
    <2>1. DOMAIN req' = DOMAIN req
      BY StepCases DEF vars, Advances, Commit, Redetect
    <2> QED
      BY <2>1 DEF Sole
  <1> QED
    BY QueueInit, QueueStep, SoleInit, SoleStep, <1>1, <1>2, PTL DEF Spec
=============================================================================
