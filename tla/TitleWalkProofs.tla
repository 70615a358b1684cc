--------------------------- MODULE TitleWalkProofs ---------------------------
(***************************************************************************)
(* Proofs about one scrape, for every world of MAL whose pages list its      *)
(* entries: the media that two graphs might claim, the ones a dropped graph  *)
(* gives back, and how far a walk may go.  And about the classifier and the  *)
(* spoiler frontier, for every franchise: what is cut out of one, and what   *)
(* MAL may add to it.                                                        *)
(*                                                                         *)
(* ClaimInv follows a media from the queue to a graph; ReachInv follows what *)
(* the walk may go on from; both are inductive with the types.  Of a growing *)
(* franchise GrowthInv keeps that its pages name its own entries; the rest   *)
(* is one order of anchors with a first, and the reach of the main and the   *)
(* alternative chain, on a graph and on the part of it that is left.         *)
(***************************************************************************)
EXTENDS MCFranchises, Counting, FiniteSetTheorems, SequenceTheorems, TLAPS

(* Types *)

Entries == DOMAIN mal
Link == [to : Entries, rel : STRING]
Edge == [from : Entries, to : Entries, rel : STRING]
Graph == [root : Entries, nodes : SUBSET Entries, edges : SUBSET Edge, cross : SUBSET Entries,
          followed : SUBSET Entries]
PCs == {"idle", "root", "walk", "save", "attach", "done"}

\* What a scrape keeps track of.
WalkState ==
    [pc : PCs, hits : Seq(Nat), seed : Nat, excluded : SUBSET Nat, stripped : SUBSET Nat,
     results : Seq(Entries), root : Nat, queue : Seq(Entries), walking : SUBSET Entries,
     visited : SUBSET Entries, graph : SUBSET Entries, edges : SUBSET Edge,
     cross : SUBSET Entries, followed : SUBSET Entries, kept : Seq(Graph),
     rejected : SUBSET Entries, saves : SUBSET Nat, attach : SUBSET Nat]

WalkTypeOK ==
    /\ mal \in Worlds /\ DOMAIN home \subseteq Nat /\ unwanted \in SUBSET Nat
    /\ walk \in WalkState
    /\ walk.pc = "walk" => walk.root \in Entries
    /\ walk.pc \in {"save", "attach"} => walk.saves \cup walk.attach \subseteq DOMAIN walk.kept
    /\ scrapes \in Nat

-----------------------------------------------------------------------------
(* Who claims a media *)

\* What a graph may hold: an ordinary entry that the scrape was not told to leave out.
Ordinary(m) == mal[m].fate = "ordinary"
Saveable(m) == Ordinary(m) /\ m \notin walk.excluded

InKept(m) == \E i \in DOMAIN walk.kept : m \in walk.kept[i].nodes

\* The kept graphs hold what may be held, no two the same, and with a media they hold
\* those its followed pages name.
KeptSaveable == \A m \in Entries : InKept(m) => Saveable(m)
KeptApart ==
    \A i, j \in DOMAIN walk.kept : i # j => walk.kept[i].nodes \cap walk.kept[j].nodes = {}
KeptClosed ==
    \A i \in DOMAIN walk.kept : \A e \in walk.kept[i].edges :
        e.from \in walk.kept[i].followed /\ Saveable(e.to) => InKept(e.to)

\* What goes to the blacklist is never what a graph holds.
RejectedOdd == \A m \in walk.rejected : ~Ordinary(m)

\* While roots are walked: the blacklist is what the scrape began with, and what was
\* visited and can be saved has been claimed by a graph.
ClaimsInv ==
    walk.pc \in {"root", "walk"} =>
        /\ unwanted \subseteq walk.excluded
        /\ \A m \in Entries : InKept(m) => m \in walk.visited
        /\ \A m \in walk.visited :
              Saveable(m) => InKept(m) \/ (walk.pc = "walk" /\ m \in walk.graph)

\* The graph under way takes nothing that is claimed, and the pages it followed lead to
\* what was visited or is queued.
GraphInv ==
    walk.pc = "walk" =>
        /\ \A m \in walk.graph : m \in walk.visited /\ Saveable(m) /\ ~InKept(m)
        /\ walk.followed \subseteq walk.graph
        /\ \A e \in walk.edges :
              /\ e.from \in walk.graph
              /\ e.from \in walk.followed => e.to \in walk.visited \cup ToSet(walk.queue)

\* The blacklist has grown by what was rejected.
JudgedInv ==
    walk.pc \in {"save", "attach"} => \A m \in unwanted : ~InKept(m)

ClaimInv == KeptSaveable /\ KeptApart /\ KeptClosed /\ RejectedOdd /\ ClaimsInv /\ GraphInv /\ JudgedInv

-----------------------------------------------------------------------------
(* How far a walk goes *)

\* S holds the root and all that identity-preserving relations lead to from S.
IdentityClosed(S) ==
    /\ walk.root \in S
    /\ \A e \in walk.edges : e.rel \in IdentityRels /\ e.from \in S => e.to \in S
LedTo(m) == \E e \in walk.edges : e.from \in walk.followed /\ e.to = m

\* Every set closed under identity holds what is walked from; what is queued or taken
\* without being followed is named by a page that was.
ReachInv ==
    walk.pc = "walk" =>
        /\ walk.root \in walk.walking
        /\ \A S \in SUBSET Entries : IdentityClosed(S) => walk.walking \subseteq S
        /\ walk.followed \subseteq walk.walking
        /\ \A m \in ToSet(walk.queue) : m = walk.root \/ LedTo(m)
        /\ \A m \in walk.graph \ walk.followed : LedTo(m)

-----------------------------------------------------------------------------
(* The types are kept *)

LEMMA LinksType ==
    ASSUME mal \in Worlds, NEW m \in Entries
    PROVE  LinksOf(m) \in Seq(Link)
  BY WalkAssumption DEF LinksOf, Entries, Link

LEMMA RootsType ==
    ASSUME mal \in Worlds, NEW hits, NEW excluded, NEW results \in RootOrders(hits, excluded)
    PROVE  results \in Seq(Entries)
  <1> DEFINE above == [i \in DOMAIN hits |-> AnchorsAbove(hits[i], excluded)]
             roots == {m \in DOMAIN mal : \E i \in DOMAIN hits : m = hits[i] \/ m \in above[i]}
             n == Cardinality(roots)
  <1>1. results \in [1 .. n -> roots]
    BY Zenon DEF RootOrders
  <1>2. roots \subseteq Entries
    BY DEF Entries
  <1>3. IsFiniteSet(Entries)
    BY WalkAssumption DEF Entries
  <1> HIDE DEF roots
  <1>4. n \in Nat
    BY <1>2, <1>3, FS_Subset, FS_CardinalityType
  <1> HIDE DEF n
  <1>5. results \in [1 .. n -> Entries]
    BY <1>1, <1>2
  <1> QED
    BY <1>4, <1>5, SeqDef

LEMMA IdleType == Idle \in WalkState
  BY DEF Idle, WalkState, PCs, NoSeed

\* What the links of m lead to.
LEMMA NextType ==
    ASSUME mal \in Worlds, NEW m \in Entries
    PROVE  [i \in DOMAIN LinksOf(m) |-> LinksOf(m)[i].to] \in Seq(Entries)
  <1> DEFINE links == LinksOf(m)
             next == [i \in DOMAIN links |-> links[i].to]
  <1>1. links \in Seq(Link)
    BY LinksType
  <1> HIDE DEF links
  <1>2. DOMAIN links = 1 .. Len(links) /\ Len(links) \in Nat
    BY <1>1
  <1>21. \A i \in 1 .. Len(links) : links[i] \in Link
    BY <1>1, <1>2
  <1>22. \A i \in 1 .. Len(links) : links[i].to \in Entries
    BY <1>21 DEF Link
  <1>3. next \in [1 .. Len(links) -> Entries]
    BY <1>2, <1>22
  <1> HIDE DEF next
  <1>4. next \in Seq(Entries)
    BY <1>2, <1>3, SeqDef
  <1> QED
    BY <1>4 DEF next, links

LEMMA KeptType ==
    ASSUME WalkTypeOK, NEW i \in DOMAIN walk.kept
    PROVE  walk.kept[i] \in Graph /\ i \in Nat /\ walk.kept[i].nodes \subseteq Entries
  <1>1. walk.kept \in Seq(Graph)
    BY DEF WalkTypeOK, WalkState
  <1>2. walk.kept[i] \in Graph /\ i \in Nat
    BY <1>1
  <1> QED
    BY <1>2 DEF Graph

LEMMA TypeStep == WalkTypeOK /\ [Next]_vars => WalkTypeOK'
  <1> SUFFICES ASSUME WalkTypeOK, [Next]_vars PROVE WalkTypeOK'
    OBVIOUS
  <1> USE DEF WalkTypeOK
  <1>0. mal' = mal
    BY DEF Next, Begin, NextRoot, Visit, EndGraph, Judge, Save, Attach, Fail, Finish, vars
  <1>01. Entries' = Entries /\ WalkState' = WalkState /\ Entries \in SUBSET Nat
    BY <1>0, WalkAssumption DEF Entries, WalkState, Graph, Edge
  <1>02. Idle.pc = "idle"
    BY DEF Idle
  <1>1. ASSUME NEW s \in Searches, Begin(s) PROVE WalkTypeOK'
    <2> DEFINE excluded == (DOMAIN home \cup unwanted) \ {s.seed}
    <2>1. PICK results \in RootOrders(s.hits, excluded) :
             walk' = [Idle EXCEPT !.pc = "root", !.hits = s.hits, !.seed = s.seed,
                        !.excluded = excluded, !.stripped = unwanted, !.results = results]
      BY <1>1 DEF Begin
    <2>2. results \in Seq(Entries)
      BY RootsType
    <2>3. s \in [hits : Seq(Nat), seed : Nat]
      BY WalkAssumption
    <2>4. excluded \in SUBSET Nat
      OBVIOUS
    <2> HIDE DEF excluded
    <2>5. walk' \in WalkState /\ walk'.pc = "root"
      BY <2>1, <2>2, <2>3, <2>4, IdleType DEF WalkState, PCs
    <2> QED
      BY <1>0, <1>1, <1>01, <2>5, WalkAssumption DEF Begin
  <1>2. CASE NextRoot
    <2>1. walk.results \in Seq(Entries) /\ walk.results # <<>>
      BY <1>2 DEF NextRoot, WalkState
    <2>2. Head(walk.results) \in Entries /\ Tail(walk.results) \in Seq(Entries)
      BY <2>1
    <2>3. <<Head(walk.results)>> \in Seq(Entries)
      BY <2>2
    <2>4. walk' \in WalkState /\ walk'.root \in Entries
      BY <1>2, <1>01, <2>2, <2>3 DEF NextRoot, WalkState, PCs
    <2> QED
      BY <1>0, <1>2, <1>01, <2>4 DEF NextRoot
  <1>3. CASE Visit
    <2> DEFINE m == Head(walk.queue)
               rest == [walk EXCEPT !.queue = Tail(walk.queue)]
               seen == [rest EXCEPT !.visited = walk.visited \cup {m}]
    <2>1. walk.queue \in Seq(Entries) /\ walk.queue # <<>> /\ walk.pc = "walk"
      BY <1>3 DEF Visit, WalkState
    <2>2. m \in Entries /\ Tail(walk.queue) \in Seq(Entries)
      BY <2>1
    <2>3. rest \in WalkState /\ rest.root = walk.root
      BY <2>2 DEF WalkState
    <2>4. seen \in WalkState /\ seen.root = walk.root
      BY <2>2, <2>3 DEF WalkState
    <2>5. walk' \in WalkState /\ walk'.root = walk.root
      <3>1. CASE walk' = rest
        BY <2>3, <3>1
      <3>2. CASE walk' = seen
        BY <2>4, <3>2
      <3>3. CASE walk' = [seen EXCEPT !.cross = walk.cross \cup ({m} \ {walk.root})]
        <4>1. walk.cross \cup ({m} \ {walk.root}) \in SUBSET Entries
          BY <2>2 DEF WalkState
        <4> QED
          BY <2>4, <3>3, <4>1 DEF WalkState
      <3>4. CASE walk' = [seen EXCEPT !.rejected = walk.rejected \cup {m}]
        <4>1. walk.rejected \cup {m} \in SUBSET Entries
          BY <2>2 DEF WalkState
        <4> QED
          BY <2>4, <3>4, <4>1 DEF WalkState
      <3>5. CASE mal[m].fate = "ordinary" /\ m \notin walk.excluded \cup walk.visited
        <4> DEFINE links == LinksOf(m)
                   walks == m \in walk.walking
                   next == [i \in DOMAIN links |-> links[i].to]
                   graph == walk.graph \cup {m}
                   followed == walk.followed \cup (IF walks THEN {m} ELSE {})
                   edges == walk.edges \cup {[from |-> m, to |-> l.to, rel |-> l.rel] : l \in ToSet(links)}
                   walking == walk.walking \cup {l.to : l \in {x \in ToSet(links) : Propagates(walks, x.rel)}}
                   queue == Tail(walk.queue) \o (IF walks THEN next ELSE <<>>)
        <4>1. walk' = [seen EXCEPT !.graph = graph, !.followed = followed, !.edges = edges,
                                   !.walking = walking, !.queue = queue]
          BY <1>3, <3>5 DEF Visit
        <4>2. links \in Seq(Link)
          BY <2>2, LinksType
        <4>3. \A l \in ToSet(links) : l.to \in Entries /\ l.rel \in STRING
          <5> HIDE DEF links
          <5>1. \A i \in DOMAIN links : links[i] \in Link
            BY <4>2
          <5>2. \A l \in ToSet(links) : l \in Link
            BY <5>1 DEF ToSet
          <5> QED
            BY <5>2 DEF Link
        <4>4. graph \in SUBSET Entries /\ followed \in SUBSET Entries
          BY <2>2 DEF WalkState
        <4>5. edges \in SUBSET Edge
          <5> HIDE DEF links
          <5> QED
            BY <2>2, <4>3 DEF WalkState, Edge
        <4>6. walking \in SUBSET Entries
          <5> HIDE DEF links
          <5> QED
            BY <4>3 DEF WalkState
        <4>7. queue \in Seq(Entries)
          <5>0. next \in Seq(Entries)
            BY <2>2, NextType
          <5> HIDE DEF next
          <5>1. CASE walks
            BY <2>2, <5>0, <5>1
          <5>2. CASE ~walks
            BY <2>2, <5>2
          <5> QED
            BY <5>1, <5>2
        <4> HIDE DEF graph, followed, edges, walking, queue
        <4> QED
          BY <2>4, <4>1, <4>4, <4>5, <4>6, <4>7 DEF WalkState
      <3> QED
        BY <1>3, <3>1, <3>2, <3>3, <3>4, <3>5 DEF Visit
    <2>6. walk'.pc = "walk"
      BY <1>3 DEF Visit, WalkState
    <2> QED
      BY <1>0, <1>01, <1>3, <2>1, <2>5, <2>6 DEF Visit
  <1>4. CASE EndGraph
    <2> DEFINE graph == [root |-> walk.root, nodes |-> walk.graph, edges |-> walk.edges,
                         cross |-> walk.cross, followed |-> walk.followed]
    <2>1. walk.pc = "walk"
      BY <1>4 DEF EndGraph
    <2>2. graph \in Graph
      BY <2>1 DEF WalkState, Graph
    <2> HIDE DEF graph
    <2>3. Append(walk.kept, graph) \in Seq(Graph)
      BY <2>2 DEF WalkState
    <2>4. PICK visited \in SUBSET Entries, kept \in Seq(Graph) :
            walk' = [walk EXCEPT !.pc = "root", !.visited = visited, !.kept = kept]
      BY <1>4, <2>3 DEF EndGraph, WalkState, graph
    <2>5. walk' \in WalkState /\ walk'.pc = "root"
      BY <2>4 DEF WalkState, PCs
    <2> QED
      BY <1>0, <1>01, <1>4, <2>5 DEF EndGraph
  <1>5. CASE Judge
    <2>1. DOMAIN walk.kept \subseteq Nat
      BY DEF WalkState
    <2>2. PICK saves \in SUBSET Nat, attach \in SUBSET Nat :
            walk' = [walk EXCEPT !.pc = "save", !.saves = saves, !.attach = attach]
      BY <1>5, <2>1 DEF Judge
    <2>3. walk' \in WalkState /\ walk'.pc = "save" /\ walk'.kept = walk.kept
      BY <2>2 DEF WalkState, PCs
    <2>31. walk'.saves \cup walk'.attach \subseteq DOMAIN walk.kept
      BY <1>5 DEF Judge, WalkState
    <2>4. unwanted' \in SUBSET Nat
      BY <1>5, <1>01 DEF Judge, WalkState
    <2> QED
      BY <1>0, <1>01, <1>5, <2>3, <2>31, <2>4 DEF Judge
  <1>6. CASE Save
    <2> DEFINE saved == UNION {walk.kept[i].nodes : i \in walk.saves}
    <2>0. walk.pc = "save" /\ (walk' = [walk EXCEPT !.pc = "attach"] \/ walk' = Idle)
      BY <1>6, Zenon DEF Save
    <2>1. walk' \in WalkState /\ walk'.pc \in {"attach", "idle"}
      BY <2>0, IdleType, <1>02 DEF WalkState, PCs
    <2>2. walk'.pc = "attach" => walk'.saves \cup walk'.attach \subseteq DOMAIN walk'.kept
      BY <2>0, <1>02 DEF WalkState
    <2>3. saved \subseteq Nat
      BY <1>6, <1>01, KeptType DEF Save
    <2> HIDE DEF saved
    <2>4. DOMAIN home' \subseteq saved \cup DOMAIN home
      BY <1>6 DEF Save, saved
    <2> QED
      BY <1>0, <1>01, <1>6, <2>1, <2>2, <2>3, <2>4 DEF Save
  <1>7. CASE Attach
    <2> DEFINE target(g) == CHOOSE t \in Links(g) : TRUE
               owner(m) == CHOOSE i \in walk.attach : m \in walk.kept[i].nodes
               parent(m) == home[target(walk.kept[owner(m)])]
               found == {i \in walk.attach : target(walk.kept[i]) \in DOMAIN home}
               media == UNION {walk.kept[i].nodes : i \in found}
    <2>1. walk' \in WalkState /\ walk'.pc \in {"done", "idle"}
      BY <1>7, IdleType, <1>02 DEF Attach, WalkState, PCs
    <2>2. found \subseteq walk.attach
      OBVIOUS
    <2> HIDE DEF found
    <2>3. media \subseteq Nat
      BY <1>7, <1>01, <2>2, KeptType DEF Attach
    <2>4. home' = [m \in media \cup DOMAIN home |-> IF m \in DOMAIN home THEN home[m] ELSE parent(m)] \/ home' = home
      BY <1>7, Zenon DEF Attach, found
    <2> HIDE DEF media, parent
    <2>5. DOMAIN home' \subseteq media \cup DOMAIN home
      BY <2>4
    <2> QED
      BY <1>0, <1>01, <1>7, <2>1, <2>3, <2>5 DEF Attach
  <1>8. CASE Fail
    BY <1>0, <1>01, <1>02, <1>8, IdleType DEF Fail
  <1>9. CASE Finish
    BY <1>0, <1>01, <1>02, <1>9, IdleType DEF Finish
  <1>10. CASE UNCHANGED vars
    BY <1>01, <1>10 DEF vars
  <1> QED
    BY <1>1, <1>2, <1>3, <1>4, <1>5, <1>6, <1>7, <1>8, <1>9, <1>10 DEF Next

\* A scrape follows the links of MAL's pages to entries of it only, and what it keeps,
\* saves and attaches are graphs of them.
THEOREM WalkTypeCorrect == Spec => []WalkTypeOK
  <1>1. Init => WalkTypeOK
    BY WalkAssumption, IdleType DEF Init, WalkTypeOK, Idle
  <1> QED
    BY <1>1, TypeStep, PTL DEF Spec

-----------------------------------------------------------------------------
(* One visit *)

\* What a visit leaves alone, whatever becomes of the node.
VisitFrame(m) ==
    /\ mal' = mal /\ unwanted' = unwanted
    /\ walk'.pc = "walk" /\ walk'.kept = walk.kept /\ walk'.excluded = walk.excluded
    /\ walk'.root = walk.root /\ walk'.visited = walk.visited \cup {m}
    /\ ToSet(walk.queue) \subseteq ToSet(walk'.queue) \cup {m}

\* A node that was visited, or that no graph may hold, changes no graph.
PassedOver(m) ==
    /\ m \in walk.visited \/ ~Saveable(m)
    /\ walk'.graph = walk.graph /\ walk'.edges = walk.edges
    /\ walk'.followed = walk.followed /\ walk'.walking = walk.walking
    /\ walk'.rejected \subseteq walk.rejected \cup {n \in {m} : ~Ordinary(n)}
    /\ ToSet(walk'.queue) \subseteq ToSet(walk.queue)

\* Any other is taken into the graph with its relations.
Taken(m) ==
    LET links == ToSet(LinksOf(m))
        walks == m \in walk.walking
    IN  /\ m \notin walk.visited /\ Saveable(m)
        /\ walk'.graph = walk.graph \cup {m}
        /\ walk'.edges = walk.edges \cup {[from |-> m, to |-> l.to, rel |-> l.rel] : l \in links}
        /\ walk'.followed = walk.followed \cup (IF walks THEN {m} ELSE {})
        /\ walk'.walking = walk.walking \cup {l.to : l \in {x \in links : Propagates(walks, x.rel)}}
        /\ walk'.rejected = walk.rejected
        /\ walks => \A l \in links : l.to \in ToSet(walk'.queue)
        /\ \A n \in ToSet(walk'.queue) \ ToSet(walk.queue) : walks /\ \E l \in links : l.to = n

\* A queue is its head and its tail, and a joined one both.
LEMMA QueueParts ==
    ASSUME NEW queue \in Seq(Entries), queue # <<>>
    PROVE  /\ Head(queue) \in ToSet(queue)
           /\ ToSet(queue) = {Head(queue)} \cup ToSet(Tail(queue))
  <1>1. DOMAIN queue = 1 .. Len(queue) /\ Len(queue) \in Nat \ {0}
    BY EmptySeq
  <1>2. /\ Tail(queue) \in Seq(Entries) /\ DOMAIN Tail(queue) = 1 .. Len(queue) - 1
        /\ \A i \in 1 .. Len(queue) - 1 : Tail(queue)[i] = queue[i + 1]
    BY <1>1
  <1>3. Head(queue) = queue[1]
    BY <1>1
  <1>4. ASSUME NEW i \in DOMAIN queue PROVE queue[i] = Head(queue) \/ queue[i] \in ToSet(Tail(queue))
    <2>1. CASE i = 1
      BY <1>3, <2>1
    <2>2. CASE i # 1
      <3>1. i - 1 \in 1 .. Len(queue) - 1 /\ (i - 1) + 1 = i
        BY <1>1, <2>2
      <3>2. Tail(queue)[i - 1] = queue[i]
        BY <1>2, <3>1
      <3> QED
        BY <1>2, <3>1, <3>2 DEF ToSet
    <2> QED
      BY <2>1, <2>2
  <1>5. ASSUME NEW i \in DOMAIN Tail(queue) PROVE Tail(queue)[i] \in ToSet(queue)
    <2>1. i + 1 \in DOMAIN queue /\ Tail(queue)[i] = queue[i + 1]
      BY <1>1, <1>2
    <2> QED
      BY <2>1 DEF ToSet
  <1>6. Head(queue) \in ToSet(queue)
    BY <1>1, <1>3 DEF ToSet
  <1> HIDE <1>1, <1>2, <1>3
  <1> QED
    BY <1>4, <1>5, <1>6, Zenon DEF ToSet

LEMMA JoinedParts ==
    ASSUME NEW S, NEW s \in Seq(S), NEW t \in Seq(S)
    PROVE  ToSet(s \o t) = ToSet(s) \cup ToSet(t)
  <1>1. /\ DOMAIN s = 1 .. Len(s) /\ Len(s) \in Nat
        /\ DOMAIN t = 1 .. Len(t) /\ Len(t) \in Nat
    OBVIOUS
  <1>2. /\ DOMAIN (s \o t) = 1 .. Len(s) + Len(t)
        /\ \A i \in 1 .. Len(s) + Len(t) : (s \o t)[i] = IF i <= Len(s) THEN s[i] ELSE t[i - Len(s)]
    OBVIOUS
  <1>3. ASSUME NEW i \in DOMAIN s PROVE s[i] \in ToSet(s \o t)
    <2>1. i \in DOMAIN (s \o t) /\ (s \o t)[i] = s[i]
      BY <1>1, <1>2
    <2> QED
      BY <2>1 DEF ToSet
  <1>4. ASSUME NEW i \in DOMAIN t PROVE t[i] \in ToSet(s \o t)
    <2>1. /\ i + Len(s) \in DOMAIN (s \o t) /\ (s \o t)[i + Len(s)] = t[i]
      BY <1>1, <1>2
    <2> QED
      BY <2>1 DEF ToSet
  <1>5. ASSUME NEW i \in DOMAIN (s \o t) PROVE (s \o t)[i] \in ToSet(s) \cup ToSet(t)
    <2>1. CASE i <= Len(s)
      <3>1. i \in DOMAIN s /\ (s \o t)[i] = s[i]
        BY <1>1, <1>2, <2>1
      <3> QED
        BY <3>1 DEF ToSet
    <2>2. CASE ~(i <= Len(s))
      <3>1. i - Len(s) \in DOMAIN t /\ (s \o t)[i] = t[i - Len(s)]
        BY <1>1, <1>2, <2>2
      <3> QED
        BY <3>1 DEF ToSet
    <2> QED
      BY <2>1, <2>2
  <1> HIDE <1>1, <1>2
  <1> QED
    BY <1>3, <1>4, <1>5, Zenon DEF ToSet

\* A visit passes the node over or takes it.
LEMMA VisitMoves ==
    ASSUME WalkTypeOK, Visit
    PROVE  /\ walk.pc = "walk" /\ Head(walk.queue) \in Entries /\ Head(walk.queue) \in ToSet(walk.queue)
           /\ VisitFrame(Head(walk.queue))
           /\ PassedOver(Head(walk.queue)) \/ Taken(Head(walk.queue))
  <1> DEFINE m == Head(walk.queue)
             rest == [walk EXCEPT !.queue = Tail(walk.queue)]
             seen == [rest EXCEPT !.visited = walk.visited \cup {m}]
             links == LinksOf(m)
             walks == m \in walk.walking
             next == [i \in DOMAIN links |-> links[i].to]
             queue == Tail(walk.queue) \o (IF walks THEN next ELSE <<>>)
  <1>1. walk.pc = "walk" /\ walk \in WalkState /\ walk.queue \in Seq(Entries) /\ walk.queue # <<>>
    BY DEF Visit, WalkTypeOK, WalkState
  <1>2. /\ m \in Entries /\ m \in ToSet(walk.queue) /\ Tail(walk.queue) \in Seq(Entries)
        /\ ToSet(walk.queue) = {m} \cup ToSet(Tail(walk.queue))
    BY <1>1, QueueParts
  <1>3. mal' = mal /\ unwanted' = unwanted
    BY DEF Visit
  <1> HIDE DEF m
  <1>4. CASE walk' = rest /\ m \in walk.visited
    <2>1. /\ walk'.pc = "walk" /\ walk'.kept = walk.kept /\ walk'.excluded = walk.excluded
          /\ walk'.root = walk.root /\ walk'.visited = walk.visited /\ walk'.queue = Tail(walk.queue)
          /\ walk'.graph = walk.graph /\ walk'.edges = walk.edges
          /\ walk'.followed = walk.followed /\ walk'.walking = walk.walking
          /\ walk'.rejected = walk.rejected
      BY <1>1, <1>4 DEF WalkState
    <2>2. VisitFrame(m) /\ PassedOver(m)
      BY <1>2, <1>3, <1>4, <2>1 DEF VisitFrame, PassedOver
    <2> QED
      BY <1>1, <1>2, <2>2 DEF m
  <1>5. ASSUME NEW cross, NEW rejected, ~Saveable(m),
               walk' = [seen EXCEPT !.cross = cross, !.rejected = rejected],
               rejected \subseteq walk.rejected \cup {n \in {m} : ~Ordinary(n)}
        PROVE  VisitFrame(m) /\ PassedOver(m)
    <2>1. /\ walk'.pc = "walk" /\ walk'.kept = walk.kept /\ walk'.excluded = walk.excluded
          /\ walk'.root = walk.root /\ walk'.visited = walk.visited \cup {m} /\ walk'.queue = Tail(walk.queue)
          /\ walk'.graph = walk.graph /\ walk'.edges = walk.edges
          /\ walk'.followed = walk.followed /\ walk'.walking = walk.walking
          /\ walk'.rejected = rejected
      BY <1>1, <1>5 DEF WalkState
    <2> QED
      BY <1>2, <1>3, <1>5, <2>1 DEF VisitFrame, PassedOver
  <1>6. CASE ~Saveable(m) /\ m \notin walk.visited
    <2>1. mal[m].fate \in Fates
      BY <1>2, WalkAssumption DEF WalkTypeOK, Entries
    <2>2. PICK cross, rejected :
            /\ walk' = [seen EXCEPT !.cross = cross, !.rejected = rejected]
            /\ rejected \subseteq walk.rejected \cup {n \in {m} : ~Ordinary(n)}
      <3>1. [seen EXCEPT !.cross = seen.cross, !.rejected = seen.rejected] = seen
            /\ seen.cross = walk.cross /\ seen.rejected = walk.rejected
        BY <1>1 DEF WalkState
      <3>2. \A c : [seen EXCEPT !.cross = c, !.rejected = seen.rejected] = [seen EXCEPT !.cross = c]
        BY <1>1 DEF WalkState
      <3>3. \A r : [seen EXCEPT !.cross = seen.cross, !.rejected = r] = [seen EXCEPT !.rejected = r]
        BY <1>1 DEF WalkState
      <3>4. \/ walk' = seen
            \/ \E c : walk' = [seen EXCEPT !.cross = c]
            \/ ~Ordinary(m) /\ walk' = [seen EXCEPT !.rejected = walk.rejected \cup {m}]
        BY <1>6 DEF Visit, m, Saveable, Ordinary
      <3> HIDE DEF seen
      <3>5. CASE walk' = seen
        BY <3>1, <3>5
      <3>6. CASE \E c : walk' = [seen EXCEPT !.cross = c]
        BY <3>1, <3>2, <3>6
      <3>7. CASE ~Ordinary(m) /\ walk' = [seen EXCEPT !.rejected = walk.rejected \cup {m}]
        <4>1. walk' = [seen EXCEPT !.cross = seen.cross, !.rejected = walk.rejected \cup {m}]
          BY <3>3, <3>7
        <4>2. walk.rejected \cup {m} \subseteq walk.rejected \cup {n \in {m} : ~Ordinary(n)}
          BY <3>7
        <4> QED
          BY <4>1, <4>2
      <3> QED
        BY <3>4, <3>5, <3>6, <3>7
    <2>3. VisitFrame(m) /\ PassedOver(m)
      BY <1>5, <1>6, <2>2
    <2> QED
      BY <1>1, <1>2, <2>3 DEF m
  <1>7. CASE Saveable(m) /\ m \notin walk.visited
    <2> DEFINE graph == walk.graph \cup {m}
               followed == walk.followed \cup (IF walks THEN {m} ELSE {})
               edges == walk.edges \cup {[from |-> m, to |-> l.to, rel |-> l.rel] : l \in ToSet(links)}
               walking == walk.walking \cup {l.to : l \in {x \in ToSet(links) : Propagates(walks, x.rel)}}
    <2>1. walk' = [seen EXCEPT !.graph = graph, !.followed = followed, !.edges = edges,
                               !.walking = walking, !.queue = queue]
      BY <1>7 DEF Visit, m, Saveable, Ordinary
    <2>2. links \in Seq(Link) /\ next \in Seq(Entries) /\ ToSet(next) = {l.to : l \in ToSet(links)}
      <3>1. links \in Seq(Link)
        BY <1>2, LinksType DEF WalkTypeOK
      <3>2. next \in Seq(Entries)
        BY <1>2, NextType DEF WalkTypeOK
      <3> HIDE DEF links
      <3>3. ToSet(next) = {l.to : l \in ToSet(links)}
        BY DEF ToSet
      <3> QED
        BY <3>1, <3>2, <3>3
    <2>3. ToSet(queue) = ToSet(Tail(walk.queue)) \cup (IF walks THEN ToSet(next) ELSE {})
      <3>1. <<>> \in Seq(Entries) /\ ToSet(<<>>) = {}
        BY DEF ToSet
      <3> HIDE DEF next
      <3>2. CASE walks
        <4>1. queue = Tail(walk.queue) \o next
          BY <3>2
        <4> HIDE DEF queue
        <4>2. ToSet(Tail(walk.queue) \o next) = ToSet(Tail(walk.queue)) \cup ToSet(next)
          <5>1. Tail(walk.queue) \in Seq(Entries)
            BY <1>2
          <5>2. next \in Seq(Entries)
            BY <2>2
          <5> QED
            BY <5>1, <5>2, JoinedParts, Zenon
        <4> QED
          BY <3>2, <4>1, <4>2
      <3>3. CASE ~walks
        <4>1. queue = Tail(walk.queue)
          BY <1>2, <3>3
        <4> HIDE DEF queue
        <4> QED
          BY <3>3, <4>1
      <3> QED
        BY <3>2, <3>3
    <2> HIDE DEF graph, followed, edges, walking, queue
    <2>4. /\ walk'.pc = "walk" /\ walk'.kept = walk.kept /\ walk'.excluded = walk.excluded
          /\ walk'.root = walk.root /\ walk'.visited = walk.visited \cup {m} /\ walk'.queue = queue
          /\ walk'.graph = graph /\ walk'.edges = edges
          /\ walk'.followed = followed /\ walk'.walking = walking
          /\ walk'.rejected = walk.rejected
      BY <1>1, <2>1 DEF WalkState
    <2>5. VisitFrame(m)
      BY <1>2, <1>3, <2>3, <2>4 DEF VisitFrame
    <2> HIDE DEF links
    <2>6. /\ walks => \A l \in ToSet(links) : l.to \in ToSet(queue)
          /\ \A n \in ToSet(queue) \ ToSet(walk.queue) : walks /\ \E l \in ToSet(links) : l.to = n
      BY <1>2, <2>2, <2>3
    <2>7. Taken(m)
      BY <1>7, <2>4, <2>6 DEF Taken, graph, followed, edges, walking, links
    <2> QED
      BY <1>1, <1>2, <2>5, <2>7 DEF m
  <1> QED
    BY <1>4, <1>6, <1>7 DEF Visit, m

-----------------------------------------------------------------------------
(* A media is claimed once *)

\* No graph is kept when a scrape begins, or is over.
LEMMA Reset ==
    ASSUME walk'.kept = <<>>, walk'.visited = {}, walk'.rejected = {}, walk'.pc \in {"idle", "root"},
           walk'.pc = "root" => unwanted' \subseteq walk'.excluded
    PROVE  ClaimInv'
  <1>1. \A m : ~InKept(m)'
    BY DEF InKept
  <1>2. KeptSaveable' /\ KeptApart' /\ KeptClosed' /\ RejectedOdd'
    BY <1>1 DEF KeptSaveable, KeptApart, KeptClosed, RejectedOdd
  <1>3. ClaimsInv' /\ GraphInv' /\ JudgedInv'
    BY <1>1 DEF ClaimsInv, GraphInv, JudgedInv
  <1> QED
    BY <1>2, <1>3 DEF ClaimInv

\* What was claimed stays so while the kept graphs do.
LEMMA KeptFrame ==
    ASSUME ClaimInv, mal' = mal, walk'.kept = walk.kept, walk'.excluded = walk.excluded
    PROVE  /\ \A m : InKept(m)' <=> InKept(m)
           /\ \A m : Ordinary(m)' <=> Ordinary(m)
           /\ \A m : Saveable(m)' <=> Saveable(m)
           /\ KeptSaveable' /\ KeptApart' /\ KeptClosed'
  <1>1. \A m : InKept(m)' <=> InKept(m)
    BY DEF InKept
  <1>2. \A m : (Ordinary(m)' <=> Ordinary(m)) /\ (Saveable(m)' <=> Saveable(m))
    BY DEF Saveable, Ordinary
  <1>3. KeptSaveable'
    BY <1>1, <1>2 DEF ClaimInv, KeptSaveable, Entries
  <1>4. KeptApart'
    BY DEF ClaimInv, KeptApart
  <1>5. KeptClosed'
    BY <1>1, <1>2 DEF ClaimInv, KeptClosed
  <1> QED
    BY <1>1, <1>2, <1>3, <1>4, <1>5

LEMMA ClaimVisit ==
    ASSUME WalkTypeOK, ClaimInv, Visit
    PROVE  ClaimInv'
  <1> DEFINE m == Head(walk.queue)
  <1>1. walk.pc = "walk" /\ m \in Entries /\ m \in ToSet(walk.queue)
    BY VisitMoves
  <1>2. VisitFrame(m) /\ (PassedOver(m) \/ Taken(m))
    BY VisitMoves
  <1> HIDE DEF m
  <1>3. /\ \A n : InKept(n)' <=> InKept(n)
        /\ \A n : Ordinary(n)' <=> Ordinary(n)
        /\ \A n : Saveable(n)' <=> Saveable(n)
        /\ KeptSaveable' /\ KeptApart' /\ KeptClosed'
    BY <1>2, KeptFrame DEF VisitFrame
  <1>4. walk'.pc = "walk" /\ walk'.visited = walk.visited \cup {m} /\ unwanted' = unwanted
        /\ walk'.excluded = walk.excluded /\ Entries' = Entries
    BY <1>2 DEF VisitFrame, Entries
  <1>5. RejectedOdd'
    <2>1. \A n \in walk'.rejected : n \in walk.rejected \/ ~Ordinary(n)
      BY <1>2 DEF PassedOver, Taken
    <2> QED
      BY <1>3, <2>1 DEF ClaimInv, RejectedOdd
  <1>6. JudgedInv'
    BY <1>4 DEF JudgedInv
  <1>7. CASE PassedOver(m)
    <2>1. /\ m \in walk.visited \/ ~Saveable(m)
          /\ walk'.graph = walk.graph /\ walk'.edges = walk.edges /\ walk'.followed = walk.followed
      BY <1>7 DEF PassedOver
    <2>2. ClaimsInv'
      BY <1>1, <1>3, <1>4, <2>1 DEF ClaimInv, ClaimsInv
    <2>3. GraphInv'
      <3>1. ToSet(walk.queue) \subseteq ToSet(walk'.queue) \cup {m}
        BY <1>2 DEF VisitFrame
      <3>2. walk'.visited \cup ToSet(walk.queue) \subseteq walk'.visited \cup ToSet(walk'.queue)
        BY <1>4, <3>1
      <3> QED
        BY <1>1, <1>3, <1>4, <2>1, <3>2 DEF ClaimInv, GraphInv
    <2> QED
      BY <1>3, <1>5, <1>6, <2>2, <2>3 DEF ClaimInv
  <1>8. CASE Taken(m)
    <2> DEFINE links == ToSet(LinksOf(m))
               walks == m \in walk.walking
    <2>1. /\ m \notin walk.visited /\ Saveable(m) /\ walk'.graph = walk.graph \cup {m}
          /\ walk'.edges = walk.edges \cup {[from |-> m, to |-> l.to, rel |-> l.rel] : l \in links}
          /\ walk'.followed = walk.followed \cup (IF walks THEN {m} ELSE {})
          /\ walks => \A l \in links : l.to \in ToSet(walk'.queue)
      BY <1>8 DEF Taken
    <2> HIDE DEF links
    <2>2. ~InKept(m) /\ m \notin walk.graph
      BY <1>1, <2>1 DEF ClaimInv, ClaimsInv, GraphInv
    <2>3. ClaimsInv'
      BY <1>1, <1>3, <1>4, <2>1 DEF ClaimInv, ClaimsInv
    <2>4. GraphInv'
      <3>1. \A n \in walk'.graph : n \in walk'.visited /\ Saveable(n)' /\ ~InKept(n)'
        BY <1>1, <1>3, <1>4, <2>1, <2>2 DEF ClaimInv, GraphInv
      <3>2. walk'.followed \subseteq walk'.graph
        BY <1>1, <2>1 DEF ClaimInv, GraphInv
      <3>3. ASSUME NEW e \in walk'.edges
            PROVE  /\ e.from \in walk'.graph
                   /\ e.from \in walk'.followed => e.to \in walk'.visited \cup ToSet(walk'.queue)
        <4>1. CASE e \in walk.edges
          <5>1. e.from \in walk.graph /\ e.from # m
            BY <1>1, <2>2, <4>1 DEF ClaimInv, GraphInv
          <5>2. e.from \in walk'.followed => e.to \in walk.visited \cup ToSet(walk.queue)
            BY <1>1, <2>1, <4>1, <5>1 DEF ClaimInv, GraphInv
          <5>3. ToSet(walk.queue) \subseteq ToSet(walk'.queue) \cup {m}
            BY <1>2 DEF VisitFrame
          <5> QED
            BY <1>4, <2>1, <5>1, <5>2, <5>3
        <4>2. CASE e \notin walk.edges
          <5> PICK l \in links : e = [from |-> m, to |-> l.to, rel |-> l.rel]
            BY <2>1, <4>2
          <5>1. e.from = m /\ e.to = l.to
            OBVIOUS
          <5>2. m \notin walk.followed
            BY <1>1, <2>2 DEF ClaimInv, GraphInv
          <5> QED
            BY <2>1, <5>1, <5>2
        <4> QED
          BY <4>1, <4>2
      <3> QED
        BY <3>1, <3>2, <3>3 DEF GraphInv
    <2> QED
      BY <1>3, <1>5, <1>6, <2>3, <2>4 DEF ClaimInv
  <1> QED
    BY <1>2, <1>7, <1>8

\* What is kept at the end of a graph: what was kept before, and the graph unless it is
\* empty or dropped.  The claims of a dropped one are given back.
LEMMA EndMoves ==
    ASSUME WalkTypeOK, EndGraph
    PROVE  /\ walk.pc = "walk" /\ walk.queue = <<>> /\ walk'.pc = "root"
           /\ mal' = mal /\ unwanted' = unwanted /\ walk'.excluded = walk.excluded
           /\ walk'.rejected = walk.rejected
           /\ \/ walk'.kept = walk.kept /\ walk'.visited \in {walk.visited, walk.visited \ walk.graph}
                 /\ (walk.graph = {} \/ walk'.visited = walk.visited \ walk.graph)
              \/ /\ walk'.kept = Append(walk.kept,
                       [root |-> walk.root, nodes |-> walk.graph, edges |-> walk.edges,
                        cross |-> walk.cross, followed |-> walk.followed])
                 /\ walk'.visited = walk.visited
  <1>1. walk \in WalkState
    BY DEF WalkTypeOK
  <1>2. walk.pc = "walk" /\ walk.queue = <<>> /\ mal' = mal /\ unwanted' = unwanted
    BY DEF EndGraph
  <1> DEFINE graph == [root |-> walk.root, nodes |-> walk.graph, edges |-> walk.edges,
                       cross |-> walk.cross, followed |-> walk.followed]
             dropped == walk.graph # {} /\ WouldBeDropped(EntriesOf(walk.graph), walk.seed # NoSeed, walk.cross)
             visited == walk.visited \ (IF dropped THEN walk.graph ELSE {})
             kept == IF dropped \/ walk.graph = {} THEN walk.kept ELSE Append(walk.kept, graph)
  <1>3. walk' = [walk EXCEPT !.pc = "root", !.visited = visited, !.kept = kept]
    BY Zenon DEF EndGraph
  <1> HIDE DEF visited, kept
  <1>4. /\ walk'.pc = "root" /\ walk'.visited = visited /\ walk'.kept = kept
        /\ walk'.excluded = walk.excluded /\ walk'.rejected = walk.rejected
    BY <1>1, <1>3 DEF WalkState
  <1> HIDE DEF graph, dropped
  <1>5. CASE dropped \/ walk.graph = {}
    <2>1. kept = walk.kept
      BY <1>5 DEF kept
    <2>2. visited = walk.visited \ walk.graph \/ (walk.graph = {} /\ visited = walk.visited)
      BY <1>5 DEF visited
    <2> QED
      BY <1>2, <1>4, <2>1, <2>2
  <1>6. CASE ~(dropped \/ walk.graph = {})
    <2>1. kept = Append(walk.kept, graph)
      BY <1>6 DEF kept
    <2>2. visited = walk.visited
      BY <1>6 DEF visited
    <2> QED
      BY <1>2, <1>4, <2>1, <2>2 DEF graph
  <1> QED
    BY <1>5, <1>6

LEMMA ClaimEnd ==
    ASSUME WalkTypeOK, ClaimInv, EndGraph
    PROVE  ClaimInv'
  <1> DEFINE graph == [root |-> walk.root, nodes |-> walk.graph, edges |-> walk.edges,
                       cross |-> walk.cross, followed |-> walk.followed]
  <1>1. /\ walk.pc = "walk" /\ walk.queue = <<>> /\ walk'.pc = "root"
        /\ mal' = mal /\ unwanted' = unwanted /\ walk'.excluded = walk.excluded
        /\ walk'.rejected = walk.rejected
    BY EndMoves
  <1>2. Entries' = Entries /\ \A n : (Ordinary(n)' <=> Ordinary(n)) /\ (Saveable(n)' <=> Saveable(n))
    BY <1>1 DEF Entries, Ordinary, Saveable
  <1>3. RejectedOdd' /\ GraphInv' /\ JudgedInv'
    BY <1>1, <1>2 DEF ClaimInv, RejectedOdd, GraphInv, JudgedInv
  <1>4. ASSUME walk'.kept = walk.kept, walk'.visited \in {walk.visited, walk.visited \ walk.graph},
               walk.graph = {} \/ walk'.visited = walk.visited \ walk.graph
        PROVE  ClaimInv'
    <2>1. /\ \A m : InKept(m)' <=> InKept(m)
          /\ KeptSaveable' /\ KeptApart' /\ KeptClosed'
      BY <1>1, <1>4, KeptFrame
    <2>2. ClaimsInv'
      BY <1>1, <1>2, <1>4, <2>1 DEF ClaimInv, ClaimsInv, GraphInv
    <2> QED
      BY <1>3, <2>1, <2>2 DEF ClaimInv
  <1>5. ASSUME walk'.kept = Append(walk.kept, graph), walk'.visited = walk.visited
        PROVE  ClaimInv'
    <2>1. walk.kept \in Seq(Graph) /\ walk.graph \subseteq Entries
      BY DEF WalkTypeOK, WalkState
    <2>2. graph.nodes = walk.graph /\ graph.edges = walk.edges /\ graph.followed = walk.followed
      OBVIOUS
    <2> DEFINE n == Len(walk.kept) + 1
    <2> HIDE DEF graph
    <2>3. /\ DOMAIN walk'.kept = DOMAIN walk.kept \cup {n} /\ n \notin DOMAIN walk.kept
          /\ \A i \in DOMAIN walk.kept : walk'.kept[i] = walk.kept[i]
          /\ walk'.kept[n] = graph
      BY <1>5, <2>1
    <2> HIDE DEF n
    <2>4. \A m : InKept(m)' <=> InKept(m) \/ m \in walk.graph
      BY <2>2, <2>3 DEF InKept
    <2>5. \A m \in walk.graph : m \in walk.visited /\ Saveable(m) /\ ~InKept(m)
      BY <1>1 DEF ClaimInv, GraphInv
    <2>6. KeptSaveable'
      BY <1>2, <2>4, <2>5 DEF ClaimInv, KeptSaveable
    <2>7. KeptApart'
      <3>1. \A i \in DOMAIN walk.kept : walk.kept[i].nodes \cap walk.graph = {}
        BY <2>5 DEF InKept
      <3> QED
        BY <2>2, <2>3, <3>1 DEF ClaimInv, KeptApart
    <2>8. KeptClosed'
      <3> SUFFICES ASSUME NEW i \in DOMAIN walk'.kept, NEW e \in walk'.kept[i].edges,
                          e.from \in walk'.kept[i].followed, Saveable(e.to)'
                   PROVE  InKept(e.to)'
        BY Zenon DEF KeptClosed
      <3>1. CASE i \in DOMAIN walk.kept
        <4>1. InKept(e.to)
          BY <1>2, <2>3, <3>1 DEF ClaimInv, KeptClosed
        <4> QED
          BY <2>4, <4>1
      <3>2. CASE i = n
        <4>1. e \in walk.edges /\ e.from \in walk.followed
          BY <2>2, <2>3, <3>2
        <4>2. e.to \in walk.visited
          BY <1>1, <4>1 DEF ClaimInv, GraphInv, ToSet
        <4>3. InKept(e.to) \/ e.to \in walk.graph
          BY <1>1, <1>2, <4>2 DEF ClaimInv, ClaimsInv
        <4> QED
          BY <2>4, <4>3
      <3> QED
        BY <2>3, <3>1, <3>2
    <2>9. ClaimsInv'
      BY <1>1, <1>2, <1>5, <2>4, <2>5 DEF ClaimInv, ClaimsInv
    <2> QED
      BY <1>3, <2>6, <2>7, <2>8, <2>9 DEF ClaimInv
  <1> QED
    BY <1>4, <1>5, EndMoves, Zenon

LEMMA ClaimStep == WalkTypeOK /\ ClaimInv /\ [Next]_vars => ClaimInv'
  <1> SUFFICES ASSUME WalkTypeOK, ClaimInv, [Next]_vars PROVE ClaimInv'
    OBVIOUS
  <1>0. walk \in WalkState
    BY DEF WalkTypeOK
  <1>01. /\ Idle.pc = "idle" /\ Idle.kept = <<>> /\ Idle.visited = {} /\ Idle.rejected = {}
    BY DEF Idle
  <1>02. walk' = Idle => ClaimInv'
    BY <1>01, Reset
  <1>1. ASSUME NEW s \in Searches, Begin(s) PROVE ClaimInv'
    <2> DEFINE excluded == (DOMAIN home \cup unwanted) \ {s.seed}
    <2>1. PICK results : walk' = [Idle EXCEPT !.pc = "root", !.hits = s.hits, !.seed = s.seed,
                        !.excluded = excluded, !.stripped = unwanted, !.results = results]
      BY <1>1 DEF Begin
    <2>2. unwanted' \subseteq excluded
      BY <1>1 DEF Begin
    <2> HIDE DEF excluded
    <2>3. /\ walk'.pc = "root" /\ walk'.kept = <<>> /\ walk'.visited = {} /\ walk'.rejected = {}
          /\ walk'.excluded = excluded
      BY <2>1 DEF Idle
    <2> QED
      BY <2>2, <2>3, Reset
  <1>2. CASE NextRoot
    <2>1. /\ walk.pc = "root" /\ walk'.pc = "walk" /\ walk'.kept = walk.kept
          /\ walk'.excluded = walk.excluded /\ walk'.visited = walk.visited
          /\ walk'.rejected = walk.rejected
          /\ walk'.graph = {} /\ walk'.edges = {} /\ walk'.followed = {}
      BY <1>0, <1>2 DEF NextRoot, WalkState
    <2>2. mal' = mal /\ unwanted' = unwanted
      BY <1>2 DEF NextRoot
    <2>3. /\ \A n : InKept(n)' <=> InKept(n)
          /\ \A n : Ordinary(n)' <=> Ordinary(n)
          /\ \A n : Saveable(n)' <=> Saveable(n)
          /\ KeptSaveable' /\ KeptApart' /\ KeptClosed'
      BY <2>1, <2>2, KeptFrame
    <2>4. RejectedOdd' /\ GraphInv' /\ JudgedInv'
      BY <2>1, <2>3 DEF ClaimInv, RejectedOdd, GraphInv, JudgedInv
    <2>5. ClaimsInv'
      BY <2>1, <2>2, <2>3 DEF ClaimInv, ClaimsInv, Entries
    <2> QED
      BY <2>3, <2>4, <2>5 DEF ClaimInv
  <1>3. CASE Visit
    BY <1>3, ClaimVisit
  <1>4. CASE EndGraph
    BY <1>4, ClaimEnd
  <1>5. CASE Judge
    <2>0. walk.pc = "root" /\ mal' = mal /\ unwanted' = unwanted \cup walk.rejected
      BY <1>5 DEF Judge
    <2>1. /\ walk'.pc = "save" /\ walk'.kept = walk.kept
          /\ walk'.excluded = walk.excluded /\ walk'.rejected = walk.rejected
      BY <1>0, <1>5 DEF Judge, WalkState
    <2>3. /\ \A n : InKept(n)' <=> InKept(n)
          /\ \A n : Ordinary(n)' <=> Ordinary(n)
          /\ KeptSaveable' /\ KeptApart' /\ KeptClosed'
      BY <2>0, <2>1, KeptFrame
    <2>4. RejectedOdd' /\ GraphInv' /\ ClaimsInv'
      BY <2>1, <2>3 DEF ClaimInv, RejectedOdd, GraphInv, ClaimsInv
    <2>5. JudgedInv'
      <3>1. ASSUME NEW m, InKept(m) PROVE m \notin unwanted'
        <4>1. m \in Entries
          BY <3>1, KeptType DEF InKept
        <4>2. Ordinary(m) /\ m \notin walk.excluded
          BY <3>1, <4>1 DEF ClaimInv, KeptSaveable, Saveable
        <4> QED
          BY <2>0, <4>2 DEF ClaimInv, RejectedOdd, ClaimsInv
      <3> QED
        BY <2>3, <3>1 DEF JudgedInv
    <2> QED
      BY <2>3, <2>4, <2>5 DEF ClaimInv
  <1>6. ASSUME walk' = [walk EXCEPT !.pc = "attach"] \/ walk' = [walk EXCEPT !.pc = "done"],
               walk.pc \in {"save", "attach"}, mal' = mal, unwanted' = unwanted
        PROVE  ClaimInv'
    <2>1. /\ walk'.pc \in {"attach", "done"} /\ walk'.kept = walk.kept
          /\ walk'.excluded = walk.excluded /\ walk'.rejected = walk.rejected
      BY <1>0, <1>6 DEF WalkState
    <2>3. /\ \A n : InKept(n)' <=> InKept(n)
          /\ \A n : Ordinary(n)' <=> Ordinary(n)
          /\ KeptSaveable' /\ KeptApart' /\ KeptClosed'
      BY <1>6, <2>1, KeptFrame
    <2> QED
      BY <1>6, <2>1, <2>3 DEF ClaimInv, RejectedOdd, GraphInv, ClaimsInv, JudgedInv
  <1>7. CASE Save
    <2>1. walk.pc = "save" /\ (walk' = [walk EXCEPT !.pc = "attach"] \/ walk' = Idle)
      BY <1>7, Zenon DEF Save
    <2>2. mal' = mal /\ unwanted' = unwanted
      BY <1>7 DEF Save
    <2> QED
      BY <1>02, <1>6, <2>1, <2>2
  <1>8. CASE Attach
    <2>1. walk.pc = "attach" /\ (walk' = [walk EXCEPT !.pc = "done"] \/ walk' = Idle)
      BY <1>8, Zenon DEF Attach
    <2>2. mal' = mal /\ unwanted' = unwanted
      BY <1>8 DEF Attach
    <2> QED
      BY <1>02, <1>6, <2>1, <2>2
  <1>9. CASE Fail \/ Finish
    BY <1>02, <1>9 DEF Fail, Finish
  <1>10. CASE UNCHANGED vars
    <2>1. /\ walk'.kept = walk.kept /\ walk'.excluded = walk.excluded /\ mal' = mal
          /\ unwanted' = unwanted /\ walk' = walk /\ Entries' = Entries
      BY <1>10 DEF vars, Entries
    <2>3. /\ \A n : InKept(n)' <=> InKept(n)
          /\ \A n : Ordinary(n)' <=> Ordinary(n)
          /\ \A n : Saveable(n)' <=> Saveable(n)
          /\ KeptSaveable' /\ KeptApart' /\ KeptClosed'
      BY <2>1, KeptFrame
    <2> QED
      BY <2>1, <2>3 DEF ClaimInv, RejectedOdd, GraphInv, ClaimsInv, JudgedInv
  <1> QED
    BY <1>1, <1>2, <1>3, <1>4, <1>5, <1>7, <1>8, <1>9, <1>10 DEF Next

LEMMA WalkInvariant == Spec => [](WalkTypeOK /\ ClaimInv)
  <1>1. Init => WalkTypeOK /\ ClaimInv
    <2> SUFFICES ASSUME Init PROVE WalkTypeOK /\ ClaimInv
      OBVIOUS
    <2>1. WalkTypeOK
      BY WalkAssumption, IdleType DEF Init, WalkTypeOK, Idle
    <2>2. walk.pc = "idle" /\ walk.kept = <<>> /\ walk.rejected = {}
      BY DEF Init, Idle
    <2>3. \A m : ~InKept(m)
      BY <2>2 DEF InKept
    <2> QED
      BY <2>1, <2>2, <2>3 DEF ClaimInv, KeptSaveable, KeptApart, KeptClosed, RejectedOdd, ClaimsInv,
         GraphInv, JudgedInv
  <1> QED
    BY <1>1, TypeStep, ClaimStep, PTL DEF Spec

\* Two graphs never hold one media, none that is saved is in the catalogue or blacklisted,
\* and no media that a kept graph's followed pages name is lost, whatever was dropped
\* before (search_title's visited_ids and its rollback).
THEOREM MediaClaimedOnce == Spec => []OneGraphPerMedia
  <1>1. WalkTypeOK /\ ClaimInv => OneGraphPerMedia
    <2> SUFFICES ASSUME WalkTypeOK, ClaimInv PROVE OneGraphPerMedia
      OBVIOUS
    <2>1. \A i, j \in DOMAIN walk.kept : i # j => walk.kept[i].nodes \cap walk.kept[j].nodes = {}
      BY DEF ClaimInv, KeptApart
    <2>2. ASSUME walk.pc \in {"save", "attach"}, NEW i \in walk.saves
          PROVE  walk.kept[i].nodes \cap (walk.excluded \cup unwanted) = {}
      <3>1. i \in DOMAIN walk.kept
        BY <2>2 DEF WalkTypeOK
      <3>2. walk.kept[i].nodes \subseteq Entries /\ \A m \in walk.kept[i].nodes : InKept(m)
        BY <3>1, KeptType DEF InKept
      <3> QED
        BY <2>2, <3>2 DEF ClaimInv, KeptSaveable, Saveable, JudgedInv
    <2>3. ASSUME NEW g \in ToSet(walk.kept), NEW e \in g.edges, e.from \in g.followed,
                 e.to \notin walk.excluded, mal[e.to].fate = "ordinary"
          PROVE  \E h \in ToSet(walk.kept) : e.to \in h.nodes
      <3> PICK i \in DOMAIN walk.kept : g = walk.kept[i]
        BY DEF ToSet
      <3>1. InKept(e.to)
        BY <2>3 DEF ClaimInv, KeptClosed, Saveable, Ordinary
      <3> QED
        BY <3>1 DEF InKept, ToSet
    <2> QED
      BY <2>1, <2>2, <2>3 DEF OneGraphPerMedia
  <1> QED
    BY <1>1, WalkInvariant, PTL

-----------------------------------------------------------------------------
(* No graph bridges two franchises *)

\* A graph with these parts stays within its root's franchise.
Bounded(g) ==
    /\ g.followed \subseteq Closure(g.nodes, IdentityTies(g), {g.root}, {})
    /\ \A m \in g.nodes \ g.followed : \E e \in g.edges : e.from \in g.followed /\ e.to = m

LEMMA ReachVisit ==
    ASSUME WalkTypeOK, ClaimInv, ReachInv, Visit
    PROVE  ReachInv'
  <1> DEFINE m == Head(walk.queue)
  <1>1. walk.pc = "walk" /\ m \in Entries /\ m \in ToSet(walk.queue)
    BY VisitMoves
  <1>2. VisitFrame(m) /\ (PassedOver(m) \/ Taken(m))
    BY VisitMoves
  <1> HIDE DEF m
  <1>3. walk'.root = walk.root /\ Entries' = Entries
    BY <1>2 DEF VisitFrame, Entries
  <1>4. CASE PassedOver(m)
    <2>1. /\ walk'.graph = walk.graph /\ walk'.edges = walk.edges /\ walk'.followed = walk.followed
          /\ walk'.walking = walk.walking /\ ToSet(walk'.queue) \subseteq ToSet(walk.queue)
      BY <1>4 DEF PassedOver
    <2>2. \A n : LedTo(n)' <=> LedTo(n)
      BY <2>1 DEF LedTo
    <2>3. \A S : IdentityClosed(S)' <=> IdentityClosed(S)
      BY <1>3, <2>1 DEF IdentityClosed
    <2> QED
      BY <1>1, <1>3, <2>1, <2>2, <2>3 DEF ReachInv
  <1>5. CASE Taken(m)
    <2> DEFINE links == ToSet(LinksOf(m))
               walks == m \in walk.walking
               added == {[from |-> m, to |-> l.to, rel |-> l.rel] : l \in links}
    <2>1. /\ walk'.graph = walk.graph \cup {m}
          /\ walk'.edges = walk.edges \cup added
          /\ walk'.followed = walk.followed \cup (IF walks THEN {m} ELSE {})
          /\ walk'.walking = walk.walking \cup {l.to : l \in {x \in links : Propagates(walks, x.rel)}}
          /\ \A n \in ToSet(walk'.queue) \ ToSet(walk.queue) : walks /\ \E l \in links : l.to = n
      BY <1>5 DEF Taken
    <2> HIDE DEF links
    <2>2. \A l \in links : \E e \in walk'.edges : e.from = m /\ e.to = l.to /\ e.rel = l.rel
      <3> SUFFICES ASSUME NEW l \in links
                   PROVE  \E e \in walk'.edges : e.from = m /\ e.to = l.to /\ e.rel = l.rel
        OBVIOUS
      <3> DEFINE e == [from |-> m, to |-> l.to, rel |-> l.rel]
      <3>1. e \in walk'.edges /\ e.from = m /\ e.to = l.to /\ e.rel = l.rel
        BY <2>1
      <3> HIDE DEF e
      <3> QED
        BY <3>1
    <2> HIDE DEF added
    <2>3. \A n : LedTo(n) => LedTo(n)'
      BY <2>1 DEF LedTo
    <2>4. \A l \in links : walks => LedTo(l.to)'
      BY <2>1, <2>2 DEF LedTo
    <2>5. ASSUME NEW S \in SUBSET Entries, IdentityClosed(S)' PROVE walk'.walking \subseteq S
      <3>1. IdentityClosed(S)
        BY <1>3, <2>1, <2>5 DEF IdentityClosed
      <3>2. walk.walking \subseteq S
        BY <1>1, <3>1 DEF ReachInv
      <3>3. ASSUME NEW l \in links, Propagates(walks, l.rel) PROVE l.to \in S
        <4>1. m \in S /\ l.rel \in IdentityRels
          BY <3>2, <3>3 DEF Propagates
        <4> QED
          BY <2>2, <2>5, <4>1 DEF IdentityClosed
      <3> QED
        BY <2>1, <3>2, <3>3
    <2>6. walk'.root \in walk'.walking /\ walk'.followed \subseteq walk'.walking
      BY <1>1, <1>3, <2>1 DEF ReachInv
    <2>7. \A n \in ToSet(walk'.queue) : n = walk'.root \/ LedTo(n)'
      BY <1>1, <1>3, <2>1, <2>3, <2>4 DEF ReachInv
    <2>8. ASSUME NEW n \in walk'.graph \ walk'.followed PROVE LedTo(n)'
      <3>1. CASE n = m
        <4>1. ~walks
          BY <2>1, <2>8, <3>1
        <4>2. m # walk.root
          BY <1>1, <4>1 DEF ReachInv
        <4> QED
          BY <1>1, <2>3, <3>1, <4>2 DEF ReachInv
      <3>2. CASE n # m
        <4>1. n \in walk.graph \ walk.followed
          BY <2>1, <2>8, <3>2
        <4> QED
          BY <1>1, <2>3, <4>1 DEF ReachInv
      <3> QED
        BY <3>1, <3>2
    <2> QED
      BY <1>3, <2>5, <2>6, <2>7, <2>8 DEF ReachInv
  <1> QED
    BY <1>2, <1>4, <1>5

\* What is followed lies in every set of the graph's media that holds the root and is
\* closed under identity-preserving relations: add to the set all that is not in the graph.
LEMMA GraphBounded ==
    ASSUME WalkTypeOK, ClaimInv, ReachInv, walk.pc = "walk", NEW g,
           g = [root |-> walk.root, nodes |-> walk.graph, edges |-> walk.edges,
                cross |-> walk.cross, followed |-> walk.followed]
    PROVE  Bounded(g)
  <1>1. /\ g.root = walk.root /\ g.nodes = walk.graph /\ g.edges = walk.edges
        /\ g.followed = walk.followed
    OBVIOUS
  <1>2. walk.root \in Entries /\ walk.graph \subseteq Entries /\ walk.edges \subseteq Edge
    BY DEF WalkTypeOK, WalkState
  <1>3. /\ walk.followed \subseteq walk.graph
        /\ \A e \in walk.edges : e.from \in walk.graph
    BY DEF ClaimInv, GraphInv
  <1>4. /\ walk.followed \subseteq walk.walking
        /\ \A S \in SUBSET Entries : IdentityClosed(S) => walk.walking \subseteq S
        /\ \A m \in walk.graph \ walk.followed : LedTo(m)
    BY DEF ReachInv
  <1>5. ASSUME NEW S \in SUBSET g.nodes, {g.root} \subseteq S,
               \A p \in IdentityTies(g) : p[1] \in S => p[2] \in S \cup {}
        PROVE  g.followed \subseteq S
    <2> DEFINE T == S \cup (Entries \ walk.graph)
    <2>1. T \in SUBSET Entries /\ walk.root \in T
      BY <1>1, <1>2, <1>5
    <2>2. ASSUME NEW e \in walk.edges, e.rel \in IdentityRels, e.from \in T PROVE e.to \in T
      <3>1. e.from \in S
        BY <1>3, <2>2
      <3>2. CASE e.to \in walk.graph
        <4>1. <<e.from, e.to>> \in IdentityTies(g)
          BY <1>1, <2>2, <3>2 DEF IdentityTies
        <4>2. <<e.from, e.to>>[1] = e.from /\ <<e.from, e.to>>[2] = e.to
          OBVIOUS
        <4> QED
          BY <1>5, <3>1, <4>1, <4>2
      <3>3. CASE e.to \notin walk.graph
        <4>1. e.to \in Entries
          BY <1>2, <2>2 DEF Edge
        <4> QED
          BY <3>3, <4>1
      <3> QED
        BY <3>2, <3>3
    <2>3. IdentityClosed(T)
      BY <2>1, <2>2 DEF IdentityClosed
    <2>4. walk.followed \subseteq T
      BY <1>4, <2>1, <2>3
    <2> QED
      BY <1>1, <1>3, <2>4
  <1>6. g.followed \subseteq Closure(g.nodes, IdentityTies(g), {g.root}, {})
    BY <1>1, <1>3, <1>5 DEF Closure
  <1> QED
    BY <1>1, <1>4, <1>6 DEF Bounded, LedTo

LEMMA ReachStep ==
    WalkTypeOK /\ ClaimInv /\ ReachInv /\ GraphsBounded /\ [Next]_vars => ReachInv' /\ GraphsBounded'
  <1> SUFFICES ASSUME WalkTypeOK, ClaimInv, ReachInv, GraphsBounded, [Next]_vars
               PROVE  ReachInv' /\ GraphsBounded'
    OBVIOUS
  <1>0. walk \in WalkState
    BY DEF WalkTypeOK
  <1>01. GraphsBounded <=> \A i \in DOMAIN walk.kept : Bounded(walk.kept[i])
    BY DEF GraphsBounded, Bounded
  <1>02. GraphsBounded' <=> \A i \in DOMAIN walk'.kept : Bounded(walk'.kept[i])
    BY DEF GraphsBounded, Bounded, IdentityTies, Closure
  <1>03. walk'.kept \in {<<>>, walk.kept} => GraphsBounded'
    BY <1>01, <1>02
  <1>04. walk'.pc # "walk" => ReachInv'
    BY DEF ReachInv
  <1>05. walk' = Idle => ReachInv' /\ GraphsBounded'
    BY <1>03, <1>04 DEF Idle
  <1>1. ASSUME NEW s \in Searches, Begin(s) PROVE ReachInv' /\ GraphsBounded'
    <2> DEFINE excluded == (DOMAIN home \cup unwanted) \ {s.seed}
    <2>1. PICK results : walk' = [Idle EXCEPT !.pc = "root", !.hits = s.hits, !.seed = s.seed,
                        !.excluded = excluded, !.stripped = unwanted, !.results = results]
      BY <1>1 DEF Begin
    <2> HIDE DEF excluded
    <2>2. walk'.pc = "root" /\ walk'.kept = <<>>
      BY <2>1 DEF Idle
    <2> QED
      BY <1>03, <1>04, <2>2
  <1>2. CASE NextRoot
    <2> DEFINE root == Head(walk.results)
    <2>1. /\ walk'.pc = "walk" /\ walk'.kept = walk.kept /\ walk'.root = root
          /\ walk'.queue = <<root>> /\ walk'.walking = {root}
          /\ walk'.graph = {} /\ walk'.followed = {}
      BY <1>0, <1>2 DEF NextRoot, WalkState
    <2> HIDE DEF root
    <2>2. ToSet(<<root>>) = {root}
      BY DEF ToSet
    <2>3. \A S : IdentityClosed(S)' => root \in S
      BY <2>1 DEF IdentityClosed
    <2>4. ReachInv'
      BY <2>1, <2>2, <2>3 DEF ReachInv
    <2> QED
      BY <1>03, <2>1, <2>4
  <1>3. CASE Visit
    <2>1. walk'.kept = walk.kept
      BY <1>3, VisitMoves DEF VisitFrame
    <2> QED
      BY <1>03, <1>3, <2>1, ReachVisit
  <1>4. CASE EndGraph
    <2> DEFINE graph == [root |-> walk.root, nodes |-> walk.graph, edges |-> walk.edges,
                         cross |-> walk.cross, followed |-> walk.followed]
    <2>1. walk.pc = "walk" /\ walk'.pc = "root"
          /\ (walk'.kept = walk.kept \/ walk'.kept = Append(walk.kept, graph))
      BY <1>4, EndMoves
    <2>2. Bounded(graph)
      BY <2>1, GraphBounded, Zenon
    <2> HIDE DEF graph
    <2>3. CASE walk'.kept = Append(walk.kept, graph)
      <3>1. walk.kept \in Seq(Graph)
        BY <1>0 DEF WalkState
      <3>2. /\ DOMAIN walk'.kept = DOMAIN walk.kept \cup {Len(walk.kept) + 1}
            /\ \A i \in DOMAIN walk.kept : walk'.kept[i] = walk.kept[i]
            /\ walk'.kept[Len(walk.kept) + 1] = graph
        BY <2>3, <3>1
      <3> QED
        BY <1>01, <1>02, <1>04, <2>1, <2>2, <3>2
    <2> QED
      BY <1>03, <1>04, <2>1, <2>3
  <1>5. CASE Judge
    <2>1. walk'.pc = "save" /\ walk'.kept = walk.kept
      BY <1>0, <1>5 DEF Judge, WalkState
    <2> QED
      BY <1>03, <1>04, <2>1
  <1>6. ASSUME walk' = [walk EXCEPT !.pc = "attach"] \/ walk' = [walk EXCEPT !.pc = "done"]
        PROVE  ReachInv' /\ GraphsBounded'
    <2>1. walk'.pc # "walk" /\ walk'.kept = walk.kept
      BY <1>0, <1>6 DEF WalkState
    <2> QED
      BY <1>03, <1>04, <2>1
  <1>7. CASE Save
    <2>1. walk' = [walk EXCEPT !.pc = "attach"] \/ walk' = Idle
      BY <1>7, Zenon DEF Save
    <2> QED
      BY <1>05, <1>6, <2>1
  <1>8. CASE Attach
    <2>1. walk' = [walk EXCEPT !.pc = "done"] \/ walk' = Idle
      BY <1>8, Zenon DEF Attach
    <2> QED
      BY <1>05, <1>6, <2>1
  <1>9. CASE Fail \/ Finish
    BY <1>05, <1>9 DEF Fail, Finish
  <1>10. CASE UNCHANGED vars
    <2>1. walk' = walk /\ Entries' = Entries
      BY <1>10 DEF vars, Entries
    <2>2. \A n : LedTo(n)' <=> LedTo(n)
      BY <2>1 DEF LedTo
    <2>3. \A S : IdentityClosed(S)' <=> IdentityClosed(S)
      BY <2>1 DEF IdentityClosed
    <2> QED
      BY <1>03, <2>1, <2>2, <2>3 DEF ReachInv
  <1> QED
    BY <1>1, <1>2, <1>3, <1>4, <1>5, <1>7, <1>8, <1>9, <1>10 DEF Next

\* Relations are followed from the root and from what identity-preserving relations lead to
\* only, on every graph MAL may hold (search_title's expand status).
THEOREM NoBridges == Spec => []GraphsBounded
  <1>1. Init => ReachInv /\ GraphsBounded
    <2>1. Init => walk.pc = "idle" /\ walk.kept = <<>>
      BY DEF Init, Idle
    <2> QED
      BY <2>1 DEF ReachInv, GraphsBounded
  <1> QED
    BY <1>1, WalkInvariant, ReachStep, PTL DEF Spec

-----------------------------------------------------------------------------
(* What a save can break on *)

\* The catalogue that was read: but for the seed, what it holds is excluded until the save.
CatalogueInv ==
    walk.pc \in {"root", "walk", "save"} => DOMAIN home \subseteq walk.excluded \cup {walk.seed}

LEMMA CatalogueStep == WalkTypeOK /\ CatalogueInv /\ [Next]_vars => CatalogueInv'
  <1> SUFFICES ASSUME WalkTypeOK, CatalogueInv, [Next]_vars PROVE CatalogueInv'
    OBVIOUS
  <1>0. walk \in WalkState
    BY DEF WalkTypeOK
  <1>01. walk' = Idle => CatalogueInv'
    BY DEF CatalogueInv, Idle
  <1>1. ASSUME NEW s \in Searches, Begin(s) PROVE CatalogueInv'
    <2>1. PICK results : walk' = [Idle EXCEPT !.pc = "root", !.hits = s.hits, !.seed = s.seed,
                        !.excluded = (DOMAIN home \cup unwanted) \ {s.seed}, !.stripped = unwanted,
                        !.results = results]
      BY <1>1 DEF Begin
    <2>2. walk'.excluded = (DOMAIN home \cup unwanted) \ {s.seed} /\ walk'.seed = s.seed
      BY <2>1 DEF Idle
    <2>3. home' = home
      BY <1>1 DEF Begin
    <2> QED
      BY <2>2, <2>3 DEF CatalogueInv
  <1>2. ASSUME home' = home, walk'.excluded = walk.excluded, walk'.seed = walk.seed,
               walk.pc \in {"root", "walk", "save"}
        PROVE  CatalogueInv'
    BY <1>2 DEF CatalogueInv
  <1>3. CASE NextRoot \/ Judge
    <2>1. /\ home' = home /\ walk'.excluded = walk.excluded /\ walk'.seed = walk.seed
          /\ walk.pc \in {"root", "walk", "save"}
      BY <1>0, <1>3 DEF NextRoot, Judge, WalkState
    <2> QED
      BY <1>2, <2>1
  <1>4. CASE Visit
    <2>1. walk.pc = "walk" /\ walk'.excluded = walk.excluded
      BY <1>4, VisitMoves DEF VisitFrame
    <2>2. home' = home /\ walk'.seed = walk.seed
      BY <1>0, <1>4 DEF Visit, WalkState
    <2> QED
      BY <1>2, <2>1, <2>2
  <1>5. CASE EndGraph
    <2>1. walk.pc = "walk" /\ walk'.excluded = walk.excluded
      BY <1>5, EndMoves
    <2>2. home' = home /\ walk'.seed = walk.seed
      BY <1>0, <1>5 DEF EndGraph, WalkState
    <2> QED
      BY <1>2, <2>1, <2>2
  <1>6. CASE Save \/ Attach
    <2>1. \/ walk' = [walk EXCEPT !.pc = "attach"] \/ walk' = [walk EXCEPT !.pc = "done"]
          \/ walk' = Idle
      BY <1>6, Zenon DEF Save, Attach
    <2>2. walk' = Idle \/ walk'.pc \in {"attach", "done"}
      BY <1>0, <2>1 DEF WalkState
    <2> QED
      BY <1>01, <2>2 DEF CatalogueInv
  <1>7. CASE Fail \/ Finish
    BY <1>01, <1>7 DEF Fail, Finish
  <1>8. CASE UNCHANGED vars
    BY <1>8 DEF vars, CatalogueInv
  <1> QED
    BY <1>1, <1>3, <1>4, <1>5, <1>6, <1>7, <1>8 DEF Next

\* What is about to be saved is in the catalogue only where the seed is: no other media can
\* break the unique mal_id, and the scrape with it (save_search_results).
THEOREM OnlySeedBreaksSave ==
    Spec => [](walk.pc = "save" =>
                 \A i \in walk.saves : walk.kept[i].nodes \cap DOMAIN home \subseteq {walk.seed})
  <1> DEFINE Clashes ==
        walk.pc = "save" =>
            \A i \in walk.saves : walk.kept[i].nodes \cap DOMAIN home \subseteq {walk.seed}
  <1>1. Init => CatalogueInv
    BY DEF Init, CatalogueInv, Idle
  <1>2. OneGraphPerMedia /\ CatalogueInv => Clashes
    BY DEF OneGraphPerMedia, CatalogueInv
  <1> QED
    BY <1>1, <1>2, WalkTypeCorrect, MediaClaimedOnce, CatalogueStep, PTL DEF Spec

-----------------------------------------------------------------------------
(* The order of the anchors *)

\* What the anchors are ordered by, next to their types and ids.
Dated(n) == n.aired_from \in Int /\ n.scored_by \in Int

\* A graph as the classifier is given it.
IsGraph(nodes) ==
    /\ IsFiniteSet(DOMAIN nodes) /\ DOMAIN nodes \subseteq Int /\ DOMAIN nodes # {}
    /\ \A m \in DOMAIN nodes : Dated(nodes[m])

LEMMA TierType == \A type : AnchorTier(type) \in 1 .. 4
  BY DEF AnchorTier

\* _anchor_sort_key orders the media of a graph totally.
LEMMA AheadOrders ==
    ASSUME NEW nodes, IsGraph(nodes), NEW a \in DOMAIN nodes, NEW b \in DOMAIN nodes,
           NEW c \in DOMAIN nodes
    PROVE  /\ a # b => Ahead(nodes, a, b) \/ Ahead(nodes, b, a)
           /\ ~(Ahead(nodes, a, b) /\ Ahead(nodes, b, a))
           /\ Ahead(nodes, a, b) /\ Ahead(nodes, b, c) => Ahead(nodes, a, c)
  <1> DEFINE T(m) == AnchorTier(nodes[m].media_type)
  <1>1. a \in Int /\ b \in Int /\ c \in Int
    BY DEF IsGraph
  <1>2. \A m \in DOMAIN nodes : nodes[m].aired_from \in Int /\ nodes[m].scored_by \in Int
    BY DEF IsGraph, Dated
  <1>3. \A m \in DOMAIN nodes : T(m) \in Int
    BY TierType
  <1>4. \A m, n : Ahead(nodes, m, n) <=>
          \/ T(m) < T(n)
          \/ /\ T(m) = T(n)
             /\ nodes[m].aired_from # -1
             /\ nodes[n].aired_from = -1 \/ nodes[m].aired_from < nodes[n].aired_from
          \/ T(m) = T(n) /\ nodes[m].aired_from = nodes[n].aired_from
             /\ nodes[m].scored_by > nodes[n].scored_by
          \/ T(m) = T(n) /\ nodes[m].aired_from = nodes[n].aired_from
             /\ nodes[m].scored_by = nodes[n].scored_by /\ m < n
    BY DEF Ahead, None
  <1> HIDE DEF T
  <1> QED
    BY <1>1, <1>2, <1>3, <1>4

\* Some media of any of them comes first: the one that the fewest are ahead of.
LEMMA FirstExists ==
    ASSUME NEW nodes, IsGraph(nodes), NEW C, C \subseteq DOMAIN nodes, C # {}
    PROVE  \E a \in C : \A b \in C \ {a} : Ahead(nodes, a, b)
  <1> DEFINE before(a) == {b \in C : Ahead(nodes, b, a)}
             sizes == {Cardinality(before(a)) : a \in C}
  <1>1. IsFiniteSet(C)
    BY FS_Subset DEF IsGraph
  <1>2. \A a \in C : before(a) \subseteq C /\ IsFiniteSet(before(a)) /\ Cardinality(before(a)) \in Nat
    <2> SUFFICES ASSUME NEW a \in C
                 PROVE  before(a) \subseteq C /\ IsFiniteSet(before(a)) /\ Cardinality(before(a)) \in Nat
      OBVIOUS
    <2>1. before(a) \in SUBSET C
      OBVIOUS
    <2> HIDE DEF before
    <2> QED
      BY <1>1, <2>1, FS_Subset, FS_CardinalityType
  <1>3. sizes \subseteq Nat /\ sizes # {}
    BY <1>2
  <1>4. PICK d \in sizes : \A e \in sizes : ~ (<<e, d>> \in OpToRel(<, Nat))
    BY <1>3, NatLessThanWellFounded, WFMin
  <1>5. PICK a \in C : d = Cardinality(before(a))
    OBVIOUS
  <1>6. before(a) = {}
    <2> SUFFICES ASSUME before(a) # {} PROVE FALSE
      OBVIOUS
    <2>1. PICK b \in before(a) : TRUE
      OBVIOUS
    <2>2. b \in C /\ Ahead(nodes, b, a)
      OBVIOUS
    <2>3. \A x \in before(b) : x \in before(a) /\ x # b
      <3> TAKE x \in before(b)
      <3>1. x \in C /\ Ahead(nodes, x, b)
        OBVIOUS
      <3>2. Ahead(nodes, x, a)
        BY <2>2, <3>1, AheadOrders
      <3>3. x # b
        BY <2>2, <3>1, AheadOrders
      <3> QED
        BY <3>1, <3>2, <3>3
    <2> HIDE DEF before
    <2>4. before(b) \subseteq before(a) \ {b}
      BY <2>3
    <2>5. IsFiniteSet(before(a) \ {b}) /\ Cardinality(before(a) \ {b}) = Cardinality(before(a)) - 1
      BY <1>2, <2>1, FS_RemoveElement
    <2>6. Cardinality(before(b)) <= Cardinality(before(a)) - 1
      BY <2>4, <2>5, FS_Subset
    <2>7. Cardinality(before(b)) \in sizes /\ Cardinality(before(b)) \in Nat
          /\ Cardinality(before(a)) \in Nat
      BY <1>2, <2>2
    <2>8. ~ (Cardinality(before(b)) < d)
      BY <1>3, <1>4, <2>7 DEF OpToRel
    <2> QED
      BY <1>5, <2>6, <2>7, <2>8
  <1>7. \A b \in C \ {a} : Ahead(nodes, a, b)
    BY <1>6, AheadOrders
  <1> QED
    BY <1>7

\* The anchor is a media of the graph, ahead of every other candidate; nothing else is.
LEMMA AnchorFirst ==
    ASSUME NEW nodes, IsGraph(nodes)
    PROVE  /\ PickAnchor(nodes) \in Candidates(nodes) /\ PickAnchor(nodes) \in DOMAIN nodes
           /\ \A b \in Candidates(nodes) \ {PickAnchor(nodes)} : Ahead(nodes, PickAnchor(nodes), b)
           /\ \A a \in Candidates(nodes) :
                 (\A b \in Candidates(nodes) \ {a} : Ahead(nodes, a, b)) => a = PickAnchor(nodes)
  <1>1. Candidates(nodes) \subseteq DOMAIN nodes /\ Candidates(nodes) # {}
    BY DEF Candidates, Eligible, IsGraph
  <1>2. \E a \in Candidates(nodes) : \A b \in Candidates(nodes) \ {a} : Ahead(nodes, a, b)
    BY <1>1, FirstExists
  <1>3. /\ PickAnchor(nodes) \in Candidates(nodes)
        /\ \A b \in Candidates(nodes) \ {PickAnchor(nodes)} : Ahead(nodes, PickAnchor(nodes), b)
    BY <1>2, Zenon DEF PickAnchor
  <1>4. ASSUME NEW a \in Candidates(nodes), \A b \in Candidates(nodes) \ {a} : Ahead(nodes, a, b)
        PROVE  a = PickAnchor(nodes)
    BY <1>1, <1>3, <1>4, AheadOrders
  <1> QED
    BY <1>1, <1>3, <1>4

LEMMA AmongGraph ==
    ASSUME NEW nodes, IsGraph(nodes), NEW ids, ids \subseteq DOMAIN nodes, ids # {}
    PROVE  /\ IsGraph(Among(nodes, ids)) /\ DOMAIN Among(nodes, ids) = ids
           /\ \A m \in ids : Among(nodes, ids)[m] = nodes[m]
  <1>1. IsFiniteSet(ids)
    BY FS_Subset DEF IsGraph
  <1>2. DOMAIN nodes \cap ids = ids
    OBVIOUS
  <1> QED
    BY <1>1, <1>2 DEF IsGraph, Among

\* Media that are left out, the anchor aside, leave the anchor what it is.
LEMMA AnchorAmong ==
    ASSUME NEW nodes, IsGraph(nodes), NEW ids, ids \subseteq DOMAIN nodes, PickAnchor(nodes) \in ids
    PROVE  PickAnchor(Among(nodes, ids)) = PickAnchor(nodes)
  <1> DEFINE fewer == Among(nodes, ids)
             anchor == PickAnchor(nodes)
  <1>1. IsGraph(fewer) /\ DOMAIN fewer = ids /\ \A m \in ids : fewer[m] = nodes[m]
    BY AmongGraph
  <1>2. anchor \in Candidates(nodes) /\ \A b \in Candidates(nodes) \ {anchor} : Ahead(nodes, anchor, b)
    BY AnchorFirst
  <1> HIDE DEF fewer, anchor
  <1>3. Eligible(fewer) = Eligible(nodes) \cap ids
    BY <1>1 DEF Eligible
  <1>4. anchor \in Candidates(fewer) /\ Candidates(fewer) \subseteq Candidates(nodes)
    BY <1>1, <1>2, <1>3 DEF Candidates, anchor
  <1>5. Candidates(fewer) \subseteq ids
    BY <1>1 DEF Candidates, Eligible
  <1>6. ASSUME NEW b \in Candidates(fewer) \ {anchor} PROVE Ahead(fewer, anchor, b)
    <2>1. Ahead(nodes, anchor, b)
      BY <1>2, <1>4
    <2>2. fewer[anchor] = nodes[anchor] /\ fewer[b] = nodes[b]
      BY <1>1, <1>4, <1>5
    <2> QED
      BY <2>1, <2>2 DEF Ahead
  <1>7. anchor = PickAnchor(fewer)
    BY <1>1, <1>4, <1>6, AnchorFirst
  <1> QED
    BY <1>7 DEF fewer, anchor

-----------------------------------------------------------------------------
(* Closures *)

\* What Closure is the least of.
ClosedIn(S, links, starts, excluded) ==
    starts \subseteq S /\ \A p \in links : p[1] \in S => p[2] \in S \cup excluded

LEMMA ClosureLeast ==
    ASSUME NEW ids, NEW links, NEW starts, NEW excluded,
           NEW S, S \subseteq ids, ClosedIn(S, links, starts, excluded)
    PROVE  Closure(ids, links, starts, excluded) \subseteq S
  BY DEF Closure, ClosedIn

LEMMA ClosureClosed ==
    ASSUME NEW ids, NEW links, links \subseteq ids \X ids, NEW starts, starts \subseteq ids, NEW excluded
    PROVE  /\ Closure(ids, links, starts, excluded) \subseteq ids
           /\ ClosedIn(Closure(ids, links, starts, excluded), links, starts, excluded)
  <1> DEFINE C == Closure(ids, links, starts, excluded)
             closed == {S \in SUBSET ids :
                          /\ starts \subseteq S
                          /\ \A p \in links : p[1] \in S => p[2] \in S \cup excluded}
  <1>1. C = {n \in ids : \A S \in closed : n \in S}
    BY Zenon DEF Closure
  <1>2. starts \subseteq C
    BY <1>1
  <1>3. ASSUME NEW p \in links, p[1] \in C, p[2] \notin excluded PROVE p[2] \in C
    <2>1. p[2] \in ids
      OBVIOUS
    <2>2. ASSUME NEW S \in closed PROVE p[2] \in S
      BY <1>1, <1>3
    <2> QED
      BY <1>1, <2>1, <2>2
  <1> QED
    BY <1>1, <1>2, <1>3 DEF ClosedIn

\* A closure stays out of what it may not enter.
LEMMA ClosureApart ==
    ASSUME NEW ids, NEW links, links \subseteq ids \X ids, NEW starts, starts \subseteq ids,
           NEW excluded, starts \cap excluded = {}
    PROVE  Closure(ids, links, starts, excluded) \cap excluded = {}
  <1>1. ClosedIn(ids \ excluded, links, starts, excluded)
    BY DEF ClosedIn
  <1> QED
    BY <1>1, ClosureLeast

\* The ids that are left out do not count when the closure has none of them.
LEMMA ClosureWithin ==
    ASSUME NEW ids, NEW links, links \subseteq ids \X ids, NEW starts, starts \subseteq ids, NEW excluded,
           NEW some, some \subseteq ids, Closure(ids, links, starts, excluded) \subseteq some,
           NEW fewer, fewer = links \cap (some \X some)
    PROVE  Closure(some, fewer, starts, excluded) = Closure(ids, links, starts, excluded)
  <1> DEFINE C == Closure(ids, links, starts, excluded)
             D == Closure(some, fewer, starts, excluded)
  <1>1. C \subseteq ids /\ ClosedIn(C, links, starts, excluded)
    BY ClosureClosed
  <1>2. starts \subseteq some
    BY <1>1 DEF ClosedIn
  <1>3. D \subseteq some /\ ClosedIn(D, fewer, starts, excluded)
    BY <1>2, ClosureClosed
  <1>4. D \subseteq C
    <2>1. ClosedIn(C, fewer, starts, excluded)
      BY <1>1 DEF ClosedIn
    <2> QED
      BY <2>1, ClosureLeast
  <1>5. C \subseteq D
    <2> HIDE DEF C, D
    <2>1. ASSUME NEW p \in links, p[1] \in D PROVE p[2] \in D \cup excluded
      <3>1. p[2] \in C \cup excluded
        BY <1>1, <1>4, <2>1 DEF ClosedIn
      <3>2. CASE p[2] \in C
        <4>1. p[1] \in some /\ p[2] \in some /\ p \in ids \X ids
          BY <1>3, <2>1, <3>2 DEF C
        <4>2. p \in fewer
          BY <4>1
        <4> QED
          BY <1>3, <2>1, <4>2 DEF ClosedIn
      <3> QED
        BY <3>1, <3>2
    <2>2. ClosedIn(D, links, starts, excluded)
      BY <1>3, <2>1 DEF ClosedIn
    <2> QED
      BY <1>3, <2>2, ClosureLeast DEF C
  <1> QED
    BY <1>4, <1>5

\* From any member, links going both ways, the same closure.
LEMMA ClosureFrom ==
    ASSUME NEW ids, NEW links, links \subseteq ids \X ids, \A a, b : <<a, b>> \in links => <<b, a>> \in links,
           NEW excluded, NEW o \in ids \ excluded,
           NEW S, S \subseteq Closure(ids, links, {o}, excluded), S # {},
           \A p \in links : p[1] \in S => p[2] \in S \cup excluded
    PROVE  S = Closure(ids, links, {o}, excluded)
  <1> DEFINE C == Closure(ids, links, {o}, excluded)
  <1>1. C \subseteq ids /\ ClosedIn(C, links, {o}, excluded) /\ C \cap excluded = {}
    BY ClosureClosed, ClosureApart
  <1>2. CASE o \in S
    <2>1. ClosedIn(S, links, {o}, excluded)
      BY <1>2 DEF ClosedIn
    <2> QED
      BY <1>1, <2>1, ClosureLeast
  <1>3. CASE o \notin S
    <2> DEFINE R == C \ S
    <2>1. ASSUME NEW p \in links, p[1] \in R, p[2] \notin excluded PROVE p[2] \in R
      <3>1. p[2] \in C
        BY <1>1, <2>1 DEF ClosedIn
      <3>2. p = <<p[1], p[2]>>
        OBVIOUS
      <3>3. <<p[2], p[1]>> \in links
        BY <3>2
      <3>4. <<p[2], p[1]>>[1] = p[2] /\ <<p[2], p[1]>>[2] = p[1]
        OBVIOUS
      <3>5. p[2] \in S => p[1] \in S \cup excluded
        BY <3>3, <3>4
      <3>6. p[1] \notin S \cup excluded
        BY <1>1, <2>1
      <3> QED
        BY <3>1, <3>5, <3>6
    <2>2. ClosedIn(R, links, {o}, excluded)
      BY <1>1, <1>3, <2>1 DEF ClosedIn
    <2>3. C \subseteq R
      BY <1>1, <2>2, ClosureLeast
    <2> QED
      BY <2>3
  <1> QED
    BY <1>2, <1>3

\* One more id that a single other one is linked to leads no further.
LEMMA ClosureLeaf ==
    ASSUME NEW ids, NEW m, m \notin ids, NEW p \in ids,
           NEW links, links \subseteq ids \X ids,
           NEW more, more \subseteq (ids \cup {m}) \X (ids \cup {m}), links = more \cap (ids \X ids),
           \A a : <<a, m>> \in more \/ <<m, a>> \in more => a = p,
           NEW starts, starts \subseteq ids, NEW begins, begins \subseteq ids \cup {m}, begins \cap ids = starts,
           NEW excluded, NEW out, out \cap ids = excluded \cap ids,
           m \in begins => p \in out
    PROVE  Closure(ids \cup {m}, more, begins, out) \cap ids = Closure(ids, links, starts, excluded)
  <1> DEFINE all == ids \cup {m}
             C == Closure(ids, links, starts, excluded)
             D == Closure(all, more, begins, out)
  <1>1. C \subseteq ids /\ ClosedIn(C, links, starts, excluded)
    BY ClosureClosed
  <1>2. D \subseteq all /\ ClosedIn(D, more, begins, out)
    BY ClosureClosed
  <1> HIDE DEF all, C, D
  <1>3. C \subseteq D
    <2>1. ASSUME NEW q \in links, q[1] \in D \cap ids PROVE q[2] \in (D \cap ids) \cup excluded
      <3>1. q \in more /\ q[2] \in ids
        OBVIOUS
      <3>2. q[2] \in D \cup out
        BY <1>2, <2>1, <3>1 DEF ClosedIn
      <3> QED
        BY <3>1, <3>2
    <2>2. ClosedIn(D \cap ids, links, starts, excluded)
      BY <1>2, <2>1 DEF ClosedIn
    <2>3. D \cap ids \subseteq ids
      OBVIOUS
    <2> QED
      BY <2>2, <2>3, ClosureLeast DEF C
  <1>4. ASSUME NEW q \in more
        PROVE  /\ q[1] \in ids /\ q[2] \in ids => q \in links
               /\ q[1] = m => q[2] = p
               /\ q[2] = m => q[1] = p
               /\ q[1] \in all /\ q[2] \in all
    <2>1. q = <<q[1], q[2]>> /\ q[1] \in all /\ q[2] \in all
      BY DEF all
    <2>2. q[1] \in ids /\ q[2] \in ids => q \in ids \X ids
      BY <2>1
    <2>3. q[1] = m => <<m, q[2]>> \in more
      BY <2>1
    <2>4. q[2] = m => <<q[1], m>> \in more
      BY <2>1
    <2> QED
      BY <2>1, <2>2, <2>3, <2>4
  <1>5. D \cap ids \subseteq C
    <2> DEFINE S == IF p \in C \cup out THEN C \cup {m} ELSE C
    <2>1. ASSUME NEW q \in more, q[1] \in S PROVE q[2] \in S \cup out
      <3>1. CASE q[1] = m
        BY <1>1, <1>4, <2>1, <3>1
      <3>2. CASE q[1] # m /\ q[2] = m
        BY <1>4, <2>1, <3>2
      <3>3. CASE q[1] # m /\ q[2] # m
        <4>1. q[1] \in C /\ q \in links /\ q[2] \in ids
          BY <1>1, <1>4, <2>1, <3>3 DEF all
        <4>2. q[2] \in C \cup excluded
          BY <1>1, <4>1 DEF ClosedIn
        <4> QED
          BY <4>1, <4>2
      <3> QED
        BY <3>1, <3>2, <3>3
    <2>2. begins \subseteq S
      BY <1>1 DEF ClosedIn
    <2>3. S \subseteq all
      BY <1>1 DEF all
    <2> HIDE DEF S
    <2>4. ClosedIn(S, more, begins, out)
      BY <2>1, <2>2 DEF ClosedIn
    <2>5. D \subseteq S
      BY <2>3, <2>4, ClosureLeast DEF D
    <2> QED
      BY <2>5 DEF S
  <1> QED
    BY <1>1, <1>3, <1>5 DEF C, D, all

-----------------------------------------------------------------------------
(* The chains of a graph *)

LEMMA LinkedType ==
    ASSUME NEW ids, NEW edges, NEW rels
    PROVE  Linked(ids, edges, rels) \subseteq ids \X ids
  BY DEF Linked

\* A page of one of the two names the other.
Related(edges, rels, a, b) ==
    \E e \in edges : e.rel \in rels /\ (<<a, b>> = <<e.from, e.to>> \/ <<a, b>> = <<e.to, e.from>>)

\* Relations link both ways, and only media of the graph.
LEMMA LinkedIs ==
    ASSUME NEW ids, NEW edges, NEW rels
    PROVE  \A a, b :
             /\ <<a, b>> \in Linked(ids, edges, rels) <=>
                  a \in ids /\ b \in ids /\ Related(edges, rels, a, b)
             /\ <<a, b>> \in Linked(ids, edges, rels) => <<b, a>> \in Linked(ids, edges, rels)
  BY DEF Linked, Related

LEMMA LinkedWithin ==
    ASSUME NEW ids, NEW some, some \subseteq ids, NEW edges, NEW rels
    PROVE  Linked(some, edges, rels) = Linked(ids, edges, rels) \cap (some \X some)
  <1>1. \A p : p \in Linked(some, edges, rels) => p = <<p[1], p[2]>>
    BY LinkedType
  <1>2. \A p : p \in Linked(ids, edges, rels) => p = <<p[1], p[2]>>
    BY LinkedType
  <1>3. ASSUME NEW a, NEW b
        PROVE  <<a, b>> \in Linked(some, edges, rels) <=>
                 <<a, b>> \in Linked(ids, edges, rels) /\ a \in some /\ b \in some
    <2>1. <<a, b>> \in Linked(some, edges, rels) <=> a \in some /\ b \in some /\ Related(edges, rels, a, b)
      BY LinkedIs, Zenon
    <2>2. <<a, b>> \in Linked(ids, edges, rels) <=> a \in ids /\ b \in ids /\ Related(edges, rels, a, b)
      BY LinkedIs, Zenon
    <2> QED
      BY <2>1, <2>2
  <1> QED
    BY <1>1, <1>2, <1>3

\* The first media of the alternative chain.
AltSeeds(ids, edges, main) ==
    {n \in ids \ main : \E m \in main : <<m, n>> \in Linked(ids, edges, {"alternative_version"})}

LEMMA AltChainIs ==
    ASSUME NEW nodes, NEW edges, NEW main
    PROVE  AltChain(nodes, edges, main) =
             Closure(DOMAIN nodes, Linked(DOMAIN nodes, edges, AltChainRels),
                     AltSeeds(DOMAIN nodes, edges, main), main)
  BY Zenon DEF AltChain, AltSeeds

LEMMA AnchoredIs ==
    ASSUME NEW nodes, NEW edges
    PROVE  Anchored(nodes, edges) = MainChain(nodes, edges) \cup AltChain(nodes, edges, MainChain(nodes, edges))
  BY Zenon DEF Anchored

LEMMA ChainsType ==
    ASSUME NEW nodes, IsGraph(nodes), NEW edges
    PROVE  /\ PickAnchor(nodes) \in MainChain(nodes, edges) /\ MainChain(nodes, edges) \subseteq DOMAIN nodes
           /\ \A main : AltSeeds(DOMAIN nodes, edges, main) \subseteq AltChain(nodes, edges, main)
           /\ \A main : AltChain(nodes, edges, main) \subseteq DOMAIN nodes
           /\ Anchored(nodes, edges) \subseteq DOMAIN nodes
  <1>1. PickAnchor(nodes) \in DOMAIN nodes
    BY AnchorFirst
  <1>2. Linked(DOMAIN nodes, edges, MainChainRels) \subseteq (DOMAIN nodes) \X (DOMAIN nodes)
    BY LinkedType
  <1>3. PickAnchor(nodes) \in MainChain(nodes, edges) /\ MainChain(nodes, edges) \subseteq DOMAIN nodes
    <2> DEFINE links == Linked(DOMAIN nodes, edges, MainChainRels)
               starts == {PickAnchor(nodes)}
    <2>1. links \subseteq (DOMAIN nodes) \X (DOMAIN nodes) /\ starts \subseteq DOMAIN nodes
      BY <1>1, <1>2
    <2>2. MainChain(nodes, edges) = Closure(DOMAIN nodes, links, starts, {})
      BY DEF MainChain
    <2> HIDE DEF links, starts
    <2>3. MainChain(nodes, edges) \subseteq DOMAIN nodes /\ ClosedIn(MainChain(nodes, edges), links, starts, {})
      <3>1. ASSUME NEW excluded
            PROVE  /\ Closure(DOMAIN nodes, links, starts, excluded) \subseteq DOMAIN nodes
                   /\ ClosedIn(Closure(DOMAIN nodes, links, starts, excluded), links, starts, excluded)
        BY <2>1, ClosureClosed
      <3> QED
        BY <2>2, <3>1
    <2> QED
      BY <2>3 DEF ClosedIn, starts
  <1>4. ASSUME NEW main
        PROVE  /\ AltSeeds(DOMAIN nodes, edges, main) \subseteq AltChain(nodes, edges, main)
               /\ AltChain(nodes, edges, main) \subseteq DOMAIN nodes
    <2>1. AltSeeds(DOMAIN nodes, edges, main) \subseteq DOMAIN nodes
      BY DEF AltSeeds
    <2>2. Linked(DOMAIN nodes, edges, AltChainRels) \subseteq (DOMAIN nodes) \X (DOMAIN nodes)
      BY LinkedType
    <2> DEFINE links == Linked(DOMAIN nodes, edges, AltChainRels)
               starts == AltSeeds(DOMAIN nodes, edges, main)
    <2>3. AltChain(nodes, edges, main) = Closure(DOMAIN nodes, links, starts, main)
      BY AltChainIs
    <2> HIDE DEF links, starts
    <2>4. AltChain(nodes, edges, main) \subseteq DOMAIN nodes /\ ClosedIn(AltChain(nodes, edges, main), links, starts, main)
      BY <2>1, <2>2, <2>3, ClosureClosed DEF links, starts
    <2> QED
      BY <2>4 DEF ClosedIn, starts
  <1> QED
    BY <1>3, <1>4, AnchoredIs

-----------------------------------------------------------------------------
(* Cutting a graph *)

\* The media that are left when none of the anchored ones is cut out.
Keeps(nodes, edges, ids) == ids \subseteq DOMAIN nodes /\ Anchored(nodes, edges) \subseteq ids

LEMMA CutChains ==
    ASSUME NEW nodes, IsGraph(nodes), NEW edges, NEW ids, Keeps(nodes, edges, ids)
    PROVE  LET rest == Among(nodes, ids)
           IN  /\ IsGraph(rest) /\ DOMAIN rest = ids /\ \A m \in ids : rest[m] = nodes[m]
               /\ PickAnchor(rest) = PickAnchor(nodes)
               /\ MainChain(rest, edges) = MainChain(nodes, edges)
               /\ AltChain(rest, edges, MainChain(rest, edges)) = AltChain(nodes, edges, MainChain(nodes, edges))
               /\ Anchored(rest, edges) = Anchored(nodes, edges)
  <1> DEFINE rest == Among(nodes, ids)
             main == MainChain(nodes, edges)
             alt == AltChain(nodes, edges, main)
  <1>1. main \subseteq ids /\ alt \subseteq ids /\ ids \subseteq DOMAIN nodes
        /\ PickAnchor(nodes) \in ids /\ ids # {} /\ main \subseteq DOMAIN nodes /\ alt \subseteq DOMAIN nodes
    BY ChainsType, AnchoredIs DEF Keeps
  <1>2. IsGraph(rest) /\ DOMAIN rest = ids /\ \A m \in ids : rest[m] = nodes[m]
    BY <1>1, AmongGraph
  <1>3. PickAnchor(rest) = PickAnchor(nodes)
    BY <1>1, AnchorAmong
  <1> HIDE DEF rest
  <1>4. MainChain(rest, edges) = main
    <2> DEFINE links == Linked(DOMAIN nodes, edges, MainChainRels)
               fewer == Linked(ids, edges, MainChainRels)
               starts == {PickAnchor(nodes)}
    <2>1. links \subseteq (DOMAIN nodes) \X (DOMAIN nodes)
      BY LinkedType
    <2>2. fewer = links \cap (ids \X ids)
      BY <1>1, LinkedWithin
    <2>3. starts \subseteq DOMAIN nodes
      BY <1>1
    <2>4. main = Closure(DOMAIN nodes, links, starts, {})
      BY DEF MainChain
    <2>5. MainChain(rest, edges) = Closure(ids, fewer, starts, {})
      BY <1>2, <1>3 DEF MainChain
    <2> HIDE DEF links, fewer, starts, main
    <2> QED
      BY <1>1, <2>1, <2>2, <2>3, <2>4, <2>5, ClosureWithin
  <1>5. AltSeeds(ids, edges, main) = AltSeeds(DOMAIN nodes, edges, main)
    <2> HIDE DEF main
    <2>1. AltSeeds(DOMAIN nodes, edges, main) \subseteq ids
      BY <1>1, ChainsType DEF alt
    <2>2. \A m \in main, n \in ids :
             <<m, n>> \in Linked(ids, edges, {"alternative_version"}) <=>
             <<m, n>> \in Linked(DOMAIN nodes, edges, {"alternative_version"})
      BY <1>1, LinkedIs
    <2> QED
      BY <1>1, <2>1, <2>2 DEF AltSeeds
  <1>6. AltChain(rest, edges, main) = alt
    <2> DEFINE links == Linked(DOMAIN nodes, edges, AltChainRels)
               fewer == Linked(ids, edges, AltChainRels)
               starts == AltSeeds(DOMAIN nodes, edges, main)
    <2>1. links \subseteq (DOMAIN nodes) \X (DOMAIN nodes)
      BY LinkedType
    <2>2. fewer = links \cap (ids \X ids)
      BY <1>1, LinkedWithin
    <2>3. starts \subseteq DOMAIN nodes
      BY DEF AltSeeds
    <2>4. alt = Closure(DOMAIN nodes, links, starts, main)
      BY AltChainIs
    <2>5. AltChain(rest, edges, main) = Closure(ids, fewer, starts, main)
      BY <1>2, <1>5, AltChainIs
    <2> HIDE DEF links, fewer, starts, main, alt
    <2> QED
      BY <1>1, <2>1, <2>2, <2>3, <2>4, <2>5, ClosureWithin
  <1> QED
    BY <1>2, <1>3, <1>4, <1>6, AnchoredIs DEF rest

\* classify_anime_relations, by the parts it is made of.
RelaxDuration(nodes, main) == \A m \in FloorMembers(nodes, main) : ~PassesSubstance(nodes[m], FALSE, TRUE)
RelaxEpisodes(nodes, main) == \A m \in FloorMembers(nodes, main) : ~PassesSubstance(nodes[m], TRUE, FALSE)
Recaps(edges) == {e.from : e \in {x \in edges : x.rel = "full_story"}}
ClassOf(nodes, edges, main, alt, m) ==
    IF m = PickAnchor(nodes) THEN "main"
    ELSE IF m \in main THEN
      IF m \in Recaps(edges) THEN "summary"
      ELSE IF PassesSubstance(nodes[m], RelaxDuration(nodes, main), RelaxEpisodes(nodes, main)) THEN "main"
      ELSE "side_story"
    ELSE IF m \in alt THEN "alternative_version"
    ELSE IF \E a \in main \cup alt : <<m, a>> \in Linked(DOMAIN nodes, edges, {"summary"}) THEN "summary"
    ELSE "side_story"

LEMMA ClassifyIs ==
    ASSUME NEW nodes, NEW edges
    PROVE  Classify(nodes, edges) =
             [m \in DOMAIN nodes |->
                ClassOf(nodes, edges, MainChain(nodes, edges),
                        AltChain(nodes, edges, MainChain(nodes, edges)), m)]
  BY Zenon DEF Classify, ClassOf, RelaxDuration, RelaxEpisodes, Recaps

\* What is left keeps its relation types.
LEMMA CutClassify ==
    ASSUME NEW nodes, IsGraph(nodes), NEW edges, NEW ids, Keeps(nodes, edges, ids)
    PROVE  Classify(Among(nodes, ids), edges) = Among(Classify(nodes, edges), ids)
  <1> DEFINE rest == Among(nodes, ids)
             main == MainChain(nodes, edges)
             alt == AltChain(nodes, edges, main)
  <1>1. DOMAIN rest = ids /\ \A m \in ids : rest[m] = nodes[m]
    BY CutChains
  <1>2. /\ PickAnchor(rest) = PickAnchor(nodes) /\ MainChain(rest, edges) = main
        /\ AltChain(rest, edges, MainChain(rest, edges)) = alt
    BY CutChains
  <1>3. main \subseteq ids /\ alt \subseteq ids /\ ids \subseteq DOMAIN nodes
    BY AnchoredIs DEF Keeps
  <1> HIDE DEF rest, main, alt
  <1>4. FloorMembers(rest, main) = FloorMembers(nodes, main)
    BY <1>1, <1>3 DEF FloorMembers
  <1>5. \A m \in FloorMembers(nodes, main) : rest[m] = nodes[m]
    BY <1>1, <1>3 DEF FloorMembers
  <1>6. RelaxDuration(rest, main) = RelaxDuration(nodes, main)
        /\ RelaxEpisodes(rest, main) = RelaxEpisodes(nodes, main)
    BY <1>4, <1>5, Zenon DEF RelaxDuration, RelaxEpisodes
  <1>7. \A m \in ids : ClassOf(rest, edges, main, alt, m) = ClassOf(nodes, edges, main, alt, m)
    <2> TAKE m \in ids
    <2>1. (\E a \in main \cup alt : <<m, a>> \in Linked(DOMAIN rest, edges, {"summary"}))
          <=> (\E a \in main \cup alt : <<m, a>> \in Linked(DOMAIN nodes, edges, {"summary"}))
      <3>1. \A a \in main \cup alt :
              <<m, a>> \in Linked(ids, edges, {"summary"}) <=>
              <<m, a>> \in Linked(DOMAIN nodes, edges, {"summary"})
        BY <1>3, LinkedIs
      <3> QED
        BY <1>1, <3>1
    <2>2. rest[m] = nodes[m]
      BY <1>1
    <2> QED
      BY <1>2, <1>6, <2>1, <2>2, Zenon DEF ClassOf
  <1>8. Classify(rest, edges) = [m \in ids |-> ClassOf(rest, edges, main, alt, m)]
    BY <1>1, <1>2, ClassifyIs
  <1>9. Among(Classify(nodes, edges), ids) = [m \in ids |-> ClassOf(nodes, edges, main, alt, m)]
    <2>1. Classify(nodes, edges) = [m \in DOMAIN nodes |-> ClassOf(nodes, edges, main, alt, m)]
      BY ClassifyIs DEF main, alt
    <2>2. DOMAIN Classify(nodes, edges) \cap ids = ids
      BY <1>3, <2>1
    <2> QED
      BY <1>3, <2>1, <2>2 DEF Among
  <1> QED
    BY <1>7, <1>8, <1>9 DEF rest

-----------------------------------------------------------------------------
(* Clusters *)

LEMMA ClusterType ==
    ASSUME NEW nodes, IsGraph(nodes), NEW edges, NEW o \in DOMAIN nodes \ Anchored(nodes, edges)
    PROVE  /\ o \in ClusterOf(nodes, edges, o)
           /\ ClusterOf(nodes, edges, o) \subseteq DOMAIN nodes \ Anchored(nodes, edges)
           /\ ClosedIn(ClusterOf(nodes, edges, o), Linked(DOMAIN nodes, edges, MainChainRels),
                       {o}, Anchored(nodes, edges))
  <1> DEFINE links == Linked(DOMAIN nodes, edges, MainChainRels)
             anchored == Anchored(nodes, edges)
             ids == DOMAIN nodes
             starts == {o}
  <1>1. links \subseteq ids \X ids
    BY LinkedType
  <1>2. starts \subseteq ids /\ starts \cap anchored = {}
    OBVIOUS
  <1>3. ClusterOf(nodes, edges, o) = Closure(ids, links, starts, anchored)
    BY Zenon DEF ClusterOf
  <1> HIDE DEF links, anchored, ids, starts
  <1>4. /\ ClusterOf(nodes, edges, o) \subseteq ids
        /\ ClosedIn(ClusterOf(nodes, edges, o), links, starts, anchored)
    <2>1. /\ Closure(ids, links, starts, anchored) \subseteq ids
          /\ ClosedIn(Closure(ids, links, starts, anchored), links, starts, anchored)
      BY <1>1, <1>2, ClosureClosed
    <2> QED
      BY <1>3, <2>1
  <1>5. ClusterOf(nodes, edges, o) \cap anchored = {}
    BY <1>1, <1>2, <1>3, ClosureApart
  <1>6. o \in ClusterOf(nodes, edges, o)
    BY <1>4 DEF ClosedIn, starts
  <1> QED
    BY <1>4, <1>5, <1>6 DEF links, anchored, ids, starts

\* What is in a cluster, closed and not empty, is the cluster.
LEMMA ClusterOne ==
    ASSUME NEW nodes, IsGraph(nodes), NEW edges, NEW o \in DOMAIN nodes \ Anchored(nodes, edges),
           NEW S, S \subseteq ClusterOf(nodes, edges, o), S # {},
           \A p \in Linked(DOMAIN nodes, edges, MainChainRels) :
              p[1] \in S => p[2] \in S \cup Anchored(nodes, edges)
    PROVE  S = ClusterOf(nodes, edges, o)
  <1> DEFINE links == Linked(DOMAIN nodes, edges, MainChainRels)
             anchored == Anchored(nodes, edges)
             ids == DOMAIN nodes
  <1>1. links \subseteq ids \X ids
    BY LinkedType
  <1>2. \A a, b : <<a, b>> \in links => <<b, a>> \in links
    BY LinkedIs, Zenon
  <1>3. ClusterOf(nodes, edges, o) = Closure(ids, links, {o}, anchored)
    BY Zenon DEF ClusterOf
  <1>4. o \in ids \ anchored
    OBVIOUS
  <1>5. \A p \in links : p[1] \in S => p[2] \in S \cup anchored
    OBVIOUS
  <1>6. S \subseteq Closure(ids, links, {o}, anchored)
    BY <1>3
  <1> HIDE DEF links, anchored, ids
  <1>7. S = Closure(ids, links, {o}, anchored)
    BY <1>1, <1>2, <1>4, <1>5, <1>6, ClosureFrom
  <1> QED
    BY <1>3, <1>7

\* A cluster is the cluster of each of its media.
LEMMA ClusterSame ==
    ASSUME NEW nodes, IsGraph(nodes), NEW edges, NEW o \in DOMAIN nodes \ Anchored(nodes, edges),
           NEW x \in ClusterOf(nodes, edges, o)
    PROVE  x \in DOMAIN nodes \ Anchored(nodes, edges)
           /\ ClusterOf(nodes, edges, x) = ClusterOf(nodes, edges, o)
  <1> DEFINE links == Linked(DOMAIN nodes, edges, MainChainRels)
             C == ClusterOf(nodes, edges, o)
             X == ClusterOf(nodes, edges, x)
  <1>1. C \subseteq DOMAIN nodes \ Anchored(nodes, edges) /\ ClosedIn(C, links, {o}, Anchored(nodes, edges))
    BY ClusterType
  <1>2. x \in DOMAIN nodes \ Anchored(nodes, edges)
    BY <1>1
  <1>3. x \in X /\ ClosedIn(X, links, {x}, Anchored(nodes, edges))
    BY <1>2, ClusterType
  <1>4. X \subseteq C
    <2>1. ClosedIn(C, links, {x}, Anchored(nodes, edges)) /\ C \subseteq DOMAIN nodes
      BY <1>1 DEF ClosedIn
    <2>2. X = Closure(DOMAIN nodes, links, {x}, Anchored(nodes, edges))
      BY Zenon DEF ClusterOf
    <2> HIDE DEF links, X, C
    <2> QED
      BY <2>1, <2>2, ClosureLeast
  <1>5. X = C
    <2>1. \A p \in links : p[1] \in X => p[2] \in X \cup Anchored(nodes, edges)
      BY <1>3 DEF ClosedIn
    <2>2. X # {}
      BY <1>3
    <2> HIDE DEF X
    <2> QED
      BY <1>4, <2>1, <2>2, ClusterOne
  <1> QED
    BY <1>2, <1>5

\* A cluster that is kept whole stays the cluster it is.
LEMMA CutCluster ==
    ASSUME NEW nodes, IsGraph(nodes), NEW edges, NEW ids, Keeps(nodes, edges, ids),
           NEW o \in ids \ Anchored(nodes, edges), ClusterOf(nodes, edges, o) \subseteq ids
    PROVE  ClusterOf(Among(nodes, ids), edges, o) = ClusterOf(nodes, edges, o)
  <1> DEFINE rest == Among(nodes, ids)
             links == Linked(DOMAIN nodes, edges, MainChainRels)
             fewer == Linked(ids, edges, MainChainRels)
             anchored == Anchored(nodes, edges)
             starts == {o}
             all == DOMAIN nodes
  <1>1. DOMAIN rest = ids /\ Anchored(rest, edges) = anchored
    BY CutChains
  <1>2. links \subseteq all \X all
    BY LinkedType
  <1>3. ids \subseteq all /\ starts \subseteq all
    BY DEF Keeps
  <1>4. fewer = links \cap (ids \X ids)
    BY <1>3, LinkedWithin
  <1>5. ClusterOf(nodes, edges, o) = Closure(all, links, starts, anchored)
    BY Zenon DEF ClusterOf
  <1>6. ClusterOf(rest, edges, o) = Closure(ids, fewer, starts, anchored)
    BY <1>1, Zenon DEF ClusterOf
  <1> HIDE DEF rest, links, fewer, anchored, starts, all
  <1>7. Closure(ids, fewer, starts, anchored) = Closure(all, links, starts, anchored)
    BY <1>2, <1>3, <1>4, <1>5, ClosureWithin
  <1> QED
    BY <1>5, <1>6, <1>7 DEF rest

\* On its own, a cluster is one main chain.
LEMMA PartIsChain ==
    ASSUME NEW nodes, IsGraph(nodes), NEW edges, NEW o \in DOMAIN nodes \ Anchored(nodes, edges)
    PROVE  LET part == Among(nodes, ClusterOf(nodes, edges, o))
           IN  /\ IsGraph(part) /\ DOMAIN part = ClusterOf(nodes, edges, o)
               /\ MainChain(part, edges) = ClusterOf(nodes, edges, o)
  <1> DEFINE C == ClusterOf(nodes, edges, o)
             part == Among(nodes, C)
             links == Linked(DOMAIN nodes, edges, MainChainRels)
             fewer == Linked(C, edges, MainChainRels)
             starts == {PickAnchor(part)}
             D == Closure(C, fewer, starts, {})
  <1>1. o \in C /\ C \subseteq DOMAIN nodes \ Anchored(nodes, edges)
        /\ ClosedIn(C, links, {o}, Anchored(nodes, edges))
    BY ClusterType
  <1>2. IsGraph(part) /\ DOMAIN part = C
    BY <1>1, AmongGraph
  <1>3. PickAnchor(part) \in C
    BY <1>2, AnchorFirst
  <1>4. fewer \subseteq C \X C /\ fewer = links \cap (C \X C) /\ links \subseteq (DOMAIN nodes) \X (DOMAIN nodes)
    BY <1>1, LinkedType, LinkedWithin
  <1>5. MainChain(part, edges) = D
    BY <1>2, Zenon DEF MainChain
  <1>6. D \subseteq C /\ ClosedIn(D, fewer, starts, {})
    <2>1. starts \subseteq C
      BY <1>3
    <2> HIDE DEF C, fewer, starts
    <2>2. ASSUME NEW excluded
          PROVE  /\ Closure(C, fewer, starts, excluded) \subseteq C
                 /\ ClosedIn(Closure(C, fewer, starts, excluded), fewer, starts, excluded)
      BY <1>4, <2>1, ClosureClosed
    <2> QED
      BY <2>2
  <1>7. ASSUME NEW p \in links, p[1] \in D PROVE p[2] \in D \cup Anchored(nodes, edges)
    <2> HIDE DEF D, C, links, fewer
    <2>1. p[1] \in C /\ p[2] \in C \cup Anchored(nodes, edges)
      BY <1>1, <1>6, <1>7 DEF ClosedIn
    <2>2. CASE p[2] \in C
      <3>1. p = <<p[1], p[2]>>
        BY <1>4
      <3>2. p \in fewer
        BY <1>4, <2>1, <2>2, <3>1
      <3> QED
        BY <1>6, <1>7, <3>2 DEF ClosedIn
    <2> QED
      BY <2>1, <2>2
  <1>8. D # {}
    BY <1>6 DEF ClosedIn
  <1>9. D = C
    <2> HIDE DEF D
    <2> QED
      BY <1>6, <1>7, <1>8, ClusterOne
  <1> QED
    BY <1>2, <1>5, <1>9

-----------------------------------------------------------------------------
(* A split is final *)

\* find_disjoint_franchises, by the parts it is made of.
Orphans(nodes, edges) == {m \in DOMAIN nodes \ Anchored(nodes, edges) : Substantial(nodes[m])}
Clusters(nodes, edges) == {ClusterOf(nodes, edges, m) : m \in Orphans(nodes, edges)}
FranchiseOf(nodes, edges, c) ==
    [members |-> c, substance |-> c \cap Orphans(nodes, edges),
     anchor |-> PickAnchor(Among(nodes, c)), bridges |-> Bridges(edges, Anchored(nodes, edges), c)]
Reported(nodes, edges, c) ==
    /\ Cardinality(c \cap Orphans(nodes, edges)) >= 2
    /\ ~SideStoryFilms(nodes, c, Bridges(edges, Anchored(nodes, edges), c))

LEMMA DisjointIs ==
    ASSUME NEW nodes, NEW edges
    PROVE  DisjointFranchises(nodes, edges) =
             {FranchiseOf(nodes, edges, c) : c \in {x \in Clusters(nodes, edges) : Reported(nodes, edges, x)}}
  BY Zenon DEF DisjointFranchises, Orphans, Clusters, FranchiseOf, Reported

LEMMA FranchiseMembers ==
    ASSUME NEW nodes, NEW edges, NEW c
    PROVE  FranchiseOf(nodes, edges, c).members = c
  BY DEF FranchiseOf

\* A cluster that is not the one cut out stays whole, and stays what is said of it.
LEMMA CutOthers ==
    ASSUME NEW nodes, IsGraph(nodes), NEW edges, NEW F \in Clusters(nodes, edges)
    PROVE  LET ids == DOMAIN nodes \ F
               rest == Among(nodes, ids)
           IN  /\ Keeps(nodes, edges, ids)
               /\ Clusters(rest, edges) = Clusters(nodes, edges) \ {F}
               /\ \A c \in Clusters(rest, edges) :
                     /\ FranchiseOf(rest, edges, c) = FranchiseOf(nodes, edges, c)
                     /\ Reported(rest, edges, c) <=> Reported(nodes, edges, c)
  <1> DEFINE ids == DOMAIN nodes \ F
             rest == Among(nodes, ids)
             anchored == Anchored(nodes, edges)
             O == Orphans(nodes, edges)
  <1>1. PICK o \in O : F = ClusterOf(nodes, edges, o)
    BY DEF Clusters
  <1>2. O \subseteq DOMAIN nodes \ anchored
    BY DEF Orphans
  <1>3. F \subseteq DOMAIN nodes \ anchored /\ o \in F
    BY <1>1, <1>2, ClusterType
  <1>4. Keeps(nodes, edges, ids)
    BY <1>3, ChainsType DEF Keeps
  <1>5. /\ DOMAIN rest = ids /\ (\A m \in ids : rest[m] = nodes[m])
        /\ Anchored(rest, edges) = anchored
    BY <1>4, CutChains
  <1> HIDE DEF rest
  <1>6. Orphans(rest, edges) = O \ F
    BY <1>5 DEF Orphans
  \* Two clusters are the same or have no media in common.
  <1>7. ASSUME NEW m \in O, m \notin F PROVE ClusterOf(nodes, edges, m) \cap F = {}
    <2> SUFFICES ASSUME NEW x \in ClusterOf(nodes, edges, m), x \in F PROVE FALSE
      OBVIOUS
    <2>1. ClusterOf(nodes, edges, x) = ClusterOf(nodes, edges, m)
      BY <1>2, ClusterSame
    <2>2. ClusterOf(nodes, edges, x) = F
      BY <1>1, <1>2, ClusterSame
    <2>3. m \in ClusterOf(nodes, edges, m)
      BY <1>2, ClusterType
    <2> QED
      BY <1>7, <2>1, <2>2, <2>3
  <1>8. ASSUME NEW m \in O, m \in F PROVE ClusterOf(nodes, edges, m) = F
    BY <1>1, <1>2, <1>8, ClusterSame
  <1>9. ASSUME NEW m \in O, m \notin F
        PROVE  /\ ClusterOf(rest, edges, m) = ClusterOf(nodes, edges, m)
               /\ ClusterOf(nodes, edges, m) \subseteq ids /\ m \in ClusterOf(nodes, edges, m)
    <2>1. ClusterOf(nodes, edges, m) \subseteq ids /\ m \in ClusterOf(nodes, edges, m)
      BY <1>2, <1>7, <1>9, ClusterType
    <2>2. m \in ids \ anchored
      BY <1>2, <1>9
    <2> QED
      BY <1>4, <2>1, <2>2, CutCluster DEF rest
  <1>10. Clusters(rest, edges) = Clusters(nodes, edges) \ {F}
    <2>1. Clusters(rest, edges) = {ClusterOf(rest, edges, m) : m \in O \ F}
      BY <1>6 DEF Clusters
    <2>2. Clusters(nodes, edges) = {ClusterOf(nodes, edges, m) : m \in O}
      BY DEF Clusters
    <2>3. \A m \in O \ F : ClusterOf(rest, edges, m) = ClusterOf(nodes, edges, m)
                           /\ ClusterOf(nodes, edges, m) # F
      BY <1>9
    <2>4. \A m \in O \cap F : ClusterOf(nodes, edges, m) = F
      BY <1>8
    <2> HIDE DEF O
    <2> QED
      BY <2>1, <2>2, <2>3, <2>4
  <1>11. ASSUME NEW c \in Clusters(rest, edges)
         PROVE  /\ FranchiseOf(rest, edges, c) = FranchiseOf(nodes, edges, c)
                /\ Reported(rest, edges, c) <=> Reported(nodes, edges, c)
    <2>1. PICK m \in O : m \notin F /\ c = ClusterOf(rest, edges, m)
      BY <1>6 DEF Clusters
    <2>2. c \subseteq ids /\ c \subseteq DOMAIN nodes /\ c \cap F = {}
      BY <1>7, <1>9, <2>1
    <2>3. c \cap Orphans(rest, edges) = c \cap O
      BY <1>6, <2>2
    <2>4. Among(rest, c) = Among(nodes, c)
      <3>1. DOMAIN rest \cap c = c /\ DOMAIN nodes \cap c = c
        BY <1>5, <2>2
      <3>2. \A x \in c : rest[x] = nodes[x]
        BY <1>5, <2>2
      <3> QED
        BY <3>1, <3>2 DEF Among
    <2>5. \A B : SideStoryFilms(rest, c, B) <=> SideStoryFilms(nodes, c, B)
      <3>1. \A x \in c : rest[x] = nodes[x]
        BY <1>5, <2>2
      <3> QED
        BY <3>1 DEF SideStoryFilms
    <2> QED
      BY <1>5, <2>3, <2>4, <2>5, Zenon DEF FranchiseOf, Reported
  <1> QED
    BY <1>4, <1>10, <1>11 DEF rest

\* A franchise f that is reported of a graph, once it has been cut out: what is left of it,
\* and what it is on its own.
CutOut(nodes, edges, f) ==
    LET rest == Among(nodes, DOMAIN nodes \ f.members)
        part == Among(nodes, f.members)
    IN  /\ PickAnchor(rest) = PickAnchor(nodes)
        /\ Classify(rest, edges) = Among(Classify(nodes, edges), DOMAIN rest)
        /\ DisjointFranchises(rest, edges) = DisjointFranchises(nodes, edges) \ {f}
        /\ MainChain(part, edges) = f.members
        /\ f.anchor = PickAnchor(part) /\ f.anchor \in f.members
        /\ DisjointFranchises(part, edges) = {}

\* Of any graph, a reported cluster can be cut out: what is left keeps its anchor, its
\* relation types and its other clusters, and the cluster is one franchise under the
\* suggested anchor, in which nothing is reported again (find_disjoint_franchises,
\* execute_split).
THEOREM CutIsFinal ==
    ASSUME NEW nodes, IsGraph(nodes), NEW edges, NEW f \in DisjointFranchises(nodes, edges)
    PROVE  CutOut(nodes, edges, f)
  <1> DEFINE F == f.members
             ids == DOMAIN nodes \ F
             rest == Among(nodes, ids)
             part == Among(nodes, F)
  <1>1. PICK c \in Clusters(nodes, edges) : Reported(nodes, edges, c) /\ f = FranchiseOf(nodes, edges, c)
    BY DisjointIs
  <1>2. F = c /\ f.anchor = PickAnchor(part)
    BY <1>1 DEF FranchiseOf
  <1>3. PICK o \in DOMAIN nodes \ Anchored(nodes, edges) : F = ClusterOf(nodes, edges, o)
    BY <1>1, <1>2 DEF Clusters, Orphans
  <1>4. /\ Keeps(nodes, edges, ids) /\ Clusters(rest, edges) = Clusters(nodes, edges) \ {F}
        /\ \A x \in Clusters(rest, edges) :
              /\ FranchiseOf(rest, edges, x) = FranchiseOf(nodes, edges, x)
              /\ Reported(rest, edges, x) <=> Reported(nodes, edges, x)
    BY <1>1, <1>2, CutOthers
  <1>5. PickAnchor(rest) = PickAnchor(nodes) /\ DOMAIN rest = ids
    BY <1>4, CutChains
  <1>6. Classify(rest, edges) = Among(Classify(nodes, edges), DOMAIN rest)
    BY <1>4, <1>5, CutClassify
  <1>7. IsGraph(part) /\ DOMAIN part = F /\ MainChain(part, edges) = F
    BY <1>3, PartIsChain
  <1>8. f.anchor \in F
    BY <1>2, <1>7, AnchorFirst
  <1> HIDE DEF F, rest, part
  <1>9. DisjointFranchises(rest, edges) = DisjointFranchises(nodes, edges) \ {f}
    <2>1. DisjointFranchises(rest, edges) =
            {FranchiseOf(rest, edges, x) : x \in {y \in Clusters(rest, edges) : Reported(rest, edges, y)}}
      BY DisjointIs
    <2>2. DisjointFranchises(nodes, edges) =
            {FranchiseOf(nodes, edges, x) : x \in {y \in Clusters(nodes, edges) : Reported(nodes, edges, y)}}
      BY DisjointIs
    <2>3. \A x : FranchiseOf(nodes, edges, x) = f <=> x = F
      BY <1>1, <1>2, FranchiseMembers DEF F
    <2> QED
      BY <1>4, <2>1, <2>2, <2>3
  <1>10. DisjointFranchises(part, edges) = {}
    <2>1. Anchored(part, edges) = F
      BY <1>7, ChainsType, AnchoredIs
    <2>2. Orphans(part, edges) = {}
      BY <1>7, <2>1 DEF Orphans
    <2>3. Clusters(part, edges) = {}
      BY <2>2 DEF Clusters
    <2> QED
      BY <2>3, DisjointIs
  <1> QED
    BY <1>2, <1>5, <1>6, <1>7, <1>8, <1>9, <1>10 DEF F, rest, part, CutOut

-----------------------------------------------------------------------------
(* A new entry *)

\* The media m of a graph is new: the others' pages name each other, and its own page
\* names one of them, with the relation `tie`.
Hangs(grown, edges, m, tie) ==
    /\ m \in DOMAIN grown
    /\ \A e \in edges : e.from \in DOMAIN grown \ {m} /\ e.to \in DOMAIN grown \ {m}
    /\ tie.from = m /\ tie.to \in DOMAIN grown \ {m}

LEMMA LinkedLeaf ==
    ASSUME NEW grown, NEW edges, NEW m, NEW tie, Hangs(grown, edges, m, tie), NEW rels
    PROVE  LET more == Linked(DOMAIN grown, edges \cup {tie}, rels)
               ids == DOMAIN grown \ {m}
           IN  /\ Linked(ids, edges, rels) = more \cap (ids \X ids)
               /\ \A a : <<a, m>> \in more \/ <<m, a>> \in more => a = tie.to /\ tie.rel \in rels
  <1> DEFINE ids == DOMAIN grown \ {m}
             more == Linked(DOMAIN grown, edges \cup {tie}, rels)
  <1>1. ASSUME NEW a \in ids, NEW b \in ids
        PROVE  Related(edges \cup {tie}, rels, a, b) <=> Related(edges, rels, a, b)
    BY DEF Hangs, Related
  <1>2. \A p : p \in Linked(ids, edges, rels) => p = <<p[1], p[2]>>
    BY LinkedType
  <1>3. \A p : p \in more => p = <<p[1], p[2]>>
    BY LinkedType
  <1>4. ASSUME NEW a, NEW b
        PROVE  <<a, b>> \in Linked(ids, edges, rels) <=> <<a, b>> \in more /\ a \in ids /\ b \in ids
    <2>1. <<a, b>> \in Linked(ids, edges, rels) <=> a \in ids /\ b \in ids /\ Related(edges, rels, a, b)
      BY LinkedIs, Zenon
    <2>2. <<a, b>> \in more <=> /\ a \in DOMAIN grown /\ b \in DOMAIN grown
                                /\ Related(edges \cup {tie}, rels, a, b)
      BY LinkedIs, Zenon
    <2> QED
      BY <1>1, <2>1, <2>2
  <1>5. ASSUME NEW a, <<a, m>> \in more \/ <<m, a>> \in more PROVE a = tie.to /\ tie.rel \in rels
    <2>1. Related(edges \cup {tie}, rels, a, m) \/ Related(edges \cup {tie}, rels, m, a)
      BY <1>5, LinkedIs, Zenon
    <2> QED
      BY <2>1 DEF Related, Hangs
  <1> HIDE DEF more
  <1>6. Linked(ids, edges, rels) = more \cap (ids \X ids)
    BY <1>2, <1>3, <1>4
  <1> QED
    BY <1>5, <1>6 DEF more

\* The anchor stays what it was while it is not the new media.
LEMMA AnchorGrown ==
    ASSUME NEW grown, IsGraph(grown), NEW m \in DOMAIN grown, PickAnchor(grown) # m
    PROVE  LET ids == DOMAIN grown \ {m}
           IN  /\ PickAnchor(Among(grown, ids)) = PickAnchor(grown) /\ PickAnchor(grown) \in ids
               /\ IsGraph(Among(grown, ids)) /\ DOMAIN Among(grown, ids) = ids
               /\ \A n \in ids : Among(grown, ids)[n] = grown[n]
  <1> DEFINE ids == DOMAIN grown \ {m}
  <1>1. PickAnchor(grown) \in ids
    BY AnchorFirst
  <1>2. ids \subseteq DOMAIN grown /\ ids # {}
    BY <1>1
  <1> HIDE DEF ids
  <1>3. PickAnchor(Among(grown, ids)) = PickAnchor(grown)
    BY <1>1, <1>2, AnchorAmong
  <1>4. IsGraph(Among(grown, ids)) /\ DOMAIN Among(grown, ids) = ids /\ \A n \in ids : Among(grown, ids)[n] = grown[n]
    BY <1>2, AmongGraph
  <1> QED
    BY <1>1, <1>3, <1>4 DEF ids

\* The chains of the others stay what they were, and the new media is in one only over a
\* relation of that chain.
LEMMA GrownChains ==
    ASSUME NEW grown, IsGraph(grown), NEW edges, NEW m, NEW tie, Hangs(grown, edges, m, tie),
           PickAnchor(grown) # m
    PROVE  LET ids == DOMAIN grown \ {m}
               nodes == Among(grown, ids)
               more == edges \cup {tie}
               main == MainChain(nodes, edges)
               mains == MainChain(grown, more)
           IN  /\ mains \cap ids = main
               /\ \A n \in ids : n \in AltChain(grown, more, mains) <=> n \in AltChain(nodes, edges, main)
               /\ m \in mains => tie.rel \in MainChainRels
               /\ m \in AltChain(grown, more, mains) => tie.rel \in AltChainRels
  <1> DEFINE ids == DOMAIN grown \ {m}
             all == ids \cup {m}
             nodes == Among(grown, ids)
             more == edges \cup {tie}
             main == MainChain(nodes, edges)
             mains == MainChain(grown, more)
             alt == AltChain(nodes, edges, main)
             alts == AltChain(grown, more, mains)
             p == tie.to
  <1>1. m \notin ids /\ p \in ids /\ DOMAIN grown = all
    BY DEF Hangs
  <1>2. /\ PickAnchor(nodes) = PickAnchor(grown) /\ PickAnchor(grown) \in ids
        /\ DOMAIN nodes = ids /\ IsGraph(nodes)
    BY <1>1, AnchorGrown
  <1> HIDE DEF nodes, ids
  <1>3. ASSUME NEW rels
        PROVE  /\ Linked(ids, edges, rels) \subseteq ids \X ids
               /\ Linked(all, more, rels) \subseteq all \X all
               /\ Linked(ids, edges, rels) = Linked(all, more, rels) \cap (ids \X ids)
               /\ \A a : <<a, m>> \in Linked(all, more, rels) \/ <<m, a>> \in Linked(all, more, rels)
                            => a = p /\ tie.rel \in rels
    <2>1. Linked(ids, edges, rels) \subseteq ids \X ids /\ Linked(all, more, rels) \subseteq all \X all
      BY LinkedType
    <2>2. /\ Linked(ids, edges, rels) = Linked(DOMAIN grown, more, rels) \cap (ids \X ids)
          /\ \A a : <<a, m>> \in Linked(DOMAIN grown, more, rels) \/ <<m, a>> \in Linked(DOMAIN grown, more, rels)
                  => a = p /\ tie.rel \in rels
      BY LinkedLeaf, Zenon DEF ids
    <2> QED
      BY <1>1, <2>1, <2>2, Zenon
  \* Over a relation that is not of the chain the new media is not reached.
  <1>4. ASSUME NEW rels, tie.rel \notin rels, NEW begins, begins \subseteq ids, NEW out
        PROVE  m \notin Closure(all, Linked(all, more, rels), begins, out)
    <2> DEFINE links == Linked(all, more, rels)
    <2>4. links \subseteq all \X all /\ \A a : <<a, m>> \in links \/ <<m, a>> \in links => FALSE
      BY <1>3, <1>4
    <2> HIDE DEF links
    <2>1. ASSUME NEW q \in links, q[1] \in ids PROVE q[2] \in ids
      <3>1. q = <<q[1], q[2]>> /\ q[2] \in all
        BY <2>4
      <3>2. q[2] # m
        BY <2>4, <3>1
      <3> QED
        BY <3>1, <3>2
    <2>2. ClosedIn(ids, links, begins, out)
      BY <1>4, <2>1 DEF ClosedIn
    <2>3. Closure(all, links, begins, out) \subseteq ids
      BY <2>2, ClosureLeast
    <2> QED
      BY <1>1, <2>3 DEF links
  <1>5. mains \cap ids = main
    <2> DEFINE links == Linked(ids, edges, MainChainRels)
               links1 == Linked(all, more, MainChainRels)
               starts == {PickAnchor(grown)}
    <2>1. main = Closure(ids, links, starts, {})
      BY <1>2, Zenon DEF MainChain
    <2>2. mains = Closure(all, links1, starts, {})
      BY <1>1, Zenon DEF MainChain
    <2>3. links \subseteq ids \X ids /\ links1 \subseteq all \X all /\ links = links1 \cap (ids \X ids)
          /\ \A a : <<a, m>> \in links1 \/ <<m, a>> \in links1 => a = p
      BY <1>3
    <2>4. starts \subseteq ids /\ starts \subseteq all /\ starts \cap ids = starts /\ m \notin starts
      BY <1>1, <1>2
    <2> HIDE DEF links, links1, starts, more, p
    <2>5. ASSUME NEW none, none = {}
          PROVE  Closure(all, links1, starts, none) \cap ids = Closure(ids, links, starts, none)
      BY <1>1, <2>3, <2>4, ClosureLeaf
    <2> QED
      BY <2>1, <2>2, <2>5
  <1>6. m \in mains => tie.rel \in MainChainRels
    <2>1. mains = Closure(all, Linked(all, more, MainChainRels), {PickAnchor(grown)}, {})
      BY <1>1, Zenon DEF MainChain
    <2>2. {PickAnchor(grown)} \subseteq ids
      BY <1>2
    <2> QED
      BY <1>4, <2>1, <2>2
  <1> DEFINE seeds == AltSeeds(ids, edges, main)
             begins == AltSeeds(all, more, mains)
  <1>7. /\ begins \cap ids = seeds
        /\ m \in begins => p \in mains /\ tie.rel = "alternative_version"
        /\ seeds \subseteq ids /\ begins \subseteq all
    <2> DEFINE links == Linked(ids, edges, {"alternative_version"})
               links1 == Linked(all, more, {"alternative_version"})
    <2>1. main \subseteq ids
      BY <1>5
    <2>2. \A x \in ids, n \in ids : <<x, n>> \in links <=> <<x, n>> \in links1
      BY <1>3
    <2>3. \A a : <<a, m>> \in links1 \/ <<m, a>> \in links1 => a = p /\ tie.rel = "alternative_version"
      BY <1>3
    <2>4. \A n \in ids : m \in mains => <<m, n>> \notin links1
      <3>1. m \in mains => tie.rel # "alternative_version"
        BY <1>6 DEF MainChainRels
      <3> QED
        BY <2>3, <3>1
    <2>5. mains \subseteq all
      BY <1>1, ChainsType
    <2>6. seeds = {n \in ids \ main : \E x \in main : <<x, n>> \in links}
      BY DEF AltSeeds
    <2>7. begins = {n \in all \ mains : \E x \in mains : <<x, n>> \in links1}
      BY DEF AltSeeds
    <2> HIDE DEF links, links1, seeds, begins, main, mains, p, all, more, alt, alts
    <2>8. seeds \subseteq ids /\ begins \subseteq all
      BY <2>6, <2>7
    <2>9. m \in begins => p \in mains /\ tie.rel = "alternative_version"
      BY <2>3, <2>7
    <2>10. begins \cap ids = seeds
      <3>1. ASSUME NEW n \in ids PROVE n \in begins <=> n \in seeds
        <4>1. n \in mains <=> n \in main
          BY <1>5
        <4>2. ASSUME NEW x \in mains, <<x, n>> \in links1 PROVE x \in main /\ <<x, n>> \in links
          <5>1. x # m
            BY <2>4, <4>2
          <5>2. x \in ids
            BY <2>5, <5>1 DEF all
          <5> QED
            BY <1>5, <2>2, <4>2, <5>2
        <4>3. ASSUME NEW x \in main, <<x, n>> \in links PROVE x \in mains /\ <<x, n>> \in links1
          BY <1>5, <2>1, <2>2, <4>3
        <4> QED
          BY <2>6, <2>7, <4>1, <4>2, <4>3 DEF all
      <3> QED
        BY <2>8, <3>1
    <2> QED
      BY <2>8, <2>9, <2>10
  <1>8. alts \cap ids = alt
    <2> DEFINE links == Linked(ids, edges, AltChainRels)
               links1 == Linked(all, more, AltChainRels)
    <2>1. alt = Closure(ids, links, seeds, main)
      BY <1>2, AltChainIs
    <2>2. alts = Closure(all, links1, begins, mains)
      BY <1>1, AltChainIs
    <2>3. links \subseteq ids \X ids /\ links1 \subseteq all \X all /\ links = links1 \cap (ids \X ids)
          /\ \A a : <<a, m>> \in links1 \/ <<m, a>> \in links1 => a = p
      BY <1>3
    <2>4. mains \cap ids = main \cap ids
      BY <1>5
    <2> HIDE DEF links, links1, seeds, begins, main, mains, more, p, alt, alts
    <2>5. Closure(all, links1, begins, mains) \cap ids = Closure(ids, links, seeds, main)
      BY <1>1, <1>7, <2>3, <2>4, ClosureLeaf
    <2> QED
      BY <2>1, <2>2, <2>5
  <1>9. m \in alts => tie.rel \in AltChainRels
    <2> SUFFICES ASSUME tie.rel \notin AltChainRels PROVE m \notin alts
      OBVIOUS
    <2>1. begins \subseteq ids
      BY <1>7 DEF AltChainRels
    <2>2. alts = Closure(all, Linked(all, more, AltChainRels), begins, mains)
      BY <1>1, AltChainIs
    <2> HIDE DEF begins, mains
    <2> QED
      BY <1>4, <2>1, <2>2
  <1> QED
    BY <1>5, <1>6, <1>8, <1>9 DEF nodes, ids

\* What the others are stays the same, if the new media is announced or off the main chain.
LEMMA GrownClassify ==
    ASSUME NEW grown, IsGraph(grown), NEW edges, NEW m, NEW tie, Hangs(grown, edges, m, tie),
           PickAnchor(grown) # m, Pending(grown[m]) \/ tie.rel \notin MainChainRels
    PROVE  LET ids == DOMAIN grown \ {m}
           IN  Classify(Among(grown, ids), edges) = Among(Classify(grown, edges \cup {tie}), ids)
  <1> DEFINE ids == DOMAIN grown \ {m}
             nodes == Among(grown, ids)
             more == edges \cup {tie}
             main == MainChain(nodes, edges)
             mains == MainChain(grown, more)
             alt == AltChain(nodes, edges, main)
             alts == AltChain(grown, more, mains)
  <1>1. m \in DOMAIN grown /\ m \notin ids /\ ids \subseteq DOMAIN grown /\ tie.from = m
    BY DEF Hangs
  <1>2. /\ PickAnchor(nodes) = PickAnchor(grown) /\ DOMAIN nodes = ids /\ IsGraph(nodes)
        /\ \A n \in ids : nodes[n] = grown[n]
    BY <1>1, AnchorGrown
  <1>3. /\ mains \cap ids = main /\ \A n \in ids : n \in alts <=> n \in alt
        /\ m \in mains => tie.rel \in MainChainRels
        /\ m \in alts => tie.rel \in AltChainRels
    <2>1. mains \cap ids = main
      BY GrownChains, Zenon
    <2>2. \A n \in ids : n \in alts <=> n \in alt
      BY GrownChains, Zenon
    <2>3. m \in mains => tie.rel \in MainChainRels
      BY GrownChains, Zenon
    <2>4. m \in alts => tie.rel \in AltChainRels
      BY GrownChains, Zenon
    <2> QED
      BY <2>1, <2>2, <2>3, <2>4
  <1>4. main \subseteq ids /\ alt \subseteq ids /\ mains \subseteq DOMAIN grown /\ alts \subseteq DOMAIN grown
    BY <1>2, ChainsType
  <1>5. \A a, b : a \in ids /\ b \in ids =>
            (<<a, b>> \in Linked(ids, edges, {"summary"})
               <=> <<a, b>> \in Linked(DOMAIN grown, more, {"summary"}))
    BY LinkedLeaf
  <1>6. \A a : <<a, m>> \in Linked(DOMAIN grown, more, {"summary"}) => tie.rel = "summary"
    <2>1. \A a : <<a, m>> \in Linked(DOMAIN grown, more, {"summary"}) => tie.rel \in {"summary"}
      BY LinkedLeaf, Zenon
    <2> QED
      BY <2>1
  <1> HIDE DEF nodes, main, mains, alt, alts
  <1>7. FloorMembers(grown, mains) = FloorMembers(nodes, main)
    <2>1. m \in mains => Pending(grown[m])
      BY <1>3
    <2> QED
      BY <1>1, <1>2, <1>3, <1>4, <2>1 DEF FloorMembers
  <1>8. \A n \in FloorMembers(nodes, main) : grown[n] = nodes[n]
    BY <1>2, <1>4 DEF FloorMembers
  <1>9. RelaxDuration(grown, mains) = RelaxDuration(nodes, main)
        /\ RelaxEpisodes(grown, mains) = RelaxEpisodes(nodes, main)
    BY <1>7, <1>8, Zenon DEF RelaxDuration, RelaxEpisodes
  <1>10. ASSUME NEW n \in ids
         PROVE  ClassOf(grown, more, mains, alts, n) = ClassOf(nodes, edges, main, alt, n)
    <2>1. (n \in mains <=> n \in main) /\ (n \in alts <=> n \in alt)
      BY <1>3
    <2>2. n \in Recaps(more) <=> n \in Recaps(edges)
      BY <1>1 DEF Recaps
    <2>3. (\E a \in mains \cup alts : <<n, a>> \in Linked(DOMAIN grown, more, {"summary"}))
          <=> (\E a \in main \cup alt : <<n, a>> \in Linked(DOMAIN nodes, edges, {"summary"}))
      <3>1. ASSUME NEW a \in main \cup alt
            PROVE  a \in mains \cup alts /\ a \in ids
        BY <1>3, <1>4
      <3>2. ASSUME NEW a \in mains \cup alts, <<n, a>> \in Linked(DOMAIN grown, more, {"summary"})
            PROVE  a \in main \cup alt /\ a \in ids
        <4>1. a # m
          BY <1>3, <1>6, <3>2 DEF MainChainRels, AltChainRels
        <4>2. a \in ids
          BY <1>4, <4>1
        <4> QED
          BY <1>3, <4>2
      <3> HIDE DEF ids, more
      <3> QED
        BY <1>2, <1>5, <3>1, <3>2
    <2>4. nodes[n] = grown[n]
      BY <1>2
    <2> QED
      BY <1>2, <1>9, <2>1, <2>2, <2>3, <2>4, Zenon DEF ClassOf
  <1>11. Classify(nodes, edges) = [n \in ids |-> ClassOf(nodes, edges, main, alt, n)]
    BY <1>2, ClassifyIs DEF main, alt
  <1>12. Among(Classify(grown, more), ids) = [n \in ids |-> ClassOf(grown, more, mains, alts, n)]
    <2>1. Classify(grown, more) = [n \in DOMAIN grown |-> ClassOf(grown, more, mains, alts, n)]
      BY ClassifyIs DEF mains, alts
    <2>2. DOMAIN Classify(grown, more) \cap ids = ids
      BY <2>1
    <2> HIDE DEF ids
    <2> QED
      BY <1>1, <2>1, <2>2 DEF Among
  <1> QED
    BY <1>10, <1>11, <1>12 DEF nodes

-----------------------------------------------------------------------------
(* The spoiler frontier *)

\* The lowest of some numbers is one of them.
LEMMA MinOfNaturals ==
    ASSUME NEW S, S \subseteq Nat, S # {}
    PROVE  Min(S) \in S /\ \A y \in S : Min(S) <= y
  <1>1. PICK d \in S : \A e \in S : ~ (<<e, d>> \in OpToRel(<, Nat))
    BY NatLessThanWellFounded, WFMin
  <1>2. ASSUME NEW y \in S PROVE d <= y
    <2>1. y \in Nat /\ d \in Nat
      OBVIOUS
    <2>2. ~ (y < d)
      BY <1>1, <2>1 DEF OpToRel
    <2> QED
      BY <2>1, <2>2
  <1> QED
    BY <1>2 DEF Min

\* What the docstring of spoiler_service says is shown of a franchise.
Shown(anchors, rated, m) ==
    m \in rated \/ ~\E a \in anchors : a < m /\ \A b \in anchors \cap rated : b < a

\* Over the media 1 .. n, in that order, with at least one anchor.
LEMMA FrontierExact ==
    ASSUME NEW n \in Nat, NEW anchors, anchors \subseteq 1 .. n, anchors # {},
           NEW rated, rated \subseteq 1 .. n,
           NEW order \in [1 .. n -> 1 .. n], \A i \in 1 .. n : order[i] = i
    PROVE  \A m : m \in VisibleMedia(order, anchors, rated) <=> m \in 1 .. n /\ Shown(anchors, rated, m)
  <1> DEFINE last == LastRated(order, anchors, rated)
             open == {i \in anchors \ rated : i > last}
             frontier == FrontierOf(order, anchors, rated)
  <1>1. DOMAIN order = 1 .. n /\ Len(order) = n /\ order # <<>> /\ \A i \in 1 .. n : order[i] = i
    <2>1. DOMAIN order = 1 .. n /\ \A i \in 1 .. n : order[i] = i
      OBVIOUS
    <2>2. order \in Seq(1 .. n)
      <3>1. order \in [1 .. n -> 1 .. n]
        OBVIOUS
      <3> QED
        BY <3>1, SeqDef
    <2>3. Len(order) = n
      BY <2>1, <2>2, LenProperties
    <2>4. n # 0
      <3>1. PICK a \in anchors : TRUE
        OBVIOUS
      <3>2. a \in 1 .. n
        BY <3>1
      <3> QED
        BY <3>2
    <2> QED
      BY <2>1, <2>3, <2>4
  <1>2. \A S : S \subseteq 1 .. n => AnchorsOf(order, S) = S
    BY <1>1 DEF AnchorsOf
  <1>3. last \in 0 .. n /\ (\A b \in anchors \cap rated : b <= last)
        /\ (last # 0 => last \in anchors \cap rated)
    <2>1. AnchorsOf(order, anchors \cap rated) = anchors \cap rated
      BY <1>2
    <2>2. last = IF anchors \cap rated = {} THEN 0 ELSE Max(anchors \cap rated)
      BY <2>1 DEF LastRated
    <2>3. anchors \cap rated \subseteq 0 .. n
      OBVIOUS
    <2>4. anchors \cap rated # {} =>
            /\ Max(anchors \cap rated) \in anchors \cap rated
            /\ \A y \in anchors \cap rated : y <= Max(anchors \cap rated)
      BY <2>3, MaxOfBounded
    <2> HIDE DEF last
    <2>5. CASE anchors \cap rated = {}
      BY <2>2, <2>5
    <2>6. CASE anchors \cap rated # {}
      <3>1. last \in anchors \cap rated /\ \A y \in anchors \cap rated : y <= last
        BY <2>2, <2>4, <2>6
      <3> QED
        BY <2>3, <3>1
    <2> QED
      BY <2>5, <2>6
  <1> HIDE DEF last
  <1>4. frontier = IF open = {} THEN n ELSE Min(open)
    <2>1. AnchorsOf(order, anchors \ rated) = anchors \ rated
      BY <1>2
    <2> QED
      BY <1>1, <2>1 DEF FrontierOf, last
  <1>5. open \subseteq 1 .. n
    OBVIOUS
  \* An anchor beyond every rated one is an open one.
  <1>6. ASSUME NEW a \in anchors
        PROVE  (\A b \in anchors \cap rated : b < a) <=> a \in open
    <2>1. a \in Int /\ 1 <= a /\ last \in Int
      BY <1>3
    <2>2. ASSUME \A b \in anchors \cap rated : b < a PROVE a \in open
      <3>1. a > last
        BY <1>3, <2>1, <2>2
      <3>2. a \notin rated
        BY <2>1, <2>2
      <3> QED
        BY <3>1, <3>2
    <2>3. ASSUME a \in open PROVE \A b \in anchors \cap rated : b < a
      <3>1. a > last
        BY <2>3
      <3>2. \A b \in anchors \cap rated : b \in Int /\ b <= last
        BY <1>3
      <3> QED
        BY <2>1, <3>1, <3>2
    <2> QED
      BY <2>2, <2>3
  <1> HIDE DEF open
  <1>7. ASSUME NEW m \in 1 .. n PROVE m <= frontier <=> ~\E a \in open : a < m
    <2>1. CASE open = {}
      BY <1>4, <2>1
    <2>2. CASE open # {}
      <3>1. open \subseteq Nat
        BY <1>5
      <3>2. Min(open) \in open /\ \A y \in open : Min(open) <= y
        BY <2>2, <3>1, MinOfNaturals
      <3>3. frontier \in open /\ \A y \in open : frontier <= y
        BY <1>4, <2>2, <3>2
      <3> HIDE DEF frontier
      <3>4. frontier \in Int /\ \A y \in open : y \in Int
        BY <3>1, <3>3
      <3> QED
        BY <3>3, <3>4
    <2> QED
      BY <2>1, <2>2
  <1>8. VisibleMedia(order, anchors, rated) = {m \in 1 .. n : m <= frontier \/ m \in rated}
    <2>1. AnchorsOf(order, anchors) # {}
      BY <1>2
    <2> HIDE DEF frontier
    <2> QED
      BY <1>1, <2>1 DEF VisibleMedia, frontier
  <1>9. \A m \in 1 .. n : (\E a \in open : a < m) <=>
                          (\E a \in anchors : a < m /\ \A b \in anchors \cap rated : b < a)
    BY <1>6 DEF open
  <1> QED
    BY <1>7, <1>8, <1>9 DEF Shown

-----------------------------------------------------------------------------
(* A franchise that grows *)

\* The entries are numbered as they came, each with all its numbers, and their pages list
\* one another.
LinkIn(ids) == [to : ids, rel : Relations]
Grown(world) ==
    /\ \E n \in Nat \ {0} : DOMAIN world = 1 .. n
    /\ \A m \in DOMAIN world : Dated(world[m].entry) /\ world[m].links \in Seq(LinkIn(DOMAIN world))

\* Nothing is scraped while a franchise grows.
GrowthInv == scrapes \in Nat /\ (Growing => walk.pc = "idle" /\ Grown(mal))

LEMMA GrownGraph ==
    ASSUME NEW world, Grown(world)
    PROVE  /\ IsGraph(NodesOf(world)) /\ DOMAIN NodesOf(world) = DOMAIN world
           /\ \A m \in DOMAIN world : NodesOf(world)[m] = world[m].entry
           /\ \A e \in EdgesOf(world) : e.from \in DOMAIN world /\ e.to \in DOMAIN world
  <1>1. PICK n \in Nat \ {0} : DOMAIN world = 1 .. n
    BY DEF Grown
  <1>2. IsFiniteSet(1 .. n) /\ 1 .. n # {}
    <2>1. 1 \in 1 .. n /\ 1 \in Int /\ n \in Int
      OBVIOUS
    <2> QED
      BY <2>1, FS_Interval
  <1>3. IsGraph(NodesOf(world)) /\ DOMAIN NodesOf(world) = DOMAIN world
        /\ \A m \in DOMAIN world : NodesOf(world)[m] = world[m].entry
    BY <1>1, <1>2 DEF Grown, IsGraph, NodesOf
  <1>4. ASSUME NEW e \in EdgesOf(world) PROVE e.from \in DOMAIN world /\ e.to \in DOMAIN world
    <2>0. PICK m \in DOMAIN world : \E l \in ToSet(world[m].links) : e = [from |-> m, to |-> l.to, rel |-> l.rel]
      BY DEF EdgesOf
    <2>1. PICK l \in ToSet(world[m].links) : e = [from |-> m, to |-> l.to, rel |-> l.rel]
      BY <2>0
    <2>2. l \in LinkIn(DOMAIN world)
      <3>1. world[m].links \in Seq(LinkIn(DOMAIN world))
        BY DEF Grown
      <3> QED
        BY <3>1 DEF ToSet
    <2> QED
      BY <2>1, <2>2 DEF LinkIn
  <1> QED
    BY <1>3, <1>4

LEMMA EntryType ==
    ASSUME NEW k \in Kinds, NEW id \in Int
    PROVE  Dated(Entry(k, id))
  <1>1. k \in DOMAIN EntryKinds
    BY GrowthAssumption
  <1>2. \A x \in DOMAIN EntryKinds : EntryKinds[x].scored_by \in Int
    BY DEF EntryKinds, Numbers
  <1> QED
    BY <1>1, <1>2 DEF Entry, None, Dated

LEMMA GrowthInit_Inv == GrowthInit => GrowthInv
  <1> SUFFICES ASSUME GrowthInit PROVE GrowthInv
    OBVIOUS
  <1>1. PICK k \in Kinds : mal = [n \in {1} |-> Listing(k, 1, <<>>)]
    BY DEF GrowthInit
  <1>2. DOMAIN mal = 1 .. 1 /\ mal[1].entry = Entry(k, 1) /\ mal[1].links = <<>>
    BY <1>1 DEF Listing
  <1>3. Grown(mal)
    <2>1. Dated(mal[1].entry)
      BY <1>2, EntryType
    <2>2. mal[1].links \in Seq(LinkIn(DOMAIN mal))
      BY <1>2
    <2>3. DOMAIN mal = 1 .. 1 /\ \A m \in DOMAIN mal : m = 1
      BY <1>2
    <2>4. \E n \in Nat \ {0} : DOMAIN mal = 1 .. n
      BY <2>3
    <2> QED
      BY <2>1, <2>2, <2>3, <2>4 DEF Grown
  <1> QED
    BY <1>3, WalkAssumption DEF GrowthInit, GrowthInv, Idle

\* A step of a scrape: one that is under way, or a new one while the bound allows it.
LEMMA ScrapeSteps ==
    ASSUME Next
    PROVE  /\ mal' = mal
           /\ \/ walk.pc # "idle" /\ scrapes' = scrapes
              \/ scrapes < MaxScrapes /\ scrapes' = scrapes + 1
  <1>1. CASE \E s \in Searches : Begin(s)
    BY <1>1, Zenon DEF Begin
  <1>2. CASE NextRoot
    BY <1>2 DEF NextRoot
  <1>3. CASE Visit
    <2>1. walk.pc = "walk" /\ mal' = mal /\ scrapes' = scrapes
      BY <1>3, Zenon DEF Visit
    <2> QED
      BY <2>1
  <1>4. CASE EndGraph
    <2>1. walk.pc = "walk" /\ mal' = mal /\ scrapes' = scrapes
      BY <1>4, Zenon DEF EndGraph
    <2> QED
      BY <2>1
  <1>5. CASE Judge
    BY <1>5 DEF Judge
  <1>6. CASE Save
    <2>1. walk.pc = "save" /\ mal' = mal /\ scrapes' = scrapes
      BY <1>6, Zenon DEF Save
    <2> QED
      BY <2>1
  <1>7. CASE Attach
    <2>1. walk.pc = "attach" /\ mal' = mal /\ scrapes' = scrapes
      BY <1>7, Zenon DEF Attach
    <2> QED
      BY <2>1
  <1>8. CASE Fail
    BY <1>8 DEF Fail
  <1>9. CASE Finish
    BY <1>9 DEF Finish
  <1> QED
    BY <1>1, <1>2, <1>3, <1>4, <1>5, <1>6, <1>7, <1>8, <1>9 DEF Next

LEMMA SeqWider ==
    ASSUME NEW S, NEW T, S \subseteq T, NEW s \in Seq(S)
    PROVE  s \in Seq(T)
  BY SeqDef

LEMMA NewEntry_Inv ==
    ASSUME Grown(mal), NEW k \in Kinds, NEW rel \in Relations, NEW m \in DOMAIN mal, NewEntry(k, rel, m)
    PROVE  /\ Grown(mal')
           /\ \E id : /\ id \notin DOMAIN mal /\ DOMAIN mal' = DOMAIN mal \cup {id}
                      /\ EdgesOf(mal') = EdgesOf(mal) \cup {[from |-> id, to |-> m, rel |-> rel]}
                      /\ \A n \in DOMAIN mal : mal'[n] = mal[n]
  <1>1. PICK n \in Nat \ {0} : DOMAIN mal = 1 .. n
    BY DEF Grown
  <1> DEFINE id == n + 1
             link == [to |-> m, rel |-> rel]
             tie == [from |-> id, to |-> m, rel |-> rel]
  <1>2. Cardinality(DOMAIN mal) = n
    BY <1>1, FS_Interval
  <1>3. mal' = [x \in DOMAIN mal \cup {id} |-> IF x = id THEN Listing(k, id, <<link>>) ELSE mal[x]]
    BY <1>2 DEF NewEntry
  <1>4. id \notin DOMAIN mal /\ DOMAIN mal \cup {id} = 1 .. id /\ id \in Nat \ {0}
    BY <1>1
  <1>5. /\ DOMAIN mal' = DOMAIN mal \cup {id} /\ \A x \in DOMAIN mal : mal'[x] = mal[x]
        /\ mal'[id].entry = Entry(k, id) /\ mal'[id].links = <<link>>
    BY <1>3, <1>4 DEF Listing
  <1>6. ToSet(<<link>>) = {link}
    BY DEF ToSet
  <1>7. EdgesOf(mal') = EdgesOf(mal) \cup {tie}
    <2> DEFINE Listed(w, x) == {[from |-> x, to |-> l.to, rel |-> l.rel] : l \in ToSet(w[x].links)}
    <2>1. \A w : EdgesOf(w) = UNION {Listed(w, x) : x \in DOMAIN w}
      BY DEF EdgesOf
    <2>2. Listed(mal', id) = {tie}
      BY <1>5, <1>6
    <2>3. \A x \in DOMAIN mal : Listed(mal', x) = Listed(mal, x)
      BY <1>5
    <2> HIDE DEF Listed, tie, id
    <2> QED
      BY <1>5, <2>1, <2>2, <2>3
  <1>8. Grown(mal')
    <2>1. \A x \in DOMAIN mal : Dated(mal'[x].entry) /\ mal'[x].links \in Seq(LinkIn(DOMAIN mal'))
      <3> TAKE x \in DOMAIN mal
      <3>1. Dated(mal[x].entry) /\ mal[x].links \in Seq(LinkIn(DOMAIN mal))
        BY DEF Grown
      <3>2. LinkIn(DOMAIN mal) \subseteq LinkIn(DOMAIN mal')
        BY <1>5 DEF LinkIn
      <3> QED
        BY <1>5, <3>1, <3>2, SeqWider
    <2>2. Dated(mal'[id].entry)
      BY <1>4, <1>5, EntryType
    <2>3. mal'[id].links \in Seq(LinkIn(DOMAIN mal'))
      <3>1. link \in LinkIn(DOMAIN mal')
        BY <1>5 DEF LinkIn
      <3> QED
        BY <1>5, <3>1
    <2> QED
      BY <1>4, <1>5, <2>1, <2>2, <2>3 DEF Grown
  <1> QED
    BY <1>4, <1>5, <1>7, <1>8

LEMMA NewRelation_Inv ==
    ASSUME Grown(mal), NEW a \in DOMAIN mal, NEW b \in DOMAIN mal, NEW rel \in Relations, NewRelation(a, b, rel)
    PROVE  Grown(mal') /\ DOMAIN mal' = DOMAIN mal
  <1> DEFINE link == [to |-> b, rel |-> rel]
  <1>1. mal' = [mal EXCEPT ![a].links = Append(mal[a].links, link)]
    BY DEF NewRelation
  <1>2. DOMAIN mal' = DOMAIN mal
    BY <1>1
  <1>3. \A x \in DOMAIN mal : mal'[x].entry = mal[x].entry
    BY <1>1
  <1>4. \A x \in DOMAIN mal : mal'[x].links = mal[x].links \/ mal'[x].links = Append(mal[x].links, link)
    BY <1>1
  <1>5. link \in LinkIn(DOMAIN mal)
    BY DEF LinkIn
  <1> HIDE DEF link
  <1>6. \A x \in DOMAIN mal : mal'[x].links \in Seq(LinkIn(DOMAIN mal))
    <2> TAKE x \in DOMAIN mal
    <2>1. mal[x].links \in Seq(LinkIn(DOMAIN mal))
      BY DEF Grown
    <2>2. Append(mal[x].links, link) \in Seq(LinkIn(DOMAIN mal))
      BY <1>5, <2>1
    <2> QED
      BY <1>4, <2>1, <2>2
  <1> QED
    BY <1>2, <1>3, <1>6 DEF Grown

LEMMA GrowthInductive == GrowthInv /\ [FNext]_vars => GrowthInv'
  <1> SUFFICES ASSUME GrowthInv, [FNext]_vars PROVE GrowthInv'
    OBVIOUS
  <1>1. CASE Next
    <2>1. ~Growing
      BY <1>1, ScrapeSteps, WalkAssumption DEF GrowthInv, Growing
    <2>2. scrapes' \in Nat /\ ~Growing'
      BY <1>1, <2>1, ScrapeSteps, WalkAssumption DEF GrowthInv, Growing
    <2> QED
      BY <2>2 DEF GrowthInv
  <1>2. CASE \E k \in Kinds, rel \in Relations, m \in DOMAIN mal : NewEntry(k, rel, m)
    <2>1. PICK k \in Kinds, rel \in Relations, m \in DOMAIN mal : NewEntry(k, rel, m)
      BY <1>2
    <2>2. Growing /\ walk' = walk /\ scrapes' = scrapes
      BY <2>1 DEF NewEntry
    <2>3. Grown(mal')
      BY <2>1, <2>2, NewEntry_Inv DEF GrowthInv
    <2> QED
      BY <2>2, <2>3 DEF GrowthInv
  <1>3. CASE \E a, b \in DOMAIN mal, rel \in Relations : NewRelation(a, b, rel)
    <2>1. PICK a \in DOMAIN mal, b \in DOMAIN mal, rel \in Relations : NewRelation(a, b, rel)
      BY <1>3
    <2>2. Growing /\ walk' = walk /\ scrapes' = scrapes
      BY <2>1 DEF NewRelation
    <2>3. Grown(mal')
      BY <2>1, <2>2, NewRelation_Inv DEF GrowthInv
    <2> QED
      BY <2>2, <2>3 DEF GrowthInv
  <1>4. CASE UNCHANGED vars
    BY <1>4 DEF vars, GrowthInv, Growing, Grown
  <1> QED
    BY <1>1, <1>2, <1>3, <1>4 DEF FNext

LEMMA FInit_Inv == FInit => GrowthInv
  <1>1. Init => GrowthInv
    BY WalkAssumption DEF Init, GrowthInv, Growing
  <1> QED
    BY <1>1, GrowthInit_Inv DEF FInit

LEMMA GrowthInvHolds == FSpec => []GrowthInv
  BY FInit_Inv, GrowthInductive, PTL DEF FSpec

\* Whatever MAL adds to a franchise, in whatever order: every cluster that is reported of
\* it can be cut out for good (execute_split, find_disjoint_franchises).
THEOREM SplitIsFinalHolds == FSpec => []SplitIsFinal
  <1>1. GrowthInv => SplitIsFinal
    <2> SUFFICES ASSUME GrowthInv, Growing PROVE SplitIsFinal
      BY Zenon DEF SplitIsFinal
    <2> DEFINE nodes == NodesOf(mal)
               edges == EdgesOf(mal)
    <2>1. IsGraph(nodes)
      BY GrownGraph DEF GrowthInv
    <2> HIDE DEF nodes, edges
    <2>2. ASSUME NEW f \in DisjointFranchises(nodes, edges)
          PROVE  LET rest == Among(nodes, DOMAIN nodes \ f.members)
                     part == Among(nodes, f.members)
                 IN  /\ PickAnchor(rest) = PickAnchor(nodes)
                     /\ Classify(rest, edges) = Among(Classify(nodes, edges), DOMAIN rest)
                     /\ DisjointFranchises(rest, edges) = DisjointFranchises(nodes, edges) \ {f}
                     /\ MainChain(part, edges) = f.members /\ DisjointFranchises(part, edges) = {}
      <3>1. CutOut(nodes, edges, f)
        BY <2>1, CutIsFinal
      <3> QED
        BY <3>1 DEF CutOut
    <2> QED
      BY <2>2, Zenon DEF SplitIsFinal, nodes, edges
  <1> QED
    BY <1>1, GrowthInvHolds, PTL

\* Of every franchise that may grow, whatever of it is rated: what is shown is what the
\* docstring of spoiler_service says (compute_visible_media).
THEOREM FrontierHolds == FSpec => []FrontierAsSpecified
  <1>1. GrowthInv => FrontierAsSpecified
    <2> SUFFICES ASSUME GrowthInv, Growing PROVE FrontierAsSpecified
      BY Zenon DEF FrontierAsSpecified
    <2> DEFINE nodes == NodesOf(mal)
               classes == Classify(nodes, EdgesOf(mal))
               anchors == {m \in DOMAIN mal : classes[m] \in {"main", "alternative_version"}}
               order == [i \in DOMAIN mal |-> i]
    <2>1. Grown(mal) /\ IsGraph(nodes) /\ DOMAIN nodes = DOMAIN mal
      BY GrownGraph DEF GrowthInv
    <2>2. PICK n \in Nat \ {0} : DOMAIN mal = 1 .. n
      BY <2>1 DEF Grown
    <2>3. PickAnchor(nodes) \in DOMAIN mal /\ classes[PickAnchor(nodes)] = "main"
      <3>1. PickAnchor(nodes) \in DOMAIN mal
        BY <2>1, AnchorFirst
      <3> HIDE DEF nodes
      <3> QED
        BY <2>1, <3>1, ClassifyIs DEF ClassOf
    <2> HIDE DEF nodes, classes
    <2>4. /\ anchors \subseteq 1 .. n /\ anchors # {}
          /\ order \in [1 .. n -> 1 .. n] /\ \A i \in 1 .. n : order[i] = i
      BY <2>2, <2>3
    <2> HIDE DEF anchors, order
    <2>5. ASSUME NEW rated \in SUBSET DOMAIN mal
          PROVE  VisibleMedia(order, anchors, rated) =
                   {m \in DOMAIN mal : m \in rated \/ ~\E a \in anchors : a < m /\ \A b \in anchors \cap rated : b < a}
      <3>1. n \in Nat /\ rated \subseteq 1 .. n
        BY <2>2, <2>5
      <3>2. \A m : m \in VisibleMedia(order, anchors, rated) <=> m \in 1 .. n /\ Shown(anchors, rated, m)
        BY <2>4, <3>1, FrontierExact
      <3> QED
        BY <2>2, <3>2 DEF Shown
    <2> QED
      BY <2>5, Zenon DEF FrontierAsSpecified, order, anchors, classes, nodes
  <1> QED
    BY <1>1, GrowthInvHolds, PTL

\* What MAL adds to a franchise disturbs nothing before it has aired, nor off the main
\* chain (_pick_anchor, classify_anime_relations).
THEOREM NewEntryHarmlessHolds == FSpec => NewEntryHarmless
  <1>1. ASSUME GrowthInv, NEW k \in Kinds, NEW rel \in Relations, NEW p \in DOMAIN mal, NewEntry(k, rel, p)
        PROVE  Harmless
    <2> DEFINE nodes == NodesOf(mal)
               grown == NodesOf(mal')
               edges == EdgesOf(mal)
               more == EdgesOf(mal')
    <2>1. Growing /\ Grown(mal)
      BY <1>1 DEF NewEntry, GrowthInv
    <2>2. Grown(mal') /\ \E id : /\ id \notin DOMAIN mal /\ DOMAIN mal' = DOMAIN mal \cup {id}
                            /\ EdgesOf(mal') = EdgesOf(mal) \cup {[from |-> id, to |-> p, rel |-> rel]}
                            /\ \A n \in DOMAIN mal : mal'[n] = mal[n]
      BY <1>1, <2>1, NewEntry_Inv
    <2>3. PICK id : /\ id \notin DOMAIN mal /\ DOMAIN mal' = DOMAIN mal \cup {id}
                    /\ more = edges \cup {[from |-> id, to |-> p, rel |-> rel]}
                    /\ \A n \in DOMAIN mal : mal'[n] = mal[n]
      BY <2>2
    <2> DEFINE tie == [from |-> id, to |-> p, rel |-> rel]
               ids == DOMAIN grown \ {id}
    <2>4. /\ IsGraph(nodes) /\ DOMAIN nodes = DOMAIN mal /\ \A n \in DOMAIN mal : nodes[n] = mal[n].entry
          /\ \A e \in edges : e.from \in DOMAIN mal /\ e.to \in DOMAIN mal
      BY <2>1, GrownGraph
    <2>5. IsGraph(grown) /\ DOMAIN grown = DOMAIN mal' /\ \A n \in DOMAIN mal' : grown[n] = mal'[n].entry
      BY <2>2, GrownGraph
    <2>6. ids = DOMAIN mal /\ id \in DOMAIN grown
      BY <2>3, <2>5
    <2>7. nodes = Among(grown, ids)
      <3>1. DOMAIN grown \cap ids = DOMAIN mal
        BY <2>3, <2>5, <2>6
      <3>2. \A n \in DOMAIN mal : grown[n] = nodes[n]
        BY <2>3, <2>4, <2>5
      <3>3. nodes = [n \in DOMAIN mal |-> nodes[n]]
        BY DEF NodesOf
      <3> HIDE DEF nodes, grown, ids
      <3> QED
        BY <3>1, <3>2, <3>3 DEF Among
    <2>8. Hangs(grown, edges, id, tie)
      BY <2>3, <2>4, <2>5, <2>6 DEF Hangs
    <2> HIDE DEF nodes, grown, edges, more, ids
    <2>9. ASSUME PickAnchor(grown) # id PROVE PickAnchor(grown) = PickAnchor(nodes)
      <3>1. PickAnchor(Among(grown, DOMAIN grown \ {id})) = PickAnchor(grown)
        BY <2>5, <2>6, <2>9, AnchorGrown
      <3> QED
        BY <2>7, <3>1 DEF ids
    <2>10. ASSUME Pending(grown[id]), Eligible(nodes) # {} PROVE PickAnchor(grown) = PickAnchor(nodes)
      <3>1. Eligible(nodes) \subseteq Eligible(grown)
        BY <2>3, <2>4, <2>5 DEF Eligible
      <3>2. Eligible(grown) # {} /\ id \notin Eligible(grown)
        BY <2>10, <3>1 DEF Eligible
      <3>3. PickAnchor(grown) \in Eligible(grown)
        BY <2>5, <3>2, AnchorFirst DEF Candidates
      <3> QED
        BY <2>9, <3>2, <3>3
    <2>11. ASSUME Pending(grown[id]) \/ (\E e \in more \ edges : e.from = id /\ e.rel \notin MainChainRels),
                  PickAnchor(grown) # id
           PROVE  Classify(nodes, edges) = Among(Classify(grown, more), DOMAIN nodes)
      <3>1. Pending(grown[id]) \/ tie.rel \notin MainChainRels
        BY <2>3, <2>11
      <3>2. more = edges \cup {tie}
        BY <2>3 DEF more, edges
      <3> HIDE DEF tie
      <3>3. Classify(Among(grown, DOMAIN grown \ {id}), edges)
              = Among(Classify(grown, edges \cup {tie}), DOMAIN grown \ {id})
        <4>1. IsGraph(grown) /\ Hangs(grown, edges, id, tie) /\ PickAnchor(grown) # id
          BY <2>5, <2>8, <2>11
        <4> QED
          BY <3>1, <4>1, GrownClassify, Zenon
      <3> QED
        BY <2>4, <2>6, <2>7, <3>2, <3>3 DEF ids
    <2>12. \A m \in DOMAIN mal' \ DOMAIN mal : m = id
      BY <2>3
    <2>13. Harmless = \A m \in DOMAIN mal' \ DOMAIN mal :
              LET aside == \E e \in more \ edges : e.from = m /\ e.rel \notin MainChainRels
              IN  /\ Pending(grown[m]) /\ Eligible(nodes) # {} => PickAnchor(grown) = PickAnchor(nodes)
                  /\ (Pending(grown[m]) \/ aside) /\ PickAnchor(grown) # m =>
                       Classify(nodes, edges) = Among(Classify(grown, more), DOMAIN nodes)
      BY Zenon DEF Harmless, nodes, grown, edges, more
    <2> QED
      BY <2>10, <2>11, <2>12, <2>13
  <1>2. ASSUME DOMAIN mal' \subseteq DOMAIN mal PROVE Harmless
    BY <1>2, Zenon DEF Harmless
  <1>3. GrowthInv /\ [FNext]_vars => [Harmless]_vars
    <2> SUFFICES ASSUME GrowthInv, FNext PROVE Harmless
      BY DEF Harmless
    <2>1. CASE Next
      <3>1. mal' = mal
        BY <2>1, ScrapeSteps
      <3> QED
        BY <1>2, <3>1
    <2>2. CASE \E k \in Kinds, rel \in Relations, m \in DOMAIN mal : NewEntry(k, rel, m)
      BY <1>1, <2>2
    <2>3. CASE \E a, b \in DOMAIN mal, rel \in Relations : NewRelation(a, b, rel)
      <3>1. PICK a \in DOMAIN mal, b \in DOMAIN mal, rel \in Relations : NewRelation(a, b, rel)
        BY <2>3
      <3>2. DOMAIN mal' = DOMAIN mal
        BY <3>1 DEF NewRelation
      <3> QED
        BY <1>2, <3>2
    <2> QED
      BY <2>1, <2>2, <2>3 DEF FNext
  <1> QED
    BY <1>3, GrowthInvHolds, PTL DEF FSpec, NewEntryHarmless
=============================================================================
