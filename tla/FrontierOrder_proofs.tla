------------------------ MODULE FrontierOrder_proofs ------------------------
(***************************************************************************)
(* Proofs about the order in which a drive runs its nodes, in playbooks    *)
(* that a run goes through once: what a walk reaches, when a join is open, *)
(* what the journal keeps to, and that a turn and a node run alone leave   *)
(* nothing begun that lies behind what is still at work.                   *)
(***************************************************************************)
EXTENDS Frontier_proofs

-----------------------------------------------------------------------------
(* Walks *)

\* What a walk has seen after a step more.
Wider(seen, next) == seen \cup UNION {next[x] : x \in seen}

\* What a walk has seen after each of its steps.
Walked(start, next, steps, at) ==
  /\ DOMAIN at = 0 .. steps /\ at[0] = start /\ Walk(start, next, steps) = at[steps]
  /\ \A k \in 1 .. steps : at[k] = Wider(at[k - 1], next)

\* A walk is the last of such a sequence.
LEMMA WalkSteps ==
  ASSUME NEW start, NEW next, NEW steps \in Nat
  PROVE  \E at : Walked(start, next, steps, at)
<1> DEFINE log == [k \in 1 .. steps |-> k]
           Of(f, m) == f = [S \in SUBSET (1 .. m) |->
                              IF S = {} THEN start ELSE Wider(f[S \ {Max(S)}], next)]
           Defined == {m \in Nat : \E f : Of(f, m)}
<1>1. 0 \in Defined
  <2> DEFINE f == [S \in SUBSET (1 .. 0) |-> start]
  <2>1. \A S \in SUBSET (1 .. 0) : S = {}
    OBVIOUS
  <2>2. Of(f, 0)
    BY <2>1
  <2> HIDE DEF Of, f
  <2> QED BY <2>2
<1>2. ASSUME NEW m \in Nat, m \in Defined PROVE m + 1 \in Defined
  <2>1. PICK f : Of(f, m)
    BY <1>2
  <2>2. \A S \in SUBSET (1 .. m) :
          f[S] = IF S = {} THEN start ELSE Wider(f[S \ {Max(S)}], next)
    BY <2>1
  <2> DEFINE g == [S \in SUBSET (1 .. m + 1) |->
                     IF m + 1 \in S THEN Wider(f[S \ {m + 1}], next) ELSE f[S]]
  <2>3. \A S \in SUBSET (1 .. m + 1) :
          g[S] = IF S = {} THEN start ELSE Wider(g[S \ {Max(S)}], next)
    <3> SUFFICES ASSUME NEW S \in SUBSET (1 .. m + 1)
                 PROVE  g[S] = IF S = {} THEN start ELSE Wider(g[S \ {Max(S)}], next)
      OBVIOUS
    <3>1. \A T \in SUBSET (1 .. m) : g[T] = f[T]
      OBVIOUS
    <3>2. CASE m + 1 \in S
      <4>1. Max(S) = m + 1 /\ S \ {m + 1} \in SUBSET (1 .. m) /\ S # {}
        BY <3>2, LastPositions
      <4>2. g[S] = Wider(f[S \ {m + 1}], next)
        BY <3>2
      <4> HIDE DEF g
      <4> QED BY <3>1, <4>1, <4>2
    <3>3. CASE m + 1 \notin S
      <4>1. S \in SUBSET (1 .. m)
        BY <3>3
      <4>2. S # {} => S \ {Max(S)} \in SUBSET (1 .. m)
        BY <4>1, LastPositions
      <4> HIDE DEF g
      <4> QED BY <2>2, <3>1, <4>1, <4>2
    <3> QED BY <3>2, <3>3
  <2>4. g = [S \in SUBSET (1 .. m + 1) |-> g[S]]
    OBVIOUS
  <2> HIDE DEF g
  <2>5. Of(g, m + 1)
    BY <2>3, <2>4
  <2> HIDE DEF Of
  <2> QED BY <2>5
<1>3. steps \in Defined
  <2> HIDE DEF Defined
  <2> QED BY <1>1, <1>2, Induction
<1> DEFINE iter == CHOOSE f : Of(f, steps)
<1>4. Of(iter, steps)
  <2>1. \E f : Of(f, steps)
    BY <1>3
  <2> HIDE DEF Of
  <2> QED BY <2>1
<1>5. Walk(start, next, steps) = iter[1 .. steps]
  <2>1. Len(log) = steps /\ log \in Seq(Nat)
    OBVIOUS
  <2> QED BY <2>1 DEF Walk, FoldLeft, MapThenFoldSet, Wider
<1> HIDE DEF iter
<1>6. \A S \in SUBSET (1 .. steps) :
        iter[S] = IF S = {} THEN start ELSE Wider(iter[S \ {Max(S)}], next)
  BY <1>4
<1> DEFINE at == [k \in 0 .. steps |-> iter[1 .. k]]
<1>7. at[0] = start
  <2>1. 1 .. 0 = {} /\ 0 \in 0 .. steps /\ {} \in SUBSET (1 .. steps)
    OBVIOUS
  <2> QED BY <1>6, <2>1
<1>8. \A k \in 1 .. steps : at[k] = Wider(at[k - 1], next)
  <2> SUFFICES ASSUME NEW k \in 1 .. steps PROVE at[k] = Wider(at[k - 1], next)
    OBVIOUS
  <2>1. Max(1 .. k) = k /\ (1 .. k) \ {k} = 1 .. k - 1
    <3>1. k - 1 \in Nat /\ (k - 1) + 1 = k
      OBVIOUS
    <3> QED BY <3>1, LastPositions
  <2>2. 1 .. k \in SUBSET (1 .. steps) /\ 1 .. k # {} /\ k \in 0 .. steps /\ k - 1 \in 0 .. steps
    OBVIOUS
  <2> QED BY <1>6, <2>1, <2>2
<1>9. DOMAIN at = 0 .. steps /\ at[steps] = iter[1 .. steps]
  OBVIOUS
<1> HIDE DEF at
<1>10. Walked(start, next, steps, at)
  BY <1>5, <1>7, <1>8, <1>9 DEF Walked
<1> QED BY <1>10

\* A walk stays within every set that holds its start and that its steps do not leave.
LEMMA WalkStaysWithin ==
  ASSUME NEW start, NEW next, NEW steps \in Nat, NEW S, start \subseteq S, \A x \in S : next[x] \subseteq S
  PROVE  Walk(start, next, steps) \subseteq S
<1>1. PICK at : Walked(start, next, steps, at)
  BY WalkSteps
<1> DEFINE Inside == {k \in Nat : k <= steps => at[k] \subseteq S}
<1>2. 0 \in Inside
  BY <1>1 DEF Walked
<1>3. ASSUME NEW k \in Nat, k \in Inside PROVE k + 1 \in Inside
  <2>1. CASE k + 1 <= steps
    <3>1. k + 1 \in 1 .. steps /\ (k + 1) - 1 = k /\ k <= steps
      BY <2>1
    <3>2. at[k + 1] = Wider(at[k], next)
      BY <1>1, <3>1 DEF Walked
    <3>3. at[k] \subseteq S
      BY <1>3, <3>1
    <3> QED BY <3>2, <3>3 DEF Wider
  <2>2. CASE ~(k + 1 <= steps)
    BY <2>2
  <2> QED BY <2>1, <2>2
<1>4. steps \in Inside
  <2> HIDE DEF Inside
  <2> QED BY <1>2, <1>3, Induction
<1> QED BY <1>1, <1>4 DEF Walked

\* A walk of as many steps as there are places has seen all there is: no step leads out of it.
LEMMA WalkIsClosed ==
  ASSUME NEW D, IsFiniteSet(D), NEW start \in SUBSET D, NEW next, \A x \in D : next[x] \subseteq D,
         NEW steps \in Nat, Cardinality(D) <= steps
  PROVE  /\ start \subseteq Walk(start, next, steps) /\ Walk(start, next, steps) \subseteq D
         /\ \A x \in Walk(start, next, steps) : next[x] \subseteq Walk(start, next, steps)
<1>1. PICK at : Walked(start, next, steps, at)
  BY WalkSteps
<1> DEFINE Closed(S) == \A x \in S : next[x] \subseteq S
           Wide == {k \in Nat : k <= steps =>
                      /\ start \subseteq at[k] /\ at[k] \subseteq D
                      /\ Closed(at[k]) \/ Cardinality(at[k]) >= k}
<1>2. 0 \in Wide
  <2>1. at[0] = start /\ IsFiniteSet(start)
    BY <1>1, FS_Subset DEF Walked
  <2>2. Cardinality(start) \in Nat
    BY <2>1, FS_CardinalityType
  <2> QED BY <2>1, <2>2
<1>3. ASSUME NEW k \in Nat, k \in Wide PROVE k + 1 \in Wide
  <2>1. CASE k + 1 <= steps
    <3>1. k + 1 \in 1 .. steps /\ (k + 1) - 1 = k /\ k <= steps
      BY <2>1
    <3>2. at[k + 1] = Wider(at[k], next)
      BY <1>1, <3>1 DEF Walked
    <3>3. start \subseteq at[k] /\ at[k] \subseteq D /\ (Closed(at[k]) \/ Cardinality(at[k]) >= k)
      BY <1>3, <3>1
    <3>4. at[k] \subseteq at[k + 1] /\ at[k + 1] \subseteq D
      BY <3>2, <3>3 DEF Wider
    <3>5. CASE Closed(at[k])
      <4>1. at[k + 1] = at[k]
        BY <3>2, <3>5 DEF Wider
      <4> QED BY <3>3, <3>5, <4>1
    <3>6. CASE ~Closed(at[k])
      <4>1. at[k + 1] # at[k]
        BY <3>2, <3>6 DEF Wider
      <4>2. IsFiniteSet(at[k + 1]) /\ IsFiniteSet(at[k])
        BY <3>3, <3>4, FS_Subset
      <4>3. /\ Cardinality(at[k]) <= Cardinality(at[k + 1]) /\ Cardinality(at[k]) # Cardinality(at[k + 1])
        BY <3>4, <4>1, <4>2, FS_Subset
      <4>4. Cardinality(at[k]) \in Nat /\ Cardinality(at[k + 1]) \in Nat
        BY <4>2, FS_CardinalityType
      <4>5. Cardinality(at[k + 1]) >= k + 1
        BY <3>3, <3>6, <4>3, <4>4
      <4> QED BY <3>3, <3>4, <4>5
    <3> QED BY <3>5, <3>6
  <2>2. CASE ~(k + 1 <= steps)
    BY <2>2
  <2> QED BY <2>1, <2>2
<1>4. steps \in Wide
  <2> HIDE DEF Wide
  <2> QED BY <1>2, <1>3, Induction
<1>5. start \subseteq at[steps] /\ at[steps] \subseteq D /\ (Closed(at[steps]) \/ Cardinality(at[steps]) >= steps)
  BY <1>4
<1>6. Cardinality(at[steps]) >= steps => at[steps] = D
  <2>1. IsFiniteSet(at[steps]) /\ Cardinality(at[steps]) <= Cardinality(D)
        /\ (Cardinality(D) = Cardinality(at[steps]) => D = at[steps])
    BY <1>5, FS_Subset
  <2>2. Cardinality(at[steps]) \in Nat /\ Cardinality(D) \in Nat
    BY <2>1, FS_CardinalityType
  <2> QED BY <2>1, <2>2
<1>7. Closed(at[steps])
  BY <1>5, <1>6
<1> QED BY <1>1, <1>5, <1>7 DEF Walked

-----------------------------------------------------------------------------
(* What is reachable *)

\* What the drive may still lead to once a node has finished.
Beyond(n) == UNION {Reach(t) : t \in Targets(n)}

\* What a node reaches, as the walk that computes it.
LEMMA ReachIsWalk ==
  ASSUME shape \in DOMAIN Graphs, NEW n \in Nodes
  PROVE  /\ Reach(n) = Walk({n}, [m \in Nodes |-> Targets(m)], Len(Graph.nodes))
         /\ Len(Graph.nodes) \in Nat /\ Cardinality(Nodes) <= Len(Graph.nodes)
<1>1. Reach(n) = Walk({n}, [m \in Nodes |-> Targets(m)], Len(Graph.nodes))
  BY DEF Reach, ReachableFrom, Nodes, Edges, Graph, Targets
<1>2. Graph.nodes \in Seq(Nodes) /\ IsInjective(Graph.nodes)
  BY GraphFacts
<1> DEFINE len == Len(Graph.nodes)
<1>3. len \in Nat /\ Graph.nodes \in [1 .. len -> Nodes]
  BY <1>2
<1>4. IsFiniteSet(1 .. len) /\ Cardinality(1 .. len) = len
  <2>1. len \in Int /\ 1 \in Int
    BY <1>3
  <2> HIDE DEF len
  <2>2. IsFiniteSet(1 .. len) /\ Cardinality(1 .. len) = IF 1 > len THEN 0 ELSE len - 1 + 1
    BY <2>1, FS_Interval
  <2>3. len \in Nat
    BY <1>3
  <2> QED BY <2>2, <2>3
<1>5. Graph.nodes \in Surjection(1 .. len, Nodes)
  BY <1>3 DEF Surjection, Nodes, ToSet
<1>6. Cardinality(Nodes) <= len
  <2> HIDE DEF len
  <2> QED BY <1>4, <1>5, FS_Surjection
<1> QED BY <1>1, <1>3, <1>6

\* What a node reaches is within every set that holds it and that no edge leaves.
LEMMA ReachIsLeast ==
  ASSUME shape \in DOMAIN Graphs, NEW n \in Nodes, NEW S, n \in S,
         \A e \in Edges : e.from \in S => e.to \in S
  PROVE  Reach(n) \subseteq S
<1> DEFINE next == [m \in Nodes |-> Targets(m)]
           T == S \cap Nodes
<1>1. \A x \in T : next[x] \subseteq T
  BY GraphFacts DEF Targets
<1>2. {n} \subseteq T
  OBVIOUS
<1> HIDE DEF next, T
<1>3. Walk({n}, next, Len(Graph.nodes)) \subseteq T
  BY <1>1, <1>2, ReachIsWalk, WalkStaysWithin
<1> QED BY <1>3, ReachIsWalk DEF next, T

\* A node reaches itself, and all that an edge leads to from what it reaches.
LEMMA ReachIsClosed ==
  ASSUME shape \in DOMAIN Graphs, NEW n \in Nodes
  PROVE  /\ n \in Reach(n) /\ Reach(n) \subseteq Nodes
         /\ \A e \in Edges : e.from \in Reach(n) => e.to \in Reach(n)
         /\ \A m \in Reach(n) : Targets(m) \subseteq Reach(n) /\ Reach(m) \subseteq Reach(n)
<1> DEFINE next == [m \in Nodes |-> Targets(m)]
           seen == Walk({n}, next, Len(Graph.nodes))
<1>1. \A x \in Nodes : next[x] \subseteq Nodes
  BY GraphFacts DEF Targets
<1>2. {n} \in SUBSET Nodes /\ IsFiniteSet(Nodes)
  BY GraphFacts
<1>3. seen = Reach(n) /\ Len(Graph.nodes) \in Nat /\ Cardinality(Nodes) <= Len(Graph.nodes)
  BY ReachIsWalk
<1> HIDE DEF next
<1>4. {n} \subseteq seen /\ seen \subseteq Nodes /\ \A x \in seen : next[x] \subseteq seen
  BY <1>1, <1>2, <1>3, WalkIsClosed
<1> HIDE DEF seen
<1>5. \A e \in Edges : e.from \in seen => e.to \in seen
  <2> SUFFICES ASSUME NEW e \in Edges, e.from \in seen PROVE e.to \in seen
    OBVIOUS
  <2>1. e.from \in Nodes /\ e.to \in Targets(e.from)
    BY GraphFacts DEF Targets
  <2>2. next[e.from] = Targets(e.from)
    BY <2>1 DEF next
  <2> QED BY <1>4, <2>1, <2>2
<1>6. ASSUME NEW m \in seen PROVE Targets(m) \subseteq seen /\ Reach(m) \subseteq seen
  <2>1. m \in Nodes
    BY <1>4
  <2> QED BY <1>5, <2>1, ReachIsLeast DEF Targets
<1> QED BY <1>3, <1>4, <1>5, <1>6

\* What lies beyond a node: what it reaches but for itself, unless a loop leads back to it.
LEMMA BeyondFacts ==
  ASSUME shape \in DOMAIN Graphs, NEW n \in Nodes
  PROVE  /\ Beyond(n) \subseteq Reach(n) /\ Beyond(n) \subseteq Nodes /\ Targets(n) \subseteq Beyond(n)
         /\ Reach(n) = {n} \cup Beyond(n)
         /\ \A m \in Beyond(n) : Reach(m) \subseteq Beyond(n) /\ Beyond(m) \subseteq Beyond(n)
         /\ \A m \in Reach(n) : Beyond(m) \subseteq Beyond(n)
<1>1. \A t \in Targets(n) : t \in Nodes
  BY GraphFacts DEF Targets
<1>2. Targets(n) \subseteq Reach(n)
  BY ReachIsClosed
<1>3. Beyond(n) \subseteq Reach(n)
  BY <1>2, ReachIsClosed DEF Beyond
<1>4. Targets(n) \subseteq Beyond(n)
  BY <1>1, ReachIsClosed DEF Beyond
<1>5. \A e \in Edges : e.from \in Beyond(n) => e.to \in Beyond(n)
  BY <1>1, ReachIsClosed DEF Beyond
<1>6. Reach(n) \subseteq {n} \cup Beyond(n)
  <2> DEFINE S == {n} \cup Beyond(n)
  <2>1. \A e \in Edges : e.from \in S => e.to \in S
    BY <1>4, <1>5 DEF Targets
  <2>2. n \in S
    OBVIOUS
  <2> HIDE DEF S
  <2>3. Reach(n) \subseteq S
    BY <2>1, <2>2, ReachIsLeast
  <2> QED BY <2>3 DEF S
<1>7. Beyond(n) \subseteq Nodes
  BY <1>3, ReachIsClosed
<1>8. ASSUME NEW m \in Beyond(n) PROVE Reach(m) \subseteq Beyond(n) /\ Beyond(m) \subseteq Beyond(n)
  <2>1. m \in Nodes
    BY <1>7
  <2>2. Reach(m) \subseteq Beyond(n)
    BY <1>5, <2>1, ReachIsLeast
  <2>3. Targets(m) \subseteq Reach(m)
    BY <2>1, ReachIsClosed
  <2>4. Beyond(m) \subseteq Reach(m)
    BY <2>1, <2>3, ReachIsClosed DEF Beyond
  <2> QED BY <2>2, <2>4
<1>9. \A m \in Reach(n) : Beyond(m) \subseteq Beyond(n)
  BY <1>6, <1>8
<1>10. n \in Reach(n)
  BY ReachIsClosed
<1> QED BY <1>3, <1>4, <1>6, <1>7, <1>8, <1>9, <1>10

\* The last edge on the way to what lies beyond a node starts in what the node reaches.
LEMMA LastEdge ==
  ASSUME shape \in DOMAIN Graphs, NEW x \in Nodes, NEW y \in Beyond(x)
  PROVE  \E e \in Edges : e.to = y /\ e.from \in Reach(x)
<1> SUFFICES ASSUME \A e \in Edges : e.from \in Reach(x) => e.to # y PROVE FALSE
  OBVIOUS
<1>1. PICK t \in Targets(x) : y \in Reach(t)
  BY DEF Beyond
<1>2. PICK e \in Edges : e.from = x /\ e.to = t
  BY <1>1 DEF Targets
<1>3. x \in Reach(x) /\ t \in Reach(x) /\ t \in Nodes /\ t # y
  BY <1>2, ReachIsClosed
<1> DEFINE S == Reach(x) \ {y}
<1>4. \A d \in Edges : d.from \in S => d.to \in S
  BY ReachIsClosed
<1>5. t \in S /\ y \notin S
  BY <1>3
<1> HIDE DEF S
<1>6. Reach(t) \subseteq S
  BY <1>3, <1>4, <1>5, ReachIsLeast
<1> QED BY <1>1, <1>5, <1>6

-----------------------------------------------------------------------------
(* Playbooks that a run goes through once *)

\* No loop, no race and no bounded edge: whatever the conditions, a node is entered on one round.
OneWay ==
  /\ \A n \in Nodes : n \notin Beyond(n) /\ JoinKind(n) # "any"
  /\ \A e \in Edges : e.cap = 0

\* An edge leads away for good.
LEMMA NoWayBack ==
  ASSUME shape \in DOMAIN Graphs, OneWay, NEW n \in Nodes, NEW m \in Beyond(n)
  PROVE  n \notin Reach(m) /\ m # n /\ m \in Nodes
<1>1. m \in Nodes /\ Reach(m) \subseteq Beyond(n)
  BY BeyondFacts
<1> QED BY <1>1 DEF OneWay

\* Every fan-in is a join, and it waits for all that can still arrive.
LEMMA FanInsAreJoins ==
  ASSUME shape \in DOMAIN Graphs, OneWay, NEW t \in Nodes
  PROVE  /\ JoinKind(t) \in {"none", "implicit", "all"}
         /\ \A d, e \in Edges : d.to = t /\ e.to = t /\ d # e => IsJoin(t)
<1> DEFINE inc == {e \in Edges : e.to = t}
           drawn == Among(Incoming(t), {e \in inc : e.join # "none"})
<1>1. Incoming(t) \in Seq(Edges) /\ ToSet(Incoming(t)) = inc
  BY GraphFacts, AmongKeeps DEF Incoming, Edges
<1>2. drawn \in Seq(Edges) /\ ToSet(drawn) = ToSet(Incoming(t)) \cap {e \in inc : e.join # "none"}
  BY <1>1, AmongKeeps
<1>3. \A e \in inc : e.from \notin Reach(t)
  <2> SUFFICES ASSUME NEW e \in Edges, e.to = t PROVE e.from \notin Reach(t)
    OBVIOUS
  <2>1. e.from \in Nodes /\ t \in Targets(e.from)
    BY GraphFacts DEF Targets
  <2>2. t \in Beyond(e.from)
    BY <2>1, BeyondFacts
  <2> QED BY <2>1, <2>2, NoWayBack
<1>4. ASSUME NEW d \in Edges, NEW e \in Edges, d.to = t, e.to = t, d # e PROVE ~(Len(Incoming(t)) < 2)
  <2>1. PICK i \in DOMAIN Incoming(t), j \in DOMAIN Incoming(t) : Incoming(t)[i] = d /\ Incoming(t)[j] = e
    <3>1. d \in ToSet(Incoming(t)) /\ e \in ToSet(Incoming(t))
      BY <1>1, <1>4
    <3> QED BY <3>1 DEF ToSet
  <2>2. i # j
    BY <1>4, <2>1
  <2>3. DOMAIN Incoming(t) = 1 .. Len(Incoming(t)) /\ Len(Incoming(t)) \in Nat
    BY <1>1
  <2> QED BY <2>1, <2>2, <2>3
<1>5. drawn # <<>> => Head(drawn) \in inc /\ Head(drawn).join # "none" /\ Head(drawn).join \in {"none", "all", "any"}
  <2> HIDE DEF drawn
  <2>1. drawn # <<>> => Head(drawn) \in ToSet(drawn)
    BY <1>2, HeadAndTail
  <2>2. \A e \in Edges : e.join \in {"none", "all", "any"}
    <3> DEFINE G == Graphs[shape]
               edges == [from: ToSet(G.nodes), to: ToSet(G.nodes),
                         on: {"always", "success", "failure", "fallback"},
                         cap: Nat, join: {"none", "all", "any"}, strict: BOOLEAN]
    <3>1. G.edges \in Seq(edges) /\ Edges = ToSet(G.edges)
      BY GraphsAreValid DEF Edges, Graph
    <3>2. \A e \in edges : e.join \in {"none", "all", "any"}
      OBVIOUS
    <3>3. ToSet(G.edges) \subseteq edges
      <4> HIDE DEF edges, G
      <4> QED BY <3>1, Elements
    <3> HIDE DEF edges, G
    <3> QED BY <3>1, <3>2, <3>3
  <2> QED BY <1>2, <2>1, <2>2
<1>6. JoinKind(t) = IF Len(Incoming(t)) < 2 THEN "none"
                    ELSE IF drawn # <<>> THEN Head(drawn).join
                    ELSE "implicit"
  BY <1>3 DEF JoinKind
<1> HIDE DEF drawn
<1>7. JoinKind(t) # "any"
  BY DEF OneWay
<1>8. JoinKind(t) \in {"none", "implicit", "all"}
  BY <1>5, <1>6, <1>7
<1>9. ~(Len(Incoming(t)) < 2) => JoinKind(t) # "none"
  BY <1>5, <1>6
<1> QED BY <1>4, <1>8, <1>9 DEF IsJoin

\* Where a node that finished goes on to.
Onward(s, n) == ToSet(Successors(s, n))

\* What the journal says a node was sent to, it would be sent to again.
HopsTaken(s) ==
  \A p \in Pairs : s.hops[p] > s.started[p[1]] => IsFinished(s, p[1]) /\ p[2] \in Onward(s, p[1])

\* What lies beyond a node finishes after it.
InOrder(s) ==
  \A n \in Nodes : \A m \in Beyond(n) : s.finished[m] > 0 => s.finished[n] < s.finished[m]

\* Edges without a bound are always open: a node's routing reads the same while it runs and after.
LEMMA RoutedAreOnward ==
  ASSUME shape \in DOMAIN Graphs, OneWay, NEW s, HopsTaken(s), NEW n \in Nodes
  PROVE  /\ RoutedTargets(s, n) = Onward(s, n)
         /\ Onward(s, n) \subseteq Targets(n) /\ Onward(s, n) \subseteq Beyond(n) /\ Onward(s, n) \subseteq Nodes
<1>1. \A asRun : {e \in Edges : EdgeAvailable(s, e, asRun)} = Edges
  BY DEF OneWay, EdgeAvailable
<1>2. SelectedEdges(s, n, TRUE) = SelectedEdges(s, n, FALSE)
  BY <1>1 DEF SelectedEdges
<1>3. ASSUME NEW e \in Edges, e.from = n, HopOfLatestRun(s, n, e.to) PROVE e.to \in Onward(s, n)
  <2>1. <<n, e.to>> \in Pairs /\ <<n, e.to>>[1] = n /\ <<n, e.to>>[2] = e.to
    BY <1>3 DEF Pairs
  <2> QED BY <1>3, <2>1 DEF HopOfLatestRun, HopsTaken
<1>4. /\ ToSet(Successors(s, n)) = {e.to : e \in ToSet(SelectedEdges(s, n, FALSE))}
      /\ ToSet(Successors(s, n)) \subseteq Targets(n)
  BY SuccessorsAreTargets
<1>5. Onward(s, n) \subseteq Beyond(n) /\ Onward(s, n) \subseteq Nodes
  BY <1>4, BeyondFacts DEF Onward
<1> QED BY <1>2, <1>3, <1>4, <1>5 DEF RoutedTargets, Onward

-----------------------------------------------------------------------------
(* What can still arrive at a join *)

\* A set of live nodes, each with whether it runs (again), that nothing leads out of but `join`.
Spreads(onward, undone, active, join, W) ==
  /\ \A n \in active : <<n, undone[n]>> \in W
  /\ \A n \in Nodes \ {join} : <<n, TRUE>> \in W => \A t \in Targets(n) : <<t, TRUE>> \in W
  /\ \A n \in Nodes \ {join} : <<n, FALSE>> \in W => \A t \in onward[n] : <<t, undone[t]>> \in W

\* The live nodes are the least such set.
LEMMA LivePairs ==
  ASSUME shape \in DOMAIN Graphs, NEW onward \in [Nodes -> SUBSET Nodes], NEW undone \in [Nodes -> BOOLEAN],
         NEW active \in SUBSET Nodes, NEW join
  PROVE  \E W \in SUBSET (Nodes \X BOOLEAN) :
           /\ LiveAlong(onward, undone, active, join) = {p[1] : p \in W}
           /\ Spreads(onward, undone, active, join, W)
           /\ \A S \in SUBSET (Nodes \X BOOLEAN) : Spreads(onward, undone, active, join, S) => W \subseteq S
<1> DEFINE D == Nodes \X BOOLEAN
           next(p) == IF p[1] = join THEN {}
                      ELSE IF p[2] THEN Targets(p[1])
                      ELSE onward[p[1]]
           step == [p \in D |-> {<<t, p[2] \/ undone[t]>> : t \in next(p)}]
           start == {<<n, undone[n]>> : n \in active}
           W == Walk(start, step, 2 * Cardinality(Nodes))
<1>1. LiveAlong(onward, undone, active, join) = {p[1] : p \in W}
  BY DEF LiveAlong, Targets
<1>2. IsFiniteSet(D) /\ Cardinality(D) <= 2 * Cardinality(Nodes) /\ 2 * Cardinality(Nodes) \in Nat
  <2>1. IsFiniteSet(Nodes) /\ Cardinality(Nodes) \in Nat
    BY GraphFacts, FS_CardinalityType
  <2>2. IsFiniteSet(BOOLEAN) /\ Cardinality(BOOLEAN) = 2
    <3>1. ASSUME NEW a, NEW b, a # b PROVE IsFiniteSet({a, b}) /\ Cardinality({a, b}) = 2
      <4>1. IsFiniteSet({a}) /\ Cardinality({a}) = 1
        BY FS_Singleton
      <4>2. b \notin {a}
        BY <3>1
      <4>3. IsFiniteSet({a} \cup {b}) /\ Cardinality({a} \cup {b}) = Cardinality({a}) + 1
        BY <4>1, <4>2, FS_AddElement
      <4>4. {a, b} = {a} \cup {b}
        OBVIOUS
      <4>5. Cardinality({a} \cup {b}) = 2
        BY <4>1, <4>3
      <4> QED BY <4>3, <4>4, <4>5, Zenon
    <3>2. BOOLEAN = {TRUE, FALSE} /\ TRUE # FALSE
      OBVIOUS
    <3> QED BY <3>1, <3>2, Zenon
  <2>3. IsFiniteSet(D) /\ Cardinality(D) = Cardinality(Nodes) * Cardinality(BOOLEAN)
    BY <2>1, <2>2, FS_Product
  <2> HIDE DEF D
  <2> QED BY <2>1, <2>2, <2>3
<1>3. start \in SUBSET D
  OBVIOUS
<1>4. \A n \in Nodes : Targets(n) \subseteq Nodes
  BY GraphFacts DEF Targets
<1>5. ASSUME NEW n \in Nodes, n # join
      PROVE  /\ step[<<n, TRUE>>] = {<<t, TRUE>> : t \in Targets(n)}
             /\ step[<<n, FALSE>>] = {<<t, undone[t]>> : t \in onward[n]}
  <2>1. <<n, TRUE>> \in D /\ <<n, FALSE>> \in D
    OBVIOUS
  <2>2. step[<<n, TRUE>>] = {<<t, TRUE>> : t \in Targets(n)}
    <3>1. step[<<n, TRUE>>] = {<<t, TRUE \/ undone[t]>> : t \in Targets(n)}
      BY <1>5, <2>1
    <3>2. \A t \in Nodes : (TRUE \/ undone[t]) = TRUE
      OBVIOUS
    <3> HIDE DEF step
    <3> QED BY <1>4, <3>1, <3>2
  <2>3. step[<<n, FALSE>>] = {<<t, undone[t]>> : t \in onward[n]}
    <3>1. step[<<n, FALSE>>] = {<<t, FALSE \/ undone[t]>> : t \in onward[n]}
      BY <1>5, <2>1
    <3>2. \A t \in Nodes : (FALSE \/ undone[t]) = undone[t]
      OBVIOUS
    <3> HIDE DEF step
    <3> QED BY <3>1, <3>2
  <2> QED BY <2>2, <2>3
<1>6. \A b \in BOOLEAN : <<join, b>> \in D => step[<<join, b>>] = {}
  OBVIOUS
<1>7. \A p \in D : p[1] \in Nodes /\ (p = <<p[1], TRUE>> \/ p = <<p[1], FALSE>>)
  <2>1. \A p \in D : p[1] \in Nodes /\ p[2] \in BOOLEAN /\ p = <<p[1], p[2]>>
    OBVIOUS
  <2>2. \A b \in BOOLEAN : b = TRUE \/ b = FALSE
    OBVIOUS
  <2> HIDE DEF D
  <2> QED BY <2>1, <2>2, Zenon
<1> HIDE DEF step, start, D
<1>8. \A p \in D : step[p] \subseteq D
  <2> SUFFICES ASSUME NEW p \in D PROVE step[p] \subseteq D
    OBVIOUS
  <2>1. CASE p[1] = join
    <3>1. step[p] = {}
      BY <1>6, <1>7, <2>1
    <3> QED BY <3>1
  <2>2. CASE p[1] # join
    <3> DEFINE n == p[1]
    <3>1. n \in Nodes /\ n # join /\ (p = <<n, TRUE>> \/ p = <<n, FALSE>>)
      BY <1>7, <2>2
    <3>2. Targets(n) \subseteq Nodes /\ onward[n] \subseteq Nodes
      BY <1>4, <3>1
    <3>3. {<<t, TRUE>> : t \in Targets(n)} \subseteq D /\ {<<t, undone[t]>> : t \in onward[n]} \subseteq D
      <4>1. \A t \in Nodes : <<t, TRUE>> \in D /\ <<t, undone[t]>> \in D
        BY Zenon DEF D
      <4> HIDE DEF D, n
      <4> QED BY <3>2, <4>1, Zenon
    <3> HIDE DEF n
    <3> QED BY <1>5, <3>1, <3>3, Zenon
  <2> QED BY <2>1, <2>2
<1>9. start \subseteq W /\ W \subseteq D /\ \A p \in W : step[p] \subseteq W
  BY <1>2, <1>3, <1>8, WalkIsClosed
<1> HIDE DEF W
<1>10. Spreads(onward, undone, active, join, W)
  <2>1. \A n \in active : <<n, undone[n]>> \in W
    BY <1>9 DEF start
  <2>2. ASSUME NEW n \in Nodes \ {join}, <<n, TRUE>> \in W, NEW t \in Targets(n) PROVE <<t, TRUE>> \in W
    <3>1. step[<<n, TRUE>>] = {<<u, TRUE>> : u \in Targets(n)}
      BY <1>5, <2>2
    <3>2. <<t, TRUE>> \in step[<<n, TRUE>>]
      BY <2>2, <3>1, Zenon
    <3> QED BY <1>9, <2>2, <3>2
  <2>3. ASSUME NEW n \in Nodes \ {join}, <<n, FALSE>> \in W, NEW t \in onward[n] PROVE <<t, undone[t]>> \in W
    <3>1. <<t, undone[t]>> \in step[<<n, FALSE>>]
      BY <1>5, <2>3
    <3> QED BY <1>9, <2>3, <3>1
  <2> QED BY <2>1, <2>2, <2>3 DEF Spreads
<1>11. ASSUME NEW S \in SUBSET (Nodes \X BOOLEAN), Spreads(onward, undone, active, join, S) PROVE W \subseteq S
  <2>1. start \subseteq S
    BY <1>11 DEF start, Spreads
  <2>2. ASSUME NEW p \in S PROVE step[p] \subseteq S
    <3>1. p \in D
      BY DEF D
    <3>2. CASE p[1] = join
      <4>1. step[p] = {}
        BY <1>6, <1>7, <3>1, <3>2
      <4> QED BY <4>1
    <3>3. CASE p[1] # join
      <4> DEFINE n == p[1]
      <4>1. n \in Nodes \ {join} /\ n \in Nodes /\ n # join /\ (p = <<n, TRUE>> \/ p = <<n, FALSE>>)
        BY <1>7, <3>1, <3>3
      <4>2. /\ step[<<n, TRUE>>] = {<<t, TRUE>> : t \in Targets(n)}
            /\ step[<<n, FALSE>>] = {<<t, undone[t]>> : t \in onward[n]}
        BY <1>5, <4>1
      <4>3. /\ p = <<n, TRUE>> => \A t \in Targets(n) : <<t, TRUE>> \in S
            /\ p = <<n, FALSE>> => \A t \in onward[n] : <<t, undone[t]>> \in S
        BY <1>11, <4>1, Zenon DEF Spreads
      <4> HIDE DEF n
      <4>4. CASE p = <<n, TRUE>>
        BY <4>2, <4>3, <4>4, Zenon
      <4>5. CASE p = <<n, FALSE>>
        BY <4>2, <4>3, <4>5, Zenon
      <4> QED BY <4>1, <4>4, <4>5
    <3> QED BY <3>2, <3>3
  <2> QED BY <1>2, <2>1, <2>2, WalkStaysWithin DEF W
<1>12. W \in SUBSET (Nodes \X BOOLEAN)
  BY <1>9 DEF D
<1> QED BY <1>1, <1>10, <1>11, <1>12

\* A journal whose hops and finishes are in the playbook's order.
Orderly(s) == s \in RunStates /\ HopsTaken(s) /\ InOrder(s)

\* What a journal has finished, and not.
Undone(s) == [n \in Nodes |-> ~IsFinished(s, n)]
Goes(s) == [n \in Nodes |-> Onward(s, n)]

\* Nothing that finished runs again: what is live is walked by where the nodes go and what is undone.
LEMMA LiveIsAlong ==
  ASSUME shape \in DOMAIN Graphs, OneWay, NEW s, Orderly(s), NEW active, NEW join
  PROVE  LiveNodes(s, active, join) = LiveAlong(Goes(s), Undone(s), active, join)
<1> DEFINE routed == [n \in Nodes |-> RoutedTargets(s, n)]
           runs == [n \in Nodes |-> ~IsFinished(s, n) \/ DeliveredAgain(s, n, routed)]
<1>1. routed = Goes(s)
  BY RoutedAreOnward DEF Goes, Orderly
<1>2. ASSUME NEW n \in Nodes PROVE ~DeliveredAgain(s, n, routed)
  <2> SUFFICES ASSUME s.finished[n] > 0, NEW e \in Edges, e.to = n, s.finished[e.from] > s.finished[n]
               PROVE  FALSE
    BY DEF DeliveredAgain
  <2>1. e.from \in Nodes /\ n \in Beyond(e.from)
    BY GraphFacts, BeyondFacts DEF Targets
  <2>2. s.finished[e.from] < s.finished[n]
    BY <2>1 DEF Orderly, InOrder
  <2>3. s.finished[n] \in Nat /\ s.finished[e.from] \in Nat
    BY <2>1 DEF Orderly, RunStates
  <2> QED BY <2>2, <2>3
<1> HIDE DEF routed
<1>3. runs = Undone(s)
  <2>1. \A n \in Nodes : (~IsFinished(s, n) \/ DeliveredAgain(s, n, routed)) = ~IsFinished(s, n)
    BY <1>2
  <2> QED BY <2>1 DEF Undone
<1>4. LiveNodes(s, active, join) = LiveAlong(routed, runs, active, join)
  BY DEF LiveNodes, LiveAlong, routed
<1> HIDE DEF runs
<1> QED BY <1>1, <1>3, <1>4

\* A node nothing that can still arrive is missing at: each source has finished or is out of reach.
Open(s, t, active) ==
  \A e \in Edges : e.to = t => IsFinished(s, e.from) \/ e.from \notin LiveNodes(s, active, t)

\* A join is ready once it is open.
LEMMA JoinsWaitForTheOpen ==
  ASSUME shape \in DOMAIN Graphs, OneWay, NEW s, Orderly(s), NEW t \in Nodes, IsJoin(t), NEW active
  PROVE  IsReady(s, t, active) <=> Open(s, t, active)
<1> DEFINE live == LiveNodes(s, active, t)
           arrivals == Arrivals(s, t, live)
<1>1. ASSUME NEW e \in Edges, e.to = t
      PROVE  Arrival(s, t, e.from, live) = "pending" <=> ~IsFinished(s, e.from) /\ e.from \in live
  <2>1. e.from \in Nodes /\ t \in Beyond(e.from)
    BY <1>1, GraphFacts, BeyondFacts DEF Targets
  <2>2. ~DeliveredIntoAnEarlierRound(s, t, e.from)
    BY <2>1, NoWayBack DEF DeliveredIntoAnEarlierRound
  <2>3. IsFinished(s, e.from) => s.nodes[e.from] # "pending"
    BY DEF IsFinished
  <2> HIDE DEF live
  <2> QED BY <2>2, <2>3 DEF Arrival
<1>2. "pending" \in arrivals <=> ~Open(s, t, active)
  <2>1. "pending" \in arrivals <=> \E e \in Edges : e.to = t /\ Arrival(s, t, e.from, live) = "pending"
    <3> HIDE DEF live
    <3> QED BY DEF Arrivals
  <2> HIDE DEF arrivals
  <2> QED BY <1>1, <2>1 DEF Open
<1>3. JoinKind(t) \in {"implicit", "all"}
  BY FanInsAreJoins DEF IsJoin
<1>4. Readiness(s, t, active) = JoinVerdict(t, arrivals)
  BY DEF Readiness
<1> HIDE DEF arrivals
<1>5. JoinVerdict(t, arrivals) = "not_ready" <=> "pending" \in arrivals
  <2>1. CASE "pending" \in arrivals
    BY <1>3, <2>1 DEF JoinVerdict
  <2>2. CASE "pending" \notin arrivals
    <3>1. JoinVerdict(t, arrivals) \in {"refused", "success", "failure"}
      BY <1>3, <2>2 DEF JoinVerdict
    <3> QED BY <2>2, <3>1
  <2> QED BY <2>1, <2>2
<1> QED BY <1>2, <1>4, <1>5 DEF IsReady

\* What a finished node was sent on to is ready once it is open.
LEMMA ReadyIsOpen ==
  ASSUME shape \in DOMAIN Graphs, OneWay, NEW s, Orderly(s), NEW n \in Nodes, IsFinished(s, n),
         NEW t \in Onward(s, n), NEW active
  PROVE  IsReady(s, t, active) <=> Open(s, t, active)
<1>1. t \in Nodes /\ t \in Targets(n)
  BY RoutedAreOnward DEF Orderly
<1>2. CASE IsJoin(t)
  BY <1>1, <1>2, JoinsWaitForTheOpen
<1>3. CASE ~IsJoin(t)
  <2>1. IsReady(s, t, active)
    BY <1>3 DEF IsReady, Readiness
  <2>2. \A e \in Edges : e.to = t => e.from = n
    <3>1. PICK d \in Edges : d.from = n /\ d.to = t
      BY <1>1 DEF Targets
    <3> QED BY <1>1, <1>3, <3>1, FanInsAreJoins
  <2> QED BY <2>1, <2>2 DEF Open
<1> QED BY <1>2, <1>3

\* So the seeds of a finished node are those it is sent on to that are open.
LEMMA SeedsAreOpen ==
  ASSUME shape \in DOMAIN Graphs, OneWay, NEW s, Orderly(s), NEW n \in Nodes, IsFinished(s, n), NEW active
  PROVE  ToSet(SeedSuccessors(s, n, active)) = {t \in Onward(s, n) : Open(s, t, active)}
<1> DEFINE to == Distinct(Successors(s, n))
           ready == {t \in ToSet(to) : IsReady(s, t, active)}
<1>1. to \in Seq(Nodes) /\ ToSet(to) = Onward(s, n)
  BY SuccessorsAreTargets, DistinctIsInjective DEF Onward
<1>2. SeedSuccessors(s, n, active) = Among(to, ready)
  BY DEF SeedSuccessors
<1>3. ready = {t \in Onward(s, n) : Open(s, t, active)}
  BY <1>1, ReadyIsOpen
<1> HIDE DEF to, ready
<1>4. ToSet(Among(to, ready)) = ToSet(to) \cap ready
  BY <1>1, AmongKeeps
<1> QED BY <1>1, <1>2, <1>3, <1>4

\* What is open depends only on what finished and where it went.
LEMMA OpenAlike ==
  ASSUME shape \in DOMAIN Graphs, OneWay, NEW s, Orderly(s), NEW u, Orderly(u),
         u.nodes = s.nodes, Goes(u) = Goes(s), NEW t, NEW active
  PROVE  Open(u, t, active) <=> Open(s, t, active)
<1>1. \A n : IsFinished(u, n) <=> IsFinished(s, n)
  BY DEF IsFinished
<1>2. Undone(u) = Undone(s)
  BY DEF IsFinished, Undone
<1>3. LiveNodes(u, active, t) = LiveNodes(s, active, t)
  BY <1>2, LiveIsAlong
<1> QED BY <1>1, <1>3 DEF Open

\* The live nodes are those of the least set of pairs that what is active spreads to.
LEMMA LiveSpread ==
  ASSUME shape \in DOMAIN Graphs, OneWay, NEW s, Orderly(s), NEW active \in SUBSET Nodes, NEW join
  PROVE  \E W \in SUBSET (Nodes \X BOOLEAN) :
           /\ LiveNodes(s, active, join) = {p[1] : p \in W}
           /\ Spreads(Goes(s), Undone(s), active, join, W)
           /\ \A S \in SUBSET (Nodes \X BOOLEAN) : Spreads(Goes(s), Undone(s), active, join, S) => W \subseteq S
<1>1. Goes(s) \in [Nodes -> SUBSET Nodes]
  BY RoutedAreOnward DEF Goes, Orderly
<1>2. Undone(s) \in [Nodes -> BOOLEAN]
  BY DEF Undone, IsFinished
<1> QED BY <1>1, <1>2, LivePairs, LiveIsAlong

\* What is at work: active and unfinished, or where an active node that finished went.
AtWork(s, x, active) ==
  /\ ~IsFinished(s, x)
  /\ x \in active \/ \E m \in active : IsFinished(s, m) /\ x \in Onward(s, m)

\* What is at work closes all that lies beyond it: a join waits for every branch that may arrive.
LEMMA WorkCloses ==
  ASSUME shape \in DOMAIN Graphs, OneWay, NEW s, Orderly(s), NEW active \in SUBSET Nodes,
         NEW x \in Nodes, AtWork(s, x, active), \A z \in Beyond(x) : ~IsFinished(s, z), NEW y \in Beyond(x)
  PROVE  ~Open(s, y, active)
<1> SUFFICES ASSUME Open(s, y, active) PROVE FALSE
  OBVIOUS
<1>1. PICK W \in SUBSET (Nodes \X BOOLEAN) :
        /\ LiveNodes(s, active, y) = {p[1] : p \in W}
        /\ Spreads(Goes(s), Undone(s), active, y, W)
  BY LiveSpread
<1>2. y \in Nodes /\ y # x /\ ~IsFinished(s, y) /\ ~IsFinished(s, x)
  BY NoWayBack DEF AtWork
<1>3. <<x, TRUE>> \in W
  <2>1. Undone(s)[x] = TRUE
    BY <1>2 DEF Undone
  <2>2. CASE x \in active
    BY <1>1, <2>1, <2>2, Zenon DEF Spreads
  <2>3. ASSUME NEW m \in active, IsFinished(s, m), x \in Onward(s, m) PROVE <<x, TRUE>> \in W
    <3>1. m \in Nodes \ {y} /\ m \in Nodes
      BY <1>2, <2>3
    <3>2. Undone(s)[m] = FALSE
      BY <2>3, <3>1 DEF Undone
    <3>3. <<m, FALSE>> \in W
      BY <1>1, <3>2, Zenon DEF Spreads
    <3>4. x \in Goes(s)[m]
      BY <2>3, <3>1 DEF Goes
    <3> QED BY <1>1, <2>1, <3>1, <3>3, <3>4, Zenon DEF Spreads
  <2> QED BY <2>2, <2>3 DEF AtWork
<1> DEFINE S == {n \in Reach(x) : <<n, TRUE>> \in W /\ n # y}
<1>4. \A e \in Edges : e.from \in S => e.to \in S
  <2> SUFFICES ASSUME NEW e \in Edges, e.from \in S PROVE e.to \in S
    OBVIOUS
  <2>1. e.from \in Nodes /\ e.from \in Nodes \ {y} /\ e.to \in Targets(e.from)
    BY GraphFacts DEF Targets
  <2>2. <<e.to, TRUE>> \in W
    BY <1>1, <2>1, Zenon DEF Spreads
  <2>3. e.to \in Reach(x)
    BY ReachIsClosed
  <2>4. e.from \in LiveNodes(s, active, y)
    <3>1. <<e.from, TRUE>> \in W /\ <<e.from, TRUE>>[1] = e.from
      OBVIOUS
    <3> QED BY <1>1, <3>1, Zenon
  <2>5. ~IsFinished(s, e.from)
    <3>1. e.from = x \/ e.from \in Beyond(x)
      BY BeyondFacts
    <3> QED BY <1>2, <3>1
  <2>6. e.to # y
    BY <2>4, <2>5 DEF Open
  <2> QED BY <2>2, <2>3, <2>6
<1>5. x \in S /\ y \notin S
  BY <1>2, <1>3, ReachIsClosed
<1> HIDE DEF S
<1>6. Reach(x) \subseteq S
  BY <1>4, <1>5, ReachIsLeast
<1> QED BY <1>5, <1>6, BeyondFacts

-----------------------------------------------------------------------------
(* Something can always go on *)

\* The further a node, the less it reaches.
LEMMA ReachShrinks ==
  ASSUME shape \in DOMAIN Graphs, OneWay, NEW x \in Nodes
  PROVE  /\ Cardinality(Reach(x)) \in Nat /\ Cardinality(Reach(x)) <= Cardinality(Nodes)
         /\ Cardinality(Nodes) \in Nat
         /\ \A y \in Beyond(x) : Cardinality(Reach(y)) < Cardinality(Reach(x))
<1>1. IsFiniteSet(Nodes) /\ Reach(x) \in SUBSET Nodes
  BY GraphFacts, ReachIsClosed
<1>2. IsFiniteSet(Reach(x)) /\ Cardinality(Reach(x)) <= Cardinality(Nodes)
  BY <1>1, FS_Subset
<1>3. Cardinality(Reach(x)) \in Nat /\ Cardinality(Nodes) \in Nat
  BY <1>1, <1>2, FS_CardinalityType
<1>4. ASSUME NEW y \in Beyond(x) PROVE Cardinality(Reach(y)) < Cardinality(Reach(x))
  <2>1. Reach(y) \subseteq Reach(x) /\ x \in Reach(x) /\ x \notin Reach(y)
    BY BeyondFacts, ReachIsClosed, NoWayBack
  <2>2. /\ IsFiniteSet(Reach(y)) /\ Cardinality(Reach(y)) <= Cardinality(Reach(x))
        /\ Cardinality(Reach(x)) = Cardinality(Reach(y)) => Reach(x) = Reach(y)
    BY <1>2, <2>1, FS_Subset
  <2>3. Cardinality(Reach(y)) \in Nat
    BY <2>2, FS_CardinalityType
  <2> QED BY <1>3, <2>1, <2>2, <2>3
<1> QED BY <1>2, <1>3, <1>4

\* A set of numbers has a least one.
LEMMA LeastNumber ==
  ASSUME NEW T \in SUBSET Nat, T # {}
  PROVE  \E k \in T : \A j \in T : k <= j
<1> DEFINE Less == {p \in Nat \X Nat : p[1] < p[2]}
<1>1. IsWellFoundedOn(Less, Nat)
  BY NatLessThanWellFounded DEF OpToRel
<1>2. PICK x \in T : \A y \in T : <<y, x>> \notin Less
  <2> HIDE DEF Less
  <2> QED BY <1>1, WFMin
<1>3. \A y \in T : x <= y
  <2> SUFFICES ASSUME NEW y \in T, y < x PROVE FALSE
    BY <1>2
  <2>1. <<y, x>> \in Nat \X Nat /\ <<y, x>>[1] = y /\ <<y, x>>[2] = x
    OBVIOUS
  <2> QED BY <1>2, <2>1
<1> QED BY <1>3

\* Of some nodes one is the first, and one the last.
LEMMA FirstAndLast ==
  ASSUME shape \in DOMAIN Graphs, OneWay, NEW S \in SUBSET Nodes, S # {}
  PROVE  /\ \E x \in S : \A y \in S : x \notin Beyond(y)
         /\ \E x \in S : \A y \in S : y \notin Beyond(x)
<1> DEFINE size(x) == Cardinality(Reach(x))
           Down == {size(x) : x \in S}
           Up == {Cardinality(Nodes) - size(x) : x \in S}
<1>1. \A x \in S : /\ size(x) \in Nat /\ size(x) <= Cardinality(Nodes) /\ Cardinality(Nodes) \in Nat
                   /\ \A y \in Beyond(x) : size(y) < size(x)
  BY ReachShrinks
<1> HIDE DEF size
<1>2. \E x \in S : \A y \in S : y \notin Beyond(x)
  <2>1. Down \in SUBSET Nat /\ Down # {}
    BY <1>1
  <2>2. PICK k \in Down : \A j \in Down : k <= j
    BY <2>1, LeastNumber
  <2>3. PICK x \in S : k = size(x)
    BY <2>2
  <2>4. \A y \in S : size(x) <= size(y)
    BY <2>2, <2>3
  <2> QED BY <1>1, <2>4
<1>3. \E x \in S : \A y \in S : x \notin Beyond(y)
  <2>1. Up \in SUBSET Nat /\ Up # {}
    BY <1>1
  <2>2. PICK k \in Up : \A j \in Up : k <= j
    BY <2>1, LeastNumber
  <2>3. PICK x \in S : k = Cardinality(Nodes) - size(x)
    BY <2>2
  <2>4. \A y \in S : Cardinality(Nodes) - size(x) <= Cardinality(Nodes) - size(y)
    BY <2>2, <2>3
  <2>5. \A y \in S : size(y) <= size(x)
    BY <1>1, <2>4
  <2> QED BY <1>1, <2>5
<1> QED BY <1>2, <1>3

\* When only finished nodes are left and each has somewhere to go, one of these places is open:
\* the joins they lead to are never all waiting for one another.
LEMMA SomethingIsOpen ==
  ASSUME shape \in DOMAIN Graphs, OneWay, NEW s, Orderly(s), NEW M \in SUBSET Nodes, M # {},
         \A m \in M : /\ IsFinished(s, m) /\ Onward(s, m) # {}
                      /\ \A t \in Onward(s, m) : t \in M \/ ~IsFinished(s, t)
  PROVE  \E m \in M : \E t \in Onward(s, m) : t \notin M /\ Open(s, t, M)
<1> DEFINE L == {t \in Nodes : t \notin M /\ \E m \in M : t \in Onward(s, m)}
<1>1. \A n \in Nodes : Onward(s, n) \subseteq Targets(n) /\ Onward(s, n) \subseteq Beyond(n) /\ Onward(s, n) \subseteq Nodes
  BY RoutedAreOnward DEF Orderly
<1>2. L \in SUBSET Nodes
  BY <1>1
<1>3. L # {}
  <2>1. PICK m \in M : \A y \in M : y \notin Beyond(m)
    BY FirstAndLast
  <2> QED BY <1>1, <2>1
<1>4. PICK t \in L : \A y \in L : t \notin Beyond(y)
  <2> HIDE DEF L
  <2> QED BY <1>2, <1>3, FirstAndLast
<1>5. Open(s, t, M)
  <2> SUFFICES ASSUME NEW e \in Edges, e.to = t, ~IsFinished(s, e.from), e.from \in LiveNodes(s, M, t)
               PROVE  FALSE
    BY DEF Open
  <2>1. PICK W \in SUBSET (Nodes \X BOOLEAN) :
          /\ LiveNodes(s, M, t) = {p[1] : p \in W}
          /\ \A S \in SUBSET (Nodes \X BOOLEAN) : Spreads(Goes(s), Undone(s), M, t, S) => W \subseteq S
    BY LiveSpread
  <2> DEFINE B == UNION {Reach(x) : x \in L}
             S == {p \in Nodes \X BOOLEAN : (p[2] => p[1] \in B) /\ (~p[2] => p[1] \in M)}
  <2>2. \A n \in Nodes : /\ <<n, TRUE>> \in S <=> n \in B
                         /\ <<n, FALSE>> \in S <=> n \in M
    OBVIOUS
  <2>3. \A n \in B : n \in Nodes /\ Targets(n) \subseteq B
    BY <1>2, ReachIsClosed
  <2>4. L \subseteq B
    BY <1>2, ReachIsClosed
  <2>5. \A n \in M : n \in Nodes /\ Undone(s)[n] = FALSE /\ Goes(s)[n] = Onward(s, n)
    BY DEF Undone, Goes
  <2>6. \A x \in L : x \in Nodes /\ Undone(s)[x] = TRUE
    <3>1. \A x \in L : x \in Nodes /\ ~IsFinished(s, x)
      BY <1>2
    <3> HIDE DEF L
    <3> QED BY <3>1 DEF Undone
  <2>7. \A n \in M : \A x \in Onward(s, n) : x \in Nodes /\ (x \in M \/ x \in L)
    BY <1>1
  <2>8. S \in SUBSET (Nodes \X BOOLEAN)
    OBVIOUS
  <2> HIDE DEF S, B, L
  <2>9. Spreads(Goes(s), Undone(s), M, t, S)
    <3>1. \A n \in M : <<n, Undone(s)[n]>> \in S
      BY <2>2, <2>5, Zenon
    <3>2. ASSUME NEW n \in Nodes, <<n, TRUE>> \in S, NEW x \in Targets(n) PROVE <<x, TRUE>> \in S
      <4>1. n \in B
        BY <2>2, <3>2, Zenon
      <4>2. x \in B /\ x \in Nodes
        BY <2>3, <4>1
      <4> QED BY <2>2, <4>2, Zenon
    <3>3. ASSUME NEW n \in Nodes, <<n, FALSE>> \in S, NEW x \in Goes(s)[n] PROVE <<x, Undone(s)[x]>> \in S
      <4>1. n \in M
        BY <2>2, <3>3, Zenon
      <4>2. x \in Nodes /\ (x \in M \/ x \in L)
        BY <2>5, <2>7, <4>1
      <4>3. CASE x \in M
        BY <2>2, <2>5, <4>2, <4>3, Zenon
      <4>4. CASE x \in L
        BY <2>2, <2>4, <2>6, <4>2, <4>4, Zenon
      <4> QED BY <4>2, <4>3, <4>4
    <3> QED BY <3>1, <3>2, <3>3, Zenon DEF Spreads
  <2>10. W \subseteq S
    BY <2>1, <2>8, <2>9
  <2>11. e.from \in Nodes
    BY GraphFacts
  <2>12. e.from \in M \/ e.from \in B
    <3>1. PICK p \in W : p[1] = e.from
      BY <2>1
    <3>2. p \in S /\ p[1] \in Nodes /\ p[2] \in BOOLEAN /\ p = <<p[1], p[2]>>
      BY <2>8, <2>10
    <3>3. p = <<p[1], TRUE>> \/ p = <<p[1], FALSE>>
      <4>1. \A b \in BOOLEAN : b = TRUE \/ b = FALSE
        OBVIOUS
      <4> QED BY <3>2, <4>1, Zenon
    <3> QED BY <2>2, <3>1, <3>2, <3>3, Zenon
  <2>13. PICK x \in L : e.from \in Reach(x)
    BY <2>12 DEF B
  <2>14. t \in Beyond(e.from) /\ Beyond(e.from) \subseteq Beyond(x)
    <3>1. t \in Targets(e.from) /\ x \in Nodes
      BY <1>2 DEF Targets
    <3> QED BY <2>11, <2>13, <3>1, BeyondFacts
  <2> QED BY <1>4, <2>14
<1> QED BY <1>4, <1>5

-----------------------------------------------------------------------------
(* The journal of a run that goes through its playbook once *)

\* A record's place in the journal is after every earlier one, and what is pending left no trace.
Stamped(s) ==
  /\ \A n \in Nodes : s.started[n] <= s.seq /\ s.finished[n] <= s.seq
  /\ \A p \in Pairs : s.hops[p] <= s.seq
  /\ \A n \in Nodes : s.nodes[n] = "pending" => s.started[n] = 0 /\ s.finished[n] = 0 /\ s.runs[n] = 0
  /\ s.last = "none" => \A n \in Nodes : s.finished[n] = 0

\* A node's work is done at most once.
DoneOnce(s) == \A n \in Nodes : s.runs[n] <= 1 /\ (~IsFinished(s, n) => s.runs[n] = 0)

\* What the run was sent to and has not started is pending, and where it was sent from is over.
OwedIsPending(s) ==
  \A p \in Pairs : s.hops[p] > s.started[p[2]] =>
    s.nodes[p[2]] = "pending" /\ IsFinished(s, p[1]) /\ s.hops[p] > s.started[p[1]]

\* What such a journal keeps to, at every record.
Kept(s) == Orderly(s) /\ Stamped(s) /\ DoneOnce(s)

\* Where a node goes on to depends only on its own outcome.
LEMMA OnwardAlike ==
  ASSUME shape \in DOMAIN Graphs, OneWay, NEW s, NEW u, NEW m \in Nodes,
         u.nodes[m] = s.nodes[m], m \in u.refused <=> m \in s.refused
  PROVE  Successors(u, m) = Successors(s, m)
<1> DEFINE own == {e \in Edges : e.from = m}
           open == Among(Outgoing(m), Edges)
           matching(v) == Among(open, {e \in Edges : EdgeMatches(v, e)})
<1>1. \A v : {e \in Edges : EdgeAvailable(v, e, FALSE)} = Edges
  BY DEF OneWay, EdgeAvailable
<1>2. Outgoing(m) \in Seq(Edges) /\ ToSet(Outgoing(m)) \subseteq own
  BY GraphFacts, AmongKeeps DEF Outgoing
<1>3. open \in Seq(Edges) /\ ToSet(open) \subseteq own
  BY <1>2, AmongKeeps
<1>4. \A e \in own : EdgeMatches(u, e) <=> EdgeMatches(s, e)
  BY DEF EdgeMatches
<1> HIDE DEF open
<1>5. matching(u) = matching(s)
  <2>1. \A i \in DOMAIN open : open[i] \in own /\ open[i] \in Edges
    BY <1>3 DEF ToSet
  <2>2. \A i \in DOMAIN open : open[i] \in {e \in Edges : EdgeMatches(u, e)}
                               <=> open[i] \in {e \in Edges : EdgeMatches(s, e)}
    BY <1>4, <2>1
  <2>3. [i \in DOMAIN open |-> IF open[i] \in {e \in Edges : EdgeMatches(u, e)} THEN <<open[i]>> ELSE <<>>]
        = [i \in DOMAIN open |-> IF open[i] \in {e \in Edges : EdgeMatches(s, e)} THEN <<open[i]>> ELSE <<>>]
    BY <2>2
  <2> QED BY <2>3 DEF Among
<1> HIDE DEF matching
<1>6. Taken(u, m, open) = Taken(s, m, open)
  BY <1>5 DEF Taken, matching
<1>7. SelectedEdges(u, m, FALSE) = SelectedEdges(s, m, FALSE)
  BY <1>1, <1>6 DEF SelectedEdges, open
<1> QED BY <1>7 DEF Successors

\* What stands for no node is none.
LEMMA NoneIsNoNode ==
  ASSUME shape \in DOMAIN Graphs
  PROVE  "none" \notin Nodes
BY GraphsAreValid DEF Nodes, Graph

\* A node that has not finished may start.
LEMMA StartKeeps ==
  ASSUME shape \in DOMAIN Graphs, OneWay, NEW s, Kept(s), NEW n \in Nodes, ~IsFinished(s, n),
         NEW u, u = FoldOne(s, NodeStarted(n))
  PROVE  /\ Kept(u) /\ (OwedIsPending(s) => OwedIsPending(u))
         /\ u.nodes = [s.nodes EXCEPT ![n] = "running"] /\ u.finished = s.finished /\ u.runs = s.runs
         /\ u.run = s.run /\ u.hops = s.hops /\ u.refused = s.refused \ {n}
         /\ \A p \in Pairs : p[2] = n => u.hops[p] <= u.started[n]
         /\ \A m \in Nodes \ {n} : Onward(u, m) = Onward(s, m) /\ u.started[m] = s.started[m]
<1>1. /\ s \in RunStates /\ HopsTaken(s) /\ InOrder(s) /\ Stamped(s) /\ DoneOnce(s)
  BY DEF Kept, Orderly
<1>2. u = [s EXCEPT !.seq = s.seq + 1, !.started[n] = s.seq + 1, !.nodes[n] = "running", !.refused = @ \ {n}]
  BY DEF FoldOne, NodeStarted, Record
<1>3. /\ u \in RunStates /\ u.seq = s.seq + 1 /\ s.seq \in Nat
      /\ u.started = [s.started EXCEPT ![n] = s.seq + 1]
      /\ u.nodes = [s.nodes EXCEPT ![n] = "running"]
      /\ u.finished = s.finished /\ u.runs = s.runs /\ u.hops = s.hops /\ u.refused = s.refused \ {n}
      /\ u.run = s.run /\ u.last = s.last
  <2>1. u \in RunStates
    BY FoldStarted, <1>1
  <2> QED BY <1>1, <1>2, <2>1 DEF RunStates
<1>4. /\ \A m \in Nodes : s.started[m] \in Nat /\ s.finished[m] \in Nat
      /\ \A p \in Pairs : s.hops[p] \in Nat /\ p[1] \in Nodes /\ p[2] \in Nodes
      /\ s.nodes \in [Nodes -> Statuses] /\ s.started \in [Nodes -> Nat]
  BY <1>1, GraphFacts DEF RunStates
<1>5. /\ \A m \in Nodes \ {n} : u.nodes[m] = s.nodes[m] /\ u.started[m] = s.started[m]
      /\ u.nodes[n] = "running" /\ u.started[n] = s.seq + 1
  BY <1>3, <1>4
<1>6. \A m \in Nodes : IsFinished(u, m) <=> IsFinished(s, m)
  BY <1>5 DEF IsFinished
<1>7. \A m \in Nodes \ {n} : Onward(u, m) = Onward(s, m)
  <2>1. \A m \in Nodes \ {n} : m \in u.refused <=> m \in s.refused
    BY <1>3
  <2> QED BY <1>5, <2>1, OnwardAlike DEF Onward
<1>8. \A p \in Pairs : s.hops[p] < s.seq + 1
  BY <1>1, <1>3, <1>4 DEF Stamped
<1>9. HopsTaken(u)
  <2> SUFFICES ASSUME NEW p \in Pairs, u.hops[p] > u.started[p[1]]
               PROVE  IsFinished(u, p[1]) /\ p[2] \in Onward(u, p[1])
    BY DEF HopsTaken
  <2>1. p[1] # n
    BY <1>3, <1>4, <1>5, <1>8
  <2> QED BY <1>1, <1>3, <1>4, <1>5, <1>6, <1>7, <2>1 DEF HopsTaken
<1>10. InOrder(u)
  BY <1>1, <1>3 DEF InOrder
<1>11. Stamped(u)
  BY <1>1, <1>3, <1>4, <1>5, <1>8 DEF Stamped
<1>12. DoneOnce(u)
  BY <1>1, <1>3, <1>6 DEF DoneOnce
<1>13. OwedIsPending(s) => OwedIsPending(u)
  <2> SUFFICES ASSUME OwedIsPending(s), NEW p \in Pairs, u.hops[p] > u.started[p[2]]
               PROVE  u.nodes[p[2]] = "pending" /\ IsFinished(u, p[1]) /\ u.hops[p] > u.started[p[1]]
    BY DEF OwedIsPending
  <2>1. p[2] # n
    BY <1>3, <1>4, <1>5, <1>8
  <2>2. s.nodes[p[2]] = "pending" /\ IsFinished(s, p[1]) /\ s.hops[p] > s.started[p[1]]
    BY <1>3, <1>4, <1>5, <2>1 DEF OwedIsPending
  <2>3. p[1] # n
    BY <2>2
  <2> QED BY <1>3, <1>4, <1>5, <1>6, <2>1, <2>2, <2>3
<1>14. \A p \in Pairs : p[2] = n => u.hops[p] <= u.started[n]
  BY <1>3, <1>4, <1>5, <1>8
<1> QED BY <1>3, <1>5, <1>7, <1>9, <1>10, <1>11, <1>12, <1>13, <1>14 DEF Kept, Orderly

\* A node may finish while nothing that lies beyond it has begun.
LEMMA FinishKeeps ==
  ASSUME shape \in DOMAIN Graphs, OneWay, NEW s, Kept(s), NEW n \in Nodes, ~IsFinished(s, n),
         \A y \in Beyond(n) : s.nodes[y] = "pending", NEW status \in FinalStatuses,
         NEW u, u = FoldOne(s, NodeFinished(n, status))
  PROVE  /\ Kept(u) /\ (OwedIsPending(s) /\ s.nodes[n] = "running" => OwedIsPending(u))
         /\ u.nodes = [s.nodes EXCEPT ![n] = status] /\ u.started = s.started
         /\ u.run = s.run /\ u.hops = s.hops /\ u.refused = s.refused
         /\ \A m \in Nodes \ {n} : Onward(u, m) = Onward(s, m)
<1>1. /\ s \in RunStates /\ HopsTaken(s) /\ InOrder(s) /\ Stamped(s) /\ DoneOnce(s)
  BY DEF Kept, Orderly
<1>2. u = [s EXCEPT !.seq = s.seq + 1, !.finished[n] = s.seq + 1, !.nodes[n] = status,
                    !.runs[n] = @ + 1, !.last = n]
  BY DEF FoldOne, NodeFinished, Record
<1>3. /\ u \in RunStates /\ u.seq = s.seq + 1 /\ s.seq \in Nat
      /\ u.finished = [s.finished EXCEPT ![n] = s.seq + 1]
      /\ u.nodes = [s.nodes EXCEPT ![n] = status] /\ u.runs = [s.runs EXCEPT ![n] = @ + 1]
      /\ u.started = s.started /\ u.hops = s.hops /\ u.refused = s.refused /\ u.run = s.run /\ u.last = n /\ n # "none"
  <2>1. u \in RunStates
    BY FoldFinished, <1>1
  <2>2. "none" \notin Nodes
    BY NoneIsNoNode
  <2> QED BY <1>1, <1>2, <2>1, <2>2 DEF RunStates
<1>4. /\ \A m \in Nodes : s.started[m] \in Nat /\ s.finished[m] \in Nat /\ s.runs[m] \in Nat
      /\ \A p \in Pairs : s.hops[p] \in Nat /\ p[1] \in Nodes /\ p[2] \in Nodes
      /\ s.nodes \in [Nodes -> Statuses] /\ s.finished \in [Nodes -> Nat] /\ s.runs \in [Nodes -> Nat]
  BY <1>1, GraphFacts DEF RunStates
<1>5. /\ \A m \in Nodes \ {n} : u.nodes[m] = s.nodes[m] /\ u.finished[m] = s.finished[m] /\ u.runs[m] = s.runs[m]
      /\ u.nodes[n] = status /\ u.finished[n] = s.seq + 1 /\ u.runs[n] = s.runs[n] + 1
  BY <1>3, <1>4
<1>6. /\ \A m \in Nodes \ {n} : IsFinished(u, m) <=> IsFinished(s, m)
      /\ IsFinished(u, n)
  BY <1>5 DEF IsFinished, FinalStatuses
<1>7. \A m \in Nodes \ {n} : Onward(u, m) = Onward(s, m)
  <2>1. \A m \in Nodes \ {n} : m \in u.refused <=> m \in s.refused
    BY <1>3
  <2> QED BY <1>5, <2>1, OnwardAlike DEF Onward
<1>8. HopsTaken(u)
  <2> SUFFICES ASSUME NEW p \in Pairs, u.hops[p] > u.started[p[1]]
               PROVE  IsFinished(u, p[1]) /\ p[2] \in Onward(u, p[1])
    BY DEF HopsTaken
  <2>1. IsFinished(s, p[1]) /\ p[2] \in Onward(s, p[1])
    BY <1>1, <1>3 DEF HopsTaken
  <2>2. p[1] \in Nodes \ {n}
    BY <1>4, <2>1
  <2> QED BY <1>6, <1>7, <2>1, <2>2
<1>9. InOrder(u)
  <2> SUFFICES ASSUME NEW a \in Nodes, NEW m \in Beyond(a), u.finished[m] > 0 PROVE u.finished[a] < u.finished[m]
    BY DEF InOrder
  <2>1. m \in Nodes /\ m # a
    BY NoWayBack
  <2>2. CASE a = n
    <3>1. s.nodes[m] = "pending"
      BY <2>2
    <3>2. s.finished[m] = 0 /\ u.finished[m] = s.finished[m]
      BY <1>1, <1>5, <2>1, <2>2, <3>1 DEF Stamped
    <3> QED BY <3>2
  <2>3. CASE a # n /\ m = n
    <3>1. s.finished[a] <= s.seq /\ u.finished[a] = s.finished[a]
      BY <1>1, <1>5, <2>3 DEF Stamped
    <3> QED BY <1>3, <1>4, <1>5, <2>3, <3>1
  <2>4. CASE a # n /\ m # n
    BY <1>1, <1>5, <2>1, <2>4 DEF InOrder
  <2> QED BY <2>2, <2>3, <2>4
<1>10. Stamped(u)
  <2>1. \A m \in Nodes : u.started[m] <= u.seq /\ u.finished[m] <= u.seq
    BY <1>1, <1>3, <1>4, <1>5 DEF Stamped
  <2>2. \A p \in Pairs : u.hops[p] <= u.seq
    BY <1>1, <1>3, <1>4 DEF Stamped
  <2>3. \A m \in Nodes : u.nodes[m] = "pending" => m # n
    BY <1>5 DEF FinalStatuses
  <2> QED BY <1>1, <1>3, <1>5, <2>1, <2>2, <2>3 DEF Stamped
<1>11. DoneOnce(u)
  BY <1>1, <1>4, <1>5, <1>6 DEF DoneOnce
<1>12. ASSUME OwedIsPending(s), s.nodes[n] = "running" PROVE OwedIsPending(u)
  <2> SUFFICES ASSUME NEW p \in Pairs, u.hops[p] > u.started[p[2]]
               PROVE  u.nodes[p[2]] = "pending" /\ IsFinished(u, p[1]) /\ u.hops[p] > u.started[p[1]]
    BY DEF OwedIsPending
  <2>1. s.nodes[p[2]] = "pending" /\ IsFinished(s, p[1]) /\ s.hops[p] > s.started[p[1]]
    BY <1>3, <1>12 DEF OwedIsPending
  <2>2. p[2] # n /\ p[1] # n
    BY <1>12, <2>1
  <2> QED BY <1>3, <1>4, <1>5, <1>6, <2>1, <2>2
<1> QED BY <1>3, <1>7, <1>8, <1>9, <1>10, <1>11, <1>12 DEF Kept, Orderly

\* What only hops, refusals and run records add: the nodes are as they were.
Beside(s, u) ==
  /\ u.nodes = s.nodes /\ u.started = s.started /\ u.finished = s.finished /\ u.runs = s.runs
  /\ u.last = s.last

\* A finished node may be written to go where it goes on to.
LEMMA HopKeeps ==
  ASSUME shape \in DOMAIN Graphs, OneWay, NEW s, Kept(s), NEW n \in Nodes, IsFinished(s, n),
         NEW t \in Onward(s, n), NEW u, u = FoldOne(s, Hop(n, t))
  PROVE  /\ Kept(u) /\ (OwedIsPending(s) /\ s.nodes[t] = "pending" => OwedIsPending(u))
         /\ Beside(s, u) /\ u.refused = s.refused /\ u.run = s.run
         /\ \A m \in Nodes : Onward(u, m) = Onward(s, m)
         /\ \A p \in Pairs : u.hops[p] = s.hops[p] \/ (p[1] = n /\ p[2] = t)
<1>1. /\ s \in RunStates /\ HopsTaken(s) /\ InOrder(s) /\ Stamped(s) /\ DoneOnce(s)
  BY DEF Kept, Orderly
<1> DEFINE q == <<n, t>>
<1>2. q \in Pairs /\ q[1] = n /\ q[2] = t /\ t \in Nodes
  <2>1. t \in Targets(n) /\ t \in Nodes
    BY <1>1, RoutedAreOnward
  <2> QED BY <2>1 DEF Targets, Pairs
<1>3. u = [s EXCEPT !.seq = s.seq + 1, !.hops[q] = s.seq + 1, !.counts[q] = @]
  BY DEF FoldOne, Hop, Record
<1>3a. u = FoldOne(s, Hop(q[1], q[2])) /\ q = <<q[1], q[2]>>
  OBVIOUS
<1> HIDE DEF q
<1>4. /\ u \in RunStates /\ u.seq = s.seq + 1 /\ s.seq \in Nat
      /\ u.hops = [s.hops EXCEPT ![q] = s.seq + 1]
      /\ u.finished = s.finished /\ u.nodes = s.nodes /\ u.runs = s.runs
      /\ u.started = s.started /\ u.refused = s.refused /\ u.run = s.run /\ u.last = s.last
  <2>1. u \in RunStates
    BY <1>1, <1>2, <1>3a, FoldHop
  <2> QED BY <1>1, <1>3, <2>1 DEF RunStates
<1>5. /\ \A m \in Nodes : s.started[m] \in Nat /\ s.finished[m] \in Nat
      /\ \A p \in Pairs : s.hops[p] \in Nat /\ p[1] \in Nodes /\ p[2] \in Nodes
      /\ s.hops \in [Pairs -> Nat]
  BY <1>1, GraphFacts DEF RunStates
<1>6. (\A p \in Pairs \ {q} : u.hops[p] = s.hops[p]) /\ u.hops[q] = s.seq + 1
  BY <1>2, <1>4, <1>5
<1>7. \A m \in Nodes : IsFinished(u, m) <=> IsFinished(s, m)
  BY <1>4 DEF IsFinished
<1>8. \A m \in Nodes : Onward(u, m) = Onward(s, m)
  BY <1>4, OnwardAlike DEF Onward
<1>9. HopsTaken(u)
  <2> SUFFICES ASSUME NEW p \in Pairs, u.hops[p] > u.started[p[1]]
               PROVE  IsFinished(u, p[1]) /\ p[2] \in Onward(u, p[1])
    BY DEF HopsTaken
  <2>1. CASE p = q
    BY <1>2, <1>7, <1>8, <2>1
  <2>2. CASE p # q
    BY <1>1, <1>4, <1>5, <1>6, <1>7, <1>8, <2>2 DEF HopsTaken
  <2> QED BY <2>1, <2>2
<1>10. InOrder(u) /\ DoneOnce(u)
  BY <1>1, <1>4, <1>7 DEF InOrder, DoneOnce
<1>11. Stamped(u)
  BY <1>1, <1>4, <1>5, <1>6 DEF Stamped
<1>12. ASSUME OwedIsPending(s), s.nodes[t] = "pending" PROVE OwedIsPending(u)
  <2> SUFFICES ASSUME NEW p \in Pairs, u.hops[p] > u.started[p[2]]
               PROVE  u.nodes[p[2]] = "pending" /\ IsFinished(u, p[1]) /\ u.hops[p] > u.started[p[1]]
    BY DEF OwedIsPending
  <2>1. CASE p = q
    <3>1. s.started[n] < s.seq + 1
      BY <1>1, <1>4, <1>5 DEF Stamped
    <3> QED BY <1>2, <1>4, <1>6, <1>7, <1>12, <2>1, <3>1
  <2>2. CASE p # q
    BY <1>4, <1>5, <1>6, <1>7, <1>12, <2>2 DEF OwedIsPending
  <2> QED BY <2>1, <2>2
<1> QED BY <1>2, <1>4, <1>6, <1>8, <1>9, <1>10, <1>11, <1>12 DEF Kept, Orderly, Beside

\* A join may be refused while it is at work.
LEMMA RefusalKeeps ==
  ASSUME shape \in DOMAIN Graphs, OneWay, NEW s, Kept(s), NEW n \in Nodes, ~IsFinished(s, n),
         NEW u, u = FoldOne(s, JoinRefused(n))
  PROVE  /\ Kept(u) /\ (OwedIsPending(s) => OwedIsPending(u)) /\ Beside(s, u) /\ u.hops = s.hops /\ u.run = s.run
         /\ \A m \in Nodes \ {n} : Onward(u, m) = Onward(s, m)
<1>1. /\ s \in RunStates /\ HopsTaken(s) /\ InOrder(s) /\ Stamped(s) /\ DoneOnce(s)
  BY DEF Kept, Orderly
<1>2. u = [s EXCEPT !.seq = s.seq + 1, !.refused = @ \cup {n}]
  BY DEF FoldOne, JoinRefused, Record
<1>3. /\ u \in RunStates /\ u.seq = s.seq + 1 /\ s.seq \in Nat /\ u.refused = s.refused \cup {n}
      /\ u.finished = s.finished /\ u.nodes = s.nodes /\ u.runs = s.runs
      /\ u.started = s.started /\ u.hops = s.hops /\ u.run = s.run /\ u.last = s.last
  <2>1. u \in RunStates
    BY FoldRefused, <1>1
  <2> QED BY <1>1, <1>2, <2>1 DEF RunStates
<1>4. /\ \A m \in Nodes : s.started[m] \in Nat /\ s.finished[m] \in Nat
      /\ \A p \in Pairs : s.hops[p] \in Nat /\ p[1] \in Nodes /\ p[2] \in Nodes
  BY <1>1, GraphFacts DEF RunStates
<1>5. \A m \in Nodes : IsFinished(u, m) <=> IsFinished(s, m)
  BY <1>3 DEF IsFinished
<1>6. \A m \in Nodes \ {n} : Onward(u, m) = Onward(s, m)
  BY <1>3, OnwardAlike DEF Onward
<1>7. HopsTaken(u)
  <2> SUFFICES ASSUME NEW p \in Pairs, u.hops[p] > u.started[p[1]]
               PROVE  IsFinished(u, p[1]) /\ p[2] \in Onward(u, p[1])
    BY DEF HopsTaken
  <2>1. IsFinished(s, p[1]) /\ p[2] \in Onward(s, p[1])
    BY <1>1, <1>3 DEF HopsTaken
  <2>2. p[1] \in Nodes \ {n}
    BY <1>4, <2>1
  <2> QED BY <1>5, <1>6, <2>1, <2>2
<1>8. InOrder(u) /\ DoneOnce(u)
  BY <1>1, <1>3, <1>5 DEF InOrder, DoneOnce
<1>9. Stamped(u)
  BY <1>1, <1>3, <1>4 DEF Stamped
<1>10. OwedIsPending(s) => OwedIsPending(u)
  BY <1>3, <1>4, <1>5 DEF OwedIsPending
<1> QED BY <1>3, <1>6, <1>7, <1>8, <1>9, <1>10 DEF Kept, Orderly, Beside

\* What the run as a whole is said to be tells nothing of its nodes.
LEMMA RunRecordKeeps ==
  ASSUME shape \in DOMAIN Graphs, OneWay, NEW s, Kept(s), NEW status \in RunStatuses,
         NEW u, u = FoldOne(s, RunIs(status))
  PROVE  /\ Kept(u) /\ (OwedIsPending(s) => OwedIsPending(u)) /\ Beside(s, u) /\ u.run = status
         /\ u.hops = s.hops /\ u.refused = s.refused
         /\ \A m \in Nodes : Onward(u, m) = Onward(s, m)
<1>1. /\ s \in RunStates /\ HopsTaken(s) /\ InOrder(s) /\ Stamped(s) /\ DoneOnce(s)
  BY DEF Kept, Orderly
<1>2. u = [s EXCEPT !.seq = s.seq + 1, !.run = status]
  BY DEF FoldOne, RunIs, Record
<1>3. /\ u \in RunStates /\ u.seq = s.seq + 1 /\ s.seq \in Nat /\ u.refused = s.refused
      /\ u.finished = s.finished /\ u.nodes = s.nodes /\ u.runs = s.runs
      /\ u.started = s.started /\ u.hops = s.hops /\ u.run = status /\ u.last = s.last
  <2>1. u \in RunStates
    BY FoldRun, <1>1
  <2> QED BY <1>1, <1>2, <2>1 DEF RunStates
<1>4. /\ \A m \in Nodes : s.started[m] \in Nat /\ s.finished[m] \in Nat
      /\ \A p \in Pairs : s.hops[p] \in Nat /\ p[1] \in Nodes /\ p[2] \in Nodes
  BY <1>1, GraphFacts DEF RunStates
<1>5. \A m \in Nodes : IsFinished(u, m) <=> IsFinished(s, m)
  BY <1>3 DEF IsFinished
<1>6. \A m \in Nodes : Onward(u, m) = Onward(s, m)
  BY <1>3, OnwardAlike DEF Onward
<1>7. HopsTaken(u) /\ InOrder(u) /\ DoneOnce(u)
  BY <1>1, <1>3, <1>4, <1>5, <1>6 DEF HopsTaken, InOrder, DoneOnce
<1>8. Stamped(u)
  BY <1>1, <1>3, <1>4 DEF Stamped
<1>9. OwedIsPending(s) => OwedIsPending(u)
  BY <1>3, <1>4, <1>5 DEF OwedIsPending
<1> QED BY <1>3, <1>6, <1>7, <1>8, <1>9 DEF Kept, Orderly, Beside

\* What a prefix of the records leads to.
LEMMA FoldPrefix ==
  ASSUME NEW s, NEW R, NEW log \in Seq(R), NEW at, Through(s, log, at)
  PROVE  \A k \in 0 .. Len(log) : Fold(s, SubSeq(log, 1, k)) = at[k]
<1> DEFINE Led == {k \in Nat : k <= Len(log) => Fold(s, SubSeq(log, 1, k)) = at[k]}
<1>1. 0 \in Led
  <2>1. SubSeq(log, 1, 0) = <<>>
    OBVIOUS
  <2>2. <<>> \in Seq(R)
    OBVIOUS
  <2> QED BY <2>1, <2>2, FoldOfNothing DEF Through
<1>2. ASSUME NEW k \in Nat, k \in Led PROVE k + 1 \in Led
  <2> SUFFICES ASSUME k + 1 <= Len(log) PROVE Fold(s, SubSeq(log, 1, k + 1)) = at[k + 1]
    OBVIOUS
  <2>1. k + 1 \in 1 .. Len(log) /\ (k + 1) - 1 = k /\ k <= Len(log) /\ log[k + 1] \in R
    OBVIOUS
  <2>2. SubSeq(log, 1, k) \in Seq(R) /\ <<log[k + 1]>> \in Seq(R)
    BY <2>1
  <2>3. SubSeq(log, 1, k + 1) = SubSeq(log, 1, k) \o <<log[k + 1]>>
    BY <2>1, <2>2
  <2>4. Fold(s, SubSeq(log, 1, k)) = at[k]
    BY <1>2, <2>1
  <2>5. Fold(at[k], <<log[k + 1]>>) = FoldOne(at[k], log[k + 1])
    <3> DEFINE one == <<log[k + 1]>>
    <3>1. PICK b : Through(at[k], one, b)
      BY <2>2, FoldSteps
    <3>2. Len(one) = 1 /\ one[1] = log[k + 1]
      OBVIOUS
    <3> HIDE DEF one
    <3>3. b[0] = at[k] /\ Fold(at[k], one) = b[1] /\ b[1] = FoldOne(b[0], one[1])
      BY <3>1, <3>2 DEF Through
    <3> QED BY <3>2, <3>3 DEF one
  <2>6. Fold(s, SubSeq(log, 1, k + 1)) = Fold(Fold(s, SubSeq(log, 1, k)), <<log[k + 1]>>)
    <3> DEFINE a == SubSeq(log, 1, k)
               b == <<log[k + 1]>>
    <3>1. a \in Seq(R) /\ b \in Seq(R) /\ SubSeq(log, 1, k + 1) = a \o b
      BY <2>2, <2>3
    <3> HIDE DEF a, b
    <3>2. Fold(s, a \o b) = Fold(Fold(s, a), b)
      BY <3>1, FoldJoined
    <3> QED BY <3>1, <3>2 DEF a, b
  <2>7. at[k + 1] = FoldOne(at[k], log[k + 1])
    BY <2>1 DEF Through
  <2> QED BY <2>4, <2>5, <2>6, <2>7
<1>3. \A k \in Nat : k \in Led
  <2> HIDE DEF Led
  <2> QED BY <1>1, <1>2, Induction
<1> QED BY <1>3

\* Records a crash may cut off anywhere: after each of them the journal keeps to its order.
Keeping(s, log) ==
  \A k \in 0 .. Len(log) : Kept(Fold(s, SubSeq(log, 1, k))) /\ Fold(s, SubSeq(log, 1, k)).run = s.run

\* Its last prefix is the log itself.
LEMMA KeptAtTheEnd ==
  ASSUME NEW s, NEW R, NEW log \in Seq(R), Keeping(s, log)
  PROVE  Kept(Fold(s, log)) /\ Fold(s, log).run = s.run
<1> DEFINE whole == SubSeq(log, 1, Len(log))
<1>1. Len(log) \in 0 .. Len(log) /\ whole = log
  OBVIOUS
<1>2. Kept(Fold(s, whole)) /\ Fold(s, whole).run = s.run
  BY <1>1 DEF Keeping
<1> HIDE DEF whole
<1> QED BY <1>1, <1>2

\* One record after another.
LEMMA KeepingOne ==
  ASSUME NEW s, NEW r, Kept(s), Kept(FoldOne(s, r)), FoldOne(s, r).run = s.run
  PROVE  Keeping(s, <<r>>) /\ Fold(s, <<r>>) = FoldOne(s, r)
<1> DEFINE one == <<r>>
<1>1. one \in Seq({r}) /\ Len(one) = 1 /\ one[1] = r
  OBVIOUS
<1> HIDE DEF one
<1>2. PICK at : Through(s, one, at)
  BY <1>1, FoldSteps
<1>3. at[0] = s /\ at[1] = FoldOne(s, r) /\ Fold(s, one) = at[1]
  BY <1>1, <1>2 DEF Through
<1>4. \A k \in 0 .. Len(one) : (k = 0 \/ k = 1) /\ Fold(s, SubSeq(one, 1, k)) = at[k]
  BY <1>1, <1>2, FoldPrefix
<1>5. Keeping(s, one)
  BY <1>3, <1>4 DEF Keeping
<1> QED BY <1>3, <1>5 DEF one

\* Writing nothing keeps the order.
LEMMA KeepingNothing ==
  ASSUME NEW s, Kept(s)
  PROVE  Keeping(s, <<>>) /\ Fold(s, <<>>) = s
<1> DEFINE none == <<>>
<1>1. none \in Seq({}) /\ \A k \in 0 .. Len(none) : SubSeq(none, 1, k) = none
  OBVIOUS
<1>2. none = <<>>
  OBVIOUS
<1> HIDE DEF none
<1>3. Fold(s, none) = s
  BY <1>1, <1>2, FoldOfNothing
<1>4. Keeping(s, none)
  BY <1>1, <1>3 DEF Keeping
<1> QED BY <1>2, <1>3, <1>4

\* One log after another.
LEMMA KeepingJoined ==
  ASSUME NEW s, NEW R, NEW a \in Seq(R), NEW b \in Seq(R), Keeping(s, a), Keeping(Fold(s, a), b)
  PROVE  Keeping(s, a \o b) /\ Fold(s, a \o b) = Fold(Fold(s, a), b) /\ a \o b \in Seq(R)
<1>1. a \o b \in Seq(R) /\ Len(a \o b) = Len(a) + Len(b) /\ Len(a) \in Nat /\ Len(b) \in Nat
  OBVIOUS
<1>2. Fold(s, a).run = s.run
  BY KeptAtTheEnd
<1>3. ASSUME NEW k \in 0 .. Len(a \o b)
      PROVE  Kept(Fold(s, SubSeq(a \o b, 1, k))) /\ Fold(s, SubSeq(a \o b, 1, k)).run = s.run
  <2>1. CASE k <= Len(a)
    <3>1. SubSeq(a \o b, 1, k) = SubSeq(a, 1, k)
      BY <1>1, <2>1
    <3>2. k \in 0 .. Len(a)
      BY <1>1, <2>1
    <3> QED BY <3>1, <3>2 DEF Keeping
  <2>2. CASE k > Len(a)
    <3> DEFINE i == k - Len(a)
    <3>1. i \in 0 .. Len(b) /\ k = Len(a) + i
      BY <1>1, <2>2
    <3>2. SubSeq(b, 1, i) \in Seq(R)
      BY <3>1
    <3>3. SubSeq(a \o b, 1, k) = a \o SubSeq(b, 1, i)
      <4>1. /\ Len(SubSeq(a \o b, 1, k)) = k /\ SubSeq(a \o b, 1, k) \in Seq(R)
            /\ \A j \in 1 .. k : SubSeq(a \o b, 1, k)[j] = (a \o b)[j]
        BY <1>1, <3>1
      <4>2. /\ Len(a \o SubSeq(b, 1, i)) = k /\ a \o SubSeq(b, 1, i) \in Seq(R)
            /\ \A j \in 1 .. k : (a \o SubSeq(b, 1, i))[j] = (a \o b)[j]
        BY <1>1, <3>1, <3>2
      <4> QED BY <4>1, <4>2
    <3> HIDE DEF i
    <3>4. Fold(s, a \o SubSeq(b, 1, i)) = Fold(Fold(s, a), SubSeq(b, 1, i))
      <4> DEFINE c == SubSeq(b, 1, i)
      <4>1. c \in Seq(R)
        BY <3>2
      <4> HIDE DEF c
      <4>2. Fold(s, a \o c) = Fold(Fold(s, a), c)
        BY <4>1, FoldJoined
      <4> QED BY <4>2 DEF c
    <3> QED BY <1>2, <3>1, <3>3, <3>4 DEF Keeping
  <2> QED BY <1>1, <2>1, <2>2
<1> QED BY <1>1, <1>3, FoldJoined DEF Keeping

\* A finished node is written to go on to nodes that are pending.
LEMMA HopsAreKept ==
  ASSUME shape \in DOMAIN Graphs, OneWay, NEW s, Kept(s), NEW n \in Nodes, IsFinished(s, n),
         NEW to \in Seq(Nodes), \A t \in ToSet(to) : t \in Onward(s, n) /\ s.nodes[t] = "pending",
         NEW u, u = Fold(s, Hops(n, to))
  PROVE  /\ Keeping(s, Hops(n, to)) /\ Kept(u) /\ (OwedIsPending(s) => OwedIsPending(u))
         /\ Beside(s, u) /\ u.refused = s.refused /\ u.run = s.run
         /\ \A m \in Nodes : Onward(u, m) = Onward(s, m)
         /\ \A p \in Pairs : u.hops[p] = s.hops[p] \/ (p[1] = n /\ p[2] \in ToSet(to))
<1> DEFINE log == Hops(n, to)
           R == {Hop(n, t) : t \in ToSet(to)}
           Good(v) == /\ Kept(v) /\ (OwedIsPending(s) => OwedIsPending(v))
                      /\ Beside(s, v) /\ v.refused = s.refused /\ v.run = s.run
                      /\ \A m \in Nodes : Onward(v, m) = Onward(s, m)
                      /\ \A p \in Pairs : v.hops[p] = s.hops[p] \/ (p[1] = n /\ p[2] \in ToSet(to))
<1>1. DOMAIN to = 1 .. Len(to) /\ Len(to) \in Nat /\ \A i \in 1 .. Len(to) : to[i] \in ToSet(to)
  BY DEF ToSet
<1>2. log \in Seq(R) /\ Len(log) = Len(to) /\ \A i \in 1 .. Len(to) : log[i] = Hop(n, to[i])
  BY <1>1 DEF Hops
<1> HIDE DEF log, R
<1>3. PICK at : Through(s, log, at)
  BY <1>2, FoldSteps
<1> DEFINE Fine == {k \in Nat : k <= Len(log) => Good(at[k])}
<1>4. 0 \in Fine
  BY <1>3 DEF Through, Beside
<1>5. ASSUME NEW k \in Nat, k \in Fine PROVE k + 1 \in Fine
  <2> SUFFICES ASSUME k + 1 <= Len(log) PROVE Good(at[k + 1])
    OBVIOUS
  <2>1. k + 1 \in 1 .. Len(log) /\ (k + 1) - 1 = k /\ k <= Len(log)
    BY <1>2, <1>1
  <2>2. Good(at[k])
    BY <1>5, <2>1
  <2> DEFINE t == to[k + 1]
  <2>3. t \in ToSet(to) /\ t \in Onward(s, n) /\ s.nodes[t] = "pending"
    BY <1>1, <1>2, <2>1
  <2>4. at[k + 1] = FoldOne(at[k], Hop(n, t))
    BY <1>2, <1>3, <2>1 DEF Through
  <2> HIDE DEF t
  <2> DEFINE v == at[k]
             w == at[k + 1]
  <2>5. IsFinished(v, n) /\ t \in Onward(v, n) /\ v.nodes[t] = "pending" /\ Kept(v)
    BY <2>2, <2>3 DEF Beside, IsFinished
  <2>6. w = FoldOne(v, Hop(n, t))
    BY <2>4
  <2>7. Good(v)
    BY <2>2
  <2> HIDE DEF v, w
  <2>8. /\ Kept(w) /\ (OwedIsPending(v) /\ v.nodes[t] = "pending" => OwedIsPending(w))
        /\ Beside(v, w) /\ w.refused = v.refused /\ w.run = v.run
        /\ \A m \in Nodes : Onward(w, m) = Onward(v, m)
        /\ \A p \in Pairs : w.hops[p] = v.hops[p] \/ (p[1] = n /\ p[2] = t)
    BY <2>5, <2>6, HopKeeps
  <2>9. Good(w)
    BY <2>3, <2>5, <2>7, <2>8 DEF Beside
  <2> QED BY <2>9 DEF w
<1> HIDE DEF Good
<1>6. \A k \in Nat : k \in Fine
  <2> HIDE DEF Fine
  <2> QED BY <1>4, <1>5, Induction
<1>7. \A k \in 0 .. Len(log) : Good(at[k]) /\ Fold(s, SubSeq(log, 1, k)) = at[k]
  BY <1>1, <1>2, <1>3, <1>6, FoldPrefix
<1>8. Len(log) \in 0 .. Len(log) /\ u = at[Len(log)]
  BY <1>1, <1>2, <1>3 DEF Through, log
<1>9. Keeping(s, log)
  BY <1>7 DEF Keeping, Good
<1> QED BY <1>7, <1>8, <1>9 DEF Good, log

-----------------------------------------------------------------------------
(* Going on past a finished node, where no race is run and no edge is bounded. *)

\* A log that only sends the run on: no node's own records change, and what each node selects
\* stays; the hops it adds are those of nodes of `M`, to what they selected.
Continues(s, log, M) ==
  /\ log \in Seq(LogRecords({})) /\ Keeping(s, log)
  /\ Kept(Fold(s, log)) /\ (OwedIsPending(s) => OwedIsPending(Fold(s, log)))
  /\ Beside(s, Fold(s, log)) /\ Fold(s, log).refused = s.refused /\ Fold(s, log).run = s.run
  /\ \A m \in Nodes : Onward(Fold(s, log), m) = Onward(s, m)
  /\ \A p \in Pairs : Fold(s, log).hops[p] = s.hops[p] \/ (p[1] \in M /\ p[2] \in Onward(s, p[1]))

\* No records are such a log.
LEMMA ContinuesWithNothing ==
  ASSUME NEW s, Kept(s), NEW M
  PROVE  Continues(s, <<>>, M) /\ Fold(s, <<>>) = s
<1>1. <<>> \in Seq(LogRecords({}))
  OBVIOUS
<1>2. Keeping(s, <<>>) /\ Fold(s, <<>>) = s
  BY KeepingNothing
<1> DEFINE u == Fold(s, <<>>)
<1>3. u = s
  BY <1>2
<1> HIDE DEF u
<1>4. Kept(u) /\ (OwedIsPending(s) => OwedIsPending(u)) /\ Beside(s, u) /\ u.refused = s.refused /\ u.run = s.run
      /\ (\A m \in Nodes : Onward(u, m) = Onward(s, m)) /\ \A p \in Pairs : u.hops[p] = s.hops[p]
  BY <1>3 DEF Beside
<1> QED BY <1>1, <1>2, <1>4 DEF Continues, u

\* Two such logs in a row are one.
LEMMA ContinuesJoined ==
  ASSUME shape \in DOMAIN Graphs, NEW s, NEW M, NEW a, Continues(s, a, M), NEW b, Continues(Fold(s, a), b, M)
  PROVE  Continues(s, a \o b, M) /\ Fold(s, a \o b) = Fold(Fold(s, a), b)
<1> DEFINE u == Fold(s, a)
           w == Fold(u, b)
           R == LogRecords({})
<1>1. a \in Seq(R) /\ b \in Seq(R) /\ Keeping(s, a) /\ Keeping(u, b)
  BY DEF Continues
<1>2. /\ (OwedIsPending(s) => OwedIsPending(u)) /\ Beside(s, u) /\ u.refused = s.refused /\ u.run = s.run
      /\ \A m \in Nodes : Onward(u, m) = Onward(s, m)
      /\ \A p \in Pairs : u.hops[p] = s.hops[p] \/ (p[1] \in M /\ p[2] \in Onward(s, p[1]))
  BY DEF Continues
<1>3. /\ Kept(w) /\ (OwedIsPending(u) => OwedIsPending(w))
      /\ Beside(u, w) /\ w.refused = u.refused /\ w.run = u.run
      /\ \A m \in Nodes : Onward(w, m) = Onward(u, m)
      /\ \A p \in Pairs : w.hops[p] = u.hops[p] \/ (p[1] \in M /\ p[2] \in Onward(u, p[1]))
  BY DEF Continues
<1> HIDE DEF R
<1>4. Keeping(s, a \o b) /\ Fold(s, a \o b) = w /\ a \o b \in Seq(R)
  BY <1>1, KeepingJoined DEF u, w
<1> DEFINE ab == a \o b
<1>5. Keeping(s, ab) /\ Fold(s, ab) = w /\ ab \in Seq(R)
  BY <1>4
<1> HIDE DEF u, w, ab
<1>6. \A p \in Pairs : w.hops[p] = s.hops[p] \/ (p[1] \in M /\ p[2] \in Onward(s, p[1]))
  <2> SUFFICES ASSUME NEW p \in Pairs
               PROVE  w.hops[p] = s.hops[p] \/ (p[1] \in M /\ p[2] \in Onward(s, p[1]))
    OBVIOUS
  <2>1. p[1] \in Nodes
    BY GraphFacts
  <2> QED BY <1>2, <1>3, <2>1
<1>7. Beside(s, w) /\ w.refused = s.refused /\ w.run = s.run /\ (OwedIsPending(s) => OwedIsPending(w))
      /\ \A m \in Nodes : Onward(w, m) = Onward(s, m)
  BY <1>2, <1>3 DEF Beside
<1>8. Continues(s, ab, M)
  BY <1>3, <1>5, <1>6, <1>7 DEF Continues, R
<1> QED BY <1>5, <1>8 DEF ab, u, w

\* Such a log for some nodes is one for more nodes.
LEMMA ContinuesWider ==
  ASSUME NEW s, NEW M, NEW L, M \subseteq L, NEW log, Continues(s, log, M)
  PROVE  Continues(s, log, L)
BY DEF Continues

\* Past a finished node the frontier grows by what it selected and is open, and the log is
\* the hops to what it selected.
Forwards(s, n, F, also, adv) ==
  /\ adv.frontier \in Seq(Nodes)
  /\ ToSet(adv.frontier) = ToSet(F) \cup {t \in Onward(s, n) : Open(s, t, {n} \cup ToSet(F) \cup also)}
  /\ \A u : /\ Kept(u) /\ u.nodes = s.nodes
            /\ \A m \in Nodes : Onward(u, m) = Onward(s, m)
            => Continues(u, adv.log, {n})

\* A finished node whose selected successors have not begun.
Routable(s, n) == Kept(s) /\ n \in Nodes /\ IsFinished(s, n) /\ \A t \in Onward(s, n) : s.nodes[t] = "pending"

\* Nobody is written off, as no race is run, and no hop is counted.
LEMMA AdvanceGoesOn ==
  ASSUME shape \in DOMAIN Graphs, OneWay, NEW s, NEW n, Routable(s, n), NEW F \in Seq(Nodes), NEW also,
         NEW adv, adv = Advance(s, n, F, also)
  PROVE  Forwards(s, n, F, also, adv)
<1>1. Kept(s) /\ n \in Nodes /\ IsFinished(s, n) /\ \A t \in Onward(s, n) : s.nodes[t] = "pending"
  BY DEF Routable
<1>2. PICK none : none = <<>>
  OBVIOUS
<1> DEFINE active == {n} \cup ToSet(F) \cup also
           found == SeedSuccessors(s, n, active)
           seeds == Without(found, ToSet(F))
           losers == IF IsRace(seeds) THEN Among(F, {t \in ToSet(F) : ~IsJoin(t)}) ELSE <<>>
<1>3. PICK runnable : runnable = seeds
  OBVIOUS
<1> DEFINE to == Distinct(Successors(s, n))
           racedOut == ToSet(none) \cup (ToSet(seeds) \ ToSet(runnable))
           new == {t \in ToSet(to) \ racedOut : ~HopOfLatestRun(s, n, t)}
           bounded == {e.to : e \in {d \in ToSet(SelectedEdges(s, n, FALSE)) : d.cap > 0}}
           hopped == Among(to, new)
           counted == Among(runnable, bounded)
           left == Without(F, ToSet(none))
<1>4. Orderly(s)
  BY <1>1 DEF Kept
<1>5. found \in Seq(Nodes) /\ ToSet(found) = {t \in Onward(s, n) : Open(s, t, active)}
  BY <1>1, <1>4, SeedsAreTargets, SeedsAreOpen
<1>6. seeds \in Seq(Nodes) /\ ToSet(seeds) = ToSet(found) \ ToSet(F)
  <2> HIDE DEF found
  <2> QED BY <1>5, WithoutDrops
<1>7. Onward(s, n) \subseteq Nodes /\ Onward(s, n) \subseteq Targets(n)
  BY <1>1, <1>4, RoutedAreOnward DEF Orderly
<1>8. ~IsRace(seeds)
  <2> HIDE DEF seeds, found
  <2> QED BY <1>5, <1>6, <1>7 DEF IsRace, Races, OneWay
<1>9. adv = Proceed(s, n, F, seeds, runnable, none)
  <2>1. Runnable(seeds) = runnable
    <3> HIDE DEF seeds
    <3> QED BY <1>8, <1>3 DEF Runnable
  <2>2. losers = none
    <3> HIDE DEF seeds
    <3> QED BY <1>8, <1>2
  <2>3. adv = Proceed(s, n, F, seeds, Runnable(seeds), losers)
    BY DEF Advance, Route
  <2> HIDE DEF seeds, losers
  <2> QED BY <2>1, <2>2, <2>3
<1>10. /\ adv.log = (WriteOff(none) \o Hops(n, hopped)) \o CountedHops(n, counted)
      /\ adv.frontier = left \o runnable
  <2> HIDE DEF seeds
  <2> DEFINE p == Proceed(s, n, F, seeds, runnable, none)
  <2>1. /\ p.log = (WriteOff(none) \o Hops(n, hopped)) \o CountedHops(n, counted)
        /\ p.frontier = left \o runnable
    BY DEF Proceed
  <2> HIDE DEF p, hopped, counted, left
  <2> QED BY <1>9, <2>1 DEF p
<1>11. bounded = {}
  <2>1. \A e \in ToSet(SelectedEdges(s, n, FALSE)) : e.cap = 0
    BY SelectedAreOutgoing DEF OneWay
  <2> SUFFICES ASSUME NEW x \in bounded PROVE FALSE
    OBVIOUS
  <2>2. PICK e \in ToSet(SelectedEdges(s, n, FALSE)) : e.cap > 0
    OBVIOUS
  <2>3. e.cap = 0
    BY <2>1
  <2> QED BY <2>2, <2>3
<1>12. counted = <<>>
  <2> HIDE DEF seeds, bounded
  <2>1. counted \in Seq(Nodes) /\ ToSet(counted) = {}
    BY <1>6, <1>11, <1>3, AmongKeeps
  <2> HIDE DEF counted
  <2> QED BY <2>1, HeadAndTail
<1>13. CountedHops(n, counted) = <<>>
  <2> HIDE DEF counted
  <2>1. \A seq : seq = <<>> => CountedHops(n, seq) = <<>>
    BY DEF CountedHops
  <2> QED BY <1>12, <2>1
<1>14. WriteOff(none) = <<>>
  <2> DEFINE seqs == [i \in DOMAIN none |-> WrittenOff(none[i])]
  <2>1. seqs \in Seq(Seq({})) /\ Len(seqs) = 0
    BY <1>2
  <2> HIDE DEF seqs
  <2>2. PICK cat \in [0 .. Len(seqs) -> Seq({})] : cat[0] = <<>> /\ FlattenSeq(seqs) = cat[Len(seqs)]
    BY <2>1, Flattens
  <2>3. FlattenSeq(seqs) = <<>>
    BY <2>1, <2>2
  <2> QED BY <2>3 DEF WriteOff, seqs
<1>15. hopped \in Seq(Nodes) /\ ToSet(hopped) \subseteq Onward(s, n)
  <2>1. to \in Seq(Nodes) /\ ToSet(to) = Onward(s, n)
    BY SuccessorsAreTargets, DistinctIsInjective DEF Onward
  <2> HIDE DEF to, new
  <2> QED BY <2>1, AmongKeeps
<1>16. Hops(n, hopped) \in Seq(LogRecords({}))
  <2> HIDE DEF hopped
  <2> QED BY <1>7, <1>15, HopsTell
<1>17. adv.log = Hops(n, hopped)
  <2> DEFINE h == Hops(n, hopped)
  <2>1. adv.log = (<<>> \o h) \o <<>>
    BY <1>10, <1>13, <1>14
  <2>2. h \in Seq(LogRecords({}))
    BY <1>16
  <2> HIDE DEF h
  <2>3. adv.log = h
    BY <2>1, <2>2
  <2> QED BY <2>3 DEF h
<1>18. left \in Seq(Nodes) /\ ToSet(left) = ToSet(F)
  <2> DEFINE S == ToSet(none)
  <2>1. S = {}
    BY <1>2 DEF ToSet
  <2>2. Without(F, S) \in Seq(Nodes) /\ ToSet(Without(F, S)) = ToSet(F)
    <3> HIDE DEF S
    <3>1. Without(F, S) \in Seq(Nodes) /\ ToSet(Without(F, S)) = ToSet(F) \ S
      BY WithoutDrops
    <3> QED BY <2>1, <3>1
  <2> QED BY <2>2
<1>19. adv.frontier \in Seq(Nodes) /\ ToSet(adv.frontier) = ToSet(F) \cup ToSet(seeds)
  <2>1. adv.frontier = left \o seeds
    BY <1>10, <1>3
  <2> HIDE DEF left, seeds
  <2>2. left \o seeds \in Seq(Nodes) /\ ToSet(left \o seeds) = ToSet(left) \cup ToSet(seeds)
    <3>1. seeds \in Seq(Nodes)
      BY <1>6
    <3>2. left \in Seq(Nodes)
      BY <1>18
    <3> QED BY <3>1, <3>2, Joined, Zenon
  <2> QED BY <1>18, <2>1, <2>2
<1>20. ToSet(adv.frontier) = ToSet(F) \cup {t \in Onward(s, n) : Open(s, t, active)}
  <2> HIDE DEF seeds, found
  <2> QED BY <1>5, <1>6, <1>19
<1>21. ASSUME NEW u, Kept(u), u.nodes = s.nodes, \A m \in Nodes : Onward(u, m) = Onward(s, m)
       PROVE  Continues(u, adv.log, {n})
  <2> HIDE DEF hopped
  <2> DEFINE w == Fold(u, Hops(n, hopped))
  <2>1. IsFinished(u, n) /\ \A t \in ToSet(hopped) : t \in Onward(u, n) /\ u.nodes[t] = "pending"
    BY <1>1, <1>15, <1>21 DEF IsFinished
  <2>2. hopped \in Seq(Nodes)
    BY <1>15
  <2>3. w = Fold(u, Hops(n, hopped))
    OBVIOUS
  <2> HIDE DEF w
  <2>4. /\ Keeping(u, Hops(n, hopped)) /\ Kept(w) /\ (OwedIsPending(u) => OwedIsPending(w))
        /\ Beside(u, w) /\ w.refused = u.refused /\ w.run = u.run
        /\ \A m \in Nodes : Onward(w, m) = Onward(u, m)
        /\ \A p \in Pairs : w.hops[p] = u.hops[p] \/ (p[1] = n /\ p[2] \in ToSet(hopped))
    BY <1>1, <1>21, <2>1, <2>2, <2>3, HopsAreKept
  <2>5. \A p \in Pairs : w.hops[p] = u.hops[p] \/ (p[1] \in {n} /\ p[2] \in Onward(u, p[1]))
    BY <2>1, <2>4
  <2>6. Continues(u, Hops(n, hopped), {n})
    BY <1>16, <2>3, <2>4, <2>5 DEF Continues
  <2> QED BY <1>17, <2>6
<1> QED BY <1>19, <1>20, <1>21 DEF Forwards

-----------------------------------------------------------------------------
(* The driver's memory in a playbook without loops. *)

\* Nothing beyond these nodes has begun or is held: no work on the way is behind other such work.
Quiet(s, from, held) == \A a \in from : \A y \in Beyond(a) : s.nodes[y] = "pending" /\ y \notin held

\* What the driver still has to finish or to route, and what its routed members sent the run to.
Work(d) == IF d.phase = "batch" THEN (ToSet(d.batch) \ d.advanced) \cup ToSet(d.frontier)
           ELSE {d.current} \cup ToSet(d.frontier)
Sent(s, d) == (UNION {Onward(s, m) : m \in d.advanced}) \ d.advanced

\* A turn or a node: nothing held is over, nor held twice.
Upright(s, d) ==
  d.phase # "batch" => /\ d.current \notin ToSet(d.frontier)
                       /\ \A n \in Work(d) : ~IsFinished(s, n)

\* A batch: members are routed at once only in a batch where nothing failed, the rest at its end.
BatchFits(s, d) ==
  d.phase = "batch" =>
    /\ ToSet(d.batch) # {}
    /\ Quiet(s, Sent(s, d), Work(d))
    /\ \A n \in ToSet(d.queue) \cup ToSet(d.frontier) : ~IsFinished(s, n)
    /\ ToSet(d.frontier) \cap ToSet(d.batch) = {}
    /\ \A n \in d.ended : s.nodes[n] \in {"succeeded", "failed"}
    /\ d.ended \subseteq d.advanced \/ ~d.pipelining \/ d.halted
    /\ ~d.won
    /\ \A m \in d.advanced : \A t \in Onward(s, m) \ ToSet(d.batch) :
         s.nodes[t] = "pending" /\ (IsJoin(t) \/ t \in ToSet(d.frontier))

Holds(s, d) == Quiet(s, Work(d), Work(d)) /\ Upright(s, d) /\ BatchFits(s, d)

\* The driver goes on with what it holds: it does not when a pause is about to end its drive.
GoesOn(d, posted) == d.phase # "off" /\ (d.phase = "turn" => posted = "no")

OwedIn(s, t) == \E n \in Nodes : <<n, t>> \in Pairs /\ s.hops[<<n, t>>] > s.started[t]

\* What the run was sent to and need not wait is in memory, not yet started.
Remembers(s, d) ==
  \A t \in Nodes : OwedIn(s, t) /\ ~IsJoin(t) =>
    t \in ToSet(d.frontier) \cup (IF d.phase = "batch" THEN ToSet(d.queue) ELSE {d.current})

HasEnded(s) == s.run \in {"succeeded", "failed"}
Debts(s, d, posted) ==
  /\ ~HasEnded(s) => OwedIsPending(s)
  /\ GoesOn(d, posted) /\ (d.phase = "batch" => ~d.halted) => Remembers(s, d)

\* A finish was reached, or a node's outcome led nowhere.
Reason(s) ==
  \/ \E n \in Graph.finish : s.finished[n] > 0
  \/ \E n \in Nodes : s.nodes[n] \in {"succeeded", "failed"} /\ Successors(s, n) = <<>>

\* The inductive invariant of a playbook without loops.
Tidy(s, d, posted, crashed) ==
  /\ Kept(s)
  /\ GoesOn(d, posted) => Holds(s, d)
  /\ crashed = 0 => Debts(s, d, posted)
  /\ s.run = "failed" => Reason(s)

\* A crash may cut these records anywhere.
MayBeCut(s, log) ==
  \A k \in 1 .. Len(log) - 1 : /\ Kept(Fold(s, SubSeq(log, 1, k)))
                               /\ Fold(s, SubSeq(log, 1, k)).run # "failed"

\* Records that keep the order can be cut, also with one more record at their end.
LEMMA KeepingMayBeCut ==
  ASSUME NEW s, s.run = "running", NEW R, NEW log \in Seq(R), Keeping(s, log)
  PROVE  /\ MayBeCut(s, log)
         /\ \A r : MayBeCut(s, log \o <<r>>)
<1>1. ASSUME NEW k \in 0 .. Len(log) PROVE Kept(Fold(s, SubSeq(log, 1, k))) /\ Fold(s, SubSeq(log, 1, k)).run # "failed"
  BY DEF Keeping
<1>2. MayBeCut(s, log)
  BY <1>1 DEF MayBeCut
<1>3. ASSUME NEW r PROVE MayBeCut(s, log \o <<r>>)
  <2>1. ASSUME NEW k \in 1 .. Len(log \o <<r>>) - 1
        PROVE  k \in 0 .. Len(log) /\ SubSeq(log \o <<r>>, 1, k) = SubSeq(log, 1, k)
    <3> DEFINE T == R \cup {r}
    <3>1. log \in Seq(T) /\ <<r>> \in Seq(T)
      OBVIOUS
    <3>2. Len(log \o <<r>>) = Len(log) + 1 /\ Len(log) \in Nat
      OBVIOUS
    <3>3. k \in 1 .. Len(log)
      BY <3>2
    <3>4. \A j \in 1 .. k : (log \o <<r>>)[j] = log[j]
      BY <3>3
    <3> QED BY <3>1, <3>2, <3>3, <3>4
  <2> QED BY <1>1, <2>1 DEF MayBeCut
<1> QED BY <1>2, <1>3

\* A step of the drive: its records, whole or cut off, and the memory it leaves.
LEMMA WriteIsTidy ==
  ASSUME crashes \in Nat, NEW log, MayBeCut(state, log), NEW next,
         Tidy(Fold(state, log), next, asked, crashes), Write(log, next)
  PROVE  Tidy(state', drive', asked', crashes')
<1>1. asked' = asked /\ UNCHANGED shape
  BY DEF Write
<1>2. CASE state' = Fold(state, log) /\ drive' = next /\ UNCHANGED crashes
  BY <1>1, <1>2
<1>3. ASSUME NEW k \in 1 .. Len(log) - 1, state' = Fold(state, SubSeq(log, 1, k)), drive' = Off,
             crashes' = crashes + 1
      PROVE  Tidy(state', drive', asked', crashes')
  <2>1. Kept(state') /\ state'.run # "failed"
    BY <1>3 DEF MayBeCut
  <2>2. ~GoesOn(drive', asked')
    BY <1>3 DEF GoesOn, Off
  <2>3. crashes' # 0
    BY <1>3
  <2> QED BY <2>1, <2>2, <2>3 DEF Tidy
<1> QED BY <1>2, <1>3 DEF Write

\* A driver that does not die lets go of a run with the record of its end.
LetsGoAtTheEnd == crashes' = crashes /\ drive'.phase = "off" => HasEnded(state')

\* It is enough that the driver goes on, or that its records end the run.
LEMMA WriteLetsGo ==
  ASSUME crashes \in Nat, NEW log, NEW next, next.phase # "off" \/ HasEnded(Fold(state, log)), Write(log, next)
  PROVE  LetsGoAtTheEnd
<1>1. crashes + 1 # crashes
  OBVIOUS
<1> QED BY <1>1 DEF Write, LetsGoAtTheEnd

\* What a run ends for is still there once the end is journaled.
LEMMA EndIsTidy ==
  ASSUME shape \in DOMAIN Graphs, OneWay, NEW s, Kept(s), NEW status \in {"succeeded", "failed"},
         status = "failed" => Reason(s), NEW posted, NEW crashed
  PROVE  Tidy(FoldOne(s, RunIs(status)), Off, posted, crashed) /\ HasEnded(FoldOne(s, RunIs(status)))
<1> DEFINE u == FoldOne(s, RunIs(status))
<1>1. status \in RunStatuses
  BY DEF RunStatuses
<1>2. Kept(u) /\ Beside(s, u) /\ u.run = status /\ u.refused = s.refused
  BY <1>1, RunRecordKeeps
<1> HIDE DEF u
<1>3. \A m \in Nodes : Successors(u, m) = Successors(s, m)
  BY <1>2, OnwardAlike DEF Beside
<1>4. status = "failed" => Reason(u)
  BY <1>2, <1>3 DEF Reason, Beside
<1>5. ~GoesOn(Off, posted) /\ HasEnded(u)
  BY <1>2 DEF GoesOn, Off, HasEnded
<1>6. Tidy(u, Off, posted, crashed)
  BY <1>2, <1>4, <1>5 DEF Tidy, Debts
<1> QED BY <1>5, <1>6 DEF u

\* A record after a log, folded.
LEMMA OneMoreFolded ==
  ASSUME NEW s, NEW R, NEW log \in Seq(R), NEW r
  PROVE  Fold(s, log \o <<r>>) = FoldOne(Fold(s, log), r)
<1> DEFINE T == R \cup {r}
           one == <<r>>
           u == Fold(s, log)
<1>1. log \in Seq(T) /\ one \in Seq(T) /\ Len(one) = 1 /\ one[1] = r
  OBVIOUS
<1> HIDE DEF one, T, u
<1>2. PICK at : Through(u, one, at)
  BY <1>1, FoldSteps
<1>3. Fold(u, one) = FoldOne(u, r)
  BY <1>1, <1>2 DEF Through
<1>4. Fold(s, log \o one) = Fold(u, one)
  BY <1>1, FoldJoined DEF u
<1> QED BY <1>3, <1>4 DEF one, u

\* Heads the next turn may hold.
InLine(s, F) ==
  /\ Quiet(s, F, F) /\ \A n \in F : ~IsFinished(s, n)
  /\ crashes = 0 => OwedIsPending(s) /\ \A t \in Nodes : OwedIn(s, t) /\ ~IsJoin(t) => t \in F

\* The tail of a node or a batch: heads that are in order, or a reason to fail.
LEMMA NextHeadIsTidy ==
  ASSUME DriveInv, OneWay, drive.phase # "off", NEW R, NEW log \in Seq(R), Keeping(state, log),
         NEW frontier \in Seq(Nodes), IsInjective(frontier),
         frontier # <<>> => InLine(Fold(state, log), ToSet(frontier)),
         frontier = <<>> => Reason(Fold(state, log)),
         NextHead(log, frontier)
  PROVE  Tidy(state', drive', asked', crashes') /\ LetsGoAtTheEnd
<1> DEFINE s == Fold(state, log)
<1>0. shape \in DOMAIN Graphs /\ crashes \in Nat /\ state.run = "running"
  BY InvNow DEF MemorySound
<1>1. Kept(s) /\ s.run = "running"
  BY <1>0, KeptAtTheEnd
<1>2. MayBeCut(state, log) /\ \A r : MayBeCut(state, log \o <<r>>)
  BY <1>0, KeepingMayBeCut
<1>3. CASE frontier = <<>>
  <2> DEFINE r == RunIs("failed")
             all == log \o <<r>>
  <2>1. Write(all, Off)
    BY <1>3 DEF NextHead
  <2>2. MayBeCut(state, all)
    BY <1>2
  <2>3. Fold(state, all) = FoldOne(s, r)
    BY OneMoreFolded
  <2>4. Tidy(FoldOne(s, r), Off, asked, crashes) /\ HasEnded(FoldOne(s, r))
    <3> HIDE DEF s
    <3> QED BY <1>0, <1>1, <1>3, EndIsTidy DEF s
  <2> HIDE DEF all, r, s
  <2> QED BY <1>0, <2>1, <2>2, <2>3, <2>4, WriteIsTidy, WriteLetsGo
<1>4. CASE frontier # <<>>
  <2> DEFINE next == [Off EXCEPT !.phase = "turn", !.current = Head(frontier),
                                 !.frontier = Tail(frontier), !.halted = drive.halted]
  <2>1. Write(log, next)
    BY <1>4 DEF NextHead
  <2>2. /\ next.phase = "turn" /\ next.current = Head(frontier) /\ next.frontier = Tail(frontier)
    BY DEF Off
  <2>3. ToSet(frontier) = {Head(frontier)} \cup ToSet(Tail(frontier)) /\ Head(frontier) \notin ToSet(Tail(frontier))
    BY <1>4, HeadAndTail
  <2> HIDE DEF next
  <2>4. Work(next) = ToSet(frontier)
    BY <2>2, <2>3 DEF Work
  <2>5. InLine(s, ToSet(frontier))
    BY <1>4
  <2> HIDE DEF s
  <2>6. Holds(s, next)
    BY <2>2, <2>3, <2>4, <2>5 DEF InLine, Holds, Upright, BatchFits
  <2>7. crashes = 0 => Debts(s, next, asked)
    BY <2>2, <2>3, <2>5 DEF InLine, Debts, Remembers
  <2>8. Tidy(s, next, asked, crashes)
    BY <1>1, <2>6, <2>7 DEF Tidy
  <2>9. next.phase # "off"
    BY <2>2
  <2> QED BY <1>0, <1>2, <2>1, <2>8, <2>9, WriteIsTidy, WriteLetsGo DEF s
<1> QED BY <1>3, <1>4

\* Heads beside work at hand: each is at work, nothing beyond it is begun or held already, and
\* what is newly held is open while that work is.
Growing(s, active, from, old, held) ==
  /\ active \in SUBSET Nodes /\ from \in SUBSET Nodes
  /\ \A a \in from : AtWork(s, a, active) /\ \A y \in Beyond(a) : s.nodes[y] = "pending" /\ y \notin old
  /\ \A y \in held : y \in old \/ \E A \in SUBSET Nodes : active \subseteq A /\ Open(s, y, A)

\* What is open while work is at hand is not beyond it.
LEMMA GrowthIsQuiet ==
  ASSUME shape \in DOMAIN Graphs, OneWay, NEW s, Orderly(s), NEW active, NEW from, NEW old, NEW held,
         Growing(s, active, from, old, held)
  PROVE  Quiet(s, from, held)
<1> SUFFICES ASSUME NEW a \in from, NEW y \in Beyond(a), y \in held PROVE s.nodes[y] = "pending" /\ FALSE
  BY DEF Quiet, Growing
<1>1. y \notin old /\ AtWork(s, a, active) /\ a \in Nodes
  BY DEF Growing
<1>2. PICK A \in SUBSET Nodes : active \subseteq A /\ Open(s, y, A)
  BY <1>1 DEF Growing
<1>3. AtWork(s, a, A)
  BY <1>1, <1>2 DEF AtWork
<1>4. \A z \in Beyond(a) : ~IsFinished(s, z)
  BY DEF IsFinished, Growing
<1> QED BY <1>1, <1>2, <1>3, <1>4, WorkCloses

\* Two records of a head that is written off.
LEMMA OneIsWrittenOff ==
  ASSUME shape \in DOMAIN Graphs, OneWay, NEW s, Kept(s), NEW n \in Nodes, ~IsFinished(s, n),
         \A y \in Beyond(n) : s.nodes[y] = "pending", NEW u, u = Fold(s, WrittenOff(n))
  PROVE  /\ Keeping(s, WrittenOff(n)) /\ Kept(u) /\ WrittenOff(n) \in Seq(LogRecords(Nodes))
         /\ \A m \in Nodes \ {n} : u.nodes[m] = s.nodes[m] /\ Onward(u, m) = Onward(s, m)
<1> DEFINE a == <<NodeStarted(n)>>
           b == <<NodeFinished(n, "cancelled")>>
           v == FoldOne(s, NodeStarted(n))
           w == FoldOne(v, NodeFinished(n, "cancelled"))
           R == LogRecords(Nodes)
<1>1. a \in Seq(R) /\ b \in Seq(R) /\ WrittenOff(n) = a \o b
  <2>1. NodeStarted(n) \in R /\ NodeFinished(n, "cancelled") \in R
    BY DEF LogRecords, NodeRecords, FinalStatuses
  <2> HIDE DEF R
  <2> QED BY <2>1 DEF WrittenOff
<1>2. /\ Kept(v) /\ v.nodes = [s.nodes EXCEPT ![n] = "running"] /\ v.run = s.run
      /\ \A m \in Nodes \ {n} : Onward(v, m) = Onward(s, m)
  BY StartKeeps
<1>3. Keeping(s, a) /\ Fold(s, a) = v
  BY <1>2, KeepingOne
<1>4. s.nodes \in [Nodes -> Statuses] /\ n \notin Beyond(n)
  BY DEF Kept, Orderly, RunStates, OneWay
<1> HIDE DEF v
<1>5. ~IsFinished(v, n) /\ \A y \in Beyond(n) : v.nodes[y] = "pending"
  <2>1. v.nodes[n] = "running"
    BY <1>2, <1>4
  <2>2. \A y \in Beyond(n) : y \in Nodes /\ y # n
    BY <1>4, BeyondFacts
  <2> QED BY <1>2, <1>4, <2>1, <2>2 DEF IsFinished
<1>6. /\ Kept(w) /\ w.nodes = [v.nodes EXCEPT ![n] = "cancelled"] /\ w.run = v.run
      /\ \A m \in Nodes \ {n} : Onward(w, m) = Onward(v, m)
  <2>1. "cancelled" \in FinalStatuses
    BY DEF FinalStatuses
  <2>2. w = FoldOne(v, NodeFinished(n, "cancelled"))
    OBVIOUS
  <2> HIDE DEF w
  <2>3. Kept(v) /\ ~IsFinished(v, n) /\ \A y \in Beyond(n) : v.nodes[y] = "pending"
    BY <1>2, <1>5
  <2>4. \A status \in FinalStatuses : \A z :
          z = FoldOne(v, NodeFinished(n, status)) =>
            /\ Kept(z) /\ z.nodes = [v.nodes EXCEPT ![n] = status] /\ z.run = v.run
            /\ \A m \in Nodes \ {n} : Onward(z, m) = Onward(v, m)
    BY <2>3, FinishKeeps
  <2> QED BY <2>1, <2>2, <2>4
<1>7. Keeping(v, b) /\ Fold(v, b) = w
  BY <1>2, <1>6, KeepingOne
<1> HIDE DEF w, a, b, R
<1>8. Keeping(s, a \o b) /\ Fold(s, a \o b) = w /\ a \o b \in Seq(R)
  BY <1>1, <1>3, <1>7, KeepingJoined
<1>9. \A m \in Nodes \ {n} : w.nodes[m] = s.nodes[m] /\ Onward(w, m) = Onward(s, m)
  BY <1>2, <1>4, <1>6
<1> QED BY <1>1, <1>6, <1>8, <1>9 DEF R

\* Heads none of which is beyond another are written off together.
LEMMA WriteOffKeeps ==
  ASSUME shape \in DOMAIN Graphs, OneWay, NEW s, Kept(s), NEW F \in Seq(Nodes), IsInjective(F),
         \A n \in ToSet(F) : ~IsFinished(s, n), Quiet(s, ToSet(F), ToSet(F)),
         NEW u, u = Fold(s, WriteOff(F))
  PROVE  /\ Keeping(s, WriteOff(F)) /\ Kept(u) /\ WriteOff(F) \in Seq(LogRecords(Nodes))
         /\ \A m \in Nodes \ ToSet(F) : u.nodes[m] = s.nodes[m] /\ Onward(u, m) = Onward(s, m)
<1> DEFINE R == LogRecords(Nodes)
           seqs == [i \in DOMAIN F |-> WrittenOff(F[i])]
<1>1. DOMAIN F = 1 .. Len(F) /\ Len(F) \in Nat /\ \A i \in 1 .. Len(F) : F[i] \in ToSet(F) /\ F[i] \in Nodes
  BY DEF ToSet
<1>2. \A n \in Nodes : WrittenOff(n) \in Seq(R)
  <2>1. \A n \in Nodes : NodeStarted(n) \in R /\ NodeFinished(n, "cancelled") \in R
    BY DEF LogRecords, NodeRecords, FinalStatuses
  <2> HIDE DEF R
  <2> QED BY <2>1 DEF WrittenOff
<1> HIDE DEF R
<1>3. seqs \in Seq(Seq(R)) /\ Len(seqs) = Len(F) /\ \A i \in 1 .. Len(F) : seqs[i] = WrittenOff(F[i])
  BY <1>1, <1>2
<1> HIDE DEF seqs
<1>4. PICK cat \in [0 .. Len(seqs) -> Seq(R)] :
        /\ cat[0] = <<>> /\ FlattenSeq(seqs) = cat[Len(seqs)]
        /\ \A k \in 1 .. Len(seqs) : cat[k] = cat[k - 1] \o seqs[k]
  BY <1>3, Flattens
<1> DEFINE Done(k) == {F[i] : i \in 1 .. k}
           Good(k) == /\ Keeping(s, cat[k]) /\ Kept(Fold(s, cat[k]))
                      /\ \A m \in Nodes \ Done(k) : /\ Fold(s, cat[k]).nodes[m] = s.nodes[m]
                                                    /\ Onward(Fold(s, cat[k]), m) = Onward(s, m)
           Fine == {k \in Nat : k <= Len(F) => Good(k)}
<1>5. 0 \in Fine
  <2> DEFINE c == cat[0]
  <2>1. Keeping(s, c) /\ Fold(s, c) = s
    BY <1>4, KeepingNothing
  <2> HIDE DEF c
  <2> QED BY <2>1 DEF c
<1>6. ASSUME NEW k \in Nat, k \in Fine PROVE k + 1 \in Fine
  <2> SUFFICES ASSUME k + 1 <= Len(F) PROVE Good(k + 1)
    OBVIOUS
  <2>0. k <= Len(F) /\ k \in 0 .. Len(seqs) /\ k + 1 \in 1 .. Len(seqs) /\ (k + 1) - 1 = k
    BY <1>1, <1>3
  <2>1. Good(k)
    <3> HIDE DEF Good
    <3> QED BY <1>6, <2>0
  <2> DEFINE n == F[k + 1]
             b == WrittenOff(n)
             c == cat[k]
             v == Fold(s, c)
             w == Fold(v, b)
  <2>2. n \in Nodes /\ n \in ToSet(F) /\ n \notin Done(k)
    <3>1. \A i \in 1 .. k : i \in DOMAIN F /\ k + 1 \in DOMAIN F /\ i # k + 1
      BY <1>1
    <3>2. \A i \in 1 .. k : F[i] # F[k + 1]
      BY <3>1 DEF IsInjective
    <3> QED BY <1>1, <1>3, <2>0, <3>2
  <2>3. c \in Seq(R) /\ b \in Seq(R) /\ cat[k + 1] = c \o b
    BY <1>2, <1>3, <1>4, <2>0, <2>2
  <2>4. /\ Keeping(s, c) /\ Kept(v)
        /\ \A m \in Nodes \ Done(k) : v.nodes[m] = s.nodes[m] /\ Onward(v, m) = Onward(s, m)
    BY <2>1
  <2>5. Done(k + 1) = Done(k) \cup {n} /\ Done(k) \subseteq ToSet(F)
    <3>1. 1 .. k + 1 = 1 .. k \cup {k + 1} /\ 1 .. k \subseteq 1 .. Len(F)
      BY <1>1
    <3> QED BY <1>1, <3>1
  <2> HIDE DEF n, b, c, v, w, Done
  <2>6. ~IsFinished(v, n) /\ \A y \in Beyond(n) : v.nodes[y] = "pending"
    <3>1. ~IsFinished(v, n)
      BY <2>2, <2>4 DEF IsFinished
    <3>2. \A y \in Beyond(n) : y \in Nodes /\ y \notin ToSet(F) /\ s.nodes[y] = "pending"
      BY <2>2, BeyondFacts DEF Quiet
    <3> QED BY <2>4, <2>5, <3>1, <3>2
  <2>7. /\ Keeping(v, b) /\ Kept(w)
        /\ \A m \in Nodes \ {n} : w.nodes[m] = v.nodes[m] /\ Onward(w, m) = Onward(v, m)
    <3>1. w = Fold(v, WrittenOff(n))
      BY DEF w, b
    <3> QED BY <2>2, <2>4, <2>6, <3>1, OneIsWrittenOff DEF b
  <2>8. Keeping(s, c \o b) /\ Fold(s, c \o b) = w
    BY <2>3, <2>4, <2>7, KeepingJoined DEF v, w
  <2>9. \A m \in Nodes \ Done(k + 1) : w.nodes[m] = s.nodes[m] /\ Onward(w, m) = Onward(s, m)
    BY <2>4, <2>5, <2>7
  <2> QED BY <2>3, <2>7, <2>8, <2>9
<1> HIDE DEF Good
<1>7. \A k \in Nat : k \in Fine
  <2> HIDE DEF Fine
  <2> QED BY <1>5, <1>6, Induction
<1>8. Good(Len(F)) /\ WriteOff(F) = cat[Len(F)] /\ cat[Len(F)] \in Seq(R)
  BY <1>1, <1>3, <1>4, <1>7 DEF WriteOff, seqs
<1>9. Done(Len(F)) \subseteq ToSet(F)
  BY <1>1
<1> QED BY <1>8, <1>9 DEF Good, R

-----------------------------------------------------------------------------
(* The sequential arm keeps it. *)

\* The records that name no node are among those that name any.
LEMMA NoRecordsAreSome ==
  /\ LogRecords({}) \subseteq LogRecords(Nodes)
  /\ Seq(LogRecords({})) \subseteq Seq(LogRecords(Nodes))
<1>1. LogRecords({}) \subseteq LogRecords(Nodes)
  BY DEF LogRecords, NodeRecords
<1> QED BY <1>1

\* What an owed node is, once what is owed is pending: one a finished node selected and went on to.
LEMMA OwedIsSelected ==
  ASSUME shape \in DOMAIN Graphs, NEW s, HopsTaken(s), OwedIsPending(s), NEW t \in Nodes, OwedIn(s, t)
  PROVE  /\ s.nodes[t] = "pending"
         /\ \E n \in Nodes : IsFinished(s, n) /\ t \in Onward(s, n)
<1>1. PICK n \in Nodes : <<n, t>> \in Pairs /\ s.hops[<<n, t>>] > s.started[t]
  BY DEF OwedIn
<1> DEFINE p == <<n, t>>
<1>2. p \in Pairs /\ p[1] = n /\ p[2] = t /\ s.hops[p] > s.started[p[2]]
  BY <1>1
<1> HIDE DEF p
<1>3. s.nodes[t] = "pending" /\ s.hops[p] > s.started[p[1]]
  BY <1>2 DEF OwedIsPending
<1>4. IsFinished(s, n) /\ t \in Onward(s, n)
  BY <1>2, <1>3 DEF HopsTaken
<1> QED BY <1>3, <1>4

\* What a continuing log adds to what is owed.
LEMMA OwedContinues ==
  ASSUME NEW s, NEW M, NEW log, Continues(s, log, M), NEW t, OwedIn(Fold(s, log), t)
  PROVE  OwedIn(s, t) \/ \E m \in M : m \in Nodes /\ t \in Onward(s, m)
<1> DEFINE u == Fold(s, log)
<1>1. PICK n \in Nodes : <<n, t>> \in Pairs /\ u.hops[<<n, t>>] > u.started[t]
  BY DEF OwedIn
<1> DEFINE p == <<n, t>>
<1>2. p \in Pairs /\ p[1] = n /\ p[2] = t /\ u.hops[p] > u.started[t]
  BY <1>1
<1>3. /\ u.hops[p] = s.hops[p] \/ (p[1] \in M /\ p[2] \in Onward(s, p[1]))
      /\ u.started = s.started
  <2> HIDE DEF p
  <2> QED BY <1>2 DEF Continues, Beside
<1> HIDE DEF u
<1>4. CASE u.hops[p] = s.hops[p]
  BY <1>2, <1>3, <1>4 DEF OwedIn
<1>5. CASE p[1] \in M /\ p[2] \in Onward(s, p[1])
  BY <1>2, <1>5
<1> QED BY <1>3, <1>4, <1>5

\* A node that selects nothing has no successors to go on to.
LEMMA NowhereOnward ==
  ASSUME shape \in DOMAIN Graphs, NEW s, NEW n
  PROVE  Onward(s, n) = {} <=> Successors(s, n) = <<>>
<1> DEFINE to == Successors(s, n)
<1>1. to \in Seq(Nodes)
  BY SuccessorsAreTargets
<1> HIDE DEF to
<1>2. to = <<>> <=> ToSet(to) = {}
  BY <1>1, HeadAndTail
<1> QED BY <1>2 DEF to, Onward

\* A node that has just finished alone, beside the heads `F`.
FinishedAlone(s, n, F) ==
  /\ Kept(s) /\ n \in Nodes /\ s.nodes[n] \in {"succeeded", "failed"}
  /\ F \in Seq(Nodes) /\ n \notin ToSet(F) /\ \A f \in ToSet(F) : ~IsFinished(s, f)
  /\ \A a \in {n} \cup ToSet(F) : \A y \in Beyond(a) : s.nodes[y] = "pending" /\ y \notin {n} \cup ToSet(F)
  /\ crashes = 0 => OwedIsPending(s) /\ \A t \in Nodes : OwedIn(s, t) /\ ~IsJoin(t) => t \in ToSet(F)

\* Past it: heads in line, or a reason to fail.
LEMMA AdvanceIsInLine ==
  ASSUME shape \in DOMAIN Graphs, OneWay, NEW s, NEW n, NEW F, FinishedAlone(s, n, F),
         NEW adv, adv = Advance(s, n, F, {}), NEW u, u = Fold(s, adv.log)
  PROVE  /\ Continues(s, adv.log, {n}) /\ adv.frontier \in Seq(Nodes)
         /\ adv.frontier # <<>> => InLine(u, ToSet(adv.frontier))
         /\ adv.frontier = <<>> => Reason(u)
<1>. Kept(s) /\ n \in Nodes /\ s.nodes[n] \in {"succeeded", "failed"}
     /\ F \in Seq(Nodes) /\ n \notin ToSet(F) /\ (\A f \in ToSet(F) : ~IsFinished(s, f))
     /\ (\A a \in {n} \cup ToSet(F) : \A y \in Beyond(a) : s.nodes[y] = "pending" /\ y \notin {n} \cup ToSet(F))
     /\ (crashes = 0 => OwedIsPending(s) /\ \A t \in Nodes : OwedIn(s, t) /\ ~IsJoin(t) => t \in ToSet(F))
  BY DEF FinishedAlone
<1> DEFINE active == {n} \cup ToSet(F) \cup {}
           G == ToSet(adv.frontier)
<1>0. IsFinished(s, n) /\ Orderly(s) /\ HopsTaken(s) /\ ToSet(F) \subseteq Nodes
  BY Elements DEF IsFinished, Kept, Orderly
<1>1. Onward(s, n) \subseteq Beyond(n) /\ Onward(s, n) \subseteq Nodes
  BY <1>0, RoutedAreOnward
<1>2. \A t \in Onward(s, n) : s.nodes[t] = "pending"
  BY <1>1
<1>3. /\ adv.frontier \in Seq(Nodes)
      /\ G = ToSet(F) \cup {t \in Onward(s, n) : Open(s, t, active)}
      /\ \A v : /\ Kept(v) /\ v.nodes = s.nodes
                /\ \A m \in Nodes : Onward(v, m) = Onward(s, m)
                => Continues(v, adv.log, {n})
  <2>1. Routable(s, n)
    BY <1>0, <1>2 DEF Routable
  <2>2. Forwards(s, n, F, {}, adv)
    BY <2>1, AdvanceGoesOn
  <2> QED BY <2>2 DEF Forwards
<1> HIDE DEF G
<1>4. Continues(s, adv.log, {n})
  BY <1>3
<1>5. Kept(u) /\ Beside(s, u) /\ (OwedIsPending(s) => OwedIsPending(u)) /\ \A m \in Nodes : Onward(u, m) = Onward(s, m)
  BY <1>4 DEF Continues
<1>6. active \in SUBSET Nodes /\ G \subseteq Nodes
  BY <1>0, <1>1, <1>3
<1>7. Quiet(s, G, G)
  <2> DEFINE old == {n} \cup ToSet(F)
  <2>1. ASSUME NEW a \in G
        PROVE  AtWork(s, a, active) /\ \A y \in Beyond(a) : s.nodes[y] = "pending" /\ y \notin old
    <3>1. CASE a \in ToSet(F)
      BY <3>1 DEF AtWork
    <3>2. CASE a \in Onward(s, n)
      <4>1. a \in Beyond(n) /\ s.nodes[a] = "pending"
        BY <1>1, <1>2, <3>2
      <4>2. Beyond(a) \subseteq Beyond(n)
        BY <4>1, BeyondFacts
      <4>3. ~IsFinished(s, a)
        BY <4>1 DEF IsFinished
      <4>4. AtWork(s, a, active)
        BY <1>0, <3>2, <4>3 DEF AtWork
      <4> QED BY <4>2, <4>4
    <3> QED BY <1>3, <3>1, <3>2
  <2>2. \A y \in G : y \in old \/ \E A \in SUBSET Nodes : active \subseteq A /\ Open(s, y, A)
    BY <1>3, <1>6
  <2> HIDE DEF old, active
  <2>3. Growing(s, active, G, old, G)
    BY <1>6, <2>1, <2>2 DEF Growing
  <2> QED BY <1>0, <2>3, GrowthIsQuiet
<1>8. \A m \in G : ~IsFinished(s, m)
  BY <1>2, <1>3 DEF IsFinished
<1>9. InLine(u, G)
  <2>1. Quiet(u, G, G) /\ \A m \in G : ~IsFinished(u, m)
    BY <1>5, <1>7, <1>8 DEF Quiet, Beside, IsFinished
  <2>2. ASSUME crashes = 0, NEW t \in Nodes, OwedIn(u, t), ~IsJoin(t) PROVE t \in G
    <3>1. OwedIn(s, t) \/ t \in Onward(s, n)
      BY <1>4, <2>2, OwedContinues
    <3>2. CASE OwedIn(s, t)
      BY <1>3, <2>2, <3>2
    <3>3. CASE t \in Onward(s, n)
      <4>1. IsReady(s, t, active)
        BY <2>2 DEF IsReady, Readiness
      <4>2. Open(s, t, active)
        <5> HIDE DEF active
        <5> QED BY <1>0, <3>3, <4>1, ReadyIsOpen
      <4> QED BY <1>3, <3>3, <4>2
    <3> QED BY <3>1, <3>2, <3>3
  <2> QED BY <1>5, <2>1, <2>2 DEF InLine
<1>10. ASSUME adv.frontier = <<>> PROVE Reason(u)
  <2>1. G = {}
    BY <1>3, <1>10, HeadAndTail DEF G
  <2>2. active = {n}
    BY <1>3, <2>1
  <2>3. Onward(s, n) = {}
    <3> SUFFICES ASSUME Onward(s, n) # {} PROVE FALSE
      OBVIOUS
    <3> DEFINE M == {n}
    <3>1. M \in SUBSET Nodes /\ M # {}
      OBVIOUS
    <3>2. \A m \in M : /\ IsFinished(s, m) /\ Onward(s, m) # {}
                       /\ \A t \in Onward(s, m) : t \in M \/ ~IsFinished(s, t)
      BY <1>0, <1>2 DEF IsFinished
    <3> HIDE DEF M
    <3>3. PICK m \in M : \E t \in Onward(s, m) : t \notin M /\ Open(s, t, M)
      BY <1>0, <3>1, <3>2, SomethingIsOpen
    <3>4. m = n /\ M = active
      BY <2>2 DEF M
    <3> QED BY <1>3, <2>1, <3>3, <3>4
  <2>4. Successors(u, n) = <<>>
    BY <1>5, <2>3, NowhereOnward
  <2> QED BY <1>5, <2>4 DEF Reason, Beside
<1> QED BY <1>3, <1>4, <1>9, <1>10 DEF G

\* The records of the current node's end.
EndsAs(log, status) ==
  /\ log \in Seq(LogRecords(Nodes)) /\ Keeping(state, log) /\ status \in {"succeeded", "failed"}
  /\ Fold(state, log).nodes = [state.nodes EXCEPT ![drive.current] = status]
  /\ OwedIsPending(state) => OwedIsPending(Fold(state, log))
  /\ \A t \in Nodes \ {drive.current} : OwedIn(Fold(state, log), t) => OwedIn(state, t)

\* The driver at a turn or with its node: what it holds.
LEMMA HeldFacts ==
  ASSUME DriveInv, OneWay, Tidy(state, drive, asked, crashes), drive.phase \in {"turn", "node"},
         GoesOn(drive, asked), NEW n, n = drive.current, NEW F, F = drive.frontier
  PROVE  /\ shape \in DOMAIN Graphs /\ crashes \in Nat /\ state.run = "running" /\ Kept(state)
         /\ n \in Nodes /\ F \in Seq(Nodes) /\ IsInjective(F) /\ n \notin ToSet(F)
         /\ ~IsFinished(state, n) /\ \A f \in ToSet(F) : ~IsFinished(state, f)
         /\ \A a \in {n} \cup ToSet(F) : \A y \in Beyond(a) : state.nodes[y] = "pending" /\ y \notin {n} \cup ToSet(F)
         /\ crashes = 0 => /\ OwedIsPending(state)
                           /\ \A t \in Nodes : OwedIn(state, t) /\ ~IsJoin(t) => t \in {n} \cup ToSet(F)
<1>1. /\ shape \in DOMAIN Graphs /\ crashes \in Nat /\ state.run = "running"
      /\ n \in Nodes /\ F \in Seq(Nodes) /\ IsInjective(F)
  BY InvNow, DriverFacts DEF MemorySound, GoesOn, HeadsSound
<1>2. Kept(state) /\ Holds(state, drive) /\ (crashes = 0 => Debts(state, drive, asked))
  BY DEF Tidy
<1>3. Work(drive) = {n} \cup ToSet(F)
  BY DEF Work
<1>4. /\ n \notin ToSet(F) /\ \A f \in {n} \cup ToSet(F) : ~IsFinished(state, f)
      /\ Quiet(state, {n} \cup ToSet(F), {n} \cup ToSet(F))
  BY <1>2, <1>3 DEF Holds, Upright
<1>5. crashes = 0 => OwedIsPending(state) /\ Remembers(state, drive)
  BY <1>1, <1>2 DEF Debts, HasEnded
<1> QED BY <1>1, <1>2, <1>4, <1>5 DEF Quiet, Remembers

\* What follows a node's finish.
LEMMA AfterAloneIsTidy ==
  ASSUME DriveInv, OneWay, Tidy(state, drive, asked, crashes), drive.phase \in {"turn", "node"},
         GoesOn(drive, asked), NEW log, NEW status, EndsAs(log, status), AfterAlone(log)
  PROVE  Tidy(state', drive', asked', crashes') /\ LetsGoAtTheEnd
<1> DEFINE n == drive.current
           F == drive.frontier
           R == LogRecords(Nodes)
           s == Fold(state, log)
           adv == Advance(s, n, F, {})
<1>1. /\ shape \in DOMAIN Graphs /\ crashes \in Nat /\ state.run = "running" /\ Kept(state)
      /\ n \in Nodes /\ F \in Seq(Nodes) /\ IsInjective(F) /\ n \notin ToSet(F)
      /\ ~IsFinished(state, n) /\ \A f \in ToSet(F) : ~IsFinished(state, f)
      /\ \A a \in {n} \cup ToSet(F) : \A y \in Beyond(a) : state.nodes[y] = "pending" /\ y \notin {n} \cup ToSet(F)
      /\ crashes = 0 => /\ OwedIsPending(state)
                        /\ \A t \in Nodes : OwedIn(state, t) /\ ~IsJoin(t) => t \in {n} \cup ToSet(F)
  BY HeldFacts
<1>2. /\ log \in Seq(R) /\ Keeping(state, log) /\ status \in {"succeeded", "failed"}
      /\ s.nodes = [state.nodes EXCEPT ![n] = status]
      /\ OwedIsPending(state) => OwedIsPending(s)
      /\ \A t \in Nodes \ {n} : OwedIn(s, t) => OwedIn(state, t)
  BY DEF EndsAs
<1>3. Kept(s) /\ s.run = "running"
  BY <1>1, <1>2, KeptAtTheEnd
<1>4. /\ n \in s.refused /\ Successors(s, n) = <<>> /\ Write((log \o WriteOff(F)) \o <<RunIs("failed")>>, Off)
      \/ NextHead(log \o adv.log, adv.frontier)
  BY DEF AfterAlone
<1> HIDE DEF s, adv, R
<1>5. /\ s.nodes[n] \in {"succeeded", "failed"} /\ \A m \in Nodes \ {n} : s.nodes[m] = state.nodes[m]
      /\ \A f \in ToSet(F) : f \in Nodes /\ f # n /\ ~IsFinished(s, f)
      /\ \A a \in {n} \cup ToSet(F) : \A y \in Beyond(a) : s.nodes[y] = "pending" /\ y \notin {n} \cup ToSet(F)
  <2>1. state.nodes \in [Nodes -> Statuses]
    BY <1>1 DEF Kept, Orderly, RunStates
  <2>2. s.nodes[n] = status /\ \A m \in Nodes \ {n} : s.nodes[m] = state.nodes[m]
    BY <1>1, <1>2, <2>1
  <2>3. \A f \in ToSet(F) : f \in Nodes /\ f # n
    BY <1>1, Elements
  <2>4. \A a \in {n} \cup ToSet(F) : \A y \in Beyond(a) : y \in Nodes /\ y # n
    BY <1>1, <2>3, BeyondFacts
  <2> QED BY <1>1, <1>2, <2>2, <2>3, <2>4 DEF IsFinished
<1>6. crashes = 0 => OwedIsPending(s) /\ \A t \in Nodes : OwedIn(s, t) /\ ~IsJoin(t) => t \in ToSet(F)
  <2> SUFFICES ASSUME crashes = 0 PROVE OwedIsPending(s) /\ \A t \in Nodes : OwedIn(s, t) /\ ~IsJoin(t) => t \in ToSet(F)
    OBVIOUS
  <2>1. OwedIsPending(s)
    BY <1>1, <1>2
  <2>2. ASSUME NEW t \in Nodes, OwedIn(s, t), ~IsJoin(t) PROVE t \in ToSet(F)
    <3>1. s.nodes[t] = "pending"
      BY <1>1, <1>3, <2>1, <2>2, OwedIsSelected DEF Kept, Orderly
    <3>2. t # n
      BY <1>5, <3>1
    <3> QED BY <1>1, <1>2, <2>2, <3>2
  <2> QED BY <2>1, <2>2
<1>7. CASE /\ n \in s.refused /\ Successors(s, n) = <<>>
           /\ Write((log \o WriteOff(F)) \o <<RunIs("failed")>>, Off)
  <2> DEFINE u == Fold(s, WriteOff(F))
             all == log \o WriteOff(F)
  <2>1. Quiet(s, ToSet(F), ToSet(F))
    BY <1>5 DEF Quiet
  <2>2. /\ Keeping(s, WriteOff(F)) /\ Kept(u) /\ WriteOff(F) \in Seq(R)
        /\ \A m \in Nodes \ ToSet(F) : u.nodes[m] = s.nodes[m] /\ Onward(u, m) = Onward(s, m)
    BY <1>1, <1>3, <1>5, <2>1, WriteOffKeeps DEF R
  <2>3. Keeping(state, all) /\ Fold(state, all) = u /\ all \in Seq(R)
    BY <1>2, <2>2, KeepingJoined DEF s
  <2>4. Onward(u, n) = {} /\ u.nodes[n] \in {"succeeded", "failed"}
    BY <1>1, <1>5, <1>7, <2>2, NowhereOnward
  <2>5. Reason(u)
    BY <1>1, <2>4, NowhereOnward DEF Reason
  <2>6. Tidy(FoldOne(u, RunIs("failed")), Off, asked, crashes) /\ HasEnded(FoldOne(u, RunIs("failed")))
    <3> HIDE DEF u
    <3> QED BY <1>1, <2>2, <2>5, EndIsTidy
  <2> HIDE DEF all, u
  <2>7. Fold(state, all \o <<RunIs("failed")>>) = FoldOne(u, RunIs("failed"))
    BY <2>3, OneMoreFolded
  <2>8. MayBeCut(state, all \o <<RunIs("failed")>>)
    BY <1>1, <2>3, KeepingMayBeCut
  <2> QED BY <1>1, <1>7, <2>6, <2>7, <2>8, WriteIsTidy, WriteLetsGo DEF all
<1>8. CASE NextHead(log \o adv.log, adv.frontier)
  <2> DEFINE u == Fold(s, adv.log)
             all == log \o adv.log
  <2>1. /\ Continues(s, adv.log, {n}) /\ adv.frontier \in Seq(Nodes)
        /\ adv.frontier # <<>> => InLine(u, ToSet(adv.frontier))
        /\ adv.frontier = <<>> => Reason(u)
    <3>1. FinishedAlone(s, n, F)
      BY <1>1, <1>3, <1>5, <1>6 DEF FinishedAlone
    <3> QED BY <1>1, <3>1, AdvanceIsInLine DEF adv
  <2>2. adv.log \in Seq(R) /\ Keeping(s, adv.log)
    BY <2>1, NoRecordsAreSome DEF Continues, R
  <2>3. Keeping(state, all) /\ Fold(state, all) = u /\ all \in Seq(R)
    BY <1>2, <2>2, KeepingJoined DEF s
  <2>4. IsInjective(adv.frontier)
    BY <1>1, <1>3, AdvanceAdvances DEF adv, Advances, Kept, Orderly
  <2>5. drive.phase # "off"
    OBVIOUS
  <2>6. NextHead(all, adv.frontier)
    BY <1>8
  <2> HIDE DEF all, u
  <2> QED BY <2>1, <2>3, <2>4, <2>5, <2>6, NextHeadIsTidy
<1> QED BY <1>4, <1>7, <1>8

\* The node that ran alone ends: it is routed, retried or redirected, or its end is the run's
\* (run_node_inline and advance_after_node).
LEMMA AloneEndsIsTidy ==
  ASSUME DriveInv, OneWay, Tidy(state, drive, asked, crashes), AloneEnds
  PROVE  Tidy(state', drive', asked', crashes') /\ LetsGoAtTheEnd
<1> DEFINE n == drive.current
           R == LogRecords(Nodes)
<1>1. PICK status \in Outcomes(n) : drive.phase = "node" /\ AfterAlone(<<NodeFinished(n, status)>>)
  BY DEF AloneEnds
<1>2. GoesOn(drive, asked) /\ drive.phase \in {"turn", "node"} /\ state.nodes[n] = "running"
  BY <1>1 DEF GoesOn, DriveInv, RunningFits
<1>3. /\ shape \in DOMAIN Graphs /\ Kept(state) /\ n \in Nodes /\ ~IsFinished(state, n)
      /\ \A y \in Beyond(n) : state.nodes[y] = "pending"
  BY <1>2, HeldFacts
<1>4. status \in {"succeeded", "failed"} /\ status \in FinalStatuses
  BY DEF Outcomes, FinalStatuses
<1> DEFINE r == NodeFinished(n, status)
           s == FoldOne(state, r)
<1>5. \A z : z = FoldOne(state, NodeFinished(n, status)) =>
        /\ Kept(z) /\ (OwedIsPending(state) /\ state.nodes[n] = "running" => OwedIsPending(z))
        /\ z.nodes = [state.nodes EXCEPT ![n] = status] /\ z.started = state.started
        /\ z.run = state.run /\ z.hops = state.hops
  BY <1>3, <1>4, FinishKeeps
<1>6. /\ Kept(s) /\ (OwedIsPending(state) => OwedIsPending(s))
      /\ s.nodes = [state.nodes EXCEPT ![n] = status] /\ s.started = state.started
      /\ s.run = state.run /\ s.hops = state.hops
  BY <1>2, <1>5
<1>7. r \in R
  BY <1>3, <1>4 DEF LogRecords, NodeRecords
<1> HIDE DEF r, R
<1>8. Keeping(state, <<r>>) /\ Fold(state, <<r>>) = s /\ <<r>> \in Seq(R)
  BY <1>3, <1>6, <1>7, KeepingOne
<1> HIDE DEF s
<1>9. \A t \in Nodes \ {n} : OwedIn(s, t) => OwedIn(state, t)
  BY <1>6 DEF OwedIn
<1> DEFINE log == <<r>>
<1>10. EndsAs(log, status)
  BY <1>4, <1>6, <1>8, <1>9 DEF EndsAs, R
<1>11. AfterAlone(log)
  BY <1>1 DEF r
<1> HIDE DEF log
<1> QED BY <1>2, <1>10, <1>11, AfterAloneIsTidy

\* A step that writes nothing only has to keep what the driver holds.
LEMMA SilentIsTidy ==
  ASSUME DriveInv, Kept(state), NEW next, Tidy(state, next, asked, crashes), Write(<<>>, next)
  PROVE  Tidy(state', drive', asked', crashes')
<1> DEFINE none == <<>>
<1>1. Len(none) - 1 = 0 - 1
  OBVIOUS
<1>2. MayBeCut(state, none)
  <2> HIDE DEF none
  <2> QED BY <1>1 DEF MayBeCut
<1>3. Fold(state, none) = state /\ crashes \in Nat
  BY KeepingNothing, InvNow
<1>4. Write(none, next)
  OBVIOUS
<1> HIDE DEF none
<1> QED BY <1>2, <1>3, <1>4, WriteIsTidy

\* The node that ran alone is cut off by a pause: it stays started, and the drive winds down.
LEMMA AloneInterruptedIsTidy ==
  ASSUME DriveInv, OneWay, Tidy(state, drive, asked, crashes), AloneInterrupted
  PROVE  Tidy(state', drive', asked', crashes')
<1> DEFINE next == [drive EXCEPT !.phase = "turn"]
<1>1. asked = "now" /\ Write(<<>>, next)
  BY DEF AloneInterrupted
<1>2. drive \in Memories
  BY DriverFacts
<1>3. ~GoesOn(next, asked)
  BY <1>1, <1>2 DEF GoesOn, Memories
<1> HIDE DEF next
<1>4. Kept(state) /\ Tidy(state, next, asked, crashes)
  BY <1>3 DEF Tidy, Debts
<1> QED BY <1>1, <1>4, SilentIsTidy

\* A halted batch, its members gone, gives the pause back to the turn.
LEMMA BatchHaltsIsTidy ==
  ASSUME DriveInv, OneWay, Tidy(state, drive, asked, crashes), BatchHalts
  PROVE  Tidy(state', drive', asked', crashes')
<1> DEFINE next == [drive EXCEPT !.phase = "turn"]
<1>1. asked # "no" /\ Write(<<>>, next)
  BY DEF BatchHalts, DriveInv, DrivenFits
<1>2. drive \in Memories
  BY DriverFacts
<1>3. ~GoesOn(next, asked)
  BY <1>1, <1>2 DEF GoesOn, Memories
<1> HIDE DEF next
<1>4. Kept(state) /\ Tidy(state, next, asked, crashes)
  BY <1>3 DEF Tidy, Debts
<1> QED BY <1>1, <1>4, SilentIsTidy

\* The turn that finds a pause asked for lets go of the run, whatever heads it held.
LEMMA ApplyPauseIsTidy ==
  ASSUME DriveInv, OneWay, Tidy(state, drive, asked, crashes), ApplyPause
  PROVE  Tidy(state', drive', asked', crashes')
<1> DEFINE status == IF asked = "now" THEN "paused_now" ELSE "paused"
           u == FoldOne(state, RunIs(status))
<1>1. status \in RunStatuses /\ shape \in DOMAIN Graphs /\ Kept(state)
  BY InvNow DEF RunStatuses, Tidy
<1>2. Kept(u) /\ (OwedIsPending(state) => OwedIsPending(u)) /\ u.run = status
  BY <1>1, RunRecordKeeps
<1>3. u.run # "failed"
  BY <1>2
<1>4. state' = Fold(state, <<RunIs(status)>>) /\ drive' = Off /\ crashes' = crashes
  BY DEF ApplyPause
<1>5. <<>> \in Seq({}) /\ <<>> \o <<RunIs(status)>> = <<RunIs(status)>>
  OBVIOUS
<1> HIDE DEF status, u
<1>6. state' = u
  <2> DEFINE none == <<>>
  <2>1. none \in Seq({}) /\ none \o <<RunIs(status)>> = <<RunIs(status)>>
    BY <1>5
  <2>2. Fold(state, none) = state
    BY <1>1, KeepingNothing
  <2> HIDE DEF none
  <2>3. Fold(state, none \o <<RunIs(status)>>) = FoldOne(Fold(state, none), RunIs(status))
    BY <2>1, OneMoreFolded
  <2> QED BY <1>4, <2>1, <2>2, <2>3 DEF u
<1>7. ~GoesOn(drive', asked')
  BY <1>4 DEF GoesOn, Off
<1>8. crashes = 0 /\ state.run = "running" => OwedIsPending(state)
  BY DEF Tidy, Debts, HasEnded
<1>9. state.run = "running"
  BY DEF ApplyPause, DriveInv, DrivenFits
<1> QED BY <1>2, <1>3, <1>4, <1>6, <1>7, <1>8, <1>9 DEF Tidy, Debts

\* A crash takes the driver's memory and nothing of the journal.
LEMMA CrashIsTidy ==
  ASSUME DriveInv, OneWay, Tidy(state, drive, asked, crashes), Crash
  PROVE  Tidy(state', drive', asked', crashes')
<1>1. state' = state /\ drive' = Off /\ crashes' = crashes + 1 /\ crashes \in Nat
  BY InvNow DEF Crash
<1>2. crashes' # 0 /\ ~GoesOn(drive', asked')
  BY <1>1 DEF GoesOn, Off
<1> QED BY <1>1, <1>2 DEF Tidy

\* Asking for a pause touches neither the journal nor the driver.
LEMMA AskPauseIsTidy ==
  ASSUME DriveInv, OneWay, Tidy(state, drive, asked, crashes), AskPause
  PROVE  Tidy(state', drive', asked', crashes')
<1>1. state' = state /\ drive' = drive /\ crashes' = crashes /\ asked = "no"
  BY DEF AskPause
<1>2. GoesOn(drive', asked') => GoesOn(drive, asked)
  BY <1>1 DEF GoesOn
<1> QED BY <1>1, <1>2 DEF Tidy, Debts

\* Nor does the driver by noticing it.
LEMMA NoticeIsTidy ==
  ASSUME DriveInv, OneWay, Tidy(state, drive, asked, crashes), Notice
  PROVE  Tidy(state', drive', asked', crashes')
<1>1. /\ state' = state /\ drive' = [drive EXCEPT !.halted = TRUE] /\ crashes' = crashes /\ asked' = asked
      /\ drive.phase \in {"node", "batch"} /\ ~drive.halted
  BY DEF Notice
<1>2. drive \in Memories
  BY DriverFacts
<1>3. /\ drive'.phase = drive.phase /\ drive'.current = drive.current /\ drive'.frontier = drive.frontier
      /\ drive'.batch = drive.batch /\ drive'.queue = drive.queue /\ drive'.ended = drive.ended
      /\ drive'.advanced = drive.advanced /\ drive'.won = drive.won /\ drive'.halted = TRUE
  BY <1>1, <1>2 DEF Memories
<1>4. GoesOn(drive, asked)
  BY <1>1 DEF GoesOn
<1>5. Work(drive') = Work(drive) /\ Sent(state, drive') = Sent(state, drive)
  BY <1>3 DEF Work, Sent
<1>6. Holds(state, drive')
  BY <1>3, <1>4, <1>5 DEF Tidy, Holds, Upright, BatchFits
<1>7. crashes = 0 => Debts(state, drive', asked)
  BY <1>1, <1>3, <1>4 DEF Tidy, Debts, Remembers
<1> QED BY <1>1, <1>6, <1>7 DEF Tidy

\* A node's run begins.
Begins(s, n, log, u) ==
  /\ Keeping(s, log) /\ Fold(s, log) = u /\ log \in Seq(LogRecords(Nodes))
  /\ Kept(u) /\ (OwedIsPending(s) => OwedIsPending(u)) /\ u.run = s.run
  /\ u.nodes = [s.nodes EXCEPT ![n] = "running"]
  /\ u.nodes[n] = "running" /\ \A m \in Nodes \ {n} : u.nodes[m] = s.nodes[m]
  /\ \A m \in Nodes \ {n} : Onward(u, m) = Onward(s, m)
  /\ \A t \in Nodes : OwedIn(u, t) => t # n /\ OwedIn(s, t)

\* The start of a node that has not finished, and behind which nothing has begun, is a beginning.
LEMMA StartBegins ==
  ASSUME shape \in DOMAIN Graphs, OneWay, NEW s, Kept(s), NEW n \in Nodes, ~IsFinished(s, n)
  PROVE  Begins(s, n, <<NodeStarted(n)>>, FoldOne(s, NodeStarted(n)))
<1> DEFINE u == FoldOne(s, NodeStarted(n))
           r == NodeStarted(n)
           R == LogRecords(Nodes)
<1>1. \A z : z = FoldOne(s, NodeStarted(n)) =>
        /\ Kept(z) /\ (OwedIsPending(s) => OwedIsPending(z))
        /\ z.nodes = [s.nodes EXCEPT ![n] = "running"] /\ z.run = s.run /\ z.hops = s.hops
        /\ \A p \in Pairs : p[2] = n => z.hops[p] <= z.started[n]
        /\ \A m \in Nodes \ {n} : Onward(z, m) = Onward(s, m) /\ z.started[m] = s.started[m]
  BY StartKeeps
<1>2. /\ Kept(u) /\ (OwedIsPending(s) => OwedIsPending(u))
      /\ u.nodes = [s.nodes EXCEPT ![n] = "running"] /\ u.run = s.run /\ u.hops = s.hops
      /\ \A p \in Pairs : p[2] = n => u.hops[p] <= u.started[n]
      /\ \A m \in Nodes \ {n} : Onward(u, m) = Onward(s, m) /\ u.started[m] = s.started[m]
  BY <1>1
<1>3. s \in RunStates /\ u \in RunStates
  BY <1>2 DEF Kept, Orderly
<1>4. \A m \in Nodes \ {n} : u.started[m] = s.started[m]
  BY <1>2
<1>5. u.nodes[n] = "running" /\ \A m \in Nodes \ {n} : u.nodes[m] = s.nodes[m]
  BY <1>2, <1>3 DEF RunStates
<1>6. ASSUME NEW t \in Nodes, OwedIn(u, t) PROVE t # n /\ OwedIn(s, t)
  <2>1. PICK m \in Nodes : <<m, t>> \in Pairs /\ u.hops[<<m, t>>] > u.started[t]
    BY <1>6 DEF OwedIn
  <2> DEFINE p == <<m, t>>
  <2>2. p \in Pairs /\ p[2] = t /\ u.hops[p] > u.started[t]
    BY <2>1
  <2>3. u.hops[p] \in Nat /\ u.started[t] \in Nat
    BY <1>3, <2>2 DEF RunStates
  <2> HIDE DEF p
  <2>4. t # n
    BY <1>2, <2>2, <2>3
  <2> QED BY <1>2, <1>4, <2>2, <2>4, <2>1 DEF OwedIn, p
<1>7. r \in R
  BY DEF LogRecords, NodeRecords
<1> HIDE DEF R
<1>8. u = FoldOne(s, r)
  OBVIOUS
<1> HIDE DEF r, u
<1>9. Keeping(s, <<r>>) /\ Fold(s, <<r>>) = u /\ <<r>> \in Seq(R)
  BY <1>2, <1>7, <1>8, KeepingOne
<1>10. Begins(s, n, <<r>>, u)
  BY <1>2, <1>5, <1>6, <1>9 DEF Begins, R
<1> QED BY <1>10 DEF r, u

\* The head the turn chose starts alone.
LEMMA RunAloneIsTidy ==
  ASSUME DriveInv, OneWay, Tidy(state, drive, asked, crashes), RunAlone
  PROVE  Tidy(state', drive', asked', crashes')
<1> DEFINE n == drive.current
           F == drive.frontier
           next == [drive EXCEPT !.phase = "node"]
           log == <<NodeStarted(n)>>
           u == FoldOne(state, NodeStarted(n))
<1>1. Write(log, next) /\ drive.phase = "turn" /\ GoesOn(drive, asked)
  BY DEF RunAlone, AtTurn, GoesOn
<1>2. /\ shape \in DOMAIN Graphs /\ crashes \in Nat /\ state.run = "running" /\ Kept(state)
      /\ n \in Nodes /\ F \in Seq(Nodes) /\ n \notin ToSet(F)
      /\ ~IsFinished(state, n) /\ \A f \in ToSet(F) : ~IsFinished(state, f)
      /\ \A a \in {n} \cup ToSet(F) : \A y \in Beyond(a) : state.nodes[y] = "pending" /\ y \notin {n} \cup ToSet(F)
      /\ crashes = 0 => /\ OwedIsPending(state)
                        /\ \A t \in Nodes : OwedIn(state, t) /\ ~IsJoin(t) => t \in {n} \cup ToSet(F)
  BY <1>1, HeldFacts
<1>3. /\ Keeping(state, log) /\ Fold(state, log) = u /\ log \in Seq(LogRecords(Nodes))
      /\ Kept(u) /\ (OwedIsPending(state) => OwedIsPending(u)) /\ u.run = state.run
      /\ u.nodes[n] = "running" /\ \A m \in Nodes \ {n} : u.nodes[m] = state.nodes[m]
      /\ \A t \in Nodes : OwedIn(u, t) => t # n /\ OwedIn(state, t)
  <2>1. Begins(state, n, log, u)
    BY <1>2, StartBegins
  <2> HIDE DEF u, log
  <2> QED BY <2>1 DEF Begins
<1>4. /\ next.phase = "node" /\ next.current = n /\ next.frontier = F
  <2>1. drive \in Memories
    BY DriverFacts
  <2> QED BY <2>1 DEF Memories
<1>5. MayBeCut(state, log)
  BY <1>2, <1>3, KeepingMayBeCut
<1> HIDE DEF u, next, log
<1>6. Work(next) = {n} \cup ToSet(F)
  BY <1>4 DEF Work
<1>7. Quiet(u, Work(next), Work(next))
  <2>1. \A a \in {n} \cup ToSet(F) : a \in Nodes
    BY <1>2, Elements
  <2>2. \A a \in {n} \cup ToSet(F) : \A y \in Beyond(a) : y \in Nodes
    BY <1>2, <2>1, BeyondFacts
  <2> QED BY <1>2, <1>3, <1>6, <2>2 DEF Quiet
<1>8. Upright(u, next)
  <2>1. \A f \in ToSet(F) : f \in Nodes /\ f # n
    BY <1>2, Elements
  <2> QED BY <1>2, <1>3, <1>4, <1>6, <2>1 DEF Upright, IsFinished
<1>9. Holds(u, next)
  BY <1>4, <1>7, <1>8 DEF Holds, BatchFits
<1>10. crashes = 0 => Debts(u, next, asked)
  BY <1>2, <1>3, <1>4 DEF Debts, Remembers
<1>11. Tidy(u, next, asked, crashes)
  BY <1>2, <1>3, <1>9, <1>10 DEF Tidy
<1> QED BY <1>1, <1>2, <1>3, <1>5, <1>11, WriteIsTidy

\* A head that is no node of the playbook, or a join not satisfied, fails the run.
LEMMA FailBarrierIsTidy ==
  ASSUME DriveInv, OneWay, Tidy(state, drive, asked, crashes), FailBarrier
  PROVE  Tidy(state', drive', asked', crashes') /\ LetsGoAtTheEnd
<1> DEFINE n == drive.current
           R == LogRecords(Nodes)
           a == <<NodeStarted(n)>>
           b == IF Verdict(n) = "refused" THEN <<JoinRefused(n)>> ELSE <<>>
           c == <<NodeFinished(n, "failed")>>
           v == FoldOne(state, NodeStarted(n))
           w == Fold(v, b)
           x == FoldOne(w, NodeFinished(n, "failed"))
<1>1. AfterAlone((a \o b) \o c) /\ drive.phase = "turn" /\ GoesOn(drive, asked)
  BY DEF FailBarrier, AtTurn, GoesOn
<1>2. /\ shape \in DOMAIN Graphs /\ Kept(state) /\ n \in Nodes /\ ~IsFinished(state, n)
      /\ \A y \in Beyond(n) : y \in Nodes /\ y # n /\ state.nodes[y] = "pending"
  <2>1. /\ shape \in DOMAIN Graphs /\ Kept(state) /\ n \in Nodes /\ ~IsFinished(state, n)
        /\ \A y \in Beyond(n) : y # n /\ state.nodes[y] = "pending"
    BY <1>1, HeldFacts
  <2> QED BY <2>1, BeyondFacts
<1>3. /\ Keeping(state, a) /\ Fold(state, a) = v /\ a \in Seq(R)
      /\ Kept(v) /\ (OwedIsPending(state) => OwedIsPending(v)) /\ v.run = state.run
      /\ v.nodes[n] = "running" /\ \A m \in Nodes \ {n} : v.nodes[m] = state.nodes[m]
      /\ v.nodes = [state.nodes EXCEPT ![n] = "running"]
      /\ \A t \in Nodes : OwedIn(v, t) => t # n /\ OwedIn(state, t)
  <2>1. Begins(state, n, a, v)
    BY <1>2, StartBegins
  <2> HIDE DEF v, a
  <2> QED BY <2>1 DEF Begins, R
<1> HIDE DEF v, R
<1>4. /\ Keeping(v, b) /\ b \in Seq(R) /\ Kept(w) /\ (OwedIsPending(v) => OwedIsPending(w))
      /\ w.run = v.run /\ Beside(v, w) /\ w.hops = v.hops
  <2>1. ~IsFinished(v, n)
    BY <1>3 DEF IsFinished
  <2>2. CASE Verdict(n) = "refused"
    <3> DEFINE r == JoinRefused(n)
    <3>1. \A z : z = FoldOne(v, JoinRefused(n)) =>
            /\ Kept(z) /\ (OwedIsPending(v) => OwedIsPending(z)) /\ Beside(v, z) /\ z.hops = v.hops /\ z.run = v.run
      BY <1>2, <1>3, <2>1, RefusalKeeps
    <3>2. r \in R
      BY <1>2 DEF R, LogRecords, Refusals
    <3>3. /\ Kept(FoldOne(v, r)) /\ (OwedIsPending(v) => OwedIsPending(FoldOne(v, r)))
          /\ Beside(v, FoldOne(v, r)) /\ FoldOne(v, r).hops = v.hops /\ FoldOne(v, r).run = v.run
      BY <3>1
    <3>4. b = <<r>>
      BY <2>2
    <3> HIDE DEF r, b
    <3>5. Keeping(v, b) /\ Fold(v, b) = FoldOne(v, r)
      BY <1>3, <3>3, <3>4, KeepingOne
    <3> QED BY <3>2, <3>3, <3>4, <3>5
  <2>3. CASE Verdict(n) # "refused"
    <3>1. b = <<>>
      BY <2>3
    <3> HIDE DEF b
    <3>2. Keeping(v, b) /\ Fold(v, b) = v /\ b \in Seq(R)
      BY <1>3, <3>1, KeepingNothing
    <3> QED BY <1>3, <3>2 DEF Beside
  <2> QED BY <2>2, <2>3
<1> HIDE DEF w, b
<1>5. w.nodes[n] = "running" /\ ~IsFinished(w, n) /\ \A y \in Beyond(n) : w.nodes[y] = "pending"
  BY <1>2, <1>3, <1>4 DEF Beside, IsFinished
<1>6. "failed" \in FinalStatuses
  BY DEF FinalStatuses
<1>7. \A z : z = FoldOne(w, NodeFinished(n, "failed")) =>
        /\ Kept(z) /\ (OwedIsPending(w) /\ w.nodes[n] = "running" => OwedIsPending(z))
        /\ z.nodes = [w.nodes EXCEPT ![n] = "failed"] /\ z.started = w.started
        /\ z.run = w.run /\ z.hops = w.hops
  BY <1>2, <1>4, <1>5, <1>6, FinishKeeps
<1>8. /\ Kept(x) /\ (OwedIsPending(w) => OwedIsPending(x))
      /\ x.nodes = [w.nodes EXCEPT ![n] = "failed"] /\ x.started = w.started
      /\ x.run = w.run /\ x.hops = w.hops
  BY <1>5, <1>7
<1>9. Keeping(w, c) /\ Fold(w, c) = x /\ c \in Seq(R)
  <2> DEFINE r == NodeFinished(n, "failed")
  <2>1. r \in R /\ x = FoldOne(w, r)
    BY <1>2, <1>6 DEF R, LogRecords, NodeRecords
  <2>2. c = <<r>>
    OBVIOUS
  <2> HIDE DEF r, x, c
  <2> QED BY <1>4, <1>8, <2>1, <2>2, KeepingOne
<1> HIDE DEF a, c, x
<1> DEFINE ab == a \o b
<1>10. Keeping(state, ab) /\ Fold(state, ab) = w /\ ab \in Seq(R)
  BY <1>3, <1>4, KeepingJoined DEF w
<1> HIDE DEF ab
<1>11. Keeping(state, ab \o c) /\ Fold(state, ab \o c) = x /\ ab \o c \in Seq(R)
  BY <1>9, <1>10, KeepingJoined
<1> DEFINE log == ab \o c
<1>12. AfterAlone(log)
  BY <1>1 DEF ab
<1>13. Keeping(state, log) /\ Fold(state, log) = x /\ log \in Seq(R)
  BY <1>11
<1> HIDE DEF log
<1>14. x.nodes = [state.nodes EXCEPT ![n] = "failed"]
  <2>1. state.nodes \in [Nodes -> Statuses]
    BY <1>2 DEF Kept, Orderly, RunStates
  <2> QED BY <1>2, <1>3, <1>4, <1>8, <2>1 DEF Beside
<1>15. \A t \in Nodes \ {n} : OwedIn(x, t) => OwedIn(state, t)
  <2>1. x.hops = v.hops /\ x.started = v.started
    BY <1>4, <1>8 DEF Beside
  <2>2. \A t : OwedIn(x, t) => OwedIn(v, t)
    BY <2>1 DEF OwedIn
  <2> QED BY <1>3, <2>2
<1>16. EndsAs(log, "failed")
  BY <1>3, <1>4, <1>8, <1>13, <1>14, <1>15 DEF EndsAs, R
<1>17. drive.phase \in {"turn", "node"}
  BY <1>1
<1> QED BY <1>1, <1>12, <1>16, <1>17, AfterAloneIsTidy

\* The finish of a node behind which nothing has begun keeps the order.
LEMMA RefinishedKeeps ==
  ASSUME shape \in DOMAIN Graphs, OneWay, NEW s, Kept(s), NEW n \in Nodes,
         \A y \in Beyond(n) : s.nodes[y] = "pending", ~IsFinished(s, n)
  PROVE  \A status \in FinalStatuses : \A z : z = FoldOne(s, NodeFinished(n, status)) =>
           Kept(z) /\ z.run = s.run /\ z.finished[n] > 0
<1>0. Kept(s) /\ ~IsFinished(s, n) /\ (\A y \in Beyond(n) : s.nodes[y] = "pending") /\ s \in RunStates
  BY DEF Kept, Orderly
<1>1. \A status \in FinalStatuses :
        \A z : z = FoldOne(s, NodeFinished(n, status)) =>
          /\ Kept(z) /\ z.nodes = [s.nodes EXCEPT ![n] = status] /\ z.run = s.run
  BY <1>0, FinishKeeps
<1>3. ASSUME NEW status \in FinalStatuses, NEW z, z = FoldOne(s, NodeFinished(n, status))
      PROVE  z.finished[n] > 0
  <2>1. z = [s EXCEPT !.seq = s.seq + 1, !.finished[n] = s.seq + 1, !.nodes[n] = status,
                      !.runs[n] = @ + 1, !.last = n]
    BY <1>3 DEF FoldOne, NodeFinished, Record
  <2>2. z.finished[n] = s.seq + 1 /\ s.seq \in Nat
    BY <1>0, <2>1 DEF RunStates
  <2> QED BY <2>2
<1> QED BY <1>1, <1>3

\* A finish node ends, and the run with it.
LEMMA ReachFinishIsTidy ==
  ASSUME DriveInv, OneWay, Tidy(state, drive, asked, crashes), ReachFinish
  PROVE  Tidy(state', drive', asked', crashes') /\ LetsGoAtTheEnd
<1> DEFINE n == drive.current
           verdict == IF n \in Graph.failure \/ UnhandledFailure(state) THEN "failed" ELSE "succeeded"
           r == NodeFinished(n, "succeeded")
           end == RunIs(verdict)
           s == FoldOne(state, r)
           log == <<r>>
<1>1. /\ Write(<<r, end>>, Off) /\ drive.phase = "turn" /\ GoesOn(drive, asked) /\ n \in Graph.finish
  BY DEF ReachFinish, AtTurn, GoesOn
<1>2. /\ shape \in DOMAIN Graphs /\ crashes \in Nat /\ state.run = "running" /\ Kept(state) /\ n \in Nodes
      /\ ~IsFinished(state, n) /\ \A y \in Beyond(n) : state.nodes[y] = "pending"
  BY <1>1, HeldFacts
<1>3. "succeeded" \in FinalStatuses /\ verdict \in {"succeeded", "failed"}
  BY DEF FinalStatuses
<1>4. \A m \in Nodes : m = n => \A status \in FinalStatuses :
         \A z : z = FoldOne(state, NodeFinished(m, status)) => Kept(z) /\ z.run = state.run /\ z.finished[m] > 0
  BY <1>2, RefinishedKeeps
<1>5. Kept(s) /\ s.run = state.run /\ s.finished[n] > 0
  BY <1>2, <1>3, <1>4
<1>6. Keeping(state, log) /\ Fold(state, log) = s
  <2> HIDE DEF r
  <2> QED BY <1>2, <1>5, KeepingOne
<1>7. log \in Seq({r}) /\ <<r, end>> = log \o <<end>>
  OBVIOUS
<1>8. Reason(s)
  BY <1>1, <1>5 DEF Reason
<1> HIDE DEF verdict, s
<1>9. Tidy(FoldOne(s, end), Off, asked, crashes) /\ HasEnded(FoldOne(s, end))
  BY <1>2, <1>3, <1>5, <1>8, EndIsTidy
<1> HIDE DEF r, end, log
<1>10. Fold(state, log \o <<end>>) = FoldOne(s, end) /\ MayBeCut(state, log \o <<end>>)
  BY <1>2, <1>6, <1>7, OneMoreFolded, KeepingMayBeCut
<1> QED BY <1>1, <1>2, <1>7, <1>9, <1>10, WriteIsTidy, WriteLetsGo

\* The ready heads that need no turn of their own become a batch.
LEMMA FormBatchIsTidy ==
  ASSUME DriveInv, OneWay, Tidy(state, drive, asked, crashes), FormBatch
  PROVE  Tidy(state', drive', asked', crashes')
<1> DEFINE n == drive.current
           F == drive.frontier
           left == Without(F, ToSet(Members))
           next == [Off EXCEPT !.phase = "batch", !.current = n, !.batch = Members,
                               !.queue = Members, !.frontier = left, !.halted = drive.halted]
<1>1. Write(<<>>, next) /\ drive.phase = "turn" /\ GoesOn(drive, asked)
  BY DEF FormBatch, AtTurn, GoesOn
<1>2. /\ shape \in DOMAIN Graphs /\ Kept(state) /\ n \in Nodes /\ F \in Seq(Nodes) /\ n \notin ToSet(F)
      /\ ~IsFinished(state, n) /\ \A f \in ToSet(F) : ~IsFinished(state, f)
      /\ \A a \in {n} \cup ToSet(F) : \A y \in Beyond(a) : state.nodes[y] = "pending" /\ y \notin {n} \cup ToSet(F)
      /\ crashes = 0 => /\ OwedIsPending(state)
                        /\ \A t \in Nodes : OwedIn(state, t) /\ ~IsJoin(t) => t \in {n} \cup ToSet(F)
  BY <1>1, HeldFacts
<1>3. ToSet(Members) \subseteq {n} \cup ToSet(F) /\ n \in ToSet(Members)
  <2> DEFINE beside == Among(F, Batchable(ToSet(F)))
  <2>1. beside \in Seq(Nodes) /\ ToSet(beside) \subseteq ToSet(F)
    <3> DEFINE S == Batchable(ToSet(F))
    <3> HIDE DEF S
    <3> QED BY <1>2, AmongKeeps DEF S
  <2>2. <<n>> \in Seq(Nodes) /\ ToSet(<<n>>) = {n}
    BY <1>2 DEF ToSet
  <2> HIDE DEF beside
  <2>3. ToSet(<<n>> \o beside) = ToSet(<<n>>) \cup ToSet(beside)
    <3> DEFINE one == <<n>>
    <3>1. one \in Seq(Nodes)
      BY <2>2
    <3> HIDE DEF one
    <3>2. ToSet(one \o beside) = ToSet(one) \cup ToSet(beside)
      BY <2>1, <3>1, Joined
    <3> QED BY <3>2 DEF one
  <2> QED BY <2>1, <2>2, <2>3 DEF Members, beside
<1>4. ToSet(left) = ToSet(F) \ ToSet(Members)
  <2> DEFINE S == ToSet(Members)
  <2> HIDE DEF S
  <2>1. ToSet(Without(F, S)) = ToSet(F) \ S
    BY <1>2, WithoutDrops
  <2> QED BY <2>1 DEF S
<1>5. /\ next.phase = "batch" /\ next.batch = Members /\ next.queue = Members /\ next.frontier = left
      /\ next.advanced = {} /\ next.ended = {} /\ next.won = FALSE
  BY DEF Off
<1> HIDE DEF left, next
<1>6. Work(next) = {n} \cup ToSet(F) /\ Sent(state, next) = {}
  BY <1>3, <1>4, <1>5 DEF Work, Sent
<1>7. BatchFits(state, next)
  BY <1>2, <1>3, <1>4, <1>5, <1>6 DEF BatchFits, Quiet
<1>8. Holds(state, next)
  BY <1>2, <1>5, <1>6, <1>7 DEF Holds, Upright, Quiet
<1>9. crashes = 0 => Debts(state, next, asked)
  BY <1>2, <1>3, <1>4, <1>5 DEF Debts, Remembers
<1>10. Tidy(state, next, asked, crashes)
  BY <1>2, <1>8, <1>9 DEF Tidy
<1> QED BY <1>1, <1>2, <1>10, SilentIsTidy

\* A batch: what the driver holds.
BatchHolds ==
  /\ Kept(state) /\ Quiet(state, Work(drive), Work(drive)) /\ BatchFits(state, drive)
  /\ crashes = 0 => OwedIsPending(state) /\ (~drive.halted => Remembers(state, drive))

\* What the driver holds in the middle of a batch, in the terms of the steps.
LEMMA BatchFacts ==
  ASSUME DriveInv, OneWay, Tidy(state, drive, asked, crashes), drive.phase = "batch"
  PROVE  /\ BatchHolds /\ shape \in DOMAIN Graphs /\ crashes \in Nat /\ state.run = "running"
         /\ drive \in Memories /\ drive.batch \in Seq(Nodes) /\ drive.frontier \in Seq(Nodes)
         /\ Work(drive) = (ToSet(drive.batch) \ drive.advanced) \cup ToSet(drive.frontier)
         /\ Work(drive) \subseteq Nodes
<1>1. /\ shape \in DOMAIN Graphs /\ crashes \in Nat /\ state.run = "running"
      /\ drive \in Memories /\ drive.batch \in Seq(Nodes) /\ drive.frontier \in Seq(Nodes)
  BY InvNow, DriverFacts DEF MemorySound
<1>2. GoesOn(drive, asked) /\ ~HasEnded(state)
  BY <1>1 DEF GoesOn, HasEnded
<1>3. Work(drive) = (ToSet(drive.batch) \ drive.advanced) \cup ToSet(drive.frontier)
  BY DEF Work
<1>4. BatchHolds
  BY <1>2 DEF Tidy, Debts, Holds, BatchHolds
<1> QED BY <1>1, <1>3, <1>4, Elements

\* A pause keeps back the members that have not started.
LEMMA StopAdmittingIsTidy ==
  ASSUME DriveInv, OneWay, Tidy(state, drive, asked, crashes), StopAdmitting
  PROVE  Tidy(state', drive', asked', crashes')
<1> DEFINE next == [drive EXCEPT !.queue = <<>>]
<1>1. Write(<<>>, next) /\ drive.phase = "batch" /\ drive.halted
  BY DEF StopAdmitting
<1>2. BatchHolds /\ drive \in Memories
  BY <1>1, BatchFacts
<1>3. /\ next.phase = "batch" /\ next.batch = drive.batch /\ ToSet(next.queue) = {} /\ next.frontier = drive.frontier
      /\ next.advanced = drive.advanced /\ next.ended = drive.ended /\ next.won = drive.won
      /\ next.pipelining = drive.pipelining /\ next.halted = drive.halted
  <2>1. next.queue = <<>>
    BY <1>2 DEF Memories
  <2>2. PICK none : none = <<>>
    OBVIOUS
  <2>3. ToSet(none) = {}
    BY <2>2 DEF ToSet
  <2>4. ToSet(next.queue) = {}
    BY <2>1, <2>2, <2>3
  <2> QED BY <1>1, <1>2, <2>4 DEF Memories
<1> HIDE DEF next
<1>4. Work(next) = Work(drive) /\ Sent(state, next) = Sent(state, drive)
  BY <1>1, <1>3 DEF Work, Sent
<1>5. Holds(state, next)
  BY <1>1, <1>2, <1>3, <1>4 DEF Holds, Upright, BatchFits, BatchHolds
<1>6. Tidy(state, next, asked, crashes) /\ Kept(state)
  BY <1>1, <1>2, <1>3, <1>5 DEF Tidy, Debts, BatchHolds
<1> QED BY <1>1, <1>6, SilentIsTidy

\* A running member is cut off by a pause.
LEMMA MemberInterruptedIsTidy ==
  ASSUME DriveInv, OneWay, Tidy(state, drive, asked, crashes), MemberInterrupted
  PROVE  Tidy(state', drive', asked', crashes')
<1>1. PICK n \in drive.running : Write(<<>>, [drive EXCEPT !.running = @ \ {n}])
  BY DEF MemberInterrupted
<1> DEFINE next == [drive EXCEPT !.running = @ \ {n}]
<1>2. Write(<<>>, next) /\ drive.phase = "batch" /\ drive.halted
  BY <1>1 DEF MemberInterrupted, MemberReports
<1>3. BatchHolds /\ drive \in Memories
  BY <1>2, BatchFacts
<1>4. /\ next.phase = "batch" /\ next.batch = drive.batch /\ next.queue = drive.queue /\ next.frontier = drive.frontier
      /\ next.advanced = drive.advanced /\ next.ended = drive.ended /\ next.won = drive.won
      /\ next.pipelining = drive.pipelining /\ next.halted = drive.halted
  BY <1>2, <1>3 DEF Memories
<1> HIDE DEF next
<1>5. Work(next) = Work(drive) /\ Sent(state, next) = Sent(state, drive)
  BY <1>2, <1>4 DEF Work, Sent
<1>6. Holds(state, next)
  BY <1>2, <1>3, <1>4, <1>5 DEF Holds, Upright, BatchFits, BatchHolds
<1>7. Tidy(state, next, asked, crashes) /\ Kept(state)
  BY <1>2, <1>3, <1>4, <1>6 DEF Tidy, Debts, BatchHolds
<1> QED BY <1>2, <1>7, SilentIsTidy

\* A queued member is skipped by the race it stands in, which needs an `any` join: there is none.
LEMMA WriteOffMemberIsTidy ==
  ASSUME DriveInv, OneWay, Tidy(state, drive, asked, crashes), WriteOffMember
  PROVE  Tidy(state', drive', asked', crashes')
<1>1. drive.phase = "batch" /\ drive.won
  BY DEF WriteOffMember
<1>2. ~drive.won
  BY <1>1, BatchFacts DEF BatchHolds, BatchFits
<1> QED BY <1>1, <1>2

\* The next member in the queue starts.
LEMMA AdmitIsTidy ==
  ASSUME DriveInv, OneWay, Tidy(state, drive, asked, crashes), Admit
  PROVE  Tidy(state', drive', asked', crashes')
<1> DEFINE m == NextMember
           next == [drive EXCEPT !.queue = Tail(@), !.running = @ \cup {m}]
           log == <<NodeStarted(m)>>
           u == FoldOne(state, NodeStarted(m))
<1>1. Write(log, next) /\ drive.phase = "batch" /\ drive.queue # <<>>
  BY DEF Admit, HasSlot
<1>2. /\ BatchHolds /\ drive \in Memories /\ shape \in DOMAIN Graphs /\ crashes \in Nat /\ state.run = "running"
      /\ Work(drive) = (ToSet(drive.batch) \ drive.advanced) \cup ToSet(drive.frontier) /\ Work(drive) \subseteq Nodes
  BY <1>1, BatchFacts
<1>3. /\ m \in ToSet(drive.queue) /\ m \in ToSet(drive.batch) /\ m \in Nodes /\ m \notin drive.ended
      /\ ToSet(drive.queue) = {m} \cup ToSet(Tail(drive.queue)) /\ m \notin ToSet(Tail(drive.queue))
  BY <1>1, NextMemberFacts
<1>4. /\ drive.advanced \subseteq drive.ended /\ drive.ended \subseteq Nodes
  BY <1>2, DriverFacts DEF HeadsSound, Memories
<1>5. Kept(state) /\ ~IsFinished(state, m)
  BY <1>1, <1>2, <1>3 DEF BatchHolds, BatchFits
<1>6. Begins(state, m, log, u)
  BY <1>2, <1>3, <1>5, StartBegins
<1>7. /\ next.phase = "batch" /\ next.batch = drive.batch /\ next.queue = Tail(drive.queue)
      /\ next.frontier = drive.frontier
      /\ next.advanced = drive.advanced /\ next.ended = drive.ended /\ next.won = drive.won
      /\ next.pipelining = drive.pipelining /\ next.halted = drive.halted
  BY <1>1, <1>2 DEF Memories
<1> HIDE DEF next, u, log, m
<1>8. /\ Kept(u) /\ (OwedIsPending(state) => OwedIsPending(u)) /\ u.run = "running"
      /\ u.nodes[m] = "running" /\ \A k \in Nodes \ {m} : u.nodes[k] = state.nodes[k] /\ Onward(u, k) = Onward(state, k)
      /\ \A t \in Nodes : OwedIn(u, t) => t # m /\ OwedIn(state, t)
      /\ Fold(state, log) = u /\ MayBeCut(state, log)
  BY <1>2, <1>6, KeepingMayBeCut DEF Begins
<1>9. Work(next) = Work(drive) /\ Sent(u, next) = Sent(state, drive)
  <2>1. \A k \in drive.advanced : Onward(u, k) = Onward(state, k)
    BY <1>3, <1>4, <1>8
  <2>2. UNION {Onward(u, k) : k \in drive.advanced} = UNION {Onward(state, k) : k \in drive.advanced}
    BY <2>1
  <2>3. Work(next) = Work(drive)
    BY <1>1, <1>7 DEF Work
  <2>4. Sent(u, next) = (UNION {Onward(u, k) : k \in drive.advanced}) \ drive.advanced
    BY <1>7 DEF Sent
  <2>5. Sent(state, drive) = (UNION {Onward(state, k) : k \in drive.advanced}) \ drive.advanced
    BY <1>1 DEF Sent
  <2> QED BY <2>2, <2>3, <2>4, <2>5
<1>10. m \in Work(drive)
  BY <1>2, <1>3, <1>4
<1>11. /\ Quiet(u, Work(drive), Work(drive)) /\ Quiet(u, Sent(state, drive), Work(drive))
  <2>1. \A k \in drive.advanced : Onward(state, k) \subseteq Nodes
    BY <1>2, <1>4, RoutedAreOnward DEF BatchHolds, Kept, Orderly
  <2>2. Sent(state, drive) \subseteq Nodes
    BY <2>1 DEF Sent
  <2>3. \A a \in Work(drive) \cup Sent(state, drive) : \A y \in Beyond(a) : y \in Nodes
    BY <1>2, <2>2, BeyondFacts
  <2>4. Quiet(state, Work(drive), Work(drive)) /\ Quiet(state, Sent(state, drive), Work(drive))
    BY <1>1, <1>2 DEF BatchHolds, BatchFits
  <2> QED BY <1>8, <1>10, <2>3, <2>4 DEF Quiet
<1>12. BatchFits(u, next)
  <2>1. /\ ToSet(drive.batch) # {}
        /\ \A n \in ToSet(drive.queue) \cup ToSet(drive.frontier) : ~IsFinished(state, n)
        /\ ToSet(drive.frontier) \cap ToSet(drive.batch) = {}
        /\ \A n \in drive.ended : state.nodes[n] \in {"succeeded", "failed"}
        /\ drive.ended \subseteq drive.advanced \/ ~drive.pipelining \/ drive.halted
        /\ ~drive.won
        /\ \A k \in drive.advanced : \A t \in Onward(state, k) \ ToSet(drive.batch) :
             state.nodes[t] = "pending" /\ (IsJoin(t) \/ t \in ToSet(drive.frontier))
    BY <1>1, <1>2 DEF BatchHolds, BatchFits
  <2>2. \A n \in ToSet(Tail(drive.queue)) \cup ToSet(drive.frontier) : n \in Nodes /\ n # m
    <3>1. ToSet(drive.queue) \subseteq Nodes /\ ToSet(drive.frontier) \subseteq Nodes
      BY <1>2, Elements DEF Memories
    <3> QED BY <1>3, <2>1, <3>1
  <2>3. \A n \in ToSet(Tail(drive.queue)) \cup ToSet(drive.frontier) : ~IsFinished(u, n)
    BY <1>3, <1>8, <2>1, <2>2 DEF IsFinished
  <2>4. \A n \in drive.ended : u.nodes[n] \in {"succeeded", "failed"}
    BY <1>3, <1>4, <1>8, <2>1
  <2>5. ASSUME NEW k \in drive.advanced, NEW t \in Onward(u, k) \ ToSet(drive.batch)
        PROVE  u.nodes[t] = "pending" /\ (IsJoin(t) \/ t \in ToSet(drive.frontier))
    <3>1. k \in Nodes /\ k # m /\ t \in Onward(state, k) /\ t # m
      BY <1>3, <1>4, <1>8
    <3>2. t \in Nodes
      BY <1>2, <3>1, RoutedAreOnward DEF BatchHolds, Kept, Orderly
    <3> QED BY <1>8, <2>1, <3>1, <3>2
  <2> QED BY <1>7, <1>9, <1>11, <2>1, <2>3, <2>4, <2>5 DEF BatchFits
<1>13. Holds(u, next)
  BY <1>7, <1>9, <1>11, <1>12 DEF Holds, Upright
<1>14. crashes = 0 => Debts(u, next, asked)
  BY <1>1, <1>2, <1>3, <1>7, <1>8 DEF Debts, Remembers, BatchHolds
<1>15. Tidy(u, next, asked, crashes)
  BY <1>8, <1>13, <1>14 DEF Tidy
<1> QED BY <1>1, <1>2, <1>8, <1>15, WriteIsTidy

=============================================================================
