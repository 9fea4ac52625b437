---------------------------- MODULE SidecarProofs ----------------------------
(***************************************************************************)
(* Proofs of what collab/dcp-core does next to the documents: three parts  *)
(* that share no state.                                                    *)
(*                                                                         *)
(* The version graph and the view: for every list of versions, any order   *)
(* in which edges are looked at, every verdict and every outcome of the    *)
(* fetches, that the search for cycles is right, and what the view then    *)
(* shows.                                                                  *)
(*                                                                         *)
(* The outbox: its safety for every pacing interval, back-off, server      *)
(* answer and number of items.                                             *)
(*                                                                         *)
(* The lease: for any sessions, durations, delays and settle intervals,    *)
(* on a store with compare-and-set and on one without, nobody's lease is   *)
(* taken before it expires but by break_lease.                             *)
(***************************************************************************)
EXTENDS Outbox, Lease, VersionGraph, DataLemmas

-----------------------------------------------------------------------------
(* 1. The version graph and the view                                       *)

(* Every version lists versions.                                           *)
Listed == parents \in [Versions -> SUBSET Versions]

(* A set with all the parents of its members. *)
Closed(C) == \A p \in C : parents[p] \subseteq C

(* A set and the parents of its members. *)
Up(X) == X \cup UNION {parents[p] : p \in X}

(* Up adds parents, and nothing else, until nothing is to be added.          *)
LEMMA UpFacts ==
    ASSUME Listed, NEW X \in SUBSET Versions
    PROVE  /\ Up(X) \in SUBSET Versions /\ X \subseteq Up(X)
           /\ Up(X) = X <=> Closed(X)
           /\ \A C : X \subseteq C /\ Closed(C) => Up(X) \subseteq C
BY DEF Listed, Up, Closed

(* The reference: the ancestors of a version are the least set that has its   *)
(* parents and is closed.  As many steps as there are versions are enough,    *)
(* since each that changes the set adds to it.                               *)
LEMMA AncestorsAreLeast ==
    ASSUME Listed, NEW v \in Versions
    PROVE  /\ parents[v] \subseteq Ancestors(v) /\ Ancestors(v) \subseteq Versions
           /\ Closed(Ancestors(v))
           /\ \A C : parents[v] \subseteq C /\ Closed(C) => Ancestors(v) \subseteq C
<1> DEFINE n == Cardinality(Versions)
           step == [X \in SUBSET Versions |-> Up(X)]
           Def(f) == f = [k \in 0 .. n |-> IF k = 0 THEN parents[v] ELSE Up(f[k - 1])]
           up == CHOOSE f : Def(f)
<1>0. Ancestors(v) = up[n]
  BY DEF Ancestors, Up
<1>1. n \in Nat
  BY VersionsAssumption, FS_CardinalityType
<1> HIDE DEF n
<1>2. step \in [SUBSET Versions -> SUBSET Versions] /\ parents[v] \in SUBSET Versions
  BY UpFacts DEF Listed
<1>3. PICK f \in [0 .. n -> SUBSET Versions] :
         f[0] = parents[v] /\ \A k \in 1 .. n : f[k] = step[f[k - 1]]
  <2> DEFINE S == SUBSET Versions
             a == parents[v]
  <2>1. step \in [S -> S] /\ a \in S
    BY <1>2
  <2> HIDE DEF step, S, a
  <2>2. \E f \in [0 .. n -> S] : f[0] = a /\ \A k \in 1 .. n : f[k] = step[f[k - 1]]
    BY <1>1, <2>1, Iterates, SMTT(30)
  <2> QED BY <2>2 DEF S, a
<1>4. Def(f)
  <2>1. \A k \in 1 .. n : k - 1 \in 0 .. n
    BY <1>1
  <2>2. \A k \in 1 .. n : f[k] = Up(f[k - 1])
    BY <1>3, <2>1
  <2>3. \A k \in 0 .. n : k = 0 \/ k \in 1 .. n
    BY <1>1
  <2> QED BY <1>3, <2>2, <2>3
<1>5. Def(up)
  BY <1>4
<1>6. /\ up[0] = parents[v]
      /\ \A k \in 0 .. n - 1 : up[k + 1] = Up(up[k])
  <2> HIDE DEF up
  <2>1. \A k \in 0 .. n : up[k] = IF k = 0 THEN parents[v] ELSE Up(up[k - 1])
    BY <1>5
  <2>2. \A k \in 0 .. n - 1 : k + 1 \in 0 .. n /\ k + 1 # 0 /\ (k + 1) - 1 = k
    BY <1>1
  <2>3. \A k \in 0 .. n - 1 : up[k + 1] = Up(up[(k + 1) - 1])
    BY <2>1, <2>2
  <2> QED BY <1>1, <2>1, <2>2, <2>3
<1> HIDE DEF up, Def
<1> DEFINE F == {k \in 0 .. n : up[k] \in SUBSET Versions /\ parents[v] \subseteq up[k]
                     /\ (Closed(up[k]) \/ Cardinality(up[k]) >= k + 1)}
<1>8. n \in F
  <2>1. 0 \in F
    <3>1. IsFiniteSet(parents[v]) /\ Cardinality(parents[v]) \in Nat
      BY <1>2, VersionsAssumption, FS_Subset, FS_CardinalityType
    <3>2. Closed(parents[v]) \/ Cardinality(parents[v]) # 0
      BY <3>1, FS_EmptySet DEF Closed
    <3> QED BY <1>1, <1>2, <1>6, <3>1, <3>2
  <2>2. ASSUME NEW k \in 0 .. n - 1, k \in F PROVE k + 1 \in F
    <3>1. up[k] \in SUBSET Versions /\ parents[v] \subseteq up[k]
      BY <2>2
    <3>2. up[k + 1] \in SUBSET Versions /\ up[k] \subseteq up[k + 1] /\ (up[k + 1] = up[k] <=> Closed(up[k]))
      BY <1>6, <3>1, UpFacts
    <3>3. CASE Closed(up[k])
      BY <1>1, <3>1, <3>2, <3>3
    <3>4. CASE ~Closed(up[k])
      <4>2. /\ IsFiniteSet(up[k + 1])
            /\ Cardinality(up[k]) <= Cardinality(up[k + 1]) /\ Cardinality(up[k]) # Cardinality(up[k + 1])
            /\ Cardinality(up[k]) \in Nat /\ Cardinality(up[k + 1]) \in Nat
        BY <3>1, <3>2, <3>4, VersionsAssumption, FS_Subset, FS_CardinalityType
      <4>3. Cardinality(up[k]) >= k + 1
        BY <2>2, <3>4
      <4>4. Cardinality(up[k + 1]) >= (k + 1) + 1 /\ k + 1 \in 0 .. n
        BY <1>1, <4>2, <4>3
      <4> QED BY <3>1, <3>2, <4>4
    <3> QED BY <3>3, <3>4
  <2> HIDE DEF F
  <2>3. 0 .. n \subseteq F
    BY <1>1, <2>1, <2>2, StepByStep
  <2> QED BY <1>1, <2>3
<1>9. Cardinality(up[n]) <= n /\ Cardinality(up[n]) \in Nat
  BY <1>8, VersionsAssumption, FS_Subset, FS_CardinalityType DEF n
<1>10. ASSUME NEW C, parents[v] \subseteq C, Closed(C) PROVE up[n] \subseteq C
  <2> DEFINE G == {k \in 0 .. n : up[k] \in SUBSET Versions /\ up[k] \subseteq C}
  <2>1. 0 \in G
    BY <1>1, <1>2, <1>6, <1>10
  <2>2. ASSUME NEW k \in 0 .. n - 1, k \in G PROVE k + 1 \in G
    <3>1. up[k + 1] \subseteq C /\ up[k + 1] \in SUBSET Versions
      BY <1>6, <2>2, <1>10, UpFacts
    <3> QED BY <1>1, <3>1
  <2> HIDE DEF G
  <2>3. 0 .. n \subseteq G
    BY <1>1, <2>1, <2>2, StepByStep
  <2> QED BY <1>1, <2>3 DEF G
<1>11. ~(Cardinality(up[n]) >= n + 1)
  BY <1>1, <1>9
<1>12. up[n] \in SUBSET Versions /\ parents[v] \subseteq up[n] /\ Closed(up[n])
  BY <1>8, <1>11
<1> QED BY <1>0, <1>10, <1>12

(* A version and its ancestors. *)
Reach(v) == {v} \cup Ancestors(v)

(* Reaching is reflexive, transitive and the least such.                     *)
LEMMA ReachIsLeast ==
    ASSUME Listed, NEW v \in Versions
    PROVE  /\ v \in Reach(v) /\ parents[v] \subseteq Reach(v) /\ Reach(v) \subseteq Versions
           /\ \A w \in Reach(v) : Reach(w) \subseteq Reach(v)
           /\ \A C : v \in C /\ Closed(C) => Reach(v) \subseteq C
<1>1. parents[v] \subseteq Ancestors(v) /\ Ancestors(v) \subseteq Versions /\ Closed(Ancestors(v))
  BY AncestorsAreLeast
<1>2. ASSUME NEW C, v \in C, Closed(C) PROVE Reach(v) \subseteq C
  <2>1. parents[v] \subseteq C
    BY <1>2 DEF Closed
  <2>2. Ancestors(v) \subseteq C
    BY <1>2, <2>1, AncestorsAreLeast
  <2> QED BY <1>2, <2>2 DEF Reach
<1>3. Closed(Reach(v)) /\ Reach(v) \subseteq Versions
  BY <1>1 DEF Closed, Reach
<1>4. ASSUME NEW w \in Reach(v) PROVE Reach(w) \subseteq Reach(v)
  <2>1. w \in Versions
    BY <1>3
  <2>2. parents[w] \subseteq Reach(v)
    BY <1>3 DEF Closed
  <2>3. Ancestors(w) \subseteq Reach(v)
    BY <1>3, <2>1, <2>2, AncestorsAreLeast
  <2> QED BY <2>3 DEF Reach
<1> QED BY <1>1, <1>2, <1>3, <1>4 DEF Reach

(* It depends on what is listed alone.                                       *)
LEMMA AncestorsStay ==
    ASSUME UNCHANGED parents, NEW v \in Versions
    PROVE  Ancestors(v)' = Ancestors(v) /\ Reach(v)' = Reach(v)
BY DEF Ancestors, Reach

-----------------------------------------------------------------------------
(* The invariant of the search.                                              *)

(* The versions in a component, the search's path, and the versions met from *)
(* its i-th on and before its next.                                          *)
Finished == {v \in Versions : component[v] # None}
Node(i) == work[i].node
Path == 1 .. Len(work)
Deepest(i, x) == index[Node(i)] <= index[x] /\ (i < Len(work) => index[x] < index[Node(i + 1)])

PathItems == [node : Versions, todo : SUBSET Versions]

(* The types, and what is listed.                                            *)
SearchTypes ==
    /\ Listed
    /\ index \in [Versions -> Nat \cup {None}]
    /\ low \in [Versions -> Nat]
    /\ component \in [Versions -> Versions \cup {None}]
    /\ stack \in Seq(Versions)
    /\ work \in Seq(PathItems)

(* Versions are numbered as they are met; the stack holds those met that are *)
(* in no component yet, the path some of them, both in that order.           *)
Numbered ==
    /\ \A v \in Met : index[v] < Cardinality(Met)
    /\ \A i, j \in DOMAIN stack : i < j => index[stack[i]] < index[stack[j]]
    /\ \A i, j \in Path : i < j => index[Node(i)] < index[Node(j)]
    /\ Finished \subseteq Met /\ OnStack = Met \ Finished
    /\ \A i \in Path : Node(i) \in OnStack

(* Only versions on the path have parents left to look at. *)
Explored ==
    /\ \A i \in Path : parents[Node(i)] \ work[i].todo \subseteq Met
        /\ work[i].todo \subseteq parents[Node(i)]
    /\ \A x \in Met : (\E i \in Path : x = Node(i)) \/ parents[x] \subseteq Met

(* A version of the path reaches all that were met after it, and every one   *)
(* on the stack reaches one of the path that was met before it.              *)
Linked ==
    /\ \A i \in Path : \A x \in OnStack : index[Node(i)] <= index[x] => x \in Reach(Node(i))
    /\ \A x \in OnStack : \E i \in Path : index[Node(i)] <= index[x] /\ Node(i) \in Reach(x)

(* low is the number of a version on the stack that is reached ... *)
LowIsReached ==
    \A i \in Path : /\ low[Node(i)] <= index[Node(i)]
                    /\ \E z \in OnStack : index[z] = low[Node(i)] /\ z \in Reach(Node(i))

(* ... and no parent seen from this version on has a lower one. *)
LowIsLowest ==
    \A i \in Path : \A x, z \in OnStack :
        Deepest(i, x) /\ z \in parents[x] /\ (x = Node(i) => z \notin work[i].todo)
          => low[Node(i)] <= index[z]

(* What has its component has it for good: the components found are those of  *)
(* the versions that reach each other.                                       *)
Strong ==
    /\ Closed(Finished)
    /\ \A v \in Finished : component[v] \in Finished
    /\ \A v \in Finished : \A w \in Versions \ {v} :
           component[w] = component[v] <=> v \in Reach(w) /\ w \in Reach(v)

SearchInv == SearchTypes /\ Numbered /\ Explored /\ Linked /\ LowIsReached /\ LowIsLowest /\ Strong

(* A version on the stack is known by its number. *)
LEMMA NumbersDiffer ==
    ASSUME SearchTypes, Numbered, NEW x \in OnStack, NEW y \in OnStack, index[x] = index[y]
    PROVE  x = y
<1>1. PICK i \in DOMAIN stack : x = stack[i]
  BY DEF OnStack, Range
<1>2. PICK j \in DOMAIN stack : y = stack[j]
  BY DEF OnStack, Range
<1>3. i \in Int /\ j \in Int /\ x \in Versions /\ y \in Versions
  BY <1>1, <1>2 DEF SearchTypes
<1>4. index[x] \in Nat /\ index[y] \in Nat
  BY DEF Numbered, Met, SearchTypes, None
<1> QED BY <1>1, <1>2, <1>3, <1>4 DEF Numbered

(* Everything on the path is on the stack, and everything there is met.      *)
LEMMA MetFacts ==
    ASSUME SearchTypes, Numbered
    PROVE  /\ OnStack \subseteq Met /\ Met \subseteq Versions /\ IsFiniteSet(Met) /\ Cardinality(Met) \in Nat
           /\ \A v \in Met : index[v] \in Nat
           /\ \A i \in Path : Node(i) \in OnStack /\ Node(i) \in Versions /\ index[Node(i)] \in Nat
               /\ low[Node(i)] \in Nat
           /\ \A i \in Path : i \in Int /\ work[i] \in [node : Versions, todo : SUBSET Versions]
           /\ Len(work) \in Nat
<1>1. Met \subseteq Versions /\ IsFiniteSet(Met) /\ Cardinality(Met) \in Nat
  BY VersionsAssumption, FS_Subset, FS_CardinalityType DEF Met
<1>2. \A v \in Met : index[v] \in Nat
  BY DEF Met, SearchTypes
<1>3. Len(work) \in Nat /\ \A i \in Path : work[i] \in [node : Versions, todo : SUBSET Versions]
  BY SeqFacts DEF SearchTypes, Path, PathItems
<1>4. ASSUME NEW i \in Path PROVE Node(i) \in OnStack /\ Node(i) \in Versions /\ index[Node(i)] \in Nat
               /\ low[Node(i)] \in Nat
  <2>1. Node(i) \in OnStack /\ Node(i) \in Versions
    BY <1>3 DEF Numbered, Node
  <2> QED BY <1>2, <2>1 DEF SearchTypes, Numbered
<1>5. OnStack \subseteq Met
  BY DEF Numbered
<1> QED BY <1>1, <1>2, <1>3, <1>4, <1>5 DEF Path

-----------------------------------------------------------------------------
(* The search's steps keep the invariant.                                    *)

(* A version is met: the last of the path so far, if any, lists it.          *)
LEMMA MeetKeeps ==
  ASSUME SearchInv, NEW v \in Versions \ Met, NEW path \in Seq(PathItems), Len(path) = Len(work),
         \A i \in Path : /\ path[i].node = Node(i) /\ path[i].todo \subseteq work[i].todo
                         /\ work[i].todo \ path[i].todo \subseteq {v},
         work = <<>> \/ v \in parents[Node(Len(work))],
         Meet(v, path), UNCHANGED <<parents, component>>
  PROVE  SearchInv'
<1> DEFINE n == Cardinality(Met)
<1>1. SearchTypes /\ Numbered /\ Explored /\ Linked /\ LowIsReached /\ LowIsLowest /\ Strong
  BY DEF SearchInv
<1>2. /\ OnStack \subseteq Met /\ Met \subseteq Versions /\ IsFiniteSet(Met) /\ n \in Nat
      /\ \A x \in Met : index[x] \in Nat
      /\ \A i \in Path : Node(i) \in OnStack /\ Node(i) \in Versions /\ index[Node(i)] \in Nat
          /\ low[Node(i)] \in Nat
      /\ \A i \in Path : i \in Int /\ work[i] \in [node : Versions, todo : SUBSET Versions]
      /\ Len(work) \in Nat
  BY <1>1, MetFacts
<1>0. PICK top \in Nat : top = Len(work) + 1
  BY <1>2
<1>3. /\ index' = [index EXCEPT ![v] = n] /\ low' = [low EXCEPT ![v] = n]
      /\ stack' = Append(stack, v) /\ work' = Append(path, [node |-> v, todo |-> parents[v]])
  BY DEF Meet
<1>4. SearchTypes'
  <2>1. stack' \in Seq(Versions)
    BY <1>1, <1>3, AppendFacts DEF SearchTypes
  <2>2. [node |-> v, todo |-> parents[v]] \in PathItems
    BY <1>1 DEF SearchTypes, Listed, PathItems
  <2>3. work' \in Seq(PathItems)
    BY <1>3, <2>2, AppendFacts
  <2>4. index' \in [Versions -> Nat \cup {None}] /\ low' \in [Versions -> Nat]
    BY <1>1, <1>2, <1>3 DEF SearchTypes
  <2> QED BY <1>1, <2>1, <2>3, <2>4 DEF SearchTypes, Listed, PathItems
<1>5. /\ \A x \in Versions \ {v} : index'[x] = index[x] /\ low'[x] = low[x]
      /\ index'[v] = n /\ low'[v] = n
  BY <1>1, <1>3 DEF SearchTypes
<1>6. Met' = Met \cup {v} /\ Cardinality(Met') = n + 1 /\ v \notin Met
  <2>1. Met' = Met \cup {v}
    BY <1>2, <1>5 DEF Met, None
  <2> QED BY <1>2, <2>1, FS_AddElement
<1>7. Finished' = Finished /\ \A x \in Versions : Reach(x)' = Reach(x)
  BY AncestorsStay DEF Finished
<1>8. /\ Len(stack') = Len(stack) + 1 /\ Len(stack) \in Nat /\ DOMAIN stack = 1 .. Len(stack)
      /\ DOMAIN stack' = 1 .. Len(stack) + 1
      /\ stack'[Len(stack) + 1] = v
      /\ \A i \in DOMAIN stack : stack'[i] = stack[i] /\ stack[i] \in OnStack
  BY <1>1, <1>3, <1>4, SeqFacts, AppendFacts DEF SearchTypes, OnStack, Range
<1>9. OnStack' = OnStack \cup {v}
  <2>1. OnStack' = {stack'[i] : i \in 1 .. Len(stack) + 1}
    BY <1>8 DEF OnStack, Range
  <2>2. \A i \in 1 .. Len(stack) + 1 : i \in DOMAIN stack \/ i = Len(stack) + 1
    BY <1>8
  <2>3. OnStack = {stack[i] : i \in DOMAIN stack}
    BY DEF OnStack, Range
  <2>4. Len(stack) + 1 \in 1 .. Len(stack) + 1 /\ DOMAIN stack \subseteq 1 .. Len(stack) + 1
    BY <1>8
  <2>5. OnStack' \subseteq OnStack \cup {v}
    BY <1>8, <2>1, <2>2
  <2>6. OnStack \subseteq OnStack'
    BY <1>8, <2>1, <2>3, <2>4
  <2>7. v \in OnStack'
    BY <1>8, <2>1, <2>4
  <2> QED BY <2>5, <2>6, <2>7
<1>10. /\ Len(work') = top /\ Path' = Path \cup {top} /\ top \notin Path
       /\ \A i \in Path : Node(i)' = Node(i) /\ work'[i].todo \subseteq work[i].todo
           /\ work[i].todo \ work'[i].todo \subseteq {v}
       /\ Node(top)' = v /\ work'[top].todo = parents[v]
  <2>1. [node |-> v, todo |-> parents[v]] \in PathItems
    BY <1>1 DEF SearchTypes, Listed, PathItems
  <2>2. Len(work') = top /\ work'[top] = [node |-> v, todo |-> parents[v]]
          /\ \A i \in Path : work'[i] = path[i]
    BY <1>0, <1>3, <2>1, AppendFacts DEF Path
  <2>3. Path' = Path \cup {top} /\ top \notin Path
    BY <1>0, <1>2, <2>2 DEF Path
  <2> QED BY <2>2, <2>3 DEF Node
<1>11. Numbered'
  <2>1. \A x \in Met' : index'[x] < Cardinality(Met')
    BY <1>1, <1>2, <1>5, <1>6 DEF Numbered
  <2>2. ASSUME NEW i \in DOMAIN stack', NEW j \in DOMAIN stack', i < j
        PROVE  index'[stack'[i]] < index'[stack'[j]]
    <3>1. i \in DOMAIN stack /\ stack[i] \in Met /\ stack[i] # v
      BY <1>2, <1>6, <1>8, <2>2
    <3>2. CASE j \in DOMAIN stack
      BY <1>1, <1>2, <1>5, <1>6, <1>8, <2>2, <3>1, <3>2 DEF Numbered
    <3>3. CASE j = Len(stack) + 1
      BY <1>1, <1>2, <1>5, <1>8, <3>1, <3>3 DEF Numbered
    <3> QED BY <1>8, <3>2, <3>3
  <2>3. ASSUME NEW i \in Path', NEW j \in Path', i < j
        PROVE  index'[Node(i)'] < index'[Node(j)']
    <3>1. i \in Path /\ Node(i) \in Met /\ Node(i) # v
      BY <1>2, <1>6, <1>10, <2>3 DEF Path
    <3>2. CASE j \in Path
      <4>1. Node(j) # v /\ Node(j) \in Versions
        BY <1>2, <1>6, <3>2
      <4> QED BY <1>1, <1>2, <1>5, <1>10, <2>3, <3>1, <3>2, <4>1 DEF Numbered
    <3>3. CASE j = top
      BY <1>1, <1>2, <1>5, <1>10, <3>1, <3>3 DEF Numbered
    <3> QED BY <1>10, <3>2, <3>3
  <2>4. Finished' \subseteq Met' /\ OnStack' = Met' \ Finished' /\ \A i \in Path' : Node(i)' \in OnStack'
    BY <1>1, <1>2, <1>6, <1>7, <1>9, <1>10 DEF Numbered
  <2> QED BY <2>1, <2>2, <2>3, <2>4 DEF Numbered
<1>12. Explored'
  BY <1>1, <1>2, <1>6, <1>10 DEF Explored
<1>13. Linked'
  <2>1. ASSUME NEW i \in Path', NEW x \in OnStack', index'[Node(i)'] <= index'[x]
        PROVE  x \in Reach(Node(i))'
    <3>1. CASE i = top
      <4>1. Node(i)' = v /\ x = v
        BY <1>1, <1>2, <1>5, <1>6, <1>9, <1>10, <2>1, <3>1 DEF Numbered
      <4> QED BY <1>1, <1>7, <4>1 DEF Reach
    <3>2. CASE i \in Path /\ x # v
      <4>1. Node(i)' = Node(i) /\ x \in OnStack /\ Node(i) # v /\ x \in Versions /\ Node(i) \in Versions
        BY <1>2, <1>6, <1>9, <1>10, <3>2
      <4>2. x \in Reach(Node(i))
        BY <1>1, <1>5, <2>1, <3>2, <4>1 DEF Linked
      <4> QED BY <1>7, <4>1, <4>2
    <3>3. CASE i \in Path /\ x = v
      <4>1. Len(work) \in Path /\ work # <<>> /\ v \in parents[Node(Len(work))]
        BY <1>2, <3>3 DEF Path
      <4>2. Node(i) \in Versions /\ Node(Len(work)) \in OnStack /\ Node(Len(work)) \in Versions
              /\ Node(i)' = Node(i)
        BY <1>2, <1>10, <3>3, <4>1
      <4>3. index[Node(i)] <= index[Node(Len(work))]
        BY <1>1, <1>2, <3>3, <4>1 DEF Numbered, Path
      <4>4. Node(Len(work)) \in Reach(Node(i))
        BY <1>1, <3>3, <4>2, <4>3 DEF Linked
      <4>5. v \in Reach(Node(Len(work)))
        BY <1>1, <4>1, <4>2, ReachIsLeast DEF SearchTypes
      <4>6. v \in Reach(Node(i))
        BY <1>1, <4>2, <4>4, <4>5, ReachIsLeast DEF SearchTypes
      <4> QED BY <1>7, <3>3, <4>2, <4>6
    <3> QED BY <1>10, <3>1, <3>2, <3>3
  <2>2. ASSUME NEW x \in OnStack'
        PROVE  \E i \in Path' : index'[Node(i)'] <= index'[x] /\ Node(i)' \in Reach(x)'
    <3>1. CASE x = v
      BY <1>2, <1>5, <1>7, <1>10, <3>1 DEF Reach
    <3>2. CASE x # v
      <4>1. x \in OnStack /\ x \in Versions
        BY <1>2, <1>9, <3>2
      <4>2. PICK i \in Path : index[Node(i)] <= index[x] /\ Node(i) \in Reach(x)
        BY <1>1, <4>1 DEF Linked
      <4>3. Node(i) \in Versions /\ Node(i) # v /\ Node(i)' = Node(i) /\ i \in Path'
        BY <1>2, <1>6, <1>10
      <4> QED BY <1>5, <1>7, <3>2, <4>1, <4>2, <4>3
    <3> QED BY <3>1, <3>2
  <2> QED BY <2>1, <2>2 DEF Linked
<1>14. LowIsReached'
  <2> SUFFICES ASSUME NEW i \in Path'
               PROVE  /\ low'[Node(i)'] <= index'[Node(i)']
                      /\ \E z \in OnStack' : index'[z] = low'[Node(i)'] /\ z \in Reach(Node(i))'
    BY DEF LowIsReached
  <2>1. CASE i = top
    BY <1>2, <1>5, <1>7, <1>9, <1>10, <2>1 DEF Reach
  <2>2. CASE i \in Path
    <3>1. Node(i)' = Node(i) /\ Node(i) \in Versions /\ Node(i) # v
      BY <1>2, <1>6, <1>10, <2>2
    <3>2. PICK z \in OnStack : index[z] = low[Node(i)] /\ z \in Reach(Node(i))
      BY <1>1, <2>2 DEF LowIsReached
    <3>3. z \in Versions /\ z # v /\ z \in OnStack'
      BY <1>2, <1>6, <1>9
    <3>4. low[Node(i)] <= index[Node(i)]
      BY <1>1, <2>2 DEF LowIsReached
    <3> QED BY <1>5, <1>7, <3>1, <3>2, <3>3, <3>4
  <2> QED BY <1>10, <2>1, <2>2
<1>15. LowIsLowest'
  <2> SUFFICES ASSUME NEW i \in Path', NEW x \in OnStack', NEW z \in OnStack',
                      Deepest(i, x)', z \in parents[x], x = Node(i)' => z \notin work'[i].todo
               PROVE  low'[Node(i)'] <= index'[z]
    BY DEF LowIsLowest
  <2>1. CASE i = top
    <3>1. x = v
      BY <1>1, <1>2, <1>5, <1>6, <1>9, <1>10, <2>1 DEF Numbered, Deepest
    <3> QED BY <1>10, <2>1, <3>1
  <2>2. CASE i \in Path
    <3>1. Node(i)' = Node(i) /\ Node(i) \in OnStack /\ Node(i) \in Versions /\ Node(i) # v
      BY <1>2, <1>6, <1>10, <2>2
    <3>2. low[Node(i)] <= index[Node(i)] /\ index[Node(i)] < n /\ low'[Node(i)'] = low[Node(i)]
      BY <1>1, <1>2, <1>5, <2>2, <3>1 DEF LowIsReached, Numbered, n
    <3>3. CASE z = v
      BY <1>2, <1>5, <2>2, <3>1, <3>2, <3>3
    <3>4. CASE z # v
      <4>1. i < Len(work') /\ i + 1 \in Path' /\ (i + 1 = top \/ (i + 1 \in Path /\ i < Len(work)))
        BY <1>0, <1>2, <1>10, <2>2 DEF Path
      <4>2. x # v
        <5>1. index'[Node(i + 1)'] <= n /\ index'[Node(i + 1)'] \in Nat
          BY <1>2, <1>5, <1>6, <1>10, <4>1, <1>1 DEF Numbered, n
        <5>2. index'[x] < index'[Node(i + 1)']
          BY <4>1 DEF Deepest
        <5> QED BY <1>2, <1>5, <5>1, <5>2
      <4>3. x \in OnStack /\ z \in OnStack /\ x \in Versions /\ z \in Versions
        BY <1>2, <1>9, <3>4, <4>2
      <4>4. Deepest(i, x)
        <5>1. index[Node(i)] <= index[x]
          BY <1>5, <3>1, <4>2, <4>3 DEF Deepest
        <5>2. ASSUME i < Len(work) PROVE index[x] < index[Node(i + 1)]
          <6>1. i + 1 \in Path /\ Node(i + 1)' = Node(i + 1) /\ Node(i + 1) \in Versions /\ Node(i + 1) # v
            BY <1>2, <1>6, <1>10, <2>2, <5>2 DEF Path
          <6> QED BY <1>5, <4>1, <4>2, <4>3, <6>1 DEF Deepest
        <5> QED BY <5>1, <5>2 DEF Deepest
      <4>5. x = Node(i) => z \notin work[i].todo
        BY <1>10, <2>2, <3>1, <3>4
      <4>6. low[Node(i)] <= index[z]
        BY <1>1, <2>2, <4>3, <4>4, <4>5 DEF LowIsLowest
      <4> QED BY <1>5, <3>2, <3>4, <4>3, <4>6
    <3> QED BY <3>3, <3>4
  <2> QED BY <1>10, <2>1, <2>2
<1>16. Strong'
  BY <1>1, <1>7 DEF Strong, Closed, Finished
<1> QED BY <1>4, <1>11, <1>12, <1>13, <1>14, <1>15, <1>16 DEF SearchInv

(* What Min does to two numbers.                                             *)
LEMMA LowerOfTwo ==
  ASSUME NEW a \in Nat, NEW b \in Nat
  PROVE  Min({a, b}) \in {a, b} /\ Min({a, b}) <= a /\ Min({a, b}) <= b
BY MinIsLeast

(* An edge is followed: to a version not met, on the stack, or done with.    *)
LEMMA FollowKeeps ==
  ASSUME SearchInv, NEW v \in Versions, Follow(v)
  PROVE  SearchInv'
<1>1. SearchTypes /\ Numbered /\ Explored /\ Linked /\ LowIsReached /\ LowIsLowest /\ Strong
  BY DEF SearchInv
<1>2. /\ OnStack \subseteq Met /\ Met \subseteq Versions
      /\ \A x \in Met : index[x] \in Nat
      /\ \A i \in Path : Node(i) \in OnStack /\ Node(i) \in Versions /\ index[Node(i)] \in Nat
          /\ low[Node(i)] \in Nat
      /\ \A i \in Path : i \in Int /\ work[i] \in PathItems
      /\ Len(work) \in Nat
  BY <1>1, MetFacts DEF PathItems
<1>3. PICK L \in Nat : L = Len(work)
  BY <1>2
<1>4. L > 0 /\ L \in Path /\ Path = 1 .. L /\ DOMAIN work = Path /\ work \in Seq(PathItems)
  <2>1. work \in Seq(PathItems) /\ work # <<>>
    BY <1>1 DEF Follow, SearchTypes, PathItems
  <2> QED BY <1>3, <2>1, SeqFacts DEF Path
<1> DEFINE path == [work EXCEPT ![L].todo = @ \ {v}]
<1>5. Top = work[L] /\ v \in work[L].todo /\ Top.node = Node(L)
  BY <1>3 DEF Follow, Top, Node
<1>6. /\ path \in Seq(PathItems) /\ Len(path) = L
      /\ \A i \in Path : /\ path[i].node = Node(i) /\ path[i].todo = IF i = L THEN work[i].todo \ {v} ELSE work[i].todo
  <2>1. [work[L] EXCEPT !.todo = @ \ {v}] \in PathItems
    BY <1>2, <1>4 DEF PathItems
  <2>2. path = [work EXCEPT ![L] = [work[L] EXCEPT !.todo = @ \ {v}]]
    OBVIOUS
  <2>3. path \in Seq(PathItems) /\ Len(path) = L
    BY <1>3, <1>4, <2>1, <2>2
  <2>4. \A i \in Path : path[i] = IF i = L THEN [work[L] EXCEPT !.todo = @ \ {v}] ELSE work[i]
    BY <1>4, <2>2
  <2>5. work[L] \in PathItems
    BY <1>2, <1>4
  <2>6. /\ [work[L] EXCEPT !.todo = @ \ {v}].node = work[L].node
        /\ [work[L] EXCEPT !.todo = @ \ {v}].todo = work[L].todo \ {v}
    BY <2>5 DEF PathItems
  <2> HIDE DEF path
  <2> QED BY <2>3, <2>4, <2>6 DEF Node
<1>7. v \in parents[Node(L)]
  BY <1>1, <1>4, <1>5 DEF Explored
<1>8. CASE v \notin Met
  <2>1. Meet(v, path) /\ UNCHANGED <<parents, component>>
    BY <1>3, <1>8 DEF Follow
  <2> HIDE DEF path
  <2> QED BY <1>3, <1>6, <1>7, <1>8, <2>1, MeetKeeps
<1>9. CASE v \in Met
  <2>1. work' = path /\ UNCHANGED <<index, stack, parents, component>>
    BY <1>3, <1>9 DEF Follow
  <2>2. low' = IF v \in OnStack THEN [low EXCEPT ![Node(L)] = Min({low[Node(L)], index[v]})] ELSE low
    BY <1>5, <1>9 DEF Follow, Lowers
  <2> HIDE DEF path
  <2>3. /\ Path' = Path /\ Met' = Met /\ OnStack' = OnStack /\ Finished' = Finished
        /\ \A x \in Versions : Reach(x)' = Reach(x)
        /\ \A i \in Path : Node(i)' = Node(i)
        /\ \A i \in Path : work'[i].todo = IF i = L THEN work[i].todo \ {v} ELSE work[i].todo
    BY <1>3, <1>6, <2>1, AncestorsStay DEF Path, Met, OnStack, Finished, Node
  <2>4. low[Node(L)] \in Nat /\ index[v] \in Nat /\ Node(L) \in Versions
    BY <1>2, <1>4, <1>9
  <2>5. Min({low[Node(L)], index[v]}) \in {low[Node(L)], index[v]}
        /\ Min({low[Node(L)], index[v]}) <= low[Node(L)] /\ Min({low[Node(L)], index[v]}) <= index[v]
    BY <2>4, LowerOfTwo
  <2>6. /\ low' \in [Versions -> Nat]
        /\ \A x \in Versions \ {Node(L)} : low'[x] = low[x]
        /\ low'[Node(L)] <= low[Node(L)]
        /\ low'[Node(L)] = low[Node(L)] \/ (v \in OnStack /\ low'[Node(L)] = index[v])
        /\ v \in OnStack => low'[Node(L)] <= index[v]
    <3>1. low \in [Versions -> Nat]
      BY <1>1 DEF SearchTypes
    <3>2. CASE v \in OnStack
      <4>1. low' = [low EXCEPT ![Node(L)] = Min({low[Node(L)], index[v]})]
        BY <2>2, <3>2
      <4>2. Min({low[Node(L)], index[v]}) \in Nat
        BY <2>4, <2>5
      <4> QED BY <2>4, <2>5, <3>1, <3>2, <4>1, <4>2
    <3>3. CASE v \notin OnStack
      BY <2>2, <2>4, <3>1, <3>3
    <3> QED BY <3>2, <3>3
  <2>7. SearchTypes'
    BY <1>1, <1>6, <2>1, <2>6 DEF SearchTypes, Listed, PathItems
  <2>8. Numbered'
    BY <1>1, <2>1, <2>3 DEF Numbered
  <2>9. Explored'
    BY <1>1, <1>9, <2>1, <2>3 DEF Explored
  <2>10. Linked'
    <3>1. \A i \in Path : Reach(Node(i))' = Reach(Node(i))
      BY <1>2, <2>3
    <3>2. \A x \in OnStack : Reach(x)' = Reach(x)
      BY <1>2, <2>3
    <3> QED BY <1>1, <2>1, <2>3, <3>1, <3>2 DEF Linked
  <2>11. LowIsReached'
    <3> SUFFICES ASSUME NEW i \in Path
                 PROVE  /\ low'[Node(i)] <= index[Node(i)]
                        /\ \E z \in OnStack : index[z] = low'[Node(i)] /\ z \in Reach(Node(i))
      <4>1. \A i \in Path : Reach(Node(i))' = Reach(Node(i))
        BY <1>2, <2>3
      <4> QED BY <2>1, <2>3, <4>1 DEF LowIsReached
    <3>1. low[Node(i)] <= index[Node(i)] /\ \E z \in OnStack : index[z] = low[Node(i)] /\ z \in Reach(Node(i))
      BY <1>1 DEF LowIsReached
    <3>2. CASE Node(i) # Node(L) \/ low'[Node(L)] = low[Node(L)]
      <4>1. low'[Node(i)] = low[Node(i)]
        BY <1>2, <2>6, <3>2
      <4> QED BY <3>1, <4>1
    <3>3. CASE Node(i) = Node(L) /\ v \in OnStack /\ low'[Node(L)] = index[v]
      <4>1. v \in Reach(Node(L))
        BY <1>1, <1>7, <2>4, ReachIsLeast DEF SearchTypes
      <4>2. low'[Node(i)] \in Nat
        BY <2>4, <3>3
      <4> QED BY <1>2, <2>4, <2>6, <3>1, <3>3, <4>1, <4>2
    <3> QED BY <2>6, <3>2, <3>3
  <2>12. LowIsLowest'
    <3> SUFFICES ASSUME NEW i \in Path, NEW x \in OnStack, NEW z \in OnStack,
                        Deepest(i, x), z \in parents[x], x = Node(i) => z \notin work'[i].todo
                 PROVE  low'[Node(i)] <= index[z]
      <4>1. \A i \in Path, x \in OnStack : Deepest(i, x)' => Deepest(i, x)
        <5> SUFFICES ASSUME NEW i \in Path, NEW x \in OnStack, Deepest(i, x)' PROVE Deepest(i, x)
          OBVIOUS
        <5>1. i < Len(work) => i + 1 \in Path
          BY <1>2, <1>3, <1>4
        <5>2. Len(work') = Len(work)
          BY <1>3, <1>6, <2>1
        <5> QED BY <2>1, <2>3, <5>1, <5>2 DEF Deepest
      <4> QED BY <2>1, <2>3, <4>1 DEF LowIsLowest
    <3>1. low'[Node(i)] <= low[Node(i)] /\ low[Node(i)] \in Nat /\ low'[Node(i)] \in Nat /\ index[z] \in Nat
      BY <1>2, <2>6
    <3>2. CASE x = Node(i) => z \notin work[i].todo
      BY <1>1, <3>1, <3>2 DEF LowIsLowest
    <3>3. CASE x = Node(i) /\ z \in work[i].todo
      <4>1. i = L /\ z = v
        BY <2>3, <3>3
      <4> QED BY <2>6, <4>1
    <3> QED BY <3>2, <3>3
  <2>13. Strong'
    BY <1>1, <2>1, <2>3 DEF Strong, Closed, Finished
  <2> QED BY <2>7, <2>8, <2>9, <2>10, <2>11, <2>12, <2>13 DEF SearchInv
<1> QED BY <1>8, <1>9

(* The search begins again with an empty path.                               *)
LEMMA StartRootKeeps ==
  ASSUME SearchInv, StartRoot
  PROVE  SearchInv'
<1>1. work = <<>> /\ Met # Versions /\ Meet(Min(Versions \ Met), <<>>) /\ UNCHANGED <<parents, component>>
  BY DEF StartRoot
<1>2. Versions \ Met \in SUBSET Nat /\ Versions \ Met # {}
  BY <1>1, VersionsAssumption DEF Met
<1>3. Min(Versions \ Met) \in Versions \ Met
  BY <1>2, MinIsLeast
<1>4. <<>> \in Seq(PathItems) /\ Len(<<>>) = Len(work) /\ Path = {}
  BY <1>1 DEF Path
<1> QED BY <1>1, <1>3, <1>4, MeetKeeps

(* A component is taken off the stack: what was met from its first version on. *)
LEMMA PoppedFacts ==
  ASSUME SearchTypes, Numbered, NEW v \in OnStack, NEW at \in DOMAIN stack, stack[at] = v,
         NEW rest, rest = SubSeq(stack, 1, at - 1)
  PROVE  /\ rest \in Seq(Versions) /\ DOMAIN rest = 1 .. at - 1
         /\ \A i \in 1 .. at - 1 : rest[i] = stack[i] /\ i \in DOMAIN stack
         /\ {stack[i] : i \in at .. Len(stack)} = {x \in OnStack : index[v] <= index[x]}
         /\ Range(rest) = {x \in OnStack : index[x] < index[v]}
<1>1. stack \in Seq(Versions) /\ Len(stack) \in Nat /\ DOMAIN stack = 1 .. Len(stack)
        /\ at \in 1 .. Len(stack)
  BY SeqFacts DEF SearchTypes
<1>2. rest \in Seq(Versions) /\ Len(rest) = at - 1 /\ \A i \in 1 .. at - 1 : rest[i] = stack[i]
  BY <1>1
<1>3. DOMAIN rest = 1 .. at - 1
  BY <1>1, <1>2
<1>4. OnStack = {stack[i] : i \in 1 .. Len(stack)}
  BY <1>1 DEF OnStack, Range
<1>5. \A i \in 1 .. Len(stack) : stack[i] \in OnStack /\ index[stack[i]] \in Nat
  BY <1>4, MetFacts
<1>6. ASSUME NEW i \in 1 .. Len(stack)
      PROVE  (i < at => index[stack[i]] < index[v]) /\ (at <= i => index[v] <= index[stack[i]])
  <2>1. i < at => index[stack[i]] < index[v]
    BY <1>1 DEF Numbered
  <2>2. at < i => index[v] < index[stack[i]]
    BY <1>1 DEF Numbered
  <2>3. index[v] \in Nat /\ index[stack[i]] \in Nat
    BY <1>1, <1>5
  <2> QED BY <1>1, <2>1, <2>2, <2>3
<1>7. {stack[i] : i \in at .. Len(stack)} = {x \in OnStack : index[v] <= index[x]}
  <2>1. ASSUME NEW i \in at .. Len(stack) PROVE stack[i] \in OnStack /\ index[v] <= index[stack[i]]
    BY <1>1, <1>5, <1>6
  <2>2. ASSUME NEW x \in OnStack, index[v] <= index[x] PROVE x \in {stack[i] : i \in at .. Len(stack)}
    <3>1. PICK i \in 1 .. Len(stack) : x = stack[i]
      BY <1>4
    <3>2. ~(i < at)
      BY <1>5, <1>6, <1>1, <2>2, <3>1
    <3> QED BY <1>1, <3>1, <3>2
  <2> QED BY <2>1, <2>2
<1>8. Range(rest) = {x \in OnStack : index[x] < index[v]}
  <2>0. Range(rest) = {rest[i] : i \in 1 .. at - 1}
    BY <1>3 DEF Range
  <2>1. ASSUME NEW i \in 1 .. at - 1 PROVE rest[i] \in OnStack /\ index[rest[i]] < index[v]
    BY <1>1, <1>2, <1>5, <1>6
  <2>2. ASSUME NEW x \in OnStack, index[x] < index[v] PROVE x \in {rest[i] : i \in 1 .. at - 1}
    <3>1. PICK i \in 1 .. Len(stack) : x = stack[i]
      BY <1>4
    <3>2. i \in 1 .. at - 1
      BY <1>5, <1>6, <1>1, <2>2, <3>1
    <3> QED BY <1>2, <3>1, <3>2
  <2> QED BY <2>0, <2>1, <2>2
<1> QED BY <1>1, <1>2, <1>3, <1>7, <1>8

(* What every departure from the path does. *)
LEMMA LeaveFacts ==
  ASSUME SearchInv, Leave
  PROVE  \E L \in Nat :
         /\ L = Len(work) /\ L \in Path /\ Path = 1 .. L /\ Path' = 1 .. L - 1 /\ Len(work') = L - 1
         /\ work[L].todo = {} /\ Top.node = Node(L)
         /\ work' \in Seq(PathItems)
         /\ \A i \in Path' : i \in Path /\ Node(i)' = Node(i) /\ work'[i] = work[i]
             /\ index[Node(i)] < index[Node(L)]
         /\ low' \in [Versions -> Nat] /\ low'[Node(L)] = low[Node(L)]
         /\ \A i \in Path' : /\ low'[Node(i)] <= low[Node(i)]
                             /\ low'[Node(i)] = low[Node(i)] \/ (i = L - 1 /\ low'[Node(i)] = low[Node(L)])
                             /\ i = L - 1 => low'[Node(i)] <= low[Node(L)]
         /\ UNCHANGED <<parents, index>> /\ Met' = Met
         /\ \A x \in Versions : Reach(x)' = Reach(x)
<1>1. SearchTypes /\ Numbered /\ Explored
  BY DEF SearchInv
<1>2. /\ \A i \in Path : Node(i) \in OnStack /\ Node(i) \in Versions /\ index[Node(i)] \in Nat
          /\ low[Node(i)] \in Nat
      /\ \A i \in Path : i \in Int /\ work[i] \in PathItems
  BY <1>1, MetFacts DEF PathItems
<1>3. PICK L \in Nat : L = Len(work)
  BY <1>1, MetFacts
<1>4. L > 0 /\ L \in Path /\ Path = 1 .. L /\ work \in Seq(PathItems)
  <2>1. work \in Seq(PathItems) /\ work # <<>>
    BY <1>1 DEF Leave, SearchTypes, PathItems
  <2> QED BY <1>3, <2>1, SeqFacts DEF Path
<1>5. work[L].todo = {} /\ Top.node = Node(L)
  BY <1>3 DEF Leave, Top, Node
<1>6. work' \in Seq(PathItems) /\ Len(work') = L - 1 /\ \A i \in 1 .. L - 1 : work'[i] = work[i]
  <2>1. work' = SubSeq(work, 1, L - 1)
    BY <1>3 DEF Leave, Front
  <2> QED BY <1>3, <1>4, <2>1
<1>7. Path' = 1 .. L - 1
  BY <1>6 DEF Path
<1>8. ASSUME NEW i \in Path'
      PROVE  i \in Path /\ Node(i)' = Node(i) /\ work'[i] = work[i] /\ index[Node(i)] < index[Node(L)]
  <2>1. i \in Path /\ i < L
    BY <1>4, <1>7
  <2>2. index[Node(i)] < index[Node(L)]
    BY <1>1, <1>4, <2>1 DEF Numbered
  <2> QED BY <1>6, <1>7, <2>1, <2>2 DEF Node
<1>9. low' = IF L = 1 THEN low ELSE [low EXCEPT ![Node(L - 1)] = Min({low[Node(L - 1)], low[Node(L)]})]
  <2>1. low' = HandUp(Front(work)) /\ work' = Front(work)
    BY DEF Leave
  <2>2. work' = <<>> <=> L = 1
    BY <1>4, <1>6
  <2>3. L # 1 => work'[Len(work')] = work[L - 1]
    BY <1>4, <1>6
  <2> QED BY <1>5, <2>1, <2>2, <2>3 DEF HandUp, Node
<1>10. /\ low' \in [Versions -> Nat] /\ low'[Node(L)] = low[Node(L)]
       /\ \A i \in Path' : /\ low'[Node(i)] <= low[Node(i)]
                           /\ low'[Node(i)] = low[Node(i)] \/ (i = L - 1 /\ low'[Node(i)] = low[Node(L)])
                           /\ i = L - 1 => low'[Node(i)] <= low[Node(L)]
  <2>1. CASE L = 1
    BY <1>1, <1>2, <1>7, <1>9, <2>1 DEF SearchTypes
  <2>2. CASE L # 1
    <3>1. L - 1 \in Path /\ L - 1 \in Path'
      BY <1>4, <1>7, <2>2
    <3>2. low[Node(L - 1)] \in Nat /\ low[Node(L)] \in Nat /\ Node(L - 1) \in Versions /\ Node(L) \in Versions
      BY <1>2, <1>4, <3>1
    <3> DEFINE m == Min({low[Node(L - 1)], low[Node(L)]})
    <3>3. m \in {low[Node(L - 1)], low[Node(L)]} /\ m <= low[Node(L - 1)] /\ m <= low[Node(L)] /\ m \in Nat
      BY <3>2, LowerOfTwo
    <3>4. low' = [low EXCEPT ![Node(L - 1)] = m] /\ low \in [Versions -> Nat]
      BY <1>1, <1>9, <2>2 DEF SearchTypes
    <3> HIDE DEF m
    <3>5. Node(L) # Node(L - 1)
      BY <1>2, <1>4, <1>8, <3>1
    <3>6. ASSUME NEW i \in Path', i # L - 1 PROVE Node(i) # Node(L - 1)
      <4>1. index[Node(i)] < index[Node(L - 1)] /\ index[Node(i)] \in Nat
        BY <1>1, <1>2, <1>7, <1>8, <3>1, <3>6 DEF Numbered
      <4> QED BY <4>1
    <3> QED BY <1>2, <1>8, <3>2, <3>3, <3>4, <3>5, <3>6
  <2> QED BY <2>1, <2>2
<1>11. UNCHANGED <<parents, index>> /\ Met' = Met
  BY DEF Leave, Met
<1>12. \A x \in Versions : Reach(x)' = Reach(x)
  BY <1>11, AncestorsStay
<1> QED BY <1>3, <1>4, <1>5, <1>6, <1>7, <1>8, <1>10, <1>11, <1>12

(* A version that reaches an earlier one of the stack stays on it.           *)
LEMMA StayKeeps ==
  ASSUME SearchInv, Leave, low[Top.node] # index[Top.node], UNCHANGED <<stack, component>>
  PROVE  SearchInv'
<1>1. SearchTypes /\ Numbered /\ Explored /\ Linked /\ LowIsReached /\ LowIsLowest /\ Strong
  BY DEF SearchInv
<1>2. /\ OnStack \subseteq Met /\ Met \subseteq Versions
      /\ \A x \in Met : index[x] \in Nat
      /\ \A i \in Path : Node(i) \in OnStack /\ Node(i) \in Versions /\ index[Node(i)] \in Nat
          /\ low[Node(i)] \in Nat
  BY <1>1, MetFacts
<1>3. PICK L \in Nat :
         /\ L = Len(work) /\ L \in Path /\ Path = 1 .. L /\ Path' = 1 .. L - 1 /\ Len(work') = L - 1
         /\ work[L].todo = {} /\ Top.node = Node(L)
         /\ work' \in Seq(PathItems)
         /\ \A i \in Path' : i \in Path /\ Node(i)' = Node(i) /\ work'[i] = work[i]
             /\ index[Node(i)] < index[Node(L)]
         /\ low' \in [Versions -> Nat] /\ low'[Node(L)] = low[Node(L)]
         /\ \A i \in Path' : /\ low'[Node(i)] <= low[Node(i)]
                             /\ low'[Node(i)] = low[Node(i)] \/ (i = L - 1 /\ low'[Node(i)] = low[Node(L)])
                             /\ i = L - 1 => low'[Node(i)] <= low[Node(L)]
         /\ UNCHANGED <<parents, index>> /\ Met' = Met
         /\ \A x \in Versions : Reach(x)' = Reach(x)
  BY LeaveFacts
<1>4. PICK v \in Versions : v = Node(L) /\ v \in OnStack /\ index[v] \in Nat /\ low[v] \in Nat
  BY <1>2, <1>3
<1>5. OnStack' = OnStack /\ Finished' = Finished
  BY DEF OnStack, Finished
<1>6. PICK z0 \in OnStack : index[z0] = low[v] /\ z0 \in Reach(v) /\ index[z0] < index[v] /\ z0 \in Versions
  BY <1>1, <1>2, <1>3, <1>4 DEF LowIsReached
<1>7. SearchTypes'
  BY <1>1, <1>3 DEF SearchTypes, Listed, PathItems
<1>8. Numbered'
  <2>1. \A i \in Path' : Node(i)' \in OnStack'
    BY <1>1, <1>3, <1>5 DEF Numbered
  <2>2. \A i, j \in Path' : i < j => index'[Node(i)'] < index'[Node(j)']
    BY <1>1, <1>3 DEF Numbered
  <2> QED BY <1>1, <1>3, <1>5, <2>1, <2>2 DEF Numbered
<1>9. Explored'
  <2>1. \A i \in Path' : parents'[Node(i)'] \ work'[i].todo \subseteq Met'
          /\ work'[i].todo \subseteq parents'[Node(i)']
    BY <1>1, <1>3 DEF Explored
  <2>2. ASSUME NEW x \in Met PROVE (\E i \in Path' : x = Node(i)') \/ parents[x] \subseteq Met
    <3>1. CASE x = v
      BY <1>1, <1>3, <1>4, <3>1 DEF Explored
    <3>2. ASSUME x # v, NEW i \in Path, x = Node(i) PROVE i \in Path' /\ x = Node(i)'
      BY <1>3, <1>4, <3>2
    <3> QED BY <1>1, <3>1, <3>2 DEF Explored
  <2> QED BY <1>3, <2>1, <2>2 DEF Explored
<1>10. Linked'
  <2>1. ASSUME NEW i \in Path', NEW x \in OnStack, index[Node(i)] <= index[x]
        PROVE  x \in Reach(Node(i))'
    <3>1. x \in Reach(Node(i)) /\ Node(i) \in Versions /\ Node(i)' = Node(i)
      BY <1>1, <1>2, <1>3, <2>1 DEF Linked
    <3> QED BY <1>3, <3>1
  <2>2. ASSUME NEW x \in OnStack
        PROVE  \E i \in Path' : index[Node(i)] <= index[x] /\ Node(i) \in Reach(x)
    <3>1. PICK i \in Path : index[Node(i)] <= index[x] /\ Node(i) \in Reach(x)
      BY <1>1 DEF Linked
    <3>2. CASE i = L
      <4>1. PICK j \in Path : index[Node(j)] <= index[z0] /\ Node(j) \in Reach(z0)
        BY <1>1 DEF Linked
      <4>2. j # L
        BY <1>2, <1>4, <1>6, <4>1
      <4>3. j \in Path'
        BY <1>3, <4>2
      <4>4. v \in Reach(x) /\ x \in Versions
        BY <1>2, <1>4, <3>1, <3>2
      <4>5. Node(j) \in Reach(x)
        BY <1>1, <1>4, <1>6, <4>1, <4>4, ReachIsLeast DEF SearchTypes
      <4>6. index[x] \in Nat /\ index[z0] \in Nat /\ index[Node(j)] \in Nat
        BY <1>2
      <4>7. index[Node(j)] <= index[x]
        BY <1>4, <1>6, <3>1, <3>2, <4>1, <4>6
      <4> QED BY <4>3, <4>5, <4>7
    <3>3. CASE i # L
      BY <1>3, <3>1, <3>3
    <3> QED BY <3>2, <3>3
  <2>3. \A x \in OnStack : Reach(x)' = Reach(x)
    BY <1>2, <1>3
  <2> QED BY <1>3, <1>5, <2>1, <2>2, <2>3 DEF Linked
<1>11. LowIsReached'
  <2> SUFFICES ASSUME NEW i \in Path'
               PROVE  /\ low'[Node(i)] <= index[Node(i)]
                      /\ \E z \in OnStack : index[z] = low'[Node(i)] /\ z \in Reach(Node(i))
    <3>1. \A i \in Path' : Reach(Node(i))' = Reach(Node(i))
      BY <1>2, <1>3
    <3> QED BY <1>3, <1>5, <3>1 DEF LowIsReached
  <2>1. i \in Path /\ Node(i) \in Versions /\ Node(i) \in OnStack /\ index[Node(i)] \in Nat
          /\ low[Node(i)] \in Nat
        /\ low'[Node(i)] \in Nat
    BY <1>2, <1>3
  <2>2. low[Node(i)] <= index[Node(i)] /\ \E z \in OnStack : index[z] = low[Node(i)] /\ z \in Reach(Node(i))
    BY <1>1, <2>1 DEF LowIsReached
  <2>3. low'[Node(i)] <= index[Node(i)]
    BY <1>3, <2>1, <2>2
  <2>4. CASE low'[Node(i)] = low[Node(i)]
    BY <2>2, <2>3, <2>4
  <2>5. CASE low'[Node(i)] = low[Node(L)]
    <3>1. v \in Reach(Node(i))
      <4>1. index[Node(i)] <= index[v]
        BY <1>3, <1>4, <2>1
      <4> QED BY <1>1, <1>4, <2>1, <4>1 DEF Linked
    <3>2. z0 \in Reach(Node(i))
      BY <1>1, <1>4, <1>6, <2>1, <3>1, ReachIsLeast DEF SearchTypes
    <3> QED BY <1>4, <1>6, <2>3, <2>5, <3>2
  <2> QED BY <1>3, <2>4, <2>5
<1>12. LowIsLowest'
  <2> SUFFICES ASSUME NEW i \in Path', NEW x \in OnStack, NEW z \in OnStack,
                      Deepest(i, x)', z \in parents[x], x = Node(i) => z \notin work[i].todo
               PROVE  low'[Node(i)] <= index[z]
    BY <1>3, <1>5 DEF LowIsLowest
  <2>1. i \in Path /\ index[Node(i)] \in Nat /\ low[Node(i)] \in Nat /\ low'[Node(i)] \in Nat
        /\ index[x] \in Nat /\ index[z] \in Nat /\ i \in Nat
    BY <1>2, <1>3
  <2>2. index[Node(i)] <= index[x] /\ (i < L - 1 => index[x] < index'[Node(i + 1)'])
    BY <1>3 DEF Deepest
  <2>3. CASE i = L - 1 /\ index[v] <= index[x]
    <3>1. Deepest(L, x)
      BY <1>3, <1>4, <2>3 DEF Deepest
    <3>2. low[Node(L)] <= index[z]
      BY <1>1, <1>3, <3>1 DEF LowIsLowest
    <3> QED BY <1>2, <1>3, <2>1, <2>3, <3>2
  <2>4. CASE ~(i = L - 1 /\ index[v] <= index[x])
    <3>1. i + 1 \in Path /\ (i < L - 1 => i + 1 \in Path')
      BY <1>3, <2>1
    <3>2. index[x] < index[Node(i + 1)]
      <4>1. CASE i = L - 1
        <5>1. i + 1 = L
          BY <1>3, <2>1, <4>1
        <5> QED BY <1>4, <2>1, <2>4, <4>1, <5>1
      <4>2. CASE i < L - 1
        <5>1. Node(i + 1)' = Node(i + 1)
          BY <1>3, <3>1, <4>2
        <5> QED BY <1>3, <2>2, <4>2, <5>1
      <4> QED BY <1>3, <4>1, <4>2
    <3>3. Deepest(i, x)
      BY <2>2, <3>2 DEF Deepest
    <3>4. low[Node(i)] <= index[z]
      BY <1>1, <2>1, <3>3 DEF LowIsLowest
    <3> QED BY <1>3, <2>1, <3>4
  <2> QED BY <2>3, <2>4
<1>13. Strong'
  BY <1>1, <1>3, <1>5 DEF Strong, Closed, Finished
<1> QED BY <1>7, <1>8, <1>9, <1>10, <1>11, <1>12, <1>13 DEF SearchInv

(* A version that reaches nothing earlier ends a component: what was met     *)
(* from it on, all of which it reaches and which reaches it.                 *)
LEMMA EndKeeps ==
  ASSUME SearchInv, Leave, low[Top.node] = index[Top.node],
         NEW M, M = {x \in OnStack : index[Top.node] <= index[x]},
         OnStack' = OnStack \ M, stack' \in Seq(Versions),
         \A i, j \in DOMAIN stack' : i < j => index[stack'[i]] < index[stack'[j]],
         component' = [w \in Versions |-> IF w \in M THEN Top.node ELSE component[w]]
  PROVE  SearchInv'
<1>1. SearchTypes /\ Numbered /\ Explored /\ Linked /\ LowIsReached /\ LowIsLowest /\ Strong
  BY DEF SearchInv
<1>2. /\ OnStack \subseteq Met /\ Met \subseteq Versions
      /\ \A x \in Met : index[x] \in Nat
      /\ \A i \in Path : Node(i) \in OnStack /\ Node(i) \in Versions /\ index[Node(i)] \in Nat
          /\ low[Node(i)] \in Nat
  BY <1>1, MetFacts
<1>3. PICK L \in Nat :
         /\ L = Len(work) /\ L \in Path /\ Path = 1 .. L /\ Path' = 1 .. L - 1 /\ Len(work') = L - 1
         /\ work[L].todo = {} /\ Top.node = Node(L)
         /\ work' \in Seq(PathItems)
         /\ \A i \in Path' : i \in Path /\ Node(i)' = Node(i) /\ work'[i] = work[i]
             /\ index[Node(i)] < index[Node(L)]
         /\ low' \in [Versions -> Nat] /\ low'[Node(L)] = low[Node(L)]
         /\ \A i \in Path' : /\ low'[Node(i)] <= low[Node(i)]
                             /\ low'[Node(i)] = low[Node(i)] \/ (i = L - 1 /\ low'[Node(i)] = low[Node(L)])
                             /\ i = L - 1 => low'[Node(i)] <= low[Node(L)]
         /\ UNCHANGED <<parents, index>> /\ Met' = Met
         /\ \A x \in Versions : Reach(x)' = Reach(x)
  BY LeaveFacts
<1>4. PICK v \in Versions : v = Node(L) /\ v \in OnStack /\ index[v] \in Nat /\ low[v] = index[v]
  BY <1>2, <1>3
<1>5. /\ M = {x \in OnStack : index[v] <= index[x]} /\ v \in M /\ M \subseteq Versions
      /\ OnStack' = {x \in OnStack : index[x] < index[v]}
      /\ component' = [w \in Versions |-> IF w \in M THEN v ELSE component[w]]
  BY <1>2, <1>3, <1>4
<1>6. component \in [Versions -> Versions \cup {None}] /\ None \notin Versions
  BY <1>1, VersionsAssumption DEF SearchTypes, None
<1>7. Finished' = Finished \cup M /\ Finished \cap M = {} /\ v \notin Finished /\ Finished \subseteq Versions
  BY <1>1, <1>5, <1>6 DEF Finished, Numbered
<1>8. \A i \in Path' : Node(i)' = Node(i) /\ Node(i) \in OnStack' /\ i \in Path
  BY <1>2, <1>3, <1>4, <1>5
<1>9. SearchTypes'
  BY <1>1, <1>3, <1>5, <1>6 DEF SearchTypes, Listed, PathItems
<1>10. Numbered'
  <2>1. Finished' \subseteq Met' /\ OnStack' = Met' \ Finished'
    BY <1>1, <1>3, <1>5, <1>7 DEF Numbered
  <2> QED BY <1>1, <1>3, <1>8, <2>1 DEF Numbered
<1>11. Explored'
  <2>1. \A i \in Path' : parents'[Node(i)'] \ work'[i].todo \subseteq Met'
          /\ work'[i].todo \subseteq parents'[Node(i)']
    BY <1>1, <1>3 DEF Explored
  <2>2. ASSUME NEW x \in Met PROVE (\E i \in Path' : x = Node(i)') \/ parents[x] \subseteq Met
    <3>1. CASE x = v
      BY <1>1, <1>3, <1>4, <3>1 DEF Explored
    <3>2. ASSUME x # v, NEW i \in Path, x = Node(i) PROVE i \in Path' /\ x = Node(i)'
      BY <1>3, <1>4, <3>2
    <3> QED BY <1>1, <3>1, <3>2 DEF Explored
  <2> QED BY <1>3, <2>1, <2>2 DEF Explored
<1>12. Linked'
  <2>1. ASSUME NEW i \in Path', NEW x \in OnStack', index[Node(i)] <= index[x]
        PROVE  x \in Reach(Node(i))'
    <3>1. x \in Reach(Node(i)) /\ Node(i) \in Versions /\ Node(i)' = Node(i)
      BY <1>1, <1>2, <1>3, <1>5, <2>1 DEF Linked
    <3> QED BY <1>3, <3>1
  <2>2. ASSUME NEW x \in OnStack'
        PROVE  \E i \in Path' : index[Node(i)] <= index[x] /\ Node(i) \in Reach(x)
    <3>1. PICK i \in Path : index[Node(i)] <= index[x] /\ Node(i) \in Reach(x)
      BY <1>1, <1>5 DEF Linked
    <3>2. i # L
      BY <1>2, <1>4, <1>5, <3>1
    <3> QED BY <1>3, <3>1, <3>2
  <2>3. \A x \in OnStack' : Reach(x)' = Reach(x)
    BY <1>2, <1>3, <1>5
  <2>4. \A i \in Path' : \A x \in OnStack' : index'[Node(i)'] <= index'[x] => x \in Reach(Node(i))'
    BY <1>3, <2>1
  <2>5. \A x \in OnStack' : \E i \in Path' : index'[Node(i)'] <= index'[x] /\ Node(i)' \in Reach(x)'
    BY <1>3, <2>2, <2>3
  <2> QED BY <2>4, <2>5 DEF Linked
<1>13. LowIsReached'
  <2> SUFFICES ASSUME NEW i \in Path'
               PROVE  /\ low'[Node(i)] <= index[Node(i)]
                      /\ \E z \in OnStack' : index[z] = low'[Node(i)] /\ z \in Reach(Node(i))
    <3>1. \A i \in Path' : Reach(Node(i))' = Reach(Node(i))
      BY <1>2, <1>3
    <3> QED BY <1>3, <3>1 DEF LowIsReached
  <2>1. i \in Path /\ index[Node(i)] \in Nat /\ low[Node(i)] \in Nat /\ low'[Node(i)] \in Nat
    BY <1>2, <1>3
  <2>2. low[Node(i)] <= index[Node(i)] /\ index[Node(i)] < index[v] /\ low'[Node(i)] <= low[Node(i)]
    BY <1>1, <1>3, <1>4, <2>1 DEF LowIsReached
  <2>3. low'[Node(i)] = low[Node(i)]
    BY <1>3, <1>4, <2>1, <2>2
  <2>4. PICK z \in OnStack : index[z] = low[Node(i)] /\ z \in Reach(Node(i))
    BY <1>1, <2>1 DEF LowIsReached
  <2>5. z \in OnStack'
    BY <1>4, <1>5, <2>1, <2>2, <2>4
  <2> QED BY <2>2, <2>3, <2>4, <2>5
<1>14. LowIsLowest'
  <2> SUFFICES ASSUME NEW i \in Path', NEW x \in OnStack', NEW z \in OnStack',
                      Deepest(i, x)', z \in parents[x], x = Node(i) => z \notin work[i].todo
               PROVE  low'[Node(i)] <= index[z]
    BY <1>3 DEF LowIsLowest
  <2>1. i \in Path /\ low[Node(i)] \in Nat /\ low'[Node(i)] \in Nat /\ index[z] \in Nat /\ i \in Nat
        /\ x \in OnStack /\ z \in OnStack /\ index[x] < index[v]
    BY <1>2, <1>3, <1>5
  <2>2. index[Node(i)] <= index[x] /\ (i < L - 1 => index[x] < index'[Node(i + 1)'])
    BY <1>3 DEF Deepest
  <2>3. i + 1 \in Path /\ (i < L - 1 => i + 1 \in Path')
    BY <1>3, <2>1
  <2>4. index[x] < index[Node(i + 1)]
    <3>1. CASE i = L - 1
      <4>1. i + 1 = L
        BY <1>3, <2>1, <3>1
      <4> QED BY <1>4, <2>1, <4>1
    <3>2. CASE i < L - 1
      <4>1. Node(i + 1)' = Node(i + 1)
        BY <1>3, <2>3, <3>2
      <4> QED BY <1>3, <2>2, <3>2, <4>1
    <3> QED BY <1>3, <3>1, <3>2
  <2>5. Deepest(i, x)
    BY <2>2, <2>4 DEF Deepest
  <2>6. low[Node(i)] <= index[z]
    BY <1>1, <2>1, <2>5 DEF LowIsLowest
  <2> QED BY <1>3, <2>1, <2>6
<1>15. Closed(Finished \cup M)
  <2> SUFFICES ASSUME NEW x \in M, NEW z \in parents[x]
               PROVE  z \in Finished \cup M
    BY <1>1 DEF Strong, Closed
  <2>1. x \in OnStack /\ index[v] <= index[x]
    BY <1>5
  <2>2. Deepest(L, x)
    BY <1>3, <1>4, <2>1 DEF Deepest
  <2>3. z \in Met
    <3>1. ASSUME NEW i \in Path, x = Node(i) PROVE i = L
      <4>1. ASSUME i # L PROVE FALSE
        <5>1. i \in Path'
          BY <1>3, <4>1
        <5>2. index[Node(i)] < index[v] /\ index[Node(i)] \in Nat
          BY <1>2, <1>3, <1>4, <5>1
        <5> QED BY <1>4, <2>1, <3>1, <5>2
      <4> QED BY <4>1
    <3>2. parents[Node(L)] \subseteq Met
      BY <1>1, <1>3 DEF Explored
    <3> QED BY <1>1, <1>2, <2>1, <3>1, <3>2 DEF Explored
  <2>4. ASSUME z \in OnStack PROVE z \in M
    <3>1. low[Node(L)] <= index[z]
      BY <1>1, <1>3, <2>1, <2>2, <2>4 DEF LowIsLowest
    <3> QED BY <1>4, <1>5, <2>4, <3>1
  <2> QED BY <1>1, <2>3, <2>4 DEF Numbered
<1>16. ASSUME NEW x \in M
       PROVE  x \in Reach(v) /\ v \in Reach(x) /\ Reach(x) \subseteq Finished \cup M
  <2>1. x \in OnStack /\ index[v] <= index[x] /\ x \in Versions
    BY <1>5
  <2>2. x \in Reach(v)
    BY <1>1, <1>3, <1>4, <2>1 DEF Linked
  <2>3. PICK j \in Path : index[Node(j)] <= index[x] /\ Node(j) \in Reach(x)
    BY <1>1, <2>1 DEF Linked
  <2>4. index[Node(j)] <= index[v] /\ Node(j) \in Versions
    <3>1. Node(j) \in Versions /\ index[Node(j)] \in Nat
      BY <1>2
    <3>2. j # L => index[Node(j)] < index[Node(L)]
      BY <1>1, <1>3 DEF Numbered
    <3> QED BY <1>4, <3>1, <3>2
  <2>5. v \in Reach(Node(j))
    BY <1>1, <1>4, <2>4 DEF Linked
  <2>6. v \in Reach(x)
    BY <1>1, <2>1, <2>3, <2>5, ReachIsLeast DEF SearchTypes
  <2>7. Reach(x) \subseteq Finished \cup M
    BY <1>1, <1>15, <2>1, ReachIsLeast DEF SearchTypes
  <2> QED BY <2>2, <2>6, <2>7
<1>17. \A a \in Finished : Reach(a) \subseteq Finished
  BY <1>1, <1>7, ReachIsLeast DEF SearchTypes, Strong
<1>18. /\ \A w \in M : component'[w] = v
       /\ \A w \in Versions \ M : component'[w] = component[w] /\ component[w] # v
       /\ \A a \in Finished : component[a] \in Finished
  BY <1>1, <1>4, <1>5, <1>6, <1>7 DEF Strong, Finished
<1>19. ASSUME NEW a \in Finished \cup M, NEW w \in Versions \ {a}
       PROVE  component'[w] = component'[a] <=> a \in Reach(w) /\ w \in Reach(a)
  <2>1. CASE a \in M /\ w \in M
    <3>1. a \in Reach(w) /\ w \in Reach(a)
      BY <1>1, <1>4, <1>5, <1>16, <2>1, ReachIsLeast DEF SearchTypes
    <3> QED BY <1>18, <2>1, <3>1
  <2>2. CASE a \in M /\ w \notin M
    <3>1. w \in Reach(a) => w \in Finished
      BY <1>16, <2>2
    <3>2. ~(a \in Reach(w) /\ w \in Reach(a))
      BY <1>7, <1>17, <2>2, <3>1
    <3> QED BY <1>18, <2>2, <3>2
  <2>3. CASE a \in Finished /\ w \in M
    <3>1. w \notin Reach(a)
      BY <1>7, <1>17, <2>3
    <3>2. a \notin M /\ a \in Versions
      BY <1>7, <2>3
    <3> QED BY <1>18, <2>3, <3>1, <3>2
  <2>4. CASE a \in Finished /\ w \notin M
    <3>1. a \notin M /\ a \in Versions
      BY <1>7, <2>4
    <3> QED BY <1>1, <1>18, <2>4, <3>1 DEF Strong
  <2> QED BY <2>1, <2>2, <2>3, <2>4
<1>20. Strong'
  <2>1. Closed(Finished)'
    BY <1>3, <1>7, <1>15 DEF Closed
  <2>2. \A a \in Finished' : component'[a] \in Finished'
    BY <1>5, <1>7, <1>18
  <2>3. \A a \in Finished' : \A w \in Versions \ {a} :
           component'[w] = component'[a] <=> a \in Reach(w)' /\ w \in Reach(a)'
    BY <1>3, <1>5, <1>7, <1>19
  <2> QED BY <2>1, <2>2, <2>3 DEF Strong
<1> QED BY <1>9, <1>10, <1>11, <1>12, <1>13, <1>14, <1>20 DEF SearchInv

(* Leave, by whether a component ends.                                       *)
LEMMA LeaveKeeps ==
  ASSUME SearchInv, Leave
  PROVE  SearchInv'
<1>1. SearchTypes /\ Numbered
  BY DEF SearchInv
<1>2. PICK L \in Nat : L = Len(work) /\ L \in Path /\ Top.node = Node(L) /\ low'[Node(L)] = low[Node(L)]
  BY LeaveFacts
<1>3. PICK v \in OnStack : v = Top.node
  BY <1>1, <1>2, MetFacts
<1>4. low'[v] = low[v]
  BY <1>2, <1>3
<1>5. CASE low[v] # index[v]
  <2>1. UNCHANGED <<stack, component>>
    BY <1>3, <1>4, <1>5 DEF Leave
  <2> QED BY <1>3, <1>5, <2>1, StayKeeps
<1>6. CASE low[v] = index[v]
  <2>1. PICK at \in DOMAIN stack : at = CHOOSE i \in DOMAIN stack : stack[i] = v
    BY <1>3 DEF OnStack, Range
  <2>2. stack[at] = v
    BY <1>3, <2>1 DEF OnStack, Range
  <2>3. stack' = SubSeq(stack, 1, at - 1)
        /\ component' = [w \in Versions |-> IF w \in {stack[i] : i \in at .. Len(stack)} THEN v ELSE component[w]]
    BY <1>3, <1>4, <1>6, <2>1 DEF Leave
  <2> DEFINE M == {x \in OnStack : index[v] <= index[x]}
  <2>4. /\ stack' \in Seq(Versions) /\ DOMAIN stack' = 1 .. at - 1
        /\ \A i \in 1 .. at - 1 : stack'[i] = stack[i] /\ i \in DOMAIN stack
        /\ {stack[i] : i \in at .. Len(stack)} = M
        /\ Range(stack') = {x \in OnStack : index[x] < index[v]}
    <3> DEFINE rest == SubSeq(stack, 1, at - 1)
    <3>1. rest = SubSeq(stack, 1, at - 1)
      OBVIOUS
    <3> HIDE DEF rest
    <3>2. stack' = rest
      BY <2>3, <3>1
    <3> QED BY <1>1, <2>2, <3>1, <3>2, PoppedFacts
  <2>5. \A i, j \in DOMAIN stack' : i < j => index[stack'[i]] < index[stack'[j]]
    BY <1>1, <2>4 DEF Numbered
  <2>6. component' = [w \in Versions |-> IF w \in M THEN v ELSE component[w]]
    BY <2>3, <2>4
  <2>7. OnStack' = OnStack \ M
    <3>1. \A x \in OnStack : index[x] \in Nat
      BY <1>1, MetFacts
    <3>2. index[v] \in Nat
      BY <3>1
    <3>3. OnStack' = Range(stack')
      BY DEF OnStack
    <3>4. \A x \in OnStack : x \in M <=> ~(index[x] < index[v])
      BY <3>1, <3>2
    <3>5. \A x \in Range(stack') : x \in OnStack /\ index[x] < index[v]
      BY <2>4
    <3>6. \A x \in OnStack : index[x] < index[v] => x \in Range(stack')
      BY <2>4
    <3> QED BY <3>3, <3>4, <3>5, <3>6
  <2>8. M = {x \in OnStack : index[Top.node] <= index[x]}
    BY <1>3
  <2> HIDE DEF M
  <2> QED BY <1>3, <1>6, <2>4, <2>5, <2>6, <2>7, <2>8, EndKeeps
<1> QED BY <1>5, <1>6

(* What leaves the search alone keeps its invariant.                         *)
LEMMA RestKeepsSearch ==
  ASSUME SearchInv, UNCHANGED <<parents, search>>
  PROVE  SearchInv'
<1>1. \A v \in Versions : Reach(v)' = Reach(v)
  BY AncestorsStay
<1>2. SearchTypes /\ Numbered /\ Explored /\ Linked /\ LowIsReached /\ LowIsLowest /\ Strong
  BY DEF SearchInv
<1>3. SearchTypes'
  BY <1>2 DEF SearchTypes, Listed, search
<1>4. OnStack' = OnStack /\ Met' = Met /\ Finished' = Finished /\ Path' = Path
        /\ \A i \in Path : Node(i)' = Node(i) /\ Node(i) \in Versions
      /\ OnStack \subseteq Versions
  <2>1. \A i \in Path : Node(i) \in Versions /\ OnStack \subseteq Versions
    BY <1>2, MetFacts
  <2>2. OnStack \subseteq Versions
    BY <1>2, MetFacts
  <2>3. OnStack' = OnStack /\ Met' = Met /\ Finished' = Finished /\ Path' = Path /\ \A i \in Path : Node(i)' = Node(i)
    BY DEF OnStack, Met, Finished, Path, Node, search
  <2> QED BY <2>1, <2>2, <2>3
<1>5. Numbered'
  BY <1>2, <1>4 DEF Numbered, search
<1>6. Explored'
  BY <1>2, <1>4 DEF Explored, search
<1>7. Linked'
  <2>1. \A i \in Path : Reach(Node(i))' = Reach(Node(i))
    BY <1>1, <1>4
  <2> QED BY <1>1, <1>2, <1>4, <2>1 DEF Linked, search
<1>8. LowIsReached'
  <2>1. \A i \in Path : Reach(Node(i))' = Reach(Node(i))
    BY <1>1, <1>4
  <2> QED BY <1>2, <1>4, <2>1 DEF LowIsReached, search
<1>9. LowIsLowest'
  <2>1. \A i \in Path, x \in OnStack : Deepest(i, x)' => Deepest(i, x)
    BY DEF Deepest, Node, search
  <2> QED BY <1>2, <1>4, <2>1 DEF LowIsLowest, search
<1>10. Strong'
  BY <1>1, <1>2, <1>4 DEF Strong, Closed, Finished, search
<1> QED BY <1>3, <1>5, <1>6, <1>7, <1>8, <1>9, <1>10 DEF SearchInv

(* Nothing is met yet.                                                       *)
LEMMA InitSearch == Init => SearchInv
<1> SUFFICES ASSUME Init PROVE SearchInv
  OBVIOUS
<1>1. Met = {} /\ Finished = {} /\ Path = {} /\ OnStack = {}
  BY DEF Init, Met, Finished, Path, OnStack, Range, None
<1>2. SearchTypes
  BY DEF Init, SearchTypes, Listed, None
<1> QED BY <1>1, <1>2 DEF Init, SearchInv, Numbered, Explored, Linked, LowIsReached, LowIsLowest, Strong, Closed

-----------------------------------------------------------------------------
(* The view's loop.                                                          *)

(* Heads, verified or waiting to be fetched, are heads of what is left; and  *)
(* a round that dropped nothing has them all.                               *)
RoundInv ==
    /\ verified \cup pending \subseteq HeadsOf(live)
    /\ verified \cap pending = {}
    /\ phase = "cycles" => verified = {}
    /\ phase # "fetch" /\ phase # "failed" => pending = {}
    /\ phase = "fetch" => droppedAny \/ HeadsOf(live) = verified \cup pending
    /\ ViewIsHeads

(* What other versions are dropped, a version that is left stays a head.     *)
LEMMA HeadsStayHeads ==
    ASSUME NEW few, NEW many, few \subseteq many, NEW v \in HeadsOf(many), v \in few
    PROVE  v \in HeadsOf(few)
BY DEF HeadsOf

(* Nothing is fetched yet. *)
LEMMA InitRoundInv == Init => RoundInv
BY DEF Init, RoundInv, ViewIsHeads

(* The search for cycles and the verdict come before any fetch. *)
LEMMA CyclesKeepRoundInv ==
    ASSUME RoundInv, phase = "cycles",
           phase' \in {"cycles", "round"}, UNCHANGED <<parents, pending, verified>>
    PROVE  RoundInv'
BY DEF RoundInv, ViewIsHeads, HeadsOf

(* A bad file: its version leaves, the other heads stay heads. *)
LEMMA BadKeepsRoundInv ==
    ASSUME RoundInv, NEW h \in Versions, Bad(h)
    PROVE  RoundInv'
<1>1. h \in pending /\ live' = live \ {h} /\ pending' = pending \ {h}
      /\ droppedAny' = TRUE /\ phase = "fetch" /\ UNCHANGED <<parents, phase, verified>>
  BY DEF Bad
<1>2. verified' \cup pending' \subseteq HeadsOf(live \ {h})
  <2> SUFFICES ASSUME NEW v \in verified' \cup pending'
               PROVE  v \in HeadsOf(live \ {h})
    OBVIOUS
  <2>1. v # h /\ v \in HeadsOf(live)
    BY <1>1 DEF RoundInv
  <2>2. v \in live \ {h}
    BY <2>1 DEF HeadsOf
  <2> QED BY <2>1, <2>2, HeadsStayHeads
<1>3. HeadsOf(live)' = HeadsOf(live \ {h})
  BY <1>1 DEF HeadsOf
<1> QED BY <1>1, <1>2, <1>3 DEF RoundInv, ViewIsHeads

(* Every step keeps the invariant, one case per action. *)
LEMMA NextKeepsRoundInv == RoundInv /\ [Next]_vars => RoundInv'
<1> SUFFICES ASSUME RoundInv, [Next]_vars PROVE RoundInv'
  OBVIOUS
<1>1. CASE StartRoot
  BY <1>1, CyclesKeepRoundInv DEF StartRoot, view
<1>2. ASSUME NEW v \in Versions, Follow(v) PROVE RoundInv'
  BY <1>2, CyclesKeepRoundInv DEF Follow, view
<1>3. CASE Leave
  BY <1>3, CyclesKeepRoundInv DEF Leave, view
<1>4. CASE Judge
  BY <1>4, CyclesKeepRoundInv DEF Judge
<1>5. CASE StartRound
  BY <1>5 DEF StartRound, RoundHeads, RoundInv, ViewIsHeads, HeadsOf
<1>6. ASSUME NEW h \in Versions, Good(h) PROVE RoundInv'
  BY <1>6 DEF Good, RoundInv, ViewIsHeads, HeadsOf
<1>7. ASSUME NEW h \in Versions, Bad(h) PROVE RoundInv'
  BY <1>7, BadKeepsRoundInv
<1>8. CASE FetchFails
  BY <1>8 DEF FetchFails, view, RoundInv, ViewIsHeads, HeadsOf
<1>9. CASE EndRound
  BY <1>9 DEF EndRound, view, RoundInv, ViewIsHeads, HeadsOf
<1>10. CASE UNCHANGED vars
  BY <1>10 DEF vars, view, RoundInv, ViewIsHeads, HeadsOf
<1> QED BY <1>1, <1>2, <1>3, <1>4, <1>5, <1>6, <1>7, <1>8, <1>9, <1>10 DEF Next

-----------------------------------------------------------------------------
(* The whole reading.                                                        *)

(* The verdict comes when the search is over, and nothing refused is left. *)
Judged ==
  phase # "cycles" => work = <<>> /\ Met = Versions /\ live \cap Rejects({}) = {}

(* The view's types.                                                         *)
ViewTypes ==
  /\ phase \in {"cycles", "round", "fetch", "failed", "done"}
  /\ live \cup rejected \subseteq Versions
  /\ verified \cup pending \subseteq live
  /\ droppedAny \in BOOLEAN

IInv == SearchInv /\ RoundInv /\ Judged /\ ViewTypes

(* Every step keeps all of it, one case per action and part.                 *)
LEMMA NextKeepsIInv == IInv /\ [Next]_vars => IInv'
<1> SUFFICES ASSUME IInv, [Next]_vars PROVE IInv'
  OBVIOUS
<1>0. SearchInv /\ RoundInv /\ Judged /\ ViewTypes
  BY DEF IInv
<1>1. RoundInv'
  BY <1>0, NextKeepsRoundInv
<1>2. SearchInv'
  <2>1. ASSUME NEW v \in Versions, Follow(v) PROVE SearchInv'
    BY <1>0, <2>1, FollowKeeps
  <2>2. ASSUME NEW v \in Versions, Good(v) \/ Bad(v) PROVE SearchInv'
    BY <1>0, <2>2, RestKeepsSearch DEF Good, Bad
  <2>3. CASE StartRoot
    BY <1>0, <2>3, StartRootKeeps
  <2>4. CASE Leave
    BY <1>0, <2>4, LeaveKeeps
  <2>5. CASE Judge \/ StartRound \/ FetchFails \/ EndRound
    BY <1>0, <2>5, RestKeepsSearch DEF Judge, StartRound, FetchFails, EndRound
  <2>6. CASE UNCHANGED vars
    BY <1>0, <2>6, RestKeepsSearch DEF vars
  <2> QED BY <2>1, <2>2, <2>3, <2>4, <2>5, <2>6 DEF Next
<1>3. ViewTypes'
  <2>1. ASSUME NEW v \in Versions, Follow(v) PROVE ViewTypes'
    BY <1>0, <2>1 DEF Follow, ViewTypes, view
  <2>2. ASSUME NEW v \in Versions, Good(v) PROVE ViewTypes'
    BY <1>0, <2>2 DEF Good, ViewTypes
  <2>3. ASSUME NEW v \in Versions, Bad(v) PROVE ViewTypes'
    BY <1>0, <2>3 DEF Bad, ViewTypes, RoundInv
  <2>4. CASE StartRoot
    BY <1>0, <2>4 DEF StartRoot, ViewTypes, view
  <2>5. CASE Leave
    BY <1>0, <2>5 DEF Leave, ViewTypes, view
  <2>6. CASE Judge
    <3>1. PICK malformed \in SUBSET Versions :
            rejected' = Rejects(malformed) /\ live' = Versions \ Rejects(malformed)
      BY <2>6 DEF Judge
    <3>2. rejected' \subseteq Versions
      BY <3>1 DEF Rejects, OnCycle
    <3>3. verified' = {} /\ pending' = {} /\ phase' = "round" /\ droppedAny' = droppedAny
      BY <1>0, <2>6 DEF Judge, RoundInv
    <3> QED BY <1>0, <3>1, <3>2, <3>3 DEF ViewTypes
  <2>7. CASE StartRound
    BY <1>0, <2>7 DEF StartRound, ViewTypes, RoundHeads, HeadsOf
  <2>8. CASE FetchFails
    BY <1>0, <2>8 DEF FetchFails, ViewTypes, view
  <2>9. CASE EndRound
    BY <1>0, <2>9 DEF EndRound, ViewTypes, view
  <2>10. CASE UNCHANGED vars
    BY <1>0, <2>10 DEF vars, ViewTypes, view
  <2> QED BY <2>1, <2>2, <2>3, <2>4, <2>5, <2>6, <2>7, <2>8, <2>9, <2>10 DEF Next
<1>4. Judged'
  <2>0. UNCHANGED <<parents, search>> => Rejects({})' = Rejects({}) /\ Met' = Met /\ work' = work
    BY DEF Rejects, OnCycle, Met, search
  <2>1. ASSUME NEW v \in Versions, Follow(v) \/ StartRoot \/ Leave PROVE Judged'
    BY <2>1 DEF Follow, StartRoot, Leave, Judged
  <2>2. ASSUME NEW v \in Versions, Good(v) \/ Bad(v) PROVE Judged'
    BY <1>0, <2>0, <2>2 DEF Good, Bad, Judged
  <2>3. CASE StartRoot \/ Leave
    BY <2>3 DEF StartRoot, Leave, Judged
  <2>4. CASE Judge
    <3>1. PICK malformed \in SUBSET Versions : live' = Versions \ Rejects(malformed)
      BY <2>4 DEF Judge
    <3>2. Rejects({}) \subseteq Rejects(malformed)
      BY DEF Rejects
    <3> QED BY <1>0, <2>0, <2>4, <3>1, <3>2 DEF Judge, Judged
  <2>5. CASE StartRound \/ FetchFails \/ EndRound
    BY <1>0, <2>0, <2>5 DEF StartRound, FetchFails, EndRound, Judged, view
  <2>6. CASE UNCHANGED vars
    BY <1>0, <2>0, <2>6 DEF vars, Judged, view
  <2> QED BY <2>1, <2>2, <2>3, <2>4, <2>5, <2>6 DEF Next
<1> QED BY <1>1, <1>2, <1>3, <1>4 DEF IInv

(* The invariant holds in every reachable state.                             *)
LEMMA Invariance == Spec => []IInv
<1>1. Init => IInv
  BY InitSearch, InitRoundInv DEF Init, IInv, Judged, ViewTypes
<1> QED BY <1>1, NextKeepsIInv, PTL DEF Spec

(* The variables have their types in every reachable state.                  *)
THEOREM TypesHold == Spec => []TypeOK
<1>1. IInv => TypeOK
  <2> SUFFICES ASSUME IInv PROVE TypeOK
    OBVIOUS
  <2>1. OnStack \subseteq Versions
    BY MetFacts DEF IInv, SearchInv
  <2> QED BY <2>1 DEF IInv, SearchInv, SearchTypes, ViewTypes, TypeOK
<1> QED BY <1>1, Invariance, PTL

(* build: a verified head is never demoted by a later round, whatever is     *)
(* dropped.                                                                 *)
THEOREM VerifiedHeadsStay == Spec => []VerifiedStayHeads
<1>1. IInv => VerifiedStayHeads
  BY DEF IInv, RoundInv, VerifiedStayHeads
<1> QED BY <1>1, Invariance, PTL

(* build: what is shown at the end are exactly the heads of what is left,    *)
(* each with a file that was verified: none is shown unverified, none left   *)
(* out.                                                                     *)
THEOREM ViewShowsTheHeads == Spec => []ViewIsHeads
<1>1. IInv => ViewIsHeads
  BY DEF IInv, RoundInv
<1> QED BY <1>1, Invariance, PTL

(* What an ancestor has for ancestors.                                       *)
LEMMA AncestorsNest ==
  ASSUME Listed, NEW v \in Versions, NEW w \in Ancestors(v)
  PROVE  w \in Versions /\ Ancestors(w) \subseteq Ancestors(v)
<1>1. Closed(Ancestors(v)) /\ w \in Versions
  BY AncestorsAreLeast
<1>2. parents[w] \subseteq Ancestors(v)
  BY <1>1 DEF Closed
<1> QED BY <1>1, <1>2, AncestorsAreLeast

(* on_cycles: Tarjan's algorithm is right.  Whatever is listed, whatever the  *)
(* order, a version's component is the set of the versions that are its       *)
(* ancestors and its descendants at once.                                    *)
THEOREM ComponentsHold == Spec => []ComponentsAreStrong
<1>1. IInv => ComponentsAreStrong
  <2> SUFFICES ASSUME IInv, NEW v \in Versions, NEW w \in Versions, component[v] # None, v # w
               PROVE  component[w] = component[v] <=> v \in Ancestors(w) /\ w \in Ancestors(v)
    BY DEF ComponentsAreStrong
  <2>1. v \in Finished
    BY DEF Finished
  <2>2. component[w] = component[v] <=> v \in Reach(w) /\ w \in Reach(v)
    BY <2>1 DEF IInv, SearchInv, Strong
  <2> QED BY <2>2 DEF Reach
<1> QED BY <1>1, Invariance, PTL

(* When the verdict falls every version has its component.                   *)
LEMMA SearchedAll ==
  ASSUME IInv, phase # "cycles"
  PROVE  Finished = Versions /\ Listed
<1>1. work = <<>> /\ Met = Versions /\ Path = {}
  BY DEF IInv, Judged, Path
<1>2. OnStack = {}
  BY <1>1 DEF IInv, SearchInv, Linked
<1> QED BY <1>1, <1>2 DEF IInv, SearchInv, SearchTypes, Numbered, Finished

(* A version is its own ancestor when it lists itself or when it is on a      *)
(* longer cycle, and only then.                                              *)
LEMMA RefusedAreDescendantListers ==
  ASSUME IInv, phase # "cycles"
  PROVE  Rejects({}) = {v \in Versions : v \in Ancestors(v)}
<1>1. Finished = Versions /\ Listed
  BY SearchedAll
<1>2. \A v \in Versions : \A w \in Versions \ {v} :
        component[w] = component[v] <=> v \in Reach(w) /\ w \in Reach(v)
  BY <1>1 DEF IInv, SearchInv, Strong
<1>3. ASSUME NEW v \in Versions, v \in parents[v] \/ v \in OnCycle
      PROVE  v \in Ancestors(v)
  <2>1. CASE v \in parents[v]
    BY <1>1, <2>1, AncestorsAreLeast
  <2>2. CASE v \in OnCycle
    <3>1. PICK w \in Versions \ {v} : component[v] = component[w]
      BY <2>2 DEF OnCycle
    <3>2. v \in Ancestors(w) /\ w \in Ancestors(v)
      BY <1>2, <3>1 DEF Reach
    <3> QED BY <1>1, <3>2, AncestorsNest
  <2> QED BY <1>3, <2>1, <2>2
<1>4. ASSUME NEW v \in Versions, v \in Ancestors(v), v \notin parents[v]
      PROVE  v \in OnCycle
  <2> DEFINE C == UNION {Reach(p) : p \in parents[v]}
  <2>1. parents[v] \subseteq Versions
    BY <1>1 DEF Listed
  <2>2. parents[v] \subseteq C
    BY <1>1, <2>1, ReachIsLeast
  <2>3. Closed(C)
    <3> SUFFICES ASSUME NEW p \in parents[v], NEW x \in Reach(p)
                 PROVE  parents[x] \subseteq Reach(p)
      BY DEF Closed
    <3>1. x \in Versions /\ Reach(x) \subseteq Reach(p)
      BY <1>1, <2>1, ReachIsLeast
    <3> QED BY <1>1, <3>1, ReachIsLeast
  <2> HIDE DEF C
  <2>4. v \in C
    BY <1>1, <1>4, <2>2, <2>3, AncestorsAreLeast
  <2>5. PICK p \in parents[v] : v \in Reach(p)
    BY <2>4 DEF C
  <2>6. p \in Versions \ {v} /\ p \in Reach(v)
    BY <1>1, <1>4, <2>1, ReachIsLeast
  <2> QED BY <1>2, <2>5, <2>6 DEF OnCycle
<1> QED BY <1>3, <1>4 DEF Rejects, OnCycle

(* validate: exactly the versions that list themselves or a descendant are    *)
(* refused, whatever happens to their relatives.                             *)
THEOREM OnlyDescendantListersRefused == Spec => []OnlyDescendantListersOut
<1>1. IInv => OnlyDescendantListersOut
  BY RefusedAreDescendantListers DEF OnlyDescendantListersOut
<1> QED BY <1>1, Invariance, PTL

(* check_new_parents and validate: a writer that keeps the rule is never      *)
(* refused by a reader for a cycle.                                          *)
THEOREM WrittenVersionsAccepted == Spec => []WrittenIsAccepted
<1>1. IInv => WrittenIsAccepted
  <2> SUFFICES ASSUME IInv, Grown, phase # "cycles", NEW v \in Rejects({}) PROVE FALSE
    BY DEF WrittenIsAccepted
  <2>1. v \in Versions /\ v \in Ancestors(v) /\ Listed
    BY RefusedAreDescendantListers, SearchedAll
  <2> DEFINE C == {w \in Versions : w < v}
  <2>2. \A w \in Versions : parents[w] \subseteq {x \in Versions : x < w}
    BY DEF Grown, CheckNewParents
  <2>3. Versions \subseteq Nat
    BY VersionsAssumption
  <2>4. Closed(C)
    <3> SUFFICES ASSUME NEW p \in C, NEW x \in parents[p] PROVE x \in C
      BY DEF Closed
    <3>1. x \in Versions /\ x < p /\ p < v
      BY <2>2
    <3>2. x \in Nat /\ p \in Nat /\ v \in Nat
      BY <2>1, <2>3, <3>1
    <3> QED BY <3>1, <3>2
  <2>5. parents[v] \subseteq C
    BY <2>1, <2>2
  <2>6. v \in C
    <3> HIDE DEF C
    <3> QED BY <2>1, <2>4, <2>5, AncestorsAreLeast
  <2> QED BY <2>1, <2>3, <2>6
<1> QED BY <1>1, Invariance, PTL

(* prune: retention neither makes nor loses a head of a graph that grew in     *)
(* time, whatever the cutoff.                                                *)
THEOREM RetentionKeepsHeads == Spec => []PruneKeepsHeads
<1>1. IInv => PruneKeepsHeads
  <2> SUFFICES ASSUME Grown, NEW cutoff \in Versions
               PROVE  HeadsOf(Prune(cutoff)) = HeadsOf(Versions)
    BY DEF PruneKeepsHeads
  <2>1. \A w \in Versions : \A v \in parents[w] : v \in Versions /\ v < w
    BY DEF Grown, CheckNewParents
  <2>2. Versions \subseteq Nat
    BY VersionsAssumption
  <2>3. \A w \in Versions : w >= cutoff => w \in Prune(cutoff)
    BY DEF Prune
  <2>4. ASSUME NEW v \in HeadsOf(Versions) PROVE v \in HeadsOf(Prune(cutoff))
    BY <2>4 DEF HeadsOf, Prune
  <2>5. ASSUME NEW v \in HeadsOf(Prune(cutoff)), v \notin HeadsOf(Versions) PROVE FALSE
    <3>1. v \in Versions /\ v \in Prune(cutoff) /\ \A w \in Prune(cutoff) : v \notin parents[w]
      BY <2>5 DEF HeadsOf, Prune
    <3>2. PICK u \in Versions : v \in parents[u]
      BY <2>5, <3>1 DEF HeadsOf
    <3>3. ~(v >= cutoff)
      BY <2>1, <2>2, <2>3, <3>1, <3>2
    <3>4. PICK w \in Versions : (w >= cutoff \/ w \in HeadsOf(Versions)) /\ v \in parents[w]
      BY <2>5, <3>1, <3>3 DEF Prune, HeadsOf
    <3>5. w \in Prune(cutoff)
      BY <3>4 DEF Prune
    <3> QED BY <3>1, <3>4, <3>5
  <2> QED BY <2>4, <2>5
<1> QED BY <1>1, Invariance, PTL

(* build: what is left and not shown is an ancestor of a head that is: of the  *)
(* descendants that are left, one with the most ancestors is a head.          *)
THEOREM GoodParentsShown == Spec => []GoodParentsSurface
<1>1. IInv => GoodParentsSurface
  <2> SUFFICES ASSUME IInv, phase = "done", NEW v \in live, v \notin verified
               PROVE  \E h \in verified : v \in Ancestors(h)
    BY DEF IInv, RoundInv, GoodParentsSurface
  <2>1. Listed /\ live \subseteq Versions /\ verified = HeadsOf(live)
    BY SearchedAll DEF IInv, ViewTypes, RoundInv, ViewIsHeads
  <2>2. \A w \in live : w \notin Ancestors(w)
    BY <2>1, RefusedAreDescendantListers DEF IInv, Judged
  <2> DEFINE S == {w \in live : v \in Ancestors(w)}
             T == {Cardinality(Ancestors(w)) : w \in S}
  <2>3. \A w \in live : /\ IsFiniteSet(Ancestors(w)) /\ Cardinality(Ancestors(w)) \in Nat
                        /\ Cardinality(Ancestors(w)) <= Cardinality(Versions)
    BY <2>1, AncestorsAreLeast, VersionsAssumption, FS_Subset, FS_CardinalityType
  <2>4. S # {}
    <3>1. PICK w \in live : v \in parents[w]
      BY <2>1 DEF HeadsOf
    <3> QED BY <2>1, <3>1, AncestorsAreLeast
  <2>5. T \in SUBSET Nat /\ T # {} /\ \A k \in T : k <= Cardinality(Versions)
    BY <2>3, <2>4
  <2>6. Cardinality(Versions) \in Nat
    BY VersionsAssumption, FS_CardinalityType
  <2>7. PICK w \in S : \A u \in S : Cardinality(Ancestors(u)) <= Cardinality(Ancestors(w))
    <3>1. \E m \in T : \A k \in T : k <= m
      <4> HIDE DEF T
      <4> QED BY <2>5, <2>6, GreatestNatural
    <3> QED BY <3>1
  <2>8. w \in HeadsOf(live)
    <3> SUFFICES ASSUME NEW u \in live, w \in parents[u] PROVE FALSE
      BY DEF HeadsOf
    <3>1. w \in Ancestors(u)
      BY <2>1, AncestorsAreLeast
    <3>2. Ancestors(w) \subseteq Ancestors(u) /\ u \in S
      BY <2>1, <3>1, AncestorsNest
    <3>3. w \notin Ancestors(w)
      BY <2>2
    <3>4. Cardinality(Ancestors(w)) < Cardinality(Ancestors(u))
      <4> DEFINE few == Ancestors(w)
                 many == Ancestors(u)
      <4>1. few \subseteq many /\ few # many /\ IsFiniteSet(many)
        BY <2>3, <3>1, <3>2, <3>3
      <4> HIDE DEF few, many
      <4>2. Cardinality(few) < Cardinality(many)
        <5>1. few \in SUBSET many /\ IsFiniteSet(few)
          BY <4>1, FS_Subset
        <5>2. Cardinality(few) <= Cardinality(many) /\ Cardinality(few) # Cardinality(many)
          BY <4>1, <5>1, FS_Subset
        <5>3. Cardinality(few) \in Nat /\ Cardinality(many) \in Nat
          BY <4>1, <5>1, FS_CardinalityType
        <5> QED BY <5>2, <5>3
      <4> QED BY <4>2 DEF few, many
    <3>5. Cardinality(Ancestors(w)) \in Nat /\ Cardinality(Ancestors(u)) \in Nat
      BY <2>3
    <3> QED BY <2>7, <3>2, <3>4, <3>5
  <2> QED BY <2>1, <2>7, <2>8
<1> QED BY <1>1, Invariance, PTL

-----------------------------------------------------------------------------
(* 2. The outbox                                                           *)

(* What has left the queue: items are queued in push order with none         *)
(* missing, so the ones that left are the first pushed - Len(queue).         *)
Left == pushed - Len(queue)

QueueIsSuffix ==
    /\ Len(queue) <= pushed
    /\ \A i \in 1 .. Len(queue) : queue[i] = Left + i

LeftIsAccountedFor ==
    \A n \in 1 .. Left : n \in refused \/ \E i \in 1 .. Len(log) : log[i] = n

LogInOrder ==
    /\ \A i, j \in 1 .. Len(log) : i < j => log[i] <= log[j]
    /\ \A i \in 1 .. Len(log) : log[i] <= pushed /\ log[i] <= Left + 1

(* The wait outlasts what is missing of the pacing interval. *)
WaitCoversPacing == since + wait >= MinInterval

OutboxIInv ==
    /\ OutboxTypeOK
    /\ QueueIsSuffix
    /\ LeftIsAccountedFor
    /\ LogInOrder
    /\ WaitCoversPacing
    /\ BackoffIsExponential

USE IntervalAssumption, BackoffAssumption, RetryAssumption, BoundAssumption

(* The back-off that follows the one failure history d asks for is the one   *)
(* the history 2 * d asks for.                                               *)
LEMMA BackoffDoubles ==
    ASSUME NEW d \in Nat, NEW b \in Nat,
           b = Smaller(d * FirstBackoff, MaxBackoff)
    PROVE  /\ NextBackoff(b) = Smaller(NextDoublings(d) * FirstBackoff, MaxBackoff)
           /\ NextBackoff(b) \in 0 .. MaxBackoff
           /\ NextDoublings(d) \in Nat
<1>1. d * FirstBackoff \in Nat
  OBVIOUS
<1>2. CASE d = 0
  <2>1. b = 0
    BY <1>2 DEF Smaller
  <2>2. NextDoublings(d) = 1
    BY <1>2 DEF NextDoublings
  <2> QED BY <2>1, <2>2 DEF NextBackoff, Smaller
<1>3. CASE d # 0
  <2>1. d * FirstBackoff >= 1
    BY <1>3
  <2>2. b # 0
    BY <2>1 DEF Smaller
  <2>3. (2 * d) * FirstBackoff = 2 * (d * FirstBackoff)
    OBVIOUS
  <2> QED BY <1>1, <1>3, <2>1, <2>2, <2>3 DEF NextBackoff, NextDoublings, Smaller
<1> QED BY <1>2, <1>3

(* Popping the head keeps a suffix of the pushed items. *)
LEMMA TailIsSuffix ==
    ASSUME OutboxTypeOK, QueueIsSuffix, queue # <<>>, queue' = Tail(queue), pushed' = pushed
    PROVE  /\ queue' \in Seq(1 .. MaxItems)
           /\ QueueIsSuffix'
           /\ Left' = Left + 1
           /\ Head(queue) = Left + 1
           /\ Head(queue) \in 1 .. pushed
           /\ Head(queue) \in 1 .. MaxItems
<1>1. Len(queue) \in Nat /\ Len(queue) > 0 /\ pushed \in Nat
  BY DEF OutboxTypeOK
<1>2. /\ queue' \in Seq(1 .. MaxItems)
      /\ Len(queue') = Len(queue) - 1
      /\ \A i \in 1 .. Len(queue') : queue'[i] = queue[i + 1]
  BY <1>1 DEF OutboxTypeOK
<1>3. Left' = Left + 1
  BY <1>1, <1>2 DEF Left
<1>4. QueueIsSuffix'
  BY <1>1, <1>2, <1>3 DEF QueueIsSuffix, Left
<1>5. Head(queue) = Left + 1 /\ Head(queue) \in 1 .. pushed /\ Head(queue) \in 1 .. MaxItems
  BY <1>1 DEF QueueIsSuffix, Left, OutboxTypeOK
<1> QED BY <1>2, <1>3, <1>4, <1>5

(* A stored head extends the log in order. *)
LEMMA StoredInOrder ==
    ASSUME OutboxTypeOK, QueueIsSuffix, LogInOrder, queue # <<>>, Stored
    PROVE  /\ log' \in Seq(1 .. MaxItems)
           /\ \A i, j \in 1 .. Len(log') : i < j => log'[i] <= log'[j]
           /\ \A i \in 1 .. Len(log') : log'[i] <= pushed /\ log'[i] <= Left + 1
           /\ \A n \in Nat : (n = Left + 1 \/ \E i \in 1 .. Len(log) : log[i] = n)
                             => \E i \in 1 .. Len(log') : log'[i] = n
           /\ since' = 0
<1>1. Head(queue) = Left + 1 /\ Head(queue) \in 1 .. MaxItems /\ Head(queue) <= pushed
  BY DEF QueueIsSuffix, Left, OutboxTypeOK
<1>2. /\ log' \in Seq(1 .. MaxItems)
      /\ Len(log') = Len(log) + 1
      /\ Len(log) \in Nat
      /\ \A i \in 1 .. Len(log) : log'[i] = log[i] /\ log[i] \in Nat
      /\ log'[Len(log) + 1] = Left + 1
  BY <1>1 DEF OutboxTypeOK, Stored
<1>3. \A i \in 1 .. Len(log') : log'[i] <= pushed /\ log'[i] <= Left + 1
  BY <1>1, <1>2 DEF LogInOrder
<1>4. \A i, j \in 1 .. Len(log') : i < j => log'[i] <= log'[j]
  <2> SUFFICES ASSUME NEW i \in 1 .. Len(log'), NEW j \in 1 .. Len(log'), i < j
               PROVE  log'[i] <= log'[j]
    OBVIOUS
  <2>1. CASE j = Len(log) + 1
    BY <1>2, <1>3, <2>1
  <2>2. CASE j \in 1 .. Len(log)
    BY <1>2, <2>2 DEF LogInOrder
  <2>3. j \in 1 .. Len(log) \/ j = Len(log) + 1
    <3>1. Len(log) \in Nat /\ Len(log') = Len(log) + 1
      BY <1>2
    <3> QED BY <3>1
  <2> QED BY <2>1, <2>2, <2>3
<1>5. \A n \in Nat : (n = Left + 1 \/ \E i \in 1 .. Len(log) : log[i] = n)
                     => \E i \in 1 .. Len(log') : log'[i] = n
  <2>1. Len(log) + 1 \in 1 .. Len(log') /\ 1 .. Len(log) \subseteq 1 .. Len(log')
    BY <1>2
  <2> QED BY <1>2, <2>1
<1> QED BY <1>2, <1>3, <1>4, <1>5 DEF Stored

(* Outbox::new: an empty outbox that may send at once. *)
LEMMA OutboxInitIInv == OutboxInit => OutboxIInv
BY DEF OutboxInit, OutboxIInv, OutboxTypeOK, QueueIsSuffix, LeftIsAccountedFor, LogInOrder,
       WaitCoversPacing, BackoffIsExponential, Smaller, Left

(* push: the queue stays the suffix of what was pushed. *)
LEMMA PushKeepsIInv == OutboxIInv /\ Push => OutboxIInv'
<1> SUFFICES ASSUME OutboxIInv, Push PROVE OutboxIInv'
  OBVIOUS
<1> USE DEF OutboxIInv, Push
<1>1. /\ Len(queue) \in Nat /\ pushed \in Nat /\ pushed + 1 \in 1 .. MaxItems
      /\ queue' \in Seq(1 .. MaxItems)
      /\ Len(queue') = Len(queue) + 1
      /\ queue'[Len(queue) + 1] = pushed + 1
      /\ \A i \in 1 .. Len(queue) : queue'[i] = queue[i]
  BY DEF OutboxTypeOK
<1>2. Left' = Left
  BY <1>1 DEF Left
<1>3. OutboxTypeOK'
  BY <1>1 DEF OutboxTypeOK
<1>4. QueueIsSuffix'
  BY <1>1, <1>2 DEF QueueIsSuffix, Left
<1>5. LeftIsAccountedFor'
  BY <1>2 DEF LeftIsAccountedFor
<1>6. LogInOrder'
  BY <1>1, <1>2 DEF LogInOrder, OutboxTypeOK
<1>7. WaitCoversPacing' /\ BackoffIsExponential'
  BY DEF WaitCoversPacing, BackoffIsExponential
<1> QED BY <1>3, <1>4, <1>5, <1>6, <1>7

(* step, Ok: the head leaves, the wait is the pacing, the back-off is gone. *)
LEMMA AcceptedKeepsIInv == OutboxIInv /\ Accepted => OutboxIInv'
<1> SUFFICES ASSUME OutboxIInv, Accepted PROVE OutboxIInv'
  OBVIOUS
<1> USE DEF OutboxIInv, Accepted, MaySend
<1>1. /\ queue' \in Seq(1 .. MaxItems) /\ QueueIsSuffix' /\ Left' = Left + 1
      /\ Left + 1 \in 1 .. pushed
  BY TailIsSuffix
<1>2. /\ log' \in Seq(1 .. MaxItems)
      /\ \A i, j \in 1 .. Len(log') : i < j => log'[i] <= log'[j]
      /\ \A i \in 1 .. Len(log') : log'[i] <= pushed /\ log'[i] <= Left + 1
      /\ \A n \in Nat : (n = Left + 1 \/ \E i \in 1 .. Len(log) : log[i] = n)
                        => \E i \in 1 .. Len(log') : log'[i] = n
      /\ since' = 0
  BY StoredInOrder
<1>3. OutboxTypeOK'
  BY <1>1, <1>2 DEF OutboxTypeOK
<1>4. LeftIsAccountedFor'
  <2> SUFFICES ASSUME NEW n \in 1 .. Left'
               PROVE  n \in refused' \/ \E i \in 1 .. Len(log') : log'[i] = n
    BY DEF LeftIsAccountedFor
  <2>1. n \in 1 .. Left \/ n = Left + 1
    BY <1>1 DEF Left, OutboxTypeOK
  <2> QED BY <1>2, <2>1 DEF LeftIsAccountedFor
<1>5. LogInOrder'
  <2>1. \A i \in 1 .. Len(log') : log'[i] \in Nat
    BY <1>2
  <2>2. Left \in Int
    BY DEF Left, OutboxTypeOK
  <2> QED BY <1>1, <1>2, <2>1, <2>2 DEF LogInOrder, OutboxTypeOK
<1>6. WaitCoversPacing'
  BY <1>2 DEF WaitCoversPacing
<1>7. BackoffIsExponential'
  BY DEF BackoffIsExponential, Smaller
<1> QED BY <1>1, <1>3, <1>4, <1>5, <1>6, <1>7

(* What back_off does to the invariant's arithmetic. *)
LEMMA BackOffArithmetic ==
    ASSUME OutboxIInv, NEW retry \in {{}} \cup {{r} : r \in RetryAfters}, BackOff(retry)
    PROVE  /\ backoff' \in 0 .. MaxBackoff /\ doublings' \in Nat
           /\ BackoffIsExponential'
           /\ wait' \in Nat /\ wait' >= MinInterval
<1>1. backoff' \in 0 .. MaxBackoff /\ doublings' \in Nat /\ BackoffIsExponential'
  <2>1. doublings \in Nat /\ backoff \in Nat
    BY DEF OutboxIInv, OutboxTypeOK
  <2>2. backoff = Smaller(doublings * FirstBackoff, MaxBackoff)
    BY DEF OutboxIInv, BackoffIsExponential
  <2>3. doublings' = NextDoublings(doublings)
    BY DEF BackOff
  <2>4. /\ NextBackoff(backoff) = Smaller(doublings' * FirstBackoff, MaxBackoff)
        /\ NextBackoff(backoff) \in 0 .. MaxBackoff
        /\ doublings' \in Nat
    BY <2>1, <2>2, <2>3, BackoffDoubles
  <2>5. backoff' = NextBackoff(backoff)
    BY DEF BackOff
  <2> QED BY <2>4, <2>5 DEF BackoffIsExponential
<1>2. (IF retry = {} THEN backoff' ELSE CHOOSE r \in retry : TRUE) \in Nat
  <2>1. CASE retry = {}
    BY <1>1, <2>1
  <2>2. CASE retry # {}
    <3>1. PICK r \in RetryAfters : retry = {r}
      BY <2>2
    <3>2. (CHOOSE x \in retry : TRUE) \in retry
      BY <3>1
    <3> QED BY <2>2, <3>1, <3>2
  <2> QED BY <2>1, <2>2
<1>3. wait' \in Nat /\ wait' >= MinInterval
  BY <1>2 DEF BackOff, Larger
<1> QED BY <1>1, <1>3

(* back_off's wait is at least the pacing interval, whatever was left of it. *)
LEMMA LongWaitCovers ==
    ASSUME NEW s \in Nat, NEW w \in Nat, w >= MinInterval
    PROVE  s + w >= MinInterval
  OBVIOUS

(* A failed send, the item stored or not. *)
LEMMA BackOffKeepsIInv ==
    ASSUME OutboxIInv, MaySend,
           NEW retry \in {{}} \cup {{r} : r \in RetryAfters}, BackOff(retry),
           Stored \/ UNCHANGED <<log, since>>
    PROVE  OutboxIInv'
<1> USE DEF OutboxIInv, MaySend
<1>1. /\ backoff' \in 0 .. MaxBackoff /\ doublings' \in Nat
      /\ BackoffIsExponential'
      /\ wait' \in Nat /\ wait' >= MinInterval
  BY BackOffArithmetic
<1>2. UNCHANGED <<queue, pushed, refused>> /\ Left' = Left /\ QueueIsSuffix'
  BY DEF BackOff, Left, QueueIsSuffix
<1>3. WaitCoversPacing'
  <2>1. since' \in Nat
    BY DEF Stored, OutboxTypeOK
  <2>2. wait' \in Nat /\ wait' >= MinInterval
    BY <1>1
  <2> QED BY <2>1, <2>2, LongWaitCovers DEF WaitCoversPacing
<1>4. CASE Stored
  <2>1. /\ log' \in Seq(1 .. MaxItems)
        /\ \A i, j \in 1 .. Len(log') : i < j => log'[i] <= log'[j]
        /\ \A i \in 1 .. Len(log') : log'[i] <= pushed /\ log'[i] <= Left + 1
        /\ \A n \in Nat : (n = Left + 1 \/ \E i \in 1 .. Len(log) : log[i] = n)
                        => \E i \in 1 .. Len(log') : log'[i] = n
        /\ since' = 0
    BY <1>4, StoredInOrder
  <2>2. OutboxTypeOK'
    BY <1>1, <1>2, <2>1 DEF OutboxTypeOK
  <2>3. LeftIsAccountedFor'
    <3> SUFFICES ASSUME NEW n \in 1 .. Left'
                 PROVE  n \in refused' \/ \E i \in 1 .. Len(log') : log'[i] = n
      BY DEF LeftIsAccountedFor
    <3> QED BY <1>2, <2>1 DEF LeftIsAccountedFor
  <2>4. LogInOrder'
    BY <1>2, <2>1 DEF LogInOrder
  <2> QED BY <1>1, <1>2, <1>3, <2>2, <2>3, <2>4
<1>5. CASE UNCHANGED <<log, since>>
  <2>1. OutboxTypeOK'
    BY <1>1, <1>2, <1>5 DEF OutboxTypeOK
  <2>2. LeftIsAccountedFor'
    BY <1>2, <1>5 DEF LeftIsAccountedFor
  <2>3. LogInOrder'
    BY <1>2, <1>5 DEF LogInOrder
  <2> QED BY <1>1, <1>2, <1>3, <2>1, <2>2, <2>3
<1> QED BY <1>4, <1>5

(* discard_head after a refusal: the head leaves without being stored. *)
LEMMA RefusedKeepsIInv == OutboxIInv /\ Refused => OutboxIInv'
<1> SUFFICES ASSUME OutboxIInv, Refused PROVE OutboxIInv'
  OBVIOUS
<1> USE DEF OutboxIInv, Refused, MaySend
<1>1. /\ queue' \in Seq(1 .. MaxItems) /\ QueueIsSuffix' /\ Left' = Left + 1
      /\ Head(queue) = Left + 1
      /\ Left + 1 \in 1 .. MaxItems
  BY TailIsSuffix
<1>2. OutboxTypeOK'
  BY <1>1 DEF OutboxTypeOK
<1>3. LeftIsAccountedFor'
  BY <1>1 DEF LeftIsAccountedFor, Left, OutboxTypeOK
<1>4. LogInOrder'
  <2>1. Left \in Int /\ \A i \in 1 .. Len(log) : log[i] \in Nat
    BY DEF Left, OutboxTypeOK
  <2> QED BY <1>1, <2>1 DEF LogInOrder
<1>5. WaitCoversPacing' /\ BackoffIsExponential'
  BY DEF WaitCoversPacing, BackoffIsExponential
<1> QED BY <1>1, <1>2, <1>3, <1>4, <1>5

(* Time shortens the wait no faster than the pacing asks for. *)
LEMMA OutboxTickKeepsIInv == OutboxIInv /\ OutboxTick => OutboxIInv'
<1> SUFFICES ASSUME OutboxIInv, OutboxTick PROVE OutboxIInv'
  OBVIOUS
<1> USE DEF OutboxIInv, OutboxTick
<1>1. OutboxTypeOK' /\ WaitCoversPacing'
  BY DEF OutboxTypeOK, WaitCoversPacing, Larger, Smaller
<1>2. QueueIsSuffix' /\ LeftIsAccountedFor' /\ LogInOrder' /\ BackoffIsExponential'
  BY DEF QueueIsSuffix, LeftIsAccountedFor, LogInOrder, BackoffIsExponential, Left
<1> QED BY <1>1, <1>2

(* Every step of the outbox, one case per answer of the binding. *)
LEMMA OutboxNextKeepsIInv == OutboxIInv /\ [OutboxNext]_outboxVars => OutboxIInv'
<1> SUFFICES ASSUME OutboxIInv, [OutboxNext]_outboxVars PROVE OutboxIInv'
  OBVIOUS
<1>1. CASE Push
  BY <1>1, PushKeepsIInv
<1>2. CASE Accepted
  BY <1>2, AcceptedKeepsIInv
<1>3. CASE RateLimited
  BY <1>3, BackOffKeepsIInv DEF RateLimited
<1>4. CASE RequestLost
  BY <1>4, BackOffKeepsIInv DEF RequestLost
<1>5. CASE AnswerLost
  BY <1>5, BackOffKeepsIInv DEF AnswerLost
<1>6. CASE Refused
  BY <1>6, RefusedKeepsIInv
<1>7. CASE OutboxTick
  BY <1>7, OutboxTickKeepsIInv
<1>8. CASE UNCHANGED outboxVars
  BY <1>8 DEF OutboxIInv, OutboxTypeOK, QueueIsSuffix, LeftIsAccountedFor, LogInOrder,
     WaitCoversPacing, BackoffIsExponential, Left, outboxVars
<1> QED BY <1>1, <1>2, <1>3, <1>4, <1>5, <1>6, <1>7, <1>8 DEF OutboxNext

(* The inductive invariant holds in every reachable state. *)
LEMMA OutboxInvariance == OutboxSpec => []OutboxIInv
<1> QED BY OutboxInitIInv, OutboxNextKeepsIInv, PTL DEF OutboxSpec

-----------------------------------------------------------------------------
(* Outbox: the queue, the wait and the back-off keep their types and caps,    *)
(* for every sequence of pushes and answers.                                 *)
THEOREM OutboxTypesHold == OutboxSpec => []OutboxTypeOK
BY OutboxInvariance, PTL DEF OutboxIInv

(* Outbox: every pushed item is queued, stored by the binding, or refused. *)
THEOREM NothingIsLost == OutboxSpec => []NothingLost
<1>1. OutboxIInv => NothingLost
  <2> SUFFICES ASSUME OutboxIInv, NEW n \in 1 .. pushed
               PROVE  n \in ItemsOf(queue) \cup ItemsOf(log) \cup refused
    BY DEF NothingLost
  <2> USE DEF OutboxIInv
  <2>1. CASE n <= Left
    <3>1. n \in 1 .. Left
      BY <2>1 DEF Left, OutboxTypeOK
    <3>2. n \in refused \/ \E i \in 1 .. Len(log) : log[i] = n
      BY <3>1 DEF LeftIsAccountedFor
    <3> QED BY <3>2 DEF ItemsOf, OutboxTypeOK
  <2>2. CASE n > Left
    <3>1. n - Left \in 1 .. Len(queue)
      BY <2>2 DEF Left, OutboxTypeOK
    <3>2. queue[n - Left] = n
      BY <3>1 DEF QueueIsSuffix, Left, OutboxTypeOK
    <3> QED BY <3>1, <3>2 DEF ItemsOf, OutboxTypeOK
  <2> QED BY <2>1, <2>2 DEF Left, OutboxTypeOK
<1> QED BY <1>1, OutboxInvariance, PTL

(* Outbox: the binding stores items in the order they were pushed, copies    *)
(* made by lost answers side by side, and ahead of all that is still queued. *)
THEOREM StoredInPushOrder == OutboxSpec => []InOrder
<1>1. OutboxIInv => InOrder
  <2> SUFFICES ASSUME OutboxIInv PROVE InOrder
    OBVIOUS
  <2> USE DEF OutboxIInv
  <2>1. DOMAIN log = 1 .. Len(log) /\ DOMAIN queue = 1 .. Len(queue)
    BY DEF OutboxTypeOK
  <2>2. \A i \in 1 .. Len(log), j \in 1 .. Len(queue) : log[i] <= queue[j]
    <3> SUFFICES ASSUME NEW i \in 1 .. Len(log), NEW j \in 1 .. Len(queue)
                 PROVE  log[i] <= queue[j]
      OBVIOUS
    <3>1. log[i] <= Left + 1 /\ queue[j] = Left + j
      BY DEF LogInOrder, QueueIsSuffix
    <3> QED BY <3>1 DEF Left, OutboxTypeOK
  <2> QED BY <2>1, <2>2 DEF InOrder, LogInOrder
<1> QED BY <1>1, OutboxInvariance, PTL

(* Outbox: the back-off is min(FirstBackoff * 2^(k-1), MaxBackoff) after k    *)
(* failures in a row.                                                        *)
THEOREM BackoffFollowsFailures == OutboxSpec => []BackoffIsExponential
BY OutboxInvariance, PTL DEF OutboxIInv

(* Outbox: no two items are stored closer together than MinInterval. *)
THEOREM StoresArePaced == OutboxSpec => Paced
<1>1. OutboxIInv /\ [OutboxNext]_outboxVars => [log' # log => since >= MinInterval]_outboxVars
  <2> SUFFICES ASSUME OutboxIInv, [OutboxNext]_outboxVars, log' # log PROVE since >= MinInterval
    OBVIOUS
  <2>1. Accepted \/ AnswerLost
    BY DEF OutboxNext, Push, RateLimited, RequestLost, Refused, OutboxTick, outboxVars
  <2>2. wait = 0
    BY <2>1 DEF Accepted, AnswerLost, MaySend
  <2> QED BY <2>2 DEF OutboxIInv, WaitCoversPacing, OutboxTypeOK
<1> QED BY <1>1, OutboxInvariance, PTL DEF OutboxSpec, Paced

-----------------------------------------------------------------------------
(* 3. The lease                                                            *)

(* What has to be granted: owners are among those who may break leases (a    *)
(* store does not hold an active lease against an owner's write); no two      *)
(* sessions are one principal's (a store cannot tell their releases apart);  *)
(* and without compare-and-set the settle interval is longer than a session   *)
(* takes from its first read to its write.                                   *)
GrantedUse ==
    /\ Owners \subseteq Breakers
    /\ \A s, t \in Sessions : Principal[s] = Principal[t] => s = t
    /\ FALSE \in Stores => Settle > MaxDelay

(* Nothing is stamped later than now. *)
StampsArePast == rec.ts <= now /\ \A s \in Sessions : claim[s].ts <= now

(* Who goes by a claim is named by the current record, the claim's or one     *)
(* that renewed it since.                                                   *)
GoingIsCurrent == \A s \in Sessions : Goes(s) => Names(rec, s) /\ rec.ts >= claim[s].ts

(* Only who may break a lease is about to.                                   *)
BreakersBreak == \A s \in Sessions : pc[s] = "breaking" => s \in Breakers

-----------------------------------------------------------------------------
(* Without compare-and-set.                                                  *)

(* No session is slower than MaxDelay from its first read to its write.       *)
InPace(s) == OnItsWay(s) => timer[s] <= now /\ now <= timer[s] + MaxDelay

(* A session that settles waits for the whole interval after its write.       *)
Settles(s) == pc[s] = "settling" /\ Names(rec, s) => timer[s] >= rec.ts + Settle

(* Who looked, and started after the current record was written, saw that     *)
(* record, and judged by its own time that it may write over it.              *)
Looked(s) ==
    /\ s \notin Breakers /\ pc[s] \in {"available", "read"} /\ timer[s] > rec.ts
         => CanAcquire(rec, s, timer[s])
    /\ pc[s] = "releasing" /\ timer[s] > rec.ts => rec.by \in {s, NoOne}

(* While a session is about to write, no other goes by a lease.               *)
Writing(s) == s \notin Breakers /\ pc[s] \in {"available", "read", "releasing"}
Alone(s) == Writing(s) => \A t \in Sessions \ {s} : ~Goes(t)

Races == ~cas => \A s \in Sessions : InPace(s) /\ Settles(s) /\ Looked(s) /\ Alone(s)

LeaseIInv ==
    /\ LeaseTypeOK /\ NeverTaken
    /\ StampsArePast
    /\ GoingIsCurrent
    /\ BreakersBreak
    /\ Races

USE SessionAssumption, TimeAssumption

(* A document without a lease record, and sessions that have none.           *)
LEMMA LeaseInitIInv == LeaseInit => LeaseIInv
BY DEF LeaseInit, LeaseIInv, LeaseTypeOK, NeverTaken, StampsArePast, GoingIsCurrent, BreakersBreak, Races, InPace,
       Settles, Looked, Writing, Alone, OnItsWay, Goes, Believes, Names, Released, Records, NoOne

-----------------------------------------------------------------------------
(* What a lease that somebody goes by excludes.                              *)

(* The numbers of a state.                                                   *)
LEMMA Numbers ==
    ASSUME LeaseTypeOK
    PROVE  /\ now \in Nat /\ rec.ts \in Nat /\ rec.renewal \in Nat /\ NextRenewal(rec) \in Nat
           /\ rec.by \in Sessions \cup {NoOne}
           /\ \A s \in Sessions : claim[s].ts \in Nat /\ timer[s] \in Nat /\ claim[s] \in Records
BY DEF LeaseTypeOK, Records, NextRenewal

(* It was active in the store at any earlier time of a clock.                *)
LEMMA GoingIsActive ==
    ASSUME LeaseTypeOK, GoingIsCurrent, NEW s \in Sessions, Goes(s), NEW t \in Nat, t <= now
    PROVE  Names(rec, s) /\ ActiveAt(rec, t)
<1>1. Names(rec, s) /\ rec.ts >= claim[s].ts
  BY DEF GoingIsCurrent
<1>2. claim[s].ts + Duration > now
  BY DEF Goes, Believes, Active, ActiveAt
<1>3. rec.ts + Duration > t
  BY <1>1, <1>2, Numbers
<1> QED BY <1>1, <1>3 DEF Names, ActiveAt, NoOne

(* What the store lets a session write, and a session without                *)
(* compare-and-set judged that it might, is over no such lease.               *)
LEMMA NobodyIsRobbed ==
    ASSUME GrantedUse, LeaseIInv, NEW s \in Sessions \ Breakers,
           \/ pc[s] = "read" /\ WriteAllowed(s)
           \/ pc[s] = "releasing" /\ ReleaseAllowed(s)
    PROVE  RobbedBy(s) = {}
<1> SUFFICES ASSUME NEW t \in Sessions \ {s}, Goes(t), Names(rec, t) PROVE FALSE
  BY DEF RobbedBy
<1>1. now \in Nat /\ Names(rec, t) /\ ActiveAt(rec, now)
  BY Numbers, GoingIsActive DEF LeaseIInv
<1>2. CASE ~cas
  BY <1>2 DEF LeaseIInv, Races, Alone, Writing
<1>3. CASE cas /\ pc[s] = "read" /\ WriteAllowed(s)
  BY <1>1, <1>3 DEF WriteAllowed, CanAcquire, Names, GrantedUse
<1>4. CASE cas /\ pc[s] = "releasing" /\ ReleaseAllowed(s)
  BY <1>1, <1>4 DEF ReleaseAllowed, Active, Names, GrantedUse
<1> QED BY <1>2, <1>3, <1>4 DEF LeaseIInv, LeaseTypeOK

(* Nobody else goes by a lease after a record was replaced.                  *)
LEMMA OverwrittenAreRobbed ==
    ASSUME LeaseIInv, NEW s \in Sessions, Overwrites(s), now' = now,
           \A t \in Sessions \ {s} : claim'[t] = claim[t]
    PROVE  \A t \in Sessions \ {s} : ~Goes(t)'
<1> SUFFICES ASSUME NEW t \in Sessions \ {s}, Goes(t)' PROVE FALSE
  OBVIOUS
<1>1. Goes(t)
  BY DEF Goes, Believes, Names, Active, ActiveAt, Overwrites
<1>2. t \in RobbedBy(s)
  BY <1>1 DEF RobbedBy, LeaseIInv, GoingIsCurrent
<1> QED BY <1>2 DEF Overwrites, Goes

(* Who takes is a breaker.                                                   *)
LEMMA TakersBreak ==
    ASSUME GrantedUse, LeaseIInv, NEW s \in Sessions, Overwrites(s),
           \/ pc[s] = "read" /\ WriteAllowed(s)
           \/ pc[s] = "releasing" /\ ReleaseAllowed(s)
    PROVE  NeverTaken' /\ takers' \subseteq Sessions /\ robbed' \subseteq Sessions
<1>1. CASE s \in Breakers
  BY <1>1 DEF LeaseIInv, LeaseTypeOK, NeverTaken, Overwrites, RobbedBy
<1>2. CASE s \notin Breakers
  BY <1>2, NobodyIsRobbed DEF LeaseIInv, LeaseTypeOK, NeverTaken, Overwrites
<1> QED BY <1>1, <1>2

-----------------------------------------------------------------------------
(* Every step keeps the invariant.                                           *)

(* A step of one session that leaves the record alone: it has to be right     *)
(* about that session, and when it comes to go by a lease, no other may be    *)
(* about to write.                                                           *)
LEMMA QuietStep ==
    ASSUME LeaseIInv, LeaseTypeOK', NEW s \in Sessions, UNCHANGED <<cas, now, rec, takers>>,
           claim'[s].ts <= now, Goes(s)' => Names(rec, s) /\ rec.ts >= claim'[s].ts,
           \A t \in Sessions \ {s} : /\ claim'[t] = claim[t] /\ pc'[t] = pc[t] /\ timer'[t] = timer[t]
                                    /\ (t \in robbed' <=> t \in robbed),
           pc'[s] = "breaking" => s \in Breakers,
           ~cas => InPace(s)' /\ Settles(s)' /\ Looked(s)' /\ Alone(s)',
           ~cas /\ Goes(s)' => Goes(s) \/ \A t \in Sessions \ {s} : ~Writing(t)
    PROVE  LeaseIInv'
<1>1. \A t \in Sessions \ {s} : Goes(t)' <=> Goes(t)
  BY DEF Goes, Believes, Names, Active, ActiveAt
<1>2. NeverTaken' /\ StampsArePast' /\ BreakersBreak'
  BY DEF LeaseIInv, NeverTaken, StampsArePast, BreakersBreak
<1>3. GoingIsCurrent'
  BY <1>1 DEF LeaseIInv, GoingIsCurrent, Names
<1>4. ASSUME ~cas', NEW t \in Sessions \ {s} PROVE InPace(t)' /\ Settles(t)' /\ Looked(t)' /\ Alone(t)'
  <2>1. InPace(t) /\ Settles(t) /\ Looked(t) /\ Alone(t)
    BY <1>4 DEF LeaseIInv, Races
  <2>2. InPace(t)' /\ Settles(t)' /\ Looked(t)'
    BY <2>1 DEF InPace, OnItsWay, Settles, Looked, Names, CanAcquire, ActiveAt
  <2>3. Alone(t)'
    BY <1>1, <1>4, <2>1 DEF Alone, Writing
  <2> QED BY <2>2, <2>3
<1>5. Races'
  BY <1>4 DEF Races
<1> QED BY <1>2, <1>3, <1>5 DEF LeaseIInv

(* A session that concludes with no record goes by none.                      *)
LEMMA GivingUpKeeps ==
    ASSUME LeaseIInv, NEW s \in Sessions, Concludes(s, Released), UNCHANGED <<cas, now, rec, takers>>
    PROVE  LeaseIInv'
<1>1. Released \in Records /\ Released.ts = 0 /\ Released.by \notin Sessions
  BY DEF Released, Records, NoOne
<1>2. LeaseTypeOK' /\ pc'[s] = "idle" /\ claim'[s] = Released
  BY <1>1 DEF LeaseIInv, LeaseTypeOK, Concludes, Done
<1>3. ~Goes(s)'
  BY <1>1, <1>2 DEF Goes, Believes, Names
<1>4. claim'[s].ts <= now
  BY <1>1, <1>2, Numbers DEF LeaseIInv
<1>5. \A t \in Sessions \ {s} : /\ claim'[t] = claim[t] /\ pc'[t] = pc[t] /\ timer'[t] = timer[t]
                               /\ (t \in robbed' <=> t \in robbed)
  BY DEF Concludes, Done, LeaseIInv, LeaseTypeOK
<1>6. InPace(s)' /\ Settles(s)' /\ Looked(s)' /\ Alone(s)'
  BY <1>2 DEF InPace, OnItsWay, Settles, Looked, Alone, Writing
<1> QED BY <1>2, <1>3, <1>4, <1>5, <1>6, QuietStep

(* A session moves on, its claim and the record being what they were.         *)
LEMMA MovingKeeps ==
    ASSUME LeaseIInv, LeaseTypeOK', NEW s \in Sessions, UNCHANGED <<cas, now, rec, claim, hist>>,
           \A t \in Sessions \ {s} : pc'[t] = pc[t] /\ timer'[t] = timer[t],
           pc'[s] = "breaking" => s \in Breakers,
           ~cas => InPace(s)' /\ Settles(s)' /\ Looked(s)' /\ Alone(s)'
    PROVE  LeaseIInv'
<1>1. Goes(s)' <=> Goes(s)
  BY DEF Goes, Believes, Names, Active, ActiveAt, hist
<1>2. claim'[s].ts <= now /\ takers' = takers /\ robbed' = robbed
  BY DEF LeaseIInv, StampsArePast, hist
<1>3. Goes(s)' => Names(rec, s) /\ rec.ts >= claim'[s].ts
  BY <1>1 DEF LeaseIInv, GoingIsCurrent
<1> QED BY <1>1, <1>2, <1>3, QuietStep

(* acquire, renew_if_due: the clock is read.                                  *)
LEMMA ReadClockKeeps ==
    ASSUME LeaseIInv, NEW s \in Sessions, ReadClock(s) PROVE LeaseIInv'
<1>1. /\ LeaseTypeOK' /\ UNCHANGED <<cas, now, rec, claim, hist>> /\ pc'[s] = "clocked" /\ timer'[s] = now
      /\ \A t \in Sessions \ {s} : pc'[t] = pc[t] /\ timer'[t] = timer[t]
  BY DEF ReadClock, LeaseIInv, LeaseTypeOK, hist
<1>2. InPace(s)' /\ Settles(s)' /\ Looked(s)' /\ Alone(s)'
  BY <1>1, Numbers DEF LeaseIInv, InPace, Settles, Looked, Alone, Writing
<1> QED BY <1>1, <1>2, MovingKeeps

(* break_lease begins.                                                       *)
LEMMA BreakKeeps ==
    ASSUME LeaseIInv, NEW s \in Sessions, Break(s) PROVE LeaseIInv'
<1>1. /\ LeaseTypeOK' /\ UNCHANGED <<cas, now, rec, claim, hist>> /\ pc'[s] = "breaking" /\ timer'[s] = now
      /\ \A t \in Sessions \ {s} : pc'[t] = pc[t] /\ timer'[t] = timer[t]
  BY DEF Break, LeaseIInv, LeaseTypeOK, hist
<1>2. InPace(s)' /\ Settles(s)' /\ Looked(s)' /\ Alone(s)' /\ s \in Breakers
  BY <1>1, Numbers DEF Break, LeaseIInv, InPace, Settles, Looked, Alone, Writing
<1> QED BY <1>1, <1>2, MovingKeeps

(* release begins: the record names the session, so no other goes by it.      *)
LEMMA StartReleaseKeeps ==
    ASSUME LeaseIInv, NEW s \in Sessions, StartRelease(s) PROVE LeaseIInv'
<1>1. /\ LeaseTypeOK' /\ UNCHANGED <<cas, now, rec, claim, hist>> /\ pc'[s] = "releasing" /\ timer'[s] = now
      /\ \A t \in Sessions \ {s} : pc'[t] = pc[t] /\ timer'[t] = timer[t]
      /\ rec.by = s
  BY DEF StartRelease, LeaseIInv, LeaseTypeOK, hist, Names
<1>2. InPace(s)' /\ Settles(s)' /\ Looked(s)'
  BY <1>1, Numbers DEF LeaseIInv, InPace, Settles, Looked
<1>3. \A t \in Sessions \ {s} : ~Goes(t)'
  <2>1. \A t \in Sessions \ {s} : ~Goes(t)
    BY <1>1 DEF LeaseIInv, GoingIsCurrent, Names
  <2> QED BY <1>1, <2>1 DEF Goes, Believes, Names, Active, ActiveAt, hist
<1>4. Alone(s)'
  BY <1>3 DEF Alone
<1> QED BY <1>1, <1>2, <1>4, MovingKeeps

(* available: the record is judged by the time the clock showed.              *)
LEMMA LookKeeps ==
    ASSUME LeaseIInv, NEW s \in Sessions, Look(s) PROVE LeaseIInv'
<1>1. CASE ~CanAcquire(rec, s, timer[s])
  BY <1>1, GivingUpKeeps DEF Look
<1>2. CASE CanAcquire(rec, s, timer[s])
  <2>1. /\ LeaseTypeOK' /\ UNCHANGED <<cas, now, rec, claim, hist, timer>>
        /\ pc[s] = "clocked" /\ pc'[s] = "available"
        /\ \A t \in Sessions \ {s} : pc'[t] = pc[t]
    BY <1>2 DEF Look, LeaseIInv, LeaseTypeOK, hist
  <2>2. ASSUME ~cas PROVE InPace(s)' /\ Settles(s)' /\ Looked(s)' /\ Alone(s)'
    <3>1. InPace(s) /\ OnItsWay(s)
      BY <2>1, <2>2 DEF LeaseIInv, Races, OnItsWay
    <3>2. InPace(s)' /\ Settles(s)' /\ Looked(s)'
      BY <1>2, <2>1, <3>1 DEF InPace, Settles, Looked, CanAcquire, ActiveAt, Names
    <3>3. timer[s] \in Nat /\ timer[s] <= now
      BY <3>1, Numbers DEF InPace, LeaseIInv
    <3>4. ASSUME NEW t \in Sessions \ {s}, Goes(t) PROVE FALSE
      BY <1>2, <3>3, <3>4, GoingIsActive DEF LeaseIInv, CanAcquire, Names
    <3>5. Alone(s)'
      BY <2>1, <3>4 DEF Alone, Goes, Believes, Names, Active, ActiveAt, hist
    <3> QED BY <3>2, <3>5
  <2> QED BY <2>1, <2>2, MovingKeeps
<1> QED BY <1>1, <1>2

(* write: the record is read again for its renewal.                           *)
LEMMA ReadCurrentKeeps ==
    ASSUME LeaseIInv, NEW s \in Sessions, ReadCurrent(s) PROVE LeaseIInv'
<1>1. /\ LeaseTypeOK' /\ UNCHANGED <<cas, now, rec, claim, hist, timer>>
      /\ pc[s] \in {"available", "breaking"} /\ pc'[s] = "read"
      /\ \A t \in Sessions \ {s} : pc'[t] = pc[t]
  BY Numbers DEF ReadCurrent, LeaseIInv, LeaseTypeOK, hist
<1>2. ASSUME ~cas PROVE InPace(s)' /\ Settles(s)' /\ Looked(s)' /\ Alone(s)'
  <2>1. InPace(s) /\ Looked(s) /\ Alone(s) /\ OnItsWay(s)
    BY <1>1, <1>2 DEF LeaseIInv, Races, OnItsWay
  <2>2. s \notin Breakers => pc[s] = "available"
    BY <1>1 DEF LeaseIInv, BreakersBreak
  <2>3. InPace(s)' /\ Settles(s)' /\ Looked(s)'
    BY <1>1, <2>1, <2>2 DEF InPace, Settles, Looked, CanAcquire, ActiveAt, Names
  <2>4. Alone(s)'
    BY <1>1, <2>1, <2>2 DEF Alone, Writing, Goes, Believes, Names, Active, ActiveAt, hist
  <2> QED BY <2>3, <2>4
<1> QED BY <1>1, <1>2, MovingKeeps

(* confirm: the first read-back, and the settle interval from then on.        *)
LEMMA ReadBackKeeps ==
    ASSUME LeaseIInv, NEW s \in Sessions, ReadBack(s) PROVE LeaseIInv'
<1>1. CASE ~Confirms(s)
  BY <1>1, GivingUpKeeps DEF ReadBack
<1>2. CASE Confirms(s)
  <2>1. /\ LeaseTypeOK' /\ UNCHANGED <<cas, now, rec, claim, hist>>
        /\ pc'[s] = "settling" /\ timer'[s] = now + Settle
        /\ \A t \in Sessions \ {s} : pc'[t] = pc[t] /\ timer'[t] = timer[t]
    BY <1>2 DEF ReadBack, LeaseIInv, LeaseTypeOK, hist
  <2>2. InPace(s)' /\ Settles(s)' /\ Looked(s)' /\ Alone(s)'
    BY <2>1, Numbers DEF InPace, OnItsWay, Settles, Looked, Alone, Writing, LeaseIInv, StampsArePast
  <2> QED BY <2>1, <2>2, MovingKeeps
<1> QED BY <1>1, <1>2

(* confirm: the second read-back.  All that were on their way to a write when *)
(* the record was written have written by now, and who came later saw it.     *)
LEMMA ReadBackAgainKeeps ==
    ASSUME GrantedUse, LeaseIInv, NEW s \in Sessions, ReadBackAgain(s) PROVE LeaseIInv'
<1>1. CASE ~Confirms(s)
  BY <1>1, GivingUpKeeps DEF ReadBackAgain
<1>2. CASE Confirms(s)
  <2>1. /\ Concludes(s, rec) /\ UNCHANGED <<cas, now, rec, takers>> /\ pc[s] = "settling"
        /\ now >= timer[s] /\ Names(rec, s)
    BY <1>2 DEF ReadBackAgain, Confirms
  <2>2. /\ LeaseTypeOK' /\ pc'[s] = "idle" /\ claim'[s] = rec
        /\ \A t \in Sessions \ {s} : /\ claim'[t] = claim[t] /\ pc'[t] = pc[t] /\ timer'[t] = timer[t]
                                     /\ (t \in robbed' <=> t \in robbed)
    BY <2>1 DEF LeaseIInv, LeaseTypeOK, Concludes, Done
  <2>3. InPace(s)' /\ Settles(s)' /\ Looked(s)' /\ Alone(s)'
    BY <2>2 DEF InPace, OnItsWay, Settles, Looked, Alone, Writing
  <2>4. claim'[s].ts <= now /\ rec.ts >= claim'[s].ts
    BY <2>2, Numbers DEF LeaseIInv, StampsArePast
  <2>5. ASSUME ~cas, Goes(s)', NEW t \in Sessions \ {s}, Writing(t) PROVE FALSE
    <3>1. Settle > MaxDelay
      BY <2>5 DEF GrantedUse, LeaseIInv, LeaseTypeOK
    <3>2. timer[s] >= rec.ts + Settle /\ InPace(t) /\ Looked(t)
      BY <2>1, <2>5 DEF LeaseIInv, Races, Settles
    <3>3. timer[t] <= now /\ now <= timer[t] + MaxDelay
      BY <2>5, <3>2 DEF InPace, Writing, OnItsWay
    <3>4. timer[t] > rec.ts
      BY <2>1, <3>1, <3>2, <3>3, Numbers DEF LeaseIInv
    <3>5. rec.ts + Duration > now /\ rec.by = s /\ s # NoOne
      BY <2>1, <2>2, <2>5 DEF Goes, Believes, Active, ActiveAt, Names, NoOne
    <3>6. CASE pc[t] \in {"available", "read"}
      <4>1. CanAcquire(rec, t, timer[t])
        BY <2>5, <3>2, <3>4, <3>6 DEF Looked, Writing
      <4>2. ActiveAt(rec, timer[t])
        BY <3>3, <3>5, Numbers DEF ActiveAt, LeaseIInv
      <4> QED BY <3>5, <4>1, <4>2 DEF CanAcquire, Names
    <3>7. CASE pc[t] = "releasing"
      BY <3>2, <3>4, <3>5, <3>7 DEF Looked
    <3> QED BY <2>5, <3>6, <3>7 DEF Writing
  <2> QED BY <2>1, <2>2, <2>3, <2>4, <2>5, QuietStep
<1> QED BY <1>1, <1>2

(* A step that replaces the record: by one that carries the session and the   *)
(* time, or by a released one.                                               *)
LEMMA ReplacingKeeps ==
    ASSUME LeaseIInv, LeaseTypeOK', NeverTaken', NEW s \in Sessions, Overwrites(s), UNCHANGED <<cas, now>>,
           rec' = Released \/ (rec'.by = s /\ rec'.ts = now),
           claim'[s] \in {claim[s], Released}, Goes(s)' => Names(rec', s),
           \A t \in Sessions \ {s} : claim'[t] = claim[t] /\ pc'[t] = pc[t] /\ timer'[t] = timer[t],
           pc'[s] \in {"idle", "written"}
    PROVE  LeaseIInv'
<1>1. Released.ts = 0 /\ Released.by = NoOne /\ now \in Nat /\ NoOne \notin Sessions
  BY Numbers DEF Released, NoOne, LeaseIInv
<1>2. \A t \in Sessions \ {s} : ~Goes(t)'
  BY OverwrittenAreRobbed
<1>3. StampsArePast'
  BY <1>1 DEF LeaseIInv, StampsArePast
<1>4. GoingIsCurrent'
  <2> SUFFICES ASSUME Goes(s)' PROVE rec'.ts >= claim'[s].ts
    BY <1>2 DEF GoingIsCurrent, Names
  <2>1. rec'.by = s /\ rec'.ts = now
    BY <1>1 DEF Names
  <2>2. claim'[s].ts <= now /\ claim'[s].ts \in Nat
    BY <1>1, Numbers DEF LeaseIInv, StampsArePast
  <2> QED BY <1>1, <2>1, <2>2
<1>5. BreakersBreak'
  BY DEF LeaseIInv, BreakersBreak
<1>6. ASSUME ~cas', NEW t \in Sessions PROVE InPace(t)' /\ Settles(t)' /\ Looked(t)' /\ Alone(t)'
  <2>1. CASE t = s
    BY <2>1 DEF InPace, OnItsWay, Settles, Looked, Alone, Writing
  <2>2. CASE t # s
    <3>1. InPace(t) /\ Settles(t) /\ Looked(t) /\ pc'[t] = pc[t] /\ timer'[t] = timer[t]
      BY <1>6, <2>2 DEF LeaseIInv, Races
    <3>2. InPace(t)'
      BY <3>1 DEF InPace, OnItsWay
    <3>3. Settles(t)'
      BY <1>1, <2>2 DEF Settles, Names
    <3>4. OnItsWay(t) => timer[t] <= now
      BY <3>1 DEF InPace
    <3>5. Looked(t)'
      <4>1. CASE rec' = Released
        BY <1>1, <4>1 DEF Looked, CanAcquire, ActiveAt
      <4>2. CASE rec'.ts = now
        BY <3>1, <3>4, <4>2, Numbers DEF LeaseIInv, Looked, OnItsWay
      <4> QED BY <4>1, <4>2
    <3>6. Alone(t)'
      <4> SUFFICES ASSUME Writing(t)', Goes(s)' PROVE FALSE
        BY <1>2 DEF Alone
      <4>1. Goes(s)
        BY <1>1 DEF Goes, Believes, Names, Active, ActiveAt, Overwrites
      <4>2. Writing(t) /\ Alone(t)
        BY <1>6, <3>1 DEF Writing, LeaseIInv, Races
      <4> QED BY <2>2, <4>1, <4>2 DEF Alone
    <3> QED BY <3>2, <3>3, <3>5, <3>6
  <2> QED BY <2>1, <2>2
<1>7. Races'
  BY <1>6 DEF Races
<1> QED BY <1>3, <1>4, <1>5, <1>7 DEF LeaseIInv

(* write_over.                                                               *)
LEMMA WriteKeeps ==
    ASSUME GrantedUse, LeaseIInv, NEW s \in Sessions, Write(s) PROVE LeaseIInv'
<1>1. /\ UNCHANGED <<cas, now, writes, timer, claim>> /\ pc[s] = "read" /\ pc'[s] = "written"
      /\ pc' = [pc EXCEPT ![s] = "written"] /\ \A t \in Sessions \ {s} : pc'[t] = pc[t]
  BY DEF Write, LeaseIInv, LeaseTypeOK
<1>2. CASE WriteAllowed(s)
  <2>1. Overwrites(s) /\ rec' = [by |-> s, renewal |-> writes[s], ts |-> now]
    BY <1>2 DEF Write
  <2>2. NeverTaken' /\ takers' \subseteq Sessions /\ robbed' \subseteq Sessions
    BY <1>1, <1>2, <2>1, TakersBreak
  <2>3. LeaseTypeOK'
    BY <1>1, <2>1, <2>2 DEF LeaseIInv, LeaseTypeOK, Records
  <2>4. rec'.by = s /\ rec'.ts = now
    BY <2>1
  <2> QED BY <1>1, <2>1, <2>2, <2>3, <2>4, ReplacingKeeps DEF Names
<1>3. CASE ~WriteAllowed(s)
  <2>1. UNCHANGED <<rec, hist>> /\ cas
    BY <1>3 DEF Write, WriteAllowed
  <2>2. LeaseTypeOK'
    BY <1>1, <2>1 DEF LeaseIInv, LeaseTypeOK, hist
  <2> QED BY <1>1, <2>1, <2>2, MovingKeeps
<1> QED BY <1>2, <1>3

(* release.                                                                  *)
LEMMA ReleaseKeeps ==
    ASSUME GrantedUse, LeaseIInv, NEW s \in Sessions, Release(s) PROVE LeaseIInv'
<1>1. /\ UNCHANGED <<cas, now>> /\ pc[s] = "releasing" /\ pc'[s] = "idle" /\ claim'[s] = Released
      /\ \A t \in Sessions \ {s} : claim'[t] = claim[t] /\ pc'[t] = pc[t] /\ timer'[t] = timer[t]
  BY DEF Release, Done, LeaseIInv, LeaseTypeOK
<1>2. Released \in Records /\ Released.ts = 0 /\ Released.by \notin Sessions
  BY DEF Released, Records, NoOne
<1>3. ~Goes(s)'
  BY <1>1, <1>2 DEF Goes, Believes, Names
<1>4. CASE ReleaseAllowed(s)
  <2>1. Overwrites(s) /\ rec' = Released
    BY <1>4 DEF Release
  <2>2. NeverTaken' /\ takers' \subseteq Sessions /\ robbed' \subseteq Sessions
    BY <1>1, <1>4, <2>1, TakersBreak
  <2>3. LeaseTypeOK'
    BY <1>2, <2>1, <2>2 DEF Release, Done, LeaseIInv, LeaseTypeOK
  <2>4. /\ rec' = Released \/ (rec'.by = s /\ rec'.ts = now)
        /\ claim'[s] \in {claim[s], Released} /\ pc'[s] \in {"idle", "written"}
        /\ Goes(s)' => Names(rec', s)
    BY <1>1, <1>3, <2>1
  <2> QED BY <1>1, <2>1, <2>2, <2>3, <2>4, ReplacingKeeps
<1>5. CASE ~ReleaseAllowed(s)
  <2>1. UNCHANGED <<rec, hist>>
    BY <1>5 DEF Release
  <2>2. LeaseTypeOK'
    BY <1>2, <2>1 DEF Release, Done, LeaseIInv, LeaseTypeOK, hist
  <2>3. InPace(s)' /\ Settles(s)' /\ Looked(s)' /\ Alone(s)' /\ claim'[s].ts <= now
    BY <1>1, <1>2, Numbers DEF InPace, OnItsWay, Settles, Looked, Alone, Writing, LeaseIInv
  <2>4. \A t \in Sessions \ {s} : t \in robbed' <=> t \in robbed
    BY <2>1 DEF hist
  <2> QED BY <1>1, <1>3, <2>1, <2>2, <2>3, <2>4, QuietStep DEF hist
<1> QED BY <1>4, <1>5

(* Time only ends leases, and stops for who would be late.                    *)
LEMMA LeaseTickKeeps == ASSUME LeaseIInv, LeaseTick PROVE LeaseIInv'
<1>1. /\ now \in Nat /\ now' = now + 1 /\ UNCHANGED <<cas, rec, pc, writes, timer, claim, hist>>
  BY Numbers DEF LeaseTick, LeaseIInv
<1>2. LeaseTypeOK' /\ NeverTaken' /\ BreakersBreak'
  BY <1>1 DEF LeaseIInv, LeaseTypeOK, NeverTaken, BreakersBreak, hist
<1>3. \A s \in Sessions : Goes(s)' => Goes(s)
  BY <1>1, Numbers DEF Goes, Believes, Names, Active, ActiveAt, hist, LeaseIInv
<1>4. StampsArePast' /\ GoingIsCurrent'
  BY <1>1, <1>3, Numbers DEF LeaseIInv, StampsArePast, GoingIsCurrent, Names
<1>5. ASSUME ~cas, NEW s \in Sessions PROVE InPace(s)' /\ Settles(s)' /\ Looked(s)' /\ Alone(s)'
  <2>1. InPace(s) /\ Settles(s) /\ Looked(s) /\ Alone(s) /\ (OnItsWay(s) => now < timer[s] + MaxDelay)
    BY <1>5 DEF LeaseIInv, Races, LeaseTick
  <2>2. InPace(s)'
    BY <1>1, <2>1, Numbers DEF InPace, OnItsWay, LeaseIInv
  <2>3. Settles(s)' /\ Looked(s)'
    BY <1>1, <2>1 DEF Settles, Looked, CanAcquire, ActiveAt, Names
  <2>4. Alone(s)'
    BY <1>1, <1>3, <2>1 DEF Alone, Writing
  <2> QED BY <2>2, <2>3, <2>4
<1> QED BY <1>1, <1>2, <1>4, <1>5 DEF LeaseIInv, Races

(* The inductive invariant holds in every reachable state.                   *)
LEMMA LeaseInvariance == ASSUME GrantedUse PROVE LeaseSpec => []LeaseIInv
<1>1. LeaseIInv /\ [LeaseNext]_leaseVars => LeaseIInv'
  <2> SUFFICES ASSUME LeaseIInv, [LeaseNext]_leaseVars PROVE LeaseIInv'
    OBVIOUS
  <2>1. CASE LeaseTick
    BY <2>1, LeaseTickKeeps
  <2>2. ASSUME NEW s \in Sessions, SessionStep(s) PROVE LeaseIInv'
    BY <2>2, ReadClockKeeps, LookKeeps, BreakKeeps, ReadCurrentKeeps, WriteKeeps, ReadBackKeeps,
       ReadBackAgainKeeps, StartReleaseKeeps, ReleaseKeeps DEF SessionStep
  <2>3. CASE UNCHANGED leaseVars
    BY <2>3 DEF LeaseIInv, LeaseTypeOK, NeverTaken, StampsArePast, GoingIsCurrent, BreakersBreak, Races, InPace,
       Settles, Looked, Writing, Alone, OnItsWay, Goes, Believes, Names, Active, ActiveAt, CanAcquire,
       leaseVars, hist
  <2> QED BY <2>1, <2>2, <2>3 DEF LeaseNext
<1> QED BY <1>1, LeaseInitIInv, PTL DEF LeaseSpec

-----------------------------------------------------------------------------
(* Records, clocks and procedures keep their types.                          *)
THEOREM LeaseTypesHold == ASSUME GrantedUse PROVE LeaseSpec => []LeaseTypeOK
BY LeaseInvariance, PTL DEF LeaseIInv

(* Lease rule 3: no two sessions go by an unexpired lease at once, on either   *)
(* kind of store, also after a lease was broken.                             *)
THEOREM LeaseIsExclusive == ASSUME GrantedUse PROVE LeaseSpec => []MutualExclusion
<1>1. LeaseIInv => MutualExclusion
  BY DEF LeaseIInv, GoingIsCurrent, MutualExclusion, Names
<1> QED BY <1>1, LeaseInvariance, PTL

(* Lease: nobody but break_lease replaces the record of a session that goes   *)
(* by its lease.                                                             *)
THEOREM LeaseIsNeverTaken == ASSUME GrantedUse PROVE LeaseSpec => []NeverTaken
BY LeaseInvariance, PTL DEF LeaseIInv

=============================================================================
