---------------------------- MODULE VersionGraph ----------------------------
(***************************************************************************)
(* How a reader judges the versions a store lists, and what it then shows:  *)
(* graph::split (collab/dcp-core/src/graph.rs), with the search for cycles   *)
(* of on_cycles step by step, and view::build (collab/dcp-core/src/view.rs), *)
(* with a fetch of every head.                                              *)
(*                                                                         *)
(* The store may list anything: parents that come later in the list, or the  *)
(* version itself.  A list of parents is the set of those that are listed,   *)
(* looked at in any order; that it repeats a parent, is too long or names    *)
(* one the store does not list (where that is no option) is a choice made    *)
(* when it is judged.  Whether a file matches its version is a choice made   *)
(* when it is fetched.                                                      *)
(***************************************************************************)
EXTENDS Integers, Sequences, FiniteSets, FiniteSetsExt, SequencesExt

CONSTANTS
    Versions,       \* the versions listed, in the order of their timestamps
    MaxListed       \* bound: listed parents of a version

ASSUME VersionsAssumption == Versions \subseteq Nat \ {0} /\ IsFiniteSet(Versions)
ASSUME ListedAssumption == MaxListed \in Nat

VARIABLES
    parents,    \* what each version lists: this is the input, it never changes
    phase,      \* where the reader is
    index,      \* on_cycles: when each version was first met, or None
    low,        \* on_cycles: the earliest version known to be reached from it
    component,  \* on_cycles: the component each version was found to be in, or None
    stack,      \* on_cycles: versions met and in no component yet
    work,       \* on_cycles: the path being searched, and the edges left to look at
    rejected,   \* the versions refused for their parents
    live,       \* view: the versions not dropped
    pending,    \* view: heads of this round still to be fetched
    verified,   \* view: heads whose file was good
    droppedAny  \* view: whether a file of this round was bad

search == <<index, low, component, stack, work>>
view == <<live, pending, verified, droppedAny>>
vars == <<parents, phase, search, rejected, view>>

None == -1

-----------------------------------------------------------------------------
(* heads: no other listed version names it. *)
HeadsOf(listed) == {v \in listed : \A w \in listed : v \notin parents[w]}

(* Mutant: unknown parents pass. *)
CheckNewParentsUnseen(existing, ps) == ps = {} => existing = {}

(* check_new_parents: what a store accepts for a new version. *)
CheckNewParents(existing, ps) ==
    /\ ps \subseteq existing
    /\ ps = {} => existing = {}

(* Mutant: a head that is old is dropped. *)
PruneByAge(cutoff) ==
    LET kept == {v \in Versions : v >= cutoff}
    IN  {v \in Versions : v \in kept \/ \E w \in kept : v \in parents[w]}

(* prune: versions stamped before the cutoff, a version's number being its   *)
(* timestamp.                                                               *)
Prune(cutoff) ==
    LET kept == {v \in Versions : v >= cutoff} \cup HeadsOf(Versions)
    IN  {v \in Versions : v \in kept \/ \E w \in kept : v \in parents[w]}

-----------------------------------------------------------------------------
(* on_cycles: Tarjan's strongly connected components, child to parent. *)

Met == {v \in Versions : index[v] # None}
OnStack == Range(stack)
Top == work[Len(work)]

Init ==
    /\ parents \in [Versions -> {ps \in SUBSET Versions : Cardinality(ps) <= MaxListed}]
    /\ phase = "cycles"
    /\ index = [v \in Versions |-> None]
    /\ low = [v \in Versions |-> 0]
    /\ component = [v \in Versions |-> None]
    /\ stack = <<>>
    /\ work = <<>>
    /\ rejected = {}
    /\ live = {}
    /\ pending = {}
    /\ verified = {}
    /\ droppedAny = FALSE

(* A version met for the first time: numbered, and put on both stacks. *)
Meet(v, path) ==
    /\ index' = [index EXCEPT ![v] = Cardinality(Met)]
    /\ low' = [low EXCEPT ![v] = Cardinality(Met)]
    /\ stack' = Append(stack, v)
    /\ work' = Append(path, [node |-> v, todo |-> parents[v]])

StartRoot ==
    /\ phase = "cycles"
    /\ work = <<>>
    /\ Met # Versions
    /\ Meet(Min(Versions \ Met), <<>>)
    /\ UNCHANGED <<parents, phase, component, rejected, view>>

(* Mutant: a version already in a component lowers the number, too. *)
LowersAlways(to) == TRUE
Lowers(to) == to \in OnStack

(* The next edge of the version on top. *)
Follow(to) ==
    /\ phase = "cycles"
    /\ work # <<>>
    /\ to \in Top.todo
    /\ LET path == [work EXCEPT ![Len(work)].todo = @ \ {to}]
       IN  IF to \notin Met
           THEN Meet(to, path)
           ELSE /\ work' = path
                /\ low' = IF Lowers(to)
                          THEN [low EXCEPT ![Top.node] = Min({@, index[to]})]
                          ELSE low
                /\ UNCHANGED <<index, stack>>
    /\ UNCHANGED <<parents, phase, component, rejected, view>>

(* The lowest number goes up the path. *)
HandUp(path) ==
    IF path = <<>> THEN low
    ELSE [low EXCEPT ![path[Len(path)].node] = Min({@, low[Top.node]})]

(* No edge is left: a version that reaches nothing earlier ends a component. *)
Leave ==
    /\ phase = "cycles"
    /\ work # <<>>
    /\ Top.todo = {}
    /\ work' = Front(work)
    /\ low' = HandUp(Front(work))
    /\ LET v == Top.node
           at == CHOOSE i \in DOMAIN stack : stack[i] = v
           members == {stack[i] : i \in at .. Len(stack)}
       IN  IF low'[v] = index[v]
           THEN /\ stack' = SubSeq(stack, 1, at - 1)
                /\ component' = [w \in Versions |-> IF w \in members THEN v ELSE component[w]]
           ELSE UNCHANGED <<stack, component>>
    /\ UNCHANGED <<parents, phase, index, rejected, view>>

(* Mutant: a version is on a cycle when it was met again. *)
OnCycleByLow == {v \in Versions : low[v] < index[v]}

(* The versions in a component of more than one. *)
OnCycle == {v \in Versions : \E w \in Versions \ {v} : component[v] = component[w]}

-----------------------------------------------------------------------------
(* validate, check_one, split *)

Rejects(malformed) == malformed \cup OnCycle \cup {v \in Versions : v \in parents[v]}

Judge ==
    /\ phase = "cycles"
    /\ work = <<>>
    /\ Met = Versions
    /\ \E malformed \in SUBSET Versions :
           /\ rejected' = Rejects(malformed)
           /\ live' = Versions \ Rejects(malformed)
    /\ phase' = "round"
    /\ UNCHANGED <<parents, search, pending, verified, droppedAny>>

-----------------------------------------------------------------------------
(* build: the loop over the heads *)

(* Mutants: heads of what was accepted, dropped or not; whatever is left.    *)
RoundHeadsDropped == HeadsOf(Versions \ rejected) \ verified
RoundAll == live \ verified

RoundHeads == HeadsOf(live) \ verified

StartRound ==
    /\ phase = "round"
    /\ pending' = RoundHeads
    /\ droppedAny' = FALSE
    /\ phase' = "fetch"
    /\ UNCHANGED <<parents, search, rejected, live, verified>>

Good(h) ==
    /\ phase = "fetch"
    /\ h \in pending
    /\ verified' = verified \cup {h}
    /\ pending' = pending \ {h}
    /\ UNCHANGED <<parents, phase, search, rejected, live, droppedAny>>

(* Mutants: the loop does not notice; the version stays. *)
BadUnnoticed(h) ==
    /\ phase = "fetch"
    /\ h \in pending
    /\ live' = live \ {h}
    /\ pending' = pending \ {h}
    /\ UNCHANGED <<parents, phase, search, rejected, verified, droppedAny>>
BadKept(h) ==
    /\ phase = "fetch"
    /\ h \in pending
    /\ pending' = pending \ {h}
    /\ droppedAny' = TRUE
    /\ UNCHANGED <<parents, phase, search, rejected, live, verified>>

(* The file does not match: the version is dropped. *)
Bad(h) ==
    /\ phase = "fetch"
    /\ h \in pending
    /\ live' = live \ {h}
    /\ pending' = pending \ {h}
    /\ droppedAny' = TRUE
    /\ UNCHANGED <<parents, phase, search, rejected, verified>>

(* The store fails: so does the call. *)
FetchFails ==
    /\ phase = "fetch"
    /\ pending # {}
    /\ phase' = "failed"
    /\ UNCHANGED <<parents, search, rejected, view>>

EndRound ==
    /\ phase = "fetch"
    /\ pending = {}
    /\ phase' = IF droppedAny THEN "round" ELSE "done"
    /\ UNCHANGED <<parents, search, rejected, view>>

Next ==
    \/ StartRoot \/ Leave \/ Judge \/ StartRound \/ FetchFails \/ EndRound
    \/ \E v \in Versions : Follow(v) \/ Good(v) \/ Bad(v)

Spec == Init /\ [][Next]_vars /\ WF_vars(Next)

-----------------------------------------------------------------------------
(* Properties *)

TypeOK ==
    /\ phase \in {"cycles", "round", "fetch", "failed", "done"}
    /\ index \in [Versions -> Nat \cup {None}]
    /\ low \in [Versions -> Nat]
    /\ component \in [Versions -> Versions \cup {None}]
    /\ OnStack \subseteq Versions
    /\ live \cup rejected \subseteq Versions
    /\ verified \cup pending \subseteq live
    /\ droppedAny \in BOOLEAN

(* Reference: the proper ancestors of a version, along listed versions. *)
Ancestors(v) ==
    LET up[n \in 0 .. Cardinality(Versions)] ==
            IF n = 0 THEN parents[v] ELSE up[n - 1] \cup UNION {parents[p] : p \in up[n - 1]}
    IN  up[Cardinality(Versions)]

(* on_cycles: whenever a version has its component, that holds exactly the   *)
(* versions that are its ancestors and its descendants at once, in whatever  *)
(* order edges are looked at and wherever the search began.                 *)
ComponentsAreStrong ==
    LET anc == [v \in Versions |-> Ancestors(v)]
    IN  \A v, w \in Versions : component[v] # None /\ v # w =>
            (component[w] = component[v] <=> v \in anc[w] /\ w \in anc[v])

(* "A cycle exists exactly when some version lists a descendant": apart from *)
(* malformed lists, exactly the versions that list themselves or a           *)
(* descendant are refused, and none for what happens to its relatives ("not  *)
(* cascaded").                                                              *)
OnlyDescendantListersOut ==
    phase # "cycles" => Rejects({}) = {v \in Versions : v \in Ancestors(v)}

(* At the end the view shows the heads of what is left, all verified. *)
ViewIsHeads == phase = "done" => verified = HeadsOf(live)

(* build: "a good parent surfaces".  What the view hides of the accepted      *)
(* versions with a good file are ancestors of a verified head; it is empty   *)
(* only when every accepted version had a bad file.                         *)
GoodParentsSurface ==
    /\ ViewIsHeads
    /\ phase = "done" => \A v \in live \ verified : \E h \in verified : v \in Ancestors(h)

(* A head once verified stays a head in every later round. *)
VerifiedStayHeads == verified \subseteq HeadsOf(live)

(* The writer's rule and the reader's agree: versions that were each stored  *)
(* under check_new_parents are never on a cycle and never refused unless     *)
(* their list is malformed.                                                 *)
Grown == \A v \in Versions : CheckNewParents({w \in Versions : w < v}, parents[v])
WrittenIsAccepted ==
    Grown /\ phase # "cycles" => Rejects({}) = {}

(* Retention never makes or loses a head of a graph that grew in time.       *)
PruneKeepsHeads ==
    Grown /\ phase = "done" =>
        \A cutoff \in Versions : HeadsOf(Prune(cutoff)) = HeadsOf(Versions)

(* Every reading comes to an end. *)
Ends == <>(phase \in {"done", "failed"})
=============================================================================
