------------------------------ MODULE SharedUndo ------------------------------
(***************************************************************************)
(* Undo in a shared document: the suite's history of inverse ops           *)
(* (src/suite-common-core/src/ops.rs), Letters' ops on a document          *)
(* (src/letters-core/src/edit.rs) and the rebase of the stored steps over  *)
(* a peer's edits (src/letters-core/src/collab/rebase.rs).  One user; what *)
(* the peers do arrives as lists of text edits, as Loro reports them.      *)
(*                                                                         *)
(* A document is a sequence of atoms, a character or a paragraph break,    *)
(* each with an id of its own, so that the properties can tell whose it    *)
(* is, and a look: of a character whether it carries a mark, of a break    *)
(* the style of the paragraph it begins.  The first atom stands for the    *)
(* start of the document and is never typed or deleted; offset k lies      *)
(* behind the first k + 1 atoms.                                           *)
(*                                                                         *)
(* Left out: tables, sections, comments and footnotes (the replica refuses *)
(* most of them), breaks and formatting made by a peer, and groups         *)
(* (begin and end: Letters records each action as one step).               *)
(***************************************************************************)
EXTENDS Integers, Sequences, FiniteSets, SequencesExt

CONSTANTS
    Original,   \* the document both start from
    TypedLooks, PeerLooks,  \* looks of the characters the user and the peers type
    MaxMade,    \* bound: actions of the user, undo and redo aside
    MaxHeard    \* bound: edits of peers

Looks == {0, 1}
Atoms == [id : Nat, brk : BOOLEAN, look : Looks]

ASSUME UndoBoundAssumption == MaxMade \in 0..9 /\ MaxHeard \in Nat
ASSUME OriginalAssumption ==
    /\ Original \in Seq(Atoms) /\ Original # <<>> /\ Original[1].brk
    /\ \A i \in DOMAIN Original : Original[i].id = i - 1 /\ i <= 10
ASSUME LooksAssumption == TypedLooks \subseteq Looks /\ PeerLooks \subseteq Looks

VARIABLES
    doc,        \* LiveModel::doc
    undo, redo, \* History: steps, the top one last; a step is a list of ops
    word        \* the top undo step is typed word characters

\* What the bounds and the properties speak of.
VARIABLES
    made,       \* actions of the user
    heard,      \* edits of peers
    mine,       \* the atoms the user typed, deleted, marked or restyled
    rest,       \* the document's atoms had the user done nothing
    lost        \* deleted by the user in a step that a rebase dropped

vars == <<doc, undo, redo, word, made, heard, mine, rest, lost>>

Atom(id, brk, look) == [id |-> id, brk |-> brk, look |-> look]
Ids(d) == {d[i].id : i \in DOMAIN d}
DocLen(d) == Len(d) - 1
Offsets(d) == 0..DocLen(d)
Slice(d, from, to) == SubSeq(d, from + 2, to + 1)

Insert(at, content) == [t |-> "insert", at |-> at, content |-> content]
Delete(at, len)     == [t |-> "delete", at |-> at, len |-> len]
Mark(from, to, l)   == [t |-> "mark", from |-> from, to |-> to, look |-> l]
Restyle(at, l)      == [t |-> "restyle", at |-> at, look |-> l]

---------------------------------------------------------------------------
\* Ops: each application gives the document and the inverse.

(* The members of a set of numbers in order. *)
InOrder(S) ==
    CHOOSE q \in [1..Cardinality(S) -> S] : \A i, j \in 1..Cardinality(S) : i < j => q[i] < q[j]

(* locate: the break before offset `at`, the start of the document included. *)
ParagraphOf(d, at) == Max({i \in 1..(at + 1) : d[i].brk})

(* The characters from `from` to `to` that a mark changes. *)
Changed(d, op) == {k \in op.from..(op.to - 1) : ~d[k + 2].brk /\ d[k + 2].look # op.look}

(* mark's inverse: one op for each run that had another value, in order. *)
Stretches(d, op) ==
    LET changed == Changed(d, op)
        starts == InOrder({k \in changed : k - 1 \notin changed})
        EndOf(k) == CHOOSE n \in (k + 1)..op.to : n \notin changed /\ (k..(n - 1)) \subseteq changed
    IN  [i \in DOMAIN starts |-> Mark(starts[i], EndOf(starts[i]), 1 - op.look)]

Fits(d, op) ==
    CASE op.t \in {"insert", "restyle"} -> op.at \in Offsets(d)
      [] op.t = "delete" -> op.at + op.len \in Offsets(d)
      [] op.t = "mark" -> op.to \in Offsets(d)

Applied(d, op) ==
    CASE op.t = "insert" ->
            [doc |-> SubSeq(d, 1, op.at + 1) \o op.content \o SubSeq(d, op.at + 2, Len(d)),
             inverse |-> <<Delete(op.at, Len(op.content))>>]
      [] op.t = "delete" ->
            [doc |-> SubSeq(d, 1, op.at + 1) \o SubSeq(d, op.at + op.len + 2, Len(d)),
             inverse |-> <<Insert(op.at, Slice(d, op.at, op.at + op.len))>>]
      [] op.t = "mark" ->
            [doc |-> [i \in DOMAIN d |-> IF i - 2 \in Changed(d, op) THEN [d[i] EXCEPT !.look = op.look] ELSE d[i]],
             inverse |-> Stretches(d, op)]
      [] op.t = "restyle" ->
            [doc |-> [d EXCEPT ![ParagraphOf(d, op.at)].look = op.look],
             inverse |-> <<Restyle(op.at, d[ParagraphOf(d, op.at)].look)>>]

(* apply_all: every op in order, the inverse of the last one first. *)
Applying(before, op) ==
    IF before.ok /\ Fits(before.doc, op)
    THEN LET one == Applied(before.doc, op)
         IN  [ok |-> TRUE, doc |-> one.doc, inverse |-> one.inverse \o before.inverse]
    ELSE [before EXCEPT !.ok = FALSE]

ApplyAll(d, ops) ==
    LET after[k \in 0..Len(ops)] ==
            IF k = 0 THEN [ok |-> TRUE, doc |-> d, inverse |-> <<>>]
            ELSE Applying(after[k - 1], ops[k])
    IN  after[Len(ops)]

---------------------------------------------------------------------------
\* The rebase.  A peer's edit is an insert or a delete that says only how
\* many characters.

Inserted(at, len) == [t |-> "insert", at |-> at, len |-> len]
Edits == [t : {"insert", "delete"}, at : Nat, len : Nat]

(* Mutant: the delete takes the inserted text with it. *)
SplitCovering(a, b) == <<Delete(a.at, a.len + b.len)>>

(* A delete that text is inserted in: the later piece first, so that each is
   where it says when they are applied in order. *)
Split(a, b) == <<Delete(b.at + b.len, a.at + a.len - b.at), Delete(a.at, b.at - a.at)>>

(* Mutant: a piece of no characters. *)
LeftOverOrNothing(a, b) ==
    LET end == a.at + a.len
        from == Max({a.at, b.at + b.len})
    IN  (IF end >= b.at + b.len THEN <<Delete(from - b.len, end - from)>> ELSE <<>>)
        \o (IF a.at < b.at THEN <<Delete(a.at, Min({end, b.at}) - a.at)>> ELSE <<>>)

(* What `b` leaves of a delete, the later piece first. *)
LeftOver(a, b) ==
    LET end == a.at + a.len
        from == Max({a.at, b.at + b.len})
    IN  (IF end > b.at + b.len THEN <<Delete(from - b.len, end - from)>> ELSE <<>>)
        \o (IF a.at < b.at THEN <<Delete(a.at, Min({end, b.at}) - a.at)>> ELSE <<>>)

(* through: `a` as it applies after `b` instead of before it. *)
Through(a, b, bFirst) ==
    LET p == b.at
        n == b.len
        end == a.at + a.len
    IN  CASE a.t = "insert" /\ b.t = "insert" ->
                <<[a EXCEPT !.at = IF p < @ \/ (p = @ /\ bFirst) THEN @ + n ELSE @]>>
          [] a.t = "insert" /\ b.t = "delete" ->
                <<[a EXCEPT !.at = IF @ <= p THEN @ ELSE IF @ >= p + n THEN @ - n ELSE p]>>
          [] a.t = "delete" /\ b.t = "insert" ->
                IF a.len = 0 THEN <<>>
                ELSE IF p <= a.at THEN <<Delete(a.at + n, a.len)>>
                ELSE IF p >= end THEN <<a>>
                ELSE Split(a, b)
          [] a.t = "delete" /\ b.t = "delete" ->
                IF a.len = 0 THEN <<>> ELSE LeftOver(a, b)

(* it_lists: two lists, each as it applies after the other. *)
Lists[ab \in Seq(Edits) \X Seq(Edits)] ==
    LET a == ab[1]
        b == ab[2]
    IN  IF a = <<>> \/ b = <<>> THEN ab
        ELSE IF Len(a) = 1 /\ Len(b) = 1
        THEN <<Through(a[1], b[1], TRUE), Through(b[1], a[1], FALSE)>>
        ELSE IF Len(a) = 1 THEN
            LET one == Lists[<<a, <<Head(b)>>>>]
                others == Lists[<<one[1], Tail(b)>>]
            IN  <<others[1], one[2] \o others[2]>>
        ELSE
            LET one == Lists[<<<<Head(a)>>, b>>]
                others == Lists[<<Tail(a), one[2]>>]
            IN  <<one[1] \o others[1], others[2]>>

(* range_through: the pieces of a mark's range after one edit that take in
   something. *)
Piece(from, to, look) == IF from < to THEN <<Mark(from, to, look)>> ELSE <<>>
Pieces(op, edit) ==
    LET p == edit.at
        n == edit.len
    IN  IF edit.t = "insert"
        THEN IF p <= op.from THEN Piece(op.from + n, op.to + n, op.look)
             ELSE IF p >= op.to THEN Piece(op.from, op.to, op.look)
             ELSE Piece(op.from, p, op.look) \o Piece(p + n, op.to + n, op.look)
        ELSE (IF op.from < p THEN Piece(op.from, Min({op.to, p}), op.look) ELSE <<>>)
             \o (IF op.to > p + n THEN Piece(Max({op.from, p + n}) - n, op.to - n, op.look) ELSE <<>>)

AllPieces(ops, edit) == FlattenSeq([i \in DOMAIN ops |-> Pieces(ops[i], edit)])

Ranges(ops, edits) ==
    LET after[k \in 0..Len(edits)] ==
            IF k = 0 THEN ops ELSE AllPieces(after[k - 1], edits[k])
    IN  after[Len(edits)]

(* paragraph_through: no offset when the break before it is deleted. *)
Nowhere == -1
BreakThrough(at, edit) ==
    LET p == edit.at
        n == edit.len
    IN  CASE at = Nowhere -> Nowhere
          [] at # Nowhere /\ edit.t = "insert" -> IF p <= at THEN at + n ELSE at
          [] at # Nowhere /\ edit.t = "delete" ->
                IF p < at /\ at - 1 < p + n THEN Nowhere
                ELSE IF at >= p + n THEN at - n ELSE Min({at, p})

ParagraphThrough(at, edits) ==
    LET after[k \in 0..Len(edits)] ==
            IF k = 0 THEN at ELSE BreakThrough(after[k - 1], edits[k])
    IN  after[Len(edits)]

(* The text effect of an op, and of taking it back. *)
TextOf(op) == IF op.t = "insert" THEN Inserted(op.at, Len(op.content)) ELSE op
Forward(op) ==
    CASE op.t = "insert" -> <<Delete(op.at, Len(op.content))>>
      [] op.t = "delete" -> <<Inserted(op.at, op.len)>>
      [] op.t \in {"mark", "restyle"} -> <<>>

(* Mutant: the step is dropped as if it had been taken back. *)
CarriedAsIs(ops, remote) == remote

(* Rebaser::drop_step: the document keeps the step's forward edit. *)
Carried(ops, remote) ==
    FlattenSeq([i \in DOMAIN ops |-> Forward(ops[Len(ops) + 1 - i])]) \o remote

(* The ops of a step one by one; what the peer did is carried along. *)
Moving(before, op) ==
    LET both == Lists[<<<<TextOf(op)>>, before.remote>>]
        at == ParagraphThrough(op.at, before.remote)
        Then(done, remote) == [fits |-> TRUE, ops |-> before.ops \o done, remote |-> remote]
    IN  CASE ~before.fits -> before
          [] before.fits /\ op.t = "insert" -> Then(<<[op EXCEPT !.at = both[1][1].at]>>, both[2])
          [] before.fits /\ op.t = "delete" -> Then(both[1], both[2])
          [] before.fits /\ op.t = "mark" -> Then(Ranges(<<op>>, before.remote), before.remote)
          [] before.fits /\ op.t = "restyle" ->
                IF at = Nowhere THEN [before EXCEPT !.fits = FALSE]
                ELSE Then(<<Restyle(at, op.look)>>, before.remote)

Moved(ops, remote) ==
    LET after[k \in 0..Len(ops)] ==
            IF k = 0 THEN [fits |-> TRUE, ops |-> <<>>, remote |-> remote]
            ELSE Moving(after[k - 1], ops[k])
    IN  after[Len(ops)]

(* Rebaser::step *)
Step(ops, remote) ==
    LET moved == Moved(ops, remote)
    IN  IF moved.fits THEN moved
        ELSE [moved EXCEPT !.ops = <<>>, !.remote = Carried(ops, remote)]

(* rebase_chain: the top step first; what is left empty is gone. *)
Rebased(before, step) ==
    LET top == Step(step, before.remote)
    IN  [steps |-> (IF top.ops = <<>> THEN <<>> ELSE <<top.ops>>) \o before.steps,
         remote |-> top.remote]

Chain(steps, remote) ==
    LET after[k \in 0..Len(steps)] ==
            IF k = 0 THEN [steps |-> <<>>, remote |-> remote]
            ELSE Rebased(after[k - 1], steps[Len(steps) + 1 - k])
    IN  after[Len(steps)].steps

---------------------------------------------------------------------------
Init ==
    /\ doc = Original
    /\ undo = <<>> /\ redo = <<>> /\ word = FALSE
    /\ made = 0 /\ heard = 0
    /\ mine = {} /\ lost = {}
    /\ rest = ToSet(Original)

Flat(steps) == FlattenSeq(Reverse(steps))

(* History::push: a new step clears redo; typing extends the step before it. *)
Coalesces(prev, next) ==
    /\ Len(prev) = 1 /\ Len(next) = 1
    /\ prev[1].t = "delete" /\ next[1].t = "delete"
    /\ prev[1].at + prev[1].len = next[1].at
Push(inverse, typing) ==
    /\ redo' = <<>>
    /\ word' = typing
    /\ undo' = IF typing /\ word /\ undo # <<>> /\ Coalesces(Last(undo), inverse)
               THEN [undo EXCEPT ![Len(undo)][1].len = @ + inverse[1].len]
               ELSE Append(undo, inverse)

(* apply_ops: one action of the user.  An action that changes nothing has no
   inverse and leaves no step. *)
Does(ops, typing, atoms) ==
    LET done == ApplyAll(doc, ops)
    IN  /\ made < MaxMade
        /\ done.ok /\ done.inverse # <<>>
        /\ doc' = done.doc
        /\ Push(done.inverse, typing)
        /\ mine' = mine \cup atoms
        /\ made' = made + 1
        /\ UNCHANGED <<heard, rest, lost>>

Typed(brk, look) == Atom(10 + made, brk, look)
Spans == {s \in Offsets(doc) \X Offsets(doc) : s[1] < s[2]}

(* insert_text: a character of a word, another one, or a new paragraph, which
   takes the style of the one it is typed in. *)
Type(at, look, typing) ==
    Does(<<Insert(at, <<Typed(FALSE, look)>>)>>, typing, {10 + made})
Enter(at) ==
    Does(<<Insert(at, <<Typed(TRUE, doc[ParagraphOf(doc, at)].look)>>)>>, FALSE, {10 + made})
Replace(from, to) ==
    Does(<<Delete(from, to - from), Insert(from, <<Typed(FALSE, 0)>>)>>, FALSE,
         {10 + made} \cup Ids(Slice(doc, from, to)))
Erase(from, to) == Does(<<Delete(from, to - from)>>, FALSE, Ids(Slice(doc, from, to)))
Format(from, to, look) ==
    Does(<<Mark(from, to, look)>>, FALSE, {doc[k + 2].id : k \in Changed(doc, Mark(from, to, look))})

(* LiveModel::restyle: the paragraphs of a span that have another style. *)
RestyleParagraphs(from, to, look) ==
    LET breaks == {i \in ParagraphOf(doc, from)..(to + 1) : doc[i].brk /\ doc[i].look # look}
        order == InOrder(breaks)
    IN  Does([i \in DOMAIN order |-> Restyle(order[i] - 1, look)], FALSE, {doc[i].id : i \in breaks})

(* diff: an edit that changes one paragraph's text and style at once, here
   its first character taken away. *)
Rewrite(at, look) ==
    LET i == at + 1
    IN  /\ i < Len(doc) /\ doc[i].brk /\ doc[i].look # look /\ ~doc[i + 1].brk
        /\ Does(<<Delete(at, 1), Restyle(at, look)>>, FALSE, {doc[i].id, doc[i + 1].id})

(* History::step: the top step on the document, its inverse on the other
   stack; a step that does not apply is dropped alone. *)
Undo ==
    LET done == ApplyAll(doc, Last(undo))
    IN  /\ undo # <<>>
        /\ undo' = Front(undo)
        /\ word' = FALSE
        /\ IF done.ok
           THEN doc' = done.doc /\ redo' = Append(redo, done.inverse)
           ELSE UNCHANGED <<doc, redo>>
        /\ UNCHANGED <<made, heard, mine, rest, lost>>
Redo ==
    LET done == ApplyAll(doc, Last(redo))
    IN  /\ redo # <<>>
        /\ redo' = Front(redo)
        /\ word' = FALSE
        /\ IF done.ok
           THEN doc' = done.doc /\ undo' = Append(undo, done.inverse)
           ELSE UNCHANGED <<doc, undo>>
        /\ UNCHANGED <<made, heard, mine, rest, lost>>

(* What one import changes: Loro reports it from left to right. *)
PeerOps(d, n) ==
    {Insert(at, <<Atom(20 + n, FALSE, look)>>) : at \in Offsets(d), look \in PeerLooks}
    \cup {Delete(at, len) : at \in Offsets(d), len \in 1..2}
RightOf(f, e) ==
    LET end == IF e.t = "insert" THEN e.at + 1 ELSE e.at
    IN  f.at > end \/ (f.at = end /\ f.t # e.t)
Imports ==
    {<<e>> : e \in PeerOps(doc, heard)}
    \cup {p \in PeerOps(doc, heard) \X PeerOps(doc, heard + 1) : RightOf(p[2], p[1])}

(* What an op, a step, the steps of a stack would bring back. *)
Brings(op) == IF op.t = "insert" THEN Ids(op.content) ELSE {}
StepBrings(ops) == UNION {Brings(ops[j]) : j \in DOMAIN ops}
Kept(steps) == UNION {StepBrings(steps[i]) : i \in DOMAIN steps}

(* import_remote: the document changes and both chains are rebased. *)
PeerEdits(ops) ==
    LET done == ApplyAll(doc, ops)
        remote == [i \in DOMAIN ops |-> TextOf(ops[i])]
        gone == Ids(doc) \ Ids(done.doc)
        new == ToSet(done.doc) \ ToSet(doc)
    IN  /\ heard + Len(ops) <= MaxHeard
        /\ done.ok
        /\ doc' = done.doc
        /\ word' = FALSE
        /\ undo' = Chain(undo, remote)
        /\ redo' = Chain(redo, remote)
        /\ heard' = heard + Len(ops)
        /\ rest' = {a \in rest \cup new : a.id \notin gone}
        /\ lost' = lost \cup (Kept(undo) \ Kept(undo'))
        /\ UNCHANGED <<made, mine>>

Next ==
    \/ \E at \in Offsets(doc) :
        \/ \E look \in TypedLooks, typing \in BOOLEAN : Type(at, look, typing)
        \/ Enter(at)
        \/ \E look \in Looks : Rewrite(at, look)
    \/ \E s \in Spans :
        \/ Replace(s[1], s[2]) \/ Erase(s[1], s[2])
        \/ \E look \in Looks : Format(s[1], s[2], look)
    \/ \E from, to \in Offsets(doc), look \in Looks : from <= to /\ RestyleParagraphs(from, to, look)
    \/ Undo \/ Redo
    \/ \E ops \in Imports : PeerEdits(ops)
Spec == Init /\ [][Next]_vars

---------------------------------------------------------------------------
Undone == ApplyAll(doc, Flat(undo))
Redone == ApplyAll(doc, Flat(redo))

OpOK(op) ==
    \/ op.t = "insert" /\ op.at \in Nat /\ op.content # <<>>
    \/ op.t = "delete" /\ op.at \in Nat /\ op.len \in Nat \ {0}
    \/ op.t = "mark" /\ op.from \in Nat /\ op.to \in Nat /\ op.from < op.to /\ op.look \in Looks
    \/ op.t = "restyle" /\ op.at \in Nat /\ op.look \in Looks

(* No atom twice in a text, a step, a stack. *)
TextOnce(d) == \A i, j \in DOMAIN d : d[i].id = d[j].id => i = j
OpsOnce(ops) ==
    /\ \A j \in DOMAIN ops : ops[j].t = "insert" => TextOnce(ops[j].content)
    /\ \A j, k \in DOMAIN ops : j # k => Brings(ops[j]) \cap Brings(ops[k]) = {}
StepsOnce(steps) ==
    /\ \A i \in DOMAIN steps : OpsOnce(steps[i])
    /\ \A i, k \in DOMAIN steps : i # k => StepBrings(steps[i]) \cap StepBrings(steps[k]) = {}

(* Stored steps are sound whatever they were moved over: no delete or mark
   takes in nothing; and every atom is in one place only, the document or a
   single op of one of the stacks that would bring it back, so that no
   sequence of undo, redo and imports gives a text twice. *)
TypeOK ==
    /\ doc[1].id = 0
    /\ \A steps \in {undo, redo} : \A i \in DOMAIN steps : \A j \in DOMAIN steps[i] : OpOK(steps[i][j])
    /\ TextOnce(doc) /\ StepsOnce(undo) /\ StepsOnce(redo)
    /\ Ids(doc) \cap (Kept(undo) \cup Kept(redo)) = {} /\ Kept(undo) \cap Kept(redo) = {}
    /\ word \in BOOLEAN
    /\ made \in 0..MaxMade /\ heard \in 0..MaxHeard

Text(atoms) == {a \in atoms : ~a.brk}

(* Undoing everything gives back the text that would be there had the user
   done nothing: what was there at first and what the peers typed, less what
   they deleted and what a dropped step deleted, every character as it looked
   and the first ones in their order; and both chains still fit, so that undo
   and redo drop no step they could have taken, and no step of theirs is empty
   and would swallow a press (ADR 0011: undoing them all restores the document; rebase.rs: undo
   never takes back other people's words). *)
UndoAllLeavesTheRest ==
    LET d == Undone.doc
        first == {i \in DOMAIN d : d[i].id < 10}
    IN  /\ Undone.ok /\ Redone.ok
        /\ <<>> \notin ToSet(undo) \cup ToSet(redo)
        /\ Ids(d) = {a.id : a \in rest} \ lost
        /\ Text(ToSet(d)) = {a \in Text(rest) : a.id \notin lost}
        /\ \A i, j \in first : i < j => d[i].id < d[j].id

(* An undo or a redo leaves what is not the user's where it is and as it
   looks: text and the breaks of a peer or of the shared original that the
   user did not touch.  What is where: two by two in their order, which says
   their sequence as no atom is in a text twice (TypeOK). *)
Others(d) == {i \in DOMAIN d : d[i].id \notin mine}
Bare(d) == [i \in DOMAIN d |-> [d[i] EXCEPT !.look = IF d[i].brk THEN 0 ELSE @]]
Standing(d) ==
    {<<Bare(d)[p[1]], Bare(d)[p[2]]>> : p \in {q \in Others(d) \X Others(d) : q[1] <= q[2]}}
TakesBackOwn == [][Undo \/ Redo => Standing(doc') = Standing(doc)]_vars

(* An undo or a redo restyles no paragraph the user did not restyle: "a
   paragraph restyle whose paragraph break the peer deleted is dropped"
   (rebase.rs). *)
StyleOf(d) == {a \in ToSet(d) : a.id \notin mine /\ a.brk}
RestylesOwn == [][Undo \/ Redo => StyleOf(doc') = StyleOf(doc)]_vars
=============================================================================
