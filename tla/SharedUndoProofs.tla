--------------------------- MODULE SharedUndoProofs ---------------------------
(***************************************************************************)
(* Every atom is in one place only, whatever is undone, redone and imported *)
(* in whatever order: the document, or one op of one step of one stack.     *)
(* For any document, any number of actions and edits of peers the bounds    *)
(* allow.  On the way: the recursion of it_lists ends, and a rebase neither *)
(* adds to what a stack keeps nor makes two of it.                          *)
(*                                                                         *)
(* Ops own what they would bring back.  Applying an op hands its atoms to   *)
(* the document and what it takes away to the inverse (4, 5); a rebase      *)
(* hands on what it moves (7-12).  That it_lists is a function at all needs *)
(* a measure that shrinks: the characters its two lists hold, an empty edit *)
(* counting for one (6-9).                                                  *)
(***************************************************************************)
EXTENDS SharedUndo, DataLemmas

-----------------------------------------------------------------------------
(* 1. Recursion step by step, and the types                                *)

(* A step for each number of 1 .. n, from S to S.                          *)
Stepwise(step, n, S) == n \in Nat /\ step \in [1 .. n -> [S -> S]]

Passing(f, n, a, step, S) ==
  f \in [0 .. n -> S] /\ f[0] = a /\ \A k \in 1 .. n : f[k] = step[k][f[k - 1]]

(* What a recursion over 1 .. n passes through when its steps differ.      *)
LEMMA Passes ==
  ASSUME NEW n, NEW S, NEW a \in S, NEW step, Stepwise(step, n, S)
  PROVE  \E f : Passing(f, n, a, step, S)
<1>0. n \in Nat /\ step \in [1 .. n -> [S -> S]]
  BY DEF Stepwise
<1> DEFINE Upto(m) == \E f : Passing(f, m, a, step, S)
           F == {m \in 0 .. n : Upto(m)}
<1>1. 0 \in F
  <2>1. [k \in 0 .. 0 |-> a] \in [0 .. 0 -> S] /\ [k \in 0 .. 0 |-> a][0] = a
    OBVIOUS
  <2>2. \A k \in 1 .. 0 : FALSE
    OBVIOUS
  <2>3. Upto(0)
    <3> DEFINE g == [k \in 0 .. 0 |-> a]
    <3>1. g \in [0 .. 0 -> S] /\ g[0] = a
      BY <2>1
    <3> HIDE DEF g
    <3>2. Passing(g, 0, a, step, S)
      BY <2>2, <3>1 DEF Passing
    <3> QED BY <3>2
  <2> QED BY <1>0, <2>3
<1>2. ASSUME NEW m \in 0 .. n - 1, m \in F PROVE m + 1 \in F
  <2>1. PICK f : f \in [0 .. m -> S] /\ f[0] = a /\ \A k \in 1 .. m : f[k] = step[k][f[k - 1]]
    BY <1>2 DEF Passing
  <2> DEFINE g == [k \in 0 .. m + 1 |-> IF k = m + 1 THEN step[m + 1][f[m]] ELSE f[k]]
  <2>0. m + 1 \in 1 .. n /\ step[m + 1] \in [S -> S] /\ f[m] \in S
    BY <1>0, <2>1
  <2>2. g \in [0 .. m + 1 -> S] /\ g[0] = a
    BY <2>0, <2>1
  <2>3. ASSUME NEW k \in 1 .. m + 1 PROVE g[k] = step[k][g[k - 1]]
    <3>1. CASE k = m + 1
      BY <1>0, <3>1
    <3>2. CASE k \in 1 .. m
      BY <1>0, <2>1, <3>2
    <3> QED BY <3>1, <3>2
  <2>4. m + 1 \in 0 .. n
    BY <1>0
  <2>5. Upto(m + 1)
    <3> HIDE DEF g
    <3> QED BY <2>2, <2>3 DEF Passing
  <2> QED BY <2>4, <2>5
<1> HIDE DEF F
<1>3. 0 .. n \subseteq F
  BY <1>0, <1>1, <1>2, StepByStep
<1>4. n \in F
  BY <1>0, <1>3
<1> QED BY <1>4 DEF F

-----------------------------------------------------------------------------
(* Types                                                                   *)
Docs == {d \in Seq(Atoms) : d # <<>> /\ d[1].brk /\ d[1].id = 0}
Contents == Seq(Atoms) \ {<<>>}
InsertOps == [t : {"insert"}, at : Nat, content : Contents]
DeleteOps == [t : {"delete"}, at : Nat, len : Nat \ {0}]
MarkOps == {m \in [t : {"mark"}, from : Nat, to : Nat, look : Looks] : m.from < m.to}
RestyleOps == [t : {"restyle"}, at : Nat, look : Looks]
Ops == InsertOps \cup DeleteOps \cup MarkOps \cup RestyleOps
Outcomes == [ok : BOOLEAN, doc : Docs, inverse : Seq(Ops)]

(* An op by its kind.                                                      *)
LEMMA OpsByKind ==
  ASSUME NEW op \in Ops
  PROVE  /\ op.t \in {"insert", "delete", "mark", "restyle"}
         /\ op.t = "insert" => op \in InsertOps /\ op.at \in Nat /\ op.content \in Contents
         /\ op.t = "delete" => op \in DeleteOps /\ op.at \in Nat /\ op.len \in Nat \ {0}
         /\ op.t = "mark" => op \in MarkOps /\ op.from \in Nat /\ op.to \in Nat
             /\ op.look \in Looks /\ op.from < op.to
         /\ op.t = "restyle" => op \in RestyleOps /\ op.at \in Nat /\ op.look \in Looks
BY DEF Ops, InsertOps, DeleteOps, MarkOps, RestyleOps

(* What makes an op.                                                       *)
LEMMA OpsMade ==
  /\ \A at \in Nat, content \in Contents : Insert(at, content) \in Ops
  /\ \A at \in Nat, len \in Nat \ {0} : Delete(at, len) \in Ops
  /\ \A from, to \in Nat, l \in Looks : from < to => Mark(from, to, l) \in Ops
  /\ \A at \in Nat, l \in Looks : Restyle(at, l) \in Ops
BY DEF Ops, InsertOps, DeleteOps, MarkOps, RestyleOps, Insert, Delete, Mark, Restyle

-----------------------------------------------------------------------------
(* 2. Texts: what is put in and what is taken out                          *)

(* A document's places and its first atom.                                 *)
LEMMA DocFacts ==
  ASSUME NEW d \in Docs
  PROVE  /\ d \in Seq(Atoms) /\ Len(d) \in Nat \ {0} /\ DOMAIN d = 1 .. Len(d) /\ 1 \in DOMAIN d
         /\ \A i \in DOMAIN d : d[i] \in Atoms /\ d[i].id \in Nat /\ d[i].brk \in BOOLEAN
             /\ d[i].look \in Looks
         /\ d[1].brk /\ d[1].id = 0
         /\ DocLen(d) \in Nat /\ DocLen(d) = Len(d) - 1
<1>1. d \in Seq(Atoms) /\ d # <<>> /\ d[1].brk /\ d[1].id = 0
  BY DEF Docs
<1>2. Len(d) \in Nat \ {0} /\ DOMAIN d = 1 .. Len(d) /\ \A i \in 1 .. Len(d) : d[i] \in Atoms
  BY <1>1
<1> QED BY <1>1, <1>2 DEF DocLen, Atoms

(* What a document is when its first atom is the start still.              *)
LEMMA DocMade ==
  ASSUME NEW d \in Docs, NEW e \in Seq(Atoms), Len(e) > 0, e[1].brk = d[1].brk, e[1].id = d[1].id
  PROVE  e \in Docs
<1>1. d[1].brk /\ d[1].id = 0
  BY DocFacts
<1>2. e # <<>>
  OBVIOUS
<1> QED BY <1>1, <1>2 DEF Docs

(* The pieces of a text at its offsets.                                    *)
LEMMA PieceFacts ==
  ASSUME NEW d \in Docs, NEW from \in Nat, NEW to \in Nat, from <= to, to <= DocLen(d)
  PROVE  /\ SubSeq(d, 1, from + 1) \in Seq(Atoms) /\ Len(SubSeq(d, 1, from + 1)) = from + 1
         /\ \A i \in 1 .. from + 1 : SubSeq(d, 1, from + 1)[i] = d[i]
         /\ Slice(d, from, to) \in Seq(Atoms) /\ Len(Slice(d, from, to)) = to - from
         /\ \A i \in 1 .. to - from : Slice(d, from, to)[i] = d[from + 1 + i]
         /\ SubSeq(d, to + 2, Len(d)) \in Seq(Atoms)
             /\ Len(SubSeq(d, to + 2, Len(d))) = DocLen(d) - to
         /\ \A i \in 1 .. DocLen(d) - to : SubSeq(d, to + 2, Len(d))[i] = d[to + 1 + i]
<1>1. d \in Seq(Atoms) /\ Len(d) \in Nat \ {0} /\ DocLen(d) = Len(d) - 1
        /\ \A i \in 1 .. Len(d) : d[i] \in Atoms
  BY DocFacts
<1>2. /\ SubSeq(d, 1, from + 1) \in Seq(Atoms) /\ Len(SubSeq(d, 1, from + 1)) = from + 1
      /\ \A i \in 1 .. from + 1 : SubSeq(d, 1, from + 1)[i] = d[i]
  <2> DEFINE n == from + 1
  <2>1. n \in Int /\ 1 <= n /\ \A i \in 1 .. n : d[i] \in Atoms
    BY <1>1
  <2> HIDE DEF n
  <2>2. /\ SubSeq(d, 1, n) \in Seq(Atoms) /\ Len(SubSeq(d, 1, n)) = n - 1 + 1
        /\ \A i \in 1 .. n - 1 + 1 : SubSeq(d, 1, n)[i] = d[1 + i - 1]
    BY <2>1, SubSeqProperties
  <2>3. \A i \in 1 .. n : i \in 1 .. n - 1 + 1 /\ 1 + i - 1 = i
    BY <2>1
  <2>4. \A i \in 1 .. n : SubSeq(d, 1, n)[i] = d[i]
    BY <2>2, <2>3
  <2> QED BY <2>1, <2>2, <2>4 DEF n
<1>3. /\ Slice(d, from, to) \in Seq(Atoms) /\ Len(Slice(d, from, to)) = to - from
      /\ \A i \in 1 .. to - from : Slice(d, from, to)[i] = d[from + 1 + i]
  <2> DEFINE m == from + 2
             n == to + 1
  <2>1. m \in Int /\ n \in Int /\ \A i \in m .. n : d[i] \in Atoms
    BY <1>1
  <2>6. n - m + 1 = to - from /\ m <= n + 1 /\ m - 1 = from + 1
    BY <1>1
  <2> HIDE DEF n, m
  <2>2. /\ SubSeq(d, m, n) \in Seq(Atoms) /\ Len(SubSeq(d, m, n)) = IF m <= n THEN n - m + 1 ELSE 0
        /\ \A i \in 1 .. n - m + 1 : SubSeq(d, m, n)[i] = d[m + i - 1]
    BY <2>1, SubSeqProperties
  <2>3. \A i \in 1 .. to - from : i \in 1 .. n - m + 1 /\ m + i - 1 = from + 1 + i
    BY <2>1, <2>6
  <2>4. \A i \in 1 .. to - from : SubSeq(d, m, n)[i] = d[from + 1 + i]
    BY <2>2, <2>3
  <2>5. Len(SubSeq(d, m, n)) = to - from
    BY <2>1, <2>2, <2>6
  <2>7. Slice(d, from, to) = SubSeq(d, m, n)
    BY DEF Slice, m, n
  <2> QED BY <2>2, <2>4, <2>5, <2>7
<1>4. /\ SubSeq(d, to + 2, Len(d)) \in Seq(Atoms) /\ Len(SubSeq(d, to + 2, Len(d))) = DocLen(d) - to
      /\ \A i \in 1 .. DocLen(d) - to : SubSeq(d, to + 2, Len(d))[i] = d[to + 1 + i]
  <2> DEFINE m == to + 2
             n == Len(d)
  <2>1. m \in Int /\ n \in Int /\ \A i \in m .. n : d[i] \in Atoms
    BY <1>1
  <2>6. n - m + 1 = DocLen(d) - to /\ m <= n + 1 /\ m - 1 = to + 1
    BY <1>1
  <2> HIDE DEF n, m
  <2>2. /\ SubSeq(d, m, n) \in Seq(Atoms) /\ Len(SubSeq(d, m, n)) = IF m <= n THEN n - m + 1 ELSE 0
        /\ \A i \in 1 .. n - m + 1 : SubSeq(d, m, n)[i] = d[m + i - 1]
    BY <2>1, SubSeqProperties
  <2>3. \A i \in 1 .. DocLen(d) - to : i \in 1 .. n - m + 1 /\ m + i - 1 = to + 1 + i
    BY <1>1, <2>1, <2>6
  <2>4. \A i \in 1 .. DocLen(d) - to : SubSeq(d, m, n)[i] = d[to + 1 + i]
    BY <2>2, <2>3
  <2>5. Len(SubSeq(d, m, n)) = DocLen(d) - to
    BY <1>1, <2>1, <2>2, <2>6
  <2> QED BY <2>2, <2>4, <2>5 DEF n, m
<1> QED BY <1>2, <1>3, <1>4

(* What a concatenation of three holds, by place.                          *)
LEMMA ThreeFacts ==
  ASSUME NEW S, NEW p \in Seq(S), NEW c \in Seq(S), NEW q \in Seq(S)
  PROVE  /\ (p \o c) \o q \in Seq(S) /\ Len((p \o c) \o q) = Len(p) + Len(c) + Len(q)
         /\ Len(p) \in Nat /\ Len(c) \in Nat /\ Len(q) \in Nat
         /\ \A i \in 1 .. Len(p) : ((p \o c) \o q)[i] = p[i]
         /\ \A i \in 1 .. Len(c) : ((p \o c) \o q)[Len(p) + i] = c[i]
         /\ \A i \in 1 .. Len(q) : ((p \o c) \o q)[Len(p) + Len(c) + i] = q[i]
<1>1. PICK pc : pc = p \o c
  OBVIOUS
<1>2. /\ pc \in Seq(S) /\ Len(pc) = Len(p) + Len(c) /\ Len(p) \in Nat /\ Len(c) \in Nat
      /\ \A i \in 1 .. Len(p) : pc[i] = p[i]
      /\ \A i \in 1 .. Len(c) : pc[Len(p) + i] = c[i]
  BY <1>1, ConcatFacts
<1>3. /\ pc \o q \in Seq(S) /\ Len(pc \o q) = Len(pc) + Len(q) /\ Len(q) \in Nat
      /\ \A i \in 1 .. Len(pc) : (pc \o q)[i] = pc[i]
      /\ \A i \in 1 .. Len(q) : (pc \o q)[Len(pc) + i] = q[i]
  <2>1. pc \in Seq(S)
    BY <1>2
  <2> QED BY <2>1, ConcatFacts
<1>4. \A i \in 1 .. Len(p) : i \in 1 .. Len(pc)
  BY <1>2
<1>5. \A i \in 1 .. Len(c) : Len(p) + i \in 1 .. Len(pc)
  BY <1>2
<1>6. \A i \in 1 .. Len(p) : (pc \o q)[i] = p[i]
  BY <1>2, <1>3, <1>4
<1>7. \A i \in 1 .. Len(c) : (pc \o q)[Len(p) + i] = c[i]
  BY <1>2, <1>3, <1>5
<1>8. \A i \in 1 .. Len(q) : (pc \o q)[Len(p) + Len(c) + i] = q[i]
  BY <1>2, <1>3
<1>9. Len(pc \o q) = Len(p) + Len(c) + Len(q)
  BY <1>2, <1>3
<1> QED BY <1>1, <1>2, <1>3, <1>6, <1>7, <1>8, <1>9

(* A text with something put in at an offset.                              *)
Put(d, at, c) == SubSeq(d, 1, at + 1) \o c \o SubSeq(d, at + 2, Len(d))

(* Its atoms by place.                                                     *)
IsPut(e, d, at, c, n) ==
  /\ e \in Docs /\ Len(e) = Len(d) + n /\ n \in Nat \ {0} /\ at < Len(d)
  /\ \A i \in 1 .. at + 1 : e[i] = d[i]
  /\ \A i \in 1 .. n : e[at + 1 + i] = c[i]
  /\ \A i \in at + 2 .. Len(d) : e[i + n] = d[i]

(* What a text with something put in holds, by place.                      *)
LEMMA PutFacts ==
  ASSUME NEW d \in Docs, NEW at \in Nat, at <= DocLen(d), NEW c \in Contents
  PROVE  IsPut(Put(d, at, c), d, at, c, Len(c))
<1>0. PICK e, n : e = Put(d, at, c) /\ n = Len(c)
  OBVIOUS
<1>1. PICK p, q : p = SubSeq(d, 1, at + 1) /\ q = SubSeq(d, at + 2, Len(d))
  OBVIOUS
<1>2. c \in Seq(Atoms) /\ n \in Nat \ {0}
  BY <1>0 DEF Contents
<1>3. /\ p \in Seq(Atoms) /\ Len(p) = at + 1 /\ \A i \in 1 .. at + 1 : p[i] = d[i]
      /\ q \in Seq(Atoms) /\ Len(q) = DocLen(d) - at
          /\ \A i \in 1 .. DocLen(d) - at : q[i] = d[at + 1 + i]
  <2>1. at <= at
    OBVIOUS
  <2>2. /\ SubSeq(d, 1, at + 1) \in Seq(Atoms) /\ Len(SubSeq(d, 1, at + 1)) = at + 1
        /\ \A i \in 1 .. at + 1 : SubSeq(d, 1, at + 1)[i] = d[i]
        /\ SubSeq(d, at + 2, Len(d)) \in Seq(Atoms)
            /\ Len(SubSeq(d, at + 2, Len(d))) = DocLen(d) - at
        /\ \A i \in 1 .. DocLen(d) - at : SubSeq(d, at + 2, Len(d))[i] = d[at + 1 + i]
    BY <2>1, PieceFacts
  <2> QED BY <1>1, <2>2
<1>4. Len(d) \in Nat \ {0} /\ DocLen(d) = Len(d) - 1 /\ DocLen(d) \in Nat
  BY DocFacts
<1>5. e = (p \o c) \o q
  BY <1>0, <1>1 DEF Put
<1>6. /\ e \in Seq(Atoms) /\ Len(e) = at + 1 + n + (DocLen(d) - at)
      /\ \A i \in 1 .. at + 1 : e[i] = p[i]
      /\ \A i \in 1 .. n : e[at + 1 + i] = c[i]
      /\ \A i \in 1 .. DocLen(d) - at : e[at + 1 + n + i] = q[i]
  <2>1. p \in Seq(Atoms) /\ c \in Seq(Atoms) /\ q \in Seq(Atoms)
    BY <1>2, <1>3
  <2>2. /\ (p \o c) \o q \in Seq(Atoms) /\ Len((p \o c) \o q) = Len(p) + Len(c) + Len(q)
        /\ \A i \in 1 .. Len(p) : ((p \o c) \o q)[i] = p[i]
        /\ \A i \in 1 .. Len(c) : ((p \o c) \o q)[Len(p) + i] = c[i]
        /\ \A i \in 1 .. Len(q) : ((p \o c) \o q)[Len(p) + Len(c) + i] = q[i]
    BY <2>1, ThreeFacts
  <2>3. /\ e \in Seq(Atoms) /\ Len(e) = Len(p) + Len(c) + Len(q)
        /\ \A i \in 1 .. Len(p) : e[i] = p[i]
        /\ \A i \in 1 .. Len(c) : e[Len(p) + i] = c[i]
        /\ \A i \in 1 .. Len(q) : e[Len(p) + Len(c) + i] = q[i]
    BY <1>5, <2>2
  <2>4. Len(p) = at + 1 /\ Len(c) = n /\ Len(q) = DocLen(d) - at
    BY <1>0, <1>3
  <2> QED BY <2>3, <2>4
<1>7. Len(e) = Len(d) + n
  BY <1>2, <1>3, <1>4, <1>6
<1>8. \A i \in 1 .. at + 1 : e[i] = d[i]
  BY <1>3, <1>6
<1>9. \A i \in 1 .. n : e[at + 1 + i] = c[i]
  BY <1>3, <1>6
<1>10. \A i \in at + 2 .. Len(d) : e[i + n] = d[i]
  <2> SUFFICES ASSUME NEW i \in at + 2 .. Len(d) PROVE e[i + n] = d[i]
    OBVIOUS
  <2>1. i - at - 1 \in 1 .. DocLen(d) - at /\ at + 1 + n + (i - at - 1) = i + n
          /\ at + 1 + (i - at - 1) = i
    BY <1>2, <1>4
  <2> QED BY <1>3, <1>6, <2>1
<1>11. e \in Docs
  <2>1. 1 \in 1 .. at + 1 /\ Len(e) > 0
    BY <1>2, <1>4, <1>7
  <2>2. e[1] = d[1]
    BY <1>8, <2>1
  <2> QED BY <1>6, <2>1, <2>2, DocMade
<1>12. at < Len(d)
  BY <1>4
<1>13. IsPut(e, d, at, c, n)
  BY <1>2, <1>7, <1>8, <1>9, <1>10, <1>11, <1>12 DEF IsPut
<1> QED BY <1>0, <1>13

(* A text with something taken out at an offset.                           *)
Cut(d, at, n) == SubSeq(d, 1, at + 1) \o SubSeq(d, at + n + 2, Len(d))

(* Its atoms by place, and those of what was taken out.                    *)
IsCut(e, d, at, n, s) ==
  /\ e \in Docs /\ Len(e) = Len(d) - n /\ at + n < Len(d)
  /\ \A i \in 1 .. at + 1 : e[i] = d[i]
  /\ \A i \in at + 2 .. Len(d) - n : e[i] = d[i + n]
  /\ s \in Contents /\ Len(s) = n /\ \A i \in 1 .. n : s[i] = d[at + 1 + i]

(* What is left of a text and what was taken out, by place.                *)
LEMMA CutFacts ==
  ASSUME NEW d \in Docs, NEW at \in Nat, NEW n \in Nat \ {0}, at + n <= DocLen(d)
  PROVE  IsCut(Cut(d, at, n), d, at, n, Slice(d, at, at + n))
<1>0. PICK e, s : e = Cut(d, at, n) /\ s = Slice(d, at, at + n)
  OBVIOUS
<1>1. PICK p, q, to : p = SubSeq(d, 1, at + 1) /\ q = SubSeq(d, to + 2, Len(d)) /\ to = at + n
  OBVIOUS
<1>2. to \in Nat /\ at <= to /\ to <= DocLen(d) /\ to - at = n
  BY <1>1
<1>3. /\ p \in Seq(Atoms) /\ Len(p) = at + 1 /\ \A i \in 1 .. at + 1 : p[i] = d[i]
      /\ q \in Seq(Atoms) /\ Len(q) = DocLen(d) - to
          /\ \A i \in 1 .. DocLen(d) - to : q[i] = d[to + 1 + i]
  <2>1. to \in Nat /\ at <= to /\ to <= DocLen(d)
    BY <1>2
  <2>2. /\ SubSeq(d, 1, at + 1) \in Seq(Atoms) /\ Len(SubSeq(d, 1, at + 1)) = at + 1
        /\ \A i \in 1 .. at + 1 : SubSeq(d, 1, at + 1)[i] = d[i]
        /\ SubSeq(d, to + 2, Len(d)) \in Seq(Atoms)
            /\ Len(SubSeq(d, to + 2, Len(d))) = DocLen(d) - to
        /\ \A i \in 1 .. DocLen(d) - to : SubSeq(d, to + 2, Len(d))[i] = d[to + 1 + i]
    BY <2>1, PieceFacts
  <2> QED BY <1>1, <2>2
<1>4. Len(d) \in Nat \ {0} /\ DocLen(d) = Len(d) - 1 /\ DocLen(d) \in Nat
  BY DocFacts
<1>5. s = Slice(d, at, to)
  BY <1>0, <1>1
<1>6. s \in Seq(Atoms) /\ Len(s) = to - at /\ \A i \in 1 .. to - at : s[i] = d[at + 1 + i]
  <2>1. to \in Nat /\ at <= to /\ to <= DocLen(d)
    BY <1>2
  <2>2. /\ Slice(d, at, to) \in Seq(Atoms) /\ Len(Slice(d, at, to)) = to - at
        /\ \A i \in 1 .. to - at : Slice(d, at, to)[i] = d[at + 1 + i]
    BY <2>1, PieceFacts
  <2> QED BY <1>5, <2>2
<1>7. e = p \o q
  BY <1>0, <1>1 DEF Cut
<1>8. /\ e \in Seq(Atoms) /\ Len(e) = (at + 1) + (DocLen(d) - to)
      /\ \A i \in 1 .. at + 1 : e[i] = p[i]
      /\ \A i \in 1 .. DocLen(d) - to : e[at + 1 + i] = q[i]
  <2>1. p \in Seq(Atoms) /\ q \in Seq(Atoms)
    BY <1>3
  <2>2. /\ p \o q \in Seq(Atoms) /\ Len(p \o q) = Len(p) + Len(q)
        /\ \A i \in 1 .. Len(p) : (p \o q)[i] = p[i]
        /\ \A i \in 1 .. Len(q) : (p \o q)[Len(p) + i] = q[i]
    BY <2>1, ConcatFacts
  <2>3. Len(p) = at + 1 /\ Len(q) = DocLen(d) - to
    BY <1>3
  <2> QED BY <1>7, <2>2, <2>3
<1>9. Len(e) = Len(d) - n
  BY <1>2, <1>3, <1>4, <1>8
<1>10. \A i \in 1 .. at + 1 : e[i] = d[i]
  BY <1>3, <1>8
<1>11. \A i \in at + 2 .. Len(d) - n : e[i] = d[i + n]
  <2> SUFFICES ASSUME NEW i \in at + 2 .. Len(d) - n PROVE e[i] = d[i + n]
    OBVIOUS
  <2>1. i - at - 1 \in 1 .. DocLen(d) - to /\ at + 1 + (i - at - 1) = i
          /\ to + 1 + (i - at - 1) = i + n
    BY <1>2, <1>4
  <2> QED BY <1>3, <1>8, <2>1
<1>12. e \in Docs
  <2>1. 1 \in 1 .. at + 1 /\ Len(e) > 0
    BY <1>2, <1>4, <1>9
  <2>2. e[1] = d[1]
    BY <1>10, <2>1
  <2> QED BY <1>8, <2>1, <2>2, DocMade
<1>13. at + n < Len(d)
  BY <1>2, <1>4
<1>14. s \in Contents
  <2>1. s # <<>>
    BY <1>2, <1>6
  <2> QED BY <1>6, <2>1 DEF Contents
<1>15. Len(s) = n /\ \A i \in 1 .. n : s[i] = d[at + 1 + i]
  BY <1>2, <1>6
<1>16. IsCut(e, d, at, n, s)
  BY <1>9, <1>10, <1>11, <1>12, <1>13, <1>14, <1>15 DEF IsCut
<1> QED BY <1>0, <1>16

(* What an insert does and how it is taken back.                           *)
LEMMA InsertedFacts ==
  ASSUME NEW d \in Docs, NEW op \in InsertOps, Fits(d, op)
  PROVE  /\ IsPut(Applied(d, op).doc, d, op.at, op.content, Len(op.content))
         /\ Applied(d, op).inverse = <<Delete(op.at, Len(op.content))>>
         /\ op.at \in Nat /\ op.content \in Contents /\ op.t = "insert"
<1>1. PICK at, c : at = op.at /\ c = op.content
  OBVIOUS
<1>2. at \in Nat /\ c \in Contents /\ op.t = "insert"
  BY <1>1 DEF InsertOps
<1>3. at <= DocLen(d)
  BY <1>1, <1>2, DocFacts DEF Fits, Offsets
<1>4. /\ Applied(d, op).doc = Put(d, op.at, op.content)
      /\ Applied(d, op).inverse = <<Delete(op.at, Len(op.content))>>
  BY <1>2 DEF Applied, Put
<1>6. IsPut(Put(d, at, c), d, at, c, Len(c))
  BY <1>2, <1>3, PutFacts
<1> QED BY <1>1, <1>2, <1>4, <1>6

(* What a delete does and how it is taken back.                            *)
LEMMA DeletedFacts ==
  ASSUME NEW d \in Docs, NEW op \in DeleteOps, Fits(d, op)
  PROVE  /\ IsCut(Applied(d, op).doc, d, op.at, op.len, Slice(d, op.at, op.at + op.len))
         /\ Applied(d, op).inverse = <<Insert(op.at, Slice(d, op.at, op.at + op.len))>>
         /\ op.at \in Nat /\ op.len \in Nat \ {0} /\ op.t = "delete"
<1>1. PICK at, n : at = op.at /\ n = op.len
  OBVIOUS
<1>2. at \in Nat /\ n \in Nat \ {0} /\ op.t = "delete"
  BY <1>1 DEF DeleteOps
<1>3. at + n <= DocLen(d)
  BY <1>1, <1>2, DocFacts DEF Fits, Offsets
<1>4. /\ Applied(d, op).doc = Cut(d, op.at, op.len)
      /\ Applied(d, op).inverse = <<Insert(op.at, Slice(d, op.at, op.at + op.len))>>
  BY <1>2 DEF Applied, Cut
<1>6. IsCut(Cut(d, at, n), d, at, n, Slice(d, at, at + n))
  BY <1>2, <1>3, CutFacts
<1> QED BY <1>1, <1>2, <1>4, <1>6

-----------------------------------------------------------------------------
(* 3. Marks and paragraph styles                                           *)

(* A finite set of numbers in order.                                       *)
LEMMA InOrderFacts ==
  ASSUME NEW S \in SUBSET Nat, IsFiniteSet(S)
  PROVE  /\ Cardinality(S) \in Nat /\ InOrder(S) \in [1 .. Cardinality(S) -> S]
         /\ \A i, j \in 1 .. Cardinality(S) : i < j => InOrder(S)[i] < InOrder(S)[j]
<1> DEFINE R == {p \in S \X S : p[1] < p[2]}
<1>1. /\ \A x \in S : <<x, x>> \notin R
      /\ \A x, y, z \in S : <<x, y>> \in R /\ <<y, z>> \in R => <<x, z>> \in R
      /\ \A x, y \in S : x # y => <<x, y>> \in R \/ <<y, x>> \in R
  OBVIOUS
<1>2. \A x, y \in S : <<x, y>> \in R => x < y
  OBVIOUS
<1> HIDE DEF R
<1>3. PICK f \in [1 .. Cardinality(S) -> S] : \A i, j \in 1 .. Cardinality(S) : i < j
        => <<f[i], f[j]>> \in R
  BY <1>1, SortedList
<1>4. \A i, j \in 1 .. Cardinality(S) : i < j => f[i] < f[j]
  BY <1>2, <1>3
<1>5. Cardinality(S) \in Nat
  BY FS_CardinalityType
<1>6. \E q \in [1 .. Cardinality(S) -> S] : \A i, j \in 1 .. Cardinality(S) : i < j => q[i] < q[j]
  BY <1>3, <1>4
<1> QED BY <1>5, <1>6 DEF InOrder

(* The paragraph an offset lies in begins with a break at or before it.    *)
LEMMA ParagraphFacts ==
  ASSUME NEW d \in Docs, NEW at \in Nat, at <= DocLen(d)
  PROVE  LET i == ParagraphOf(d, at) IN i \in DOMAIN d /\ i <= at + 1 /\ d[i].brk
<1> DEFINE T == {i \in 1 .. (at + 1) : d[i].brk}
<1>1. 1 \in T /\ T \in SUBSET Nat /\ at + 1 \in Nat /\ \A k \in T : k <= at + 1
  BY DocFacts
<1>2. T \subseteq 1 .. at + 1 /\ \A i \in T : d[i].brk
  OBVIOUS
<1>3. ParagraphOf(d, at) = Max(T)
  BY DEF ParagraphOf
<1> HIDE DEF T
<1>5. T # {}
  BY <1>1
<1>4. Max(T) \in T
  BY <1>1, <1>5, MaxIsGreatest
<1>6. DOMAIN d = 1 .. Len(d) /\ DocLen(d) = Len(d) - 1 /\ Len(d) \in Nat
  BY DocFacts
<1>7. Max(T) \in 1 .. at + 1 /\ d[Max(T)].brk
  BY <1>2, <1>4
<1> QED BY <1>3, <1>6, <1>7

(* What a mark changes lies between its ends.                              *)
LEMMA ChangedFacts ==
  ASSUME NEW d \in Docs, NEW op \in MarkOps
  PROVE  /\ Changed(d, op) \in SUBSET Nat /\ IsFiniteSet(Changed(d, op))
             /\ op.to \notin Changed(d, op)
         /\ \A k \in Changed(d, op) : op.from <= k /\ k < op.to
         /\ op.from \in Nat /\ op.to \in Nat /\ op.look \in Looks /\ op.t = "mark"
<1>1. op.from \in Nat /\ op.to \in Nat /\ op.look \in Looks /\ op.t = "mark"
  BY DEF MarkOps
<1>2. Changed(d, op) \subseteq op.from .. op.to - 1
  BY DEF Changed
<1>3. IsFiniteSet(op.from .. op.to - 1)
  BY <1>1, FS_Interval
<1>4. IsFiniteSet(Changed(d, op))
  BY <1>2, <1>3, FS_Subset
<1> QED BY <1>1, <1>2, <1>4

(* The inverse of a mark: stretches of what it changed.                    *)
LEMMA StretchesFacts ==
  ASSUME NEW d \in Docs, NEW op \in MarkOps
  PROVE  Stretches(d, op) \in Seq(MarkOps)
<1> DEFINE c == Changed(d, op)
           T == {k \in c : k - 1 \notin c}
           starts == InOrder(T)
           EndOf(k) == CHOOSE n \in (k + 1) .. op.to : n \notin c /\ (k .. (n - 1)) \subseteq c
           s == [i \in DOMAIN starts |-> Mark(starts[i], EndOf(starts[i]), 1 - op.look)]
<1>1. /\ c \in SUBSET Nat /\ IsFiniteSet(c) /\ op.to \notin c
      /\ \A k \in c : op.from <= k /\ k < op.to
      /\ op.from \in Nat /\ op.to \in Nat /\ op.look \in Looks
  BY ChangedFacts
<1>2. Stretches(d, op) = s
  BY DEF Stretches
<1> HIDE DEF c
<1>3. T \in SUBSET Nat /\ T \subseteq c
  BY <1>1
<1>4. IsFiniteSet(T)
  BY <1>1, <1>3, FS_Subset
<1>5. Cardinality(T) \in Nat /\ starts \in [1 .. Cardinality(T) -> T]
  BY <1>3, <1>4, InOrderFacts
<1>6. ASSUME NEW k \in c
      PROVE  EndOf(k) \in (k + 1) .. op.to
  <2> DEFINE U == {n \in (k + 1) .. op.to : n \notin c}
  <2>1. U \in SUBSET Nat /\ op.to \in U
    BY <1>1, <1>6
  <2>2. PICK n \in U : \A m \in U : n <= m
    BY <2>1, LeastNatural
  <2>3. n \in (k + 1) .. op.to /\ n \notin c
    OBVIOUS
  <2>4. (k .. (n - 1)) \subseteq c
    <3> SUFFICES ASSUME NEW m \in k .. (n - 1), m \notin c PROVE FALSE
      OBVIOUS
    <3>1. m # k /\ m \in (k + 1) .. op.to /\ m < n
      BY <1>1, <1>6, <2>3
    <3>2. m \in U
      BY <3>1
    <3> QED BY <1>1, <2>2, <2>3, <3>1, <3>2
  <2>5. \E x \in (k + 1) .. op.to : x \notin c /\ (k .. (x - 1)) \subseteq c
    BY <2>3, <2>4
  <2> QED BY <2>5
<1> HIDE DEF EndOf, starts
<1>7. ASSUME NEW i \in 1 .. Cardinality(T)
      PROVE  Mark(starts[i], EndOf(starts[i]), 1 - op.look) \in MarkOps
  <2>1. starts[i] \in c /\ starts[i] \in Nat
    BY <1>1, <1>3, <1>5
  <2>2. EndOf(starts[i]) \in (starts[i] + 1) .. op.to
    BY <1>6, <2>1
  <2>3. 1 - op.look \in Looks
    BY <1>1 DEF Looks
  <2>4. EndOf(starts[i]) \in Nat /\ starts[i] < EndOf(starts[i])
    BY <1>1, <2>1, <2>2
  <2> QED BY <2>1, <2>3, <2>4 DEF MarkOps, Mark
<1>8. s = [i \in 1 .. Cardinality(T) |-> Mark(starts[i], EndOf(starts[i]), 1 - op.look)]
  BY <1>5
<1> HIDE DEF s, T
<1>9. s \in [1 .. Cardinality(T) -> MarkOps]
  BY <1>7, <1>8
<1>10. s \in Seq(MarkOps)
  BY <1>5, <1>9
<1> QED BY <1>2, <1>10

(* A text that differs only in looks.                                      *)
SameAtoms(e, d) ==
  /\ e \in Docs /\ Len(e) = Len(d)
  /\ \A i \in DOMAIN d : e[i].id = d[i].id /\ e[i].brk = d[i].brk

(* What a mark does.                                                       *)
LEMMA MarkedFacts ==
  ASSUME NEW d \in Docs, NEW op \in MarkOps
  PROVE  SameAtoms(Applied(d, op).doc, d) /\ Applied(d, op).inverse \in Seq(MarkOps)
<1> DEFINE e == [i \in DOMAIN d |-> IF i - 2 \in Changed(d, op) THEN [d[i] EXCEPT !.look = op.look] ELSE d[i]]
<1>1. op.t = "mark" /\ op.look \in Looks
  BY ChangedFacts
<1>2. Applied(d, op).doc = e /\ Applied(d, op).inverse = Stretches(d, op)
  BY <1>1 DEF Applied
<1>3. Len(d) \in Nat \ {0} /\ DOMAIN d = 1 .. Len(d) /\ 1 \in DOMAIN d
        /\ \A i \in DOMAIN d : d[i] \in Atoms
  BY DocFacts
<1>4. \A i \in DOMAIN d : e[i] \in Atoms /\ e[i].id = d[i].id /\ e[i].brk = d[i].brk
  BY <1>1, <1>3 DEF Atoms
<1>5. DOMAIN e = 1 .. Len(d)
  BY <1>3
<1>6. e = [i \in 1 .. Len(d) |-> e[i]]
  BY <1>3
<1> HIDE DEF e
<1>7. e \in [1 .. Len(d) -> Atoms]
  BY <1>3, <1>4, <1>5, <1>6
<1>8. e \in Seq(Atoms) /\ Len(e) = Len(d)
  BY <1>3, <1>7
<1>9. e \in Docs
  BY <1>3, <1>4, <1>8, DocMade
<1> QED BY <1>2, <1>4, <1>8, <1>9, StretchesFacts DEF SameAtoms

(* What a restyle does.                                                    *)
LEMMA RestyledFacts ==
  ASSUME NEW d \in Docs, NEW op \in RestyleOps, Fits(d, op)
  PROVE  SameAtoms(Applied(d, op).doc, d) /\ Applied(d, op).inverse \in Seq(RestyleOps)
<1> DEFINE p == ParagraphOf(d, op.at)
           e == [d EXCEPT ![p].look = op.look]
<1>1. op.t = "restyle" /\ op.look \in Looks /\ op.at \in Nat
  BY DEF RestyleOps
<1>2. Applied(d, op).doc = e /\ Applied(d, op).inverse = <<Restyle(op.at, d[p].look)>>
  BY <1>1 DEF Applied
<1>3. Len(d) \in Nat \ {0} /\ DOMAIN d = 1 .. Len(d) /\ 1 \in DOMAIN d /\ d \in Seq(Atoms)
      /\ \A i \in DOMAIN d : d[i] \in Atoms /\ d[i].look \in Looks
  BY DocFacts
<1>4. op.at <= DocLen(d)
  BY <1>1, DocFacts DEF Fits, Offsets
<1>5. p \in DOMAIN d
  BY <1>1, <1>4, ParagraphFacts
<1> HIDE DEF p
<1>6. \A i \in DOMAIN d : e[i] = IF i = p THEN [d[p] EXCEPT !.look = op.look] ELSE d[i]
  BY <1>3, <1>5
<1>7. [d[p] EXCEPT !.look = op.look] \in Atoms
  BY <1>1, <1>3, <1>5 DEF Atoms
<1>8. \A i \in DOMAIN d : e[i].id = d[i].id /\ e[i].brk = d[i].brk
  BY <1>3, <1>5, <1>6 DEF Atoms
<1>9. e \in Seq(Atoms) /\ Len(e) = Len(d)
  BY <1>3, <1>5, <1>7
<1> HIDE DEF e
<1>10. e \in Docs
  BY <1>3, <1>8, <1>9, DocMade
<1>11. Restyle(op.at, d[p].look) \in RestyleOps
  BY <1>1, <1>3, <1>5 DEF Restyle, RestyleOps
<1>12. <<Restyle(op.at, d[p].look)>> \in Seq(RestyleOps)
  BY <1>11, OneFacts
<1> QED BY <1>2, <1>8, <1>9, <1>10, <1>12 DEF SameAtoms

-----------------------------------------------------------------------------
(* 4. The atoms of a text                                                  *)

OfLength(c, n) == Len(c) = n

(* Where the atoms of a text that got another one inside come from.        *)
LEMMA PutAtoms ==
  ASSUME NEW d \in Docs, NEW e, NEW at \in Nat, NEW c \in Contents, NEW n, OfLength(c, n), IsPut(e, d, at, c, n)
  PROVE  /\ \A i \in DOMAIN e : \/ \E j \in DOMAIN d : e[i] = d[j] /\ i = (IF j <= at + 1 THEN j ELSE j + n)
                                \/ \E j \in DOMAIN c : e[i] = c[j] /\ i = at + 1 + j
         /\ \A j \in DOMAIN d : \E i \in DOMAIN e : e[i] = d[j]
         /\ \A j \in DOMAIN c : \E i \in DOMAIN e : e[i] = c[j]
<1>1. /\ e \in Docs /\ Len(e) = Len(d) + n /\ n \in Nat \ {0} /\ at < Len(d)
      /\ \A i \in 1 .. at + 1 : e[i] = d[i]
      /\ \A i \in 1 .. n : e[at + 1 + i] = c[i]
      /\ \A i \in at + 2 .. Len(d) : e[i + n] = d[i]
  BY DEF IsPut
<1>2. Len(d) \in Nat \ {0} /\ DOMAIN d = 1 .. Len(d)
  BY DocFacts
<1>3. DOMAIN e = 1 .. Len(e)
  BY <1>1, DocFacts
<1>4. DOMAIN c = 1 .. n
  BY <1>1, SeqFacts DEF Contents, OfLength
<1> PICK m : m = Len(d)
  OBVIOUS
<1>5. ASSUME NEW i \in DOMAIN e
      PROVE \/ \E j \in DOMAIN d : e[i] = d[j] /\ i = (IF j <= at + 1 THEN j ELSE j + n)
            \/ \E j \in DOMAIN c : e[i] = c[j] /\ i = at + 1 + j
  <2>0. i \in 1 .. m + n
    BY <1>1, <1>3
  <2>1. CASE i <= at + 1
    BY <1>1, <1>2, <2>0, <2>1
  <2>2. CASE i > at + 1 /\ i <= at + 1 + n
    <3>1. i - (at + 1) \in 1 .. n /\ i = at + 1 + (i - (at + 1))
      BY <1>1, <2>0, <2>2
    <3> QED BY <1>1, <1>4, <3>1
  <2>3. CASE i > at + 1 + n
    <3>1. i - n \in at + 2 .. Len(d) /\ i = (i - n) + n /\ i - n \in 1 .. m /\ ~(i - n <= at + 1)
      BY <1>1, <1>2, <2>0, <2>3
    <3>2. e[(i - n) + n] = d[i - n]
      BY <1>1, <3>1
    <3> QED BY <1>2, <3>1, <3>2
  <2> QED BY <2>0, <2>1, <2>2, <2>3, <1>1
<1>6. ASSUME NEW j \in DOMAIN d PROVE \E i \in DOMAIN e : e[i] = d[j]
  <2>1. CASE j <= at + 1
    <3>1. j \in DOMAIN e /\ j \in 1 .. at + 1
      BY <1>1, <1>2, <1>3, <2>1
    <3> QED BY <1>1, <3>1
  <2>2. CASE j > at + 1
    <3>1. j + n \in DOMAIN e /\ j \in at + 2 .. Len(d)
      BY <1>1, <1>2, <1>3, <2>2
    <3> QED BY <1>1, <3>1
  <2> QED BY <1>2, <2>1, <2>2
<1>7. ASSUME NEW j \in DOMAIN c PROVE \E i \in DOMAIN e : e[i] = c[j]
  <2>1. at + 1 + j \in DOMAIN e /\ j \in 1 .. n
    BY <1>1, <1>2, <1>3, <1>4
  <2> QED BY <1>1, <2>1
<1> QED BY <1>5, <1>6, <1>7

(* Its ids; and none is there twice when none was and they differ.         *)
LEMMA PutIds ==
  ASSUME NEW d \in Docs, NEW e, NEW at \in Nat, NEW c \in Contents, NEW n, OfLength(c, n), IsPut(e, d, at, c, n)
  PROVE  /\ Ids(e) = Ids(d) \cup Ids(c)
         /\ TextOnce(d) /\ TextOnce(c) /\ Ids(d) \cap Ids(c) = {} => TextOnce(e)
<1>1. /\ \A i \in DOMAIN e : \/ \E j \in DOMAIN d : e[i] = d[j] /\ i = (IF j <= at + 1 THEN j ELSE j + n)
                             \/ \E j \in DOMAIN c : e[i] = c[j] /\ i = at + 1 + j
      /\ \A j \in DOMAIN d : \E i \in DOMAIN e : e[i] = d[j]
      /\ \A j \in DOMAIN c : \E i \in DOMAIN e : e[i] = c[j]
  BY PutAtoms
<1>2. Ids(e) \subseteq Ids(d) \cup Ids(c)
  BY <1>1 DEF Ids
<1>3. Ids(d) \subseteq Ids(e)
  BY <1>1 DEF Ids
<1>4. Ids(c) \subseteq Ids(e)
  BY <1>1 DEF Ids
<1>5. ASSUME TextOnce(d), TextOnce(c), Ids(d) \cap Ids(c) = {},
             NEW i \in DOMAIN e, NEW k \in DOMAIN e, e[i].id = e[k].id
      PROVE  i = k
  <2>1. \A j \in DOMAIN d, l \in DOMAIN c : d[j].id # c[l].id
    BY <1>5 DEF Ids
  <2>2. CASE \E j \in DOMAIN d : e[i] = d[j] /\ i = (IF j <= at + 1 THEN j ELSE j + n)
    <3>1. PICK j \in DOMAIN d : e[i] = d[j] /\ i = (IF j <= at + 1 THEN j ELSE j + n)
      BY <2>2
    <3>2. PICK l \in DOMAIN d : e[k] = d[l] /\ k = (IF l <= at + 1 THEN l ELSE l + n)
      BY <1>1, <1>5, <2>1, <3>1
    <3>3. j = l
      BY <1>5, <3>1, <3>2 DEF TextOnce
    <3> QED BY <3>1, <3>2, <3>3
  <2>3. CASE \E j \in DOMAIN c : e[i] = c[j] /\ i = at + 1 + j
    <3>1. PICK j \in DOMAIN c : e[i] = c[j] /\ i = at + 1 + j
      BY <2>3
    <3>2. PICK l \in DOMAIN c : e[k] = c[l] /\ k = at + 1 + l
      BY <1>1, <1>5, <2>1, <3>1
    <3>3. j = l
      BY <1>5, <3>1, <3>2 DEF TextOnce
    <3> QED BY <3>1, <3>2, <3>3
  <2> QED BY <1>1, <2>2, <2>3
<1>6. TextOnce(d) /\ TextOnce(c) /\ Ids(d) \cap Ids(c) = {} => TextOnce(e)
  BY <1>5 DEF TextOnce
<1> QED BY <1>2, <1>3, <1>4, <1>6

(* What is left of a text that had no atom twice, and what was cut out.    *)
LEMMA CutIds ==
  ASSUME NEW d \in Docs, NEW e, NEW at \in Nat, NEW n \in Nat \ {0}, NEW s, IsCut(e, d, at, n, s), TextOnce(d)
  PROVE  /\ Ids(e) \cup Ids(s) \subseteq Ids(d) /\ Ids(e) \cap Ids(s) = {}
         /\ TextOnce(e) /\ TextOnce(s)
<1>1. /\ e \in Docs /\ Len(e) = Len(d) - n /\ at + n < Len(d)
      /\ \A i \in 1 .. at + 1 : e[i] = d[i]
      /\ \A i \in at + 2 .. Len(d) - n : e[i] = d[i + n]
      /\ s \in Contents /\ Len(s) = n /\ \A i \in 1 .. n : s[i] = d[at + 1 + i]
  BY DEF IsCut
<1>2. Len(d) \in Nat \ {0} /\ DOMAIN d = 1 .. Len(d)
  BY DocFacts
<1>3. DOMAIN e = 1 .. Len(d) - n
  BY <1>1, DocFacts
<1>4. DOMAIN s = 1 .. n
  BY <1>1, SeqFacts DEF Contents
<1>5. \A i \in DOMAIN e : \E j \in DOMAIN d : e[i] = d[j] /\ j = (IF i <= at + 1 THEN i ELSE i + n)
  <2> SUFFICES ASSUME NEW i \in DOMAIN e PROVE \E j \in DOMAIN d : e[i] = d[j]
                        /\ j = (IF i <= at + 1 THEN i ELSE i + n)
    OBVIOUS
  <2>1. CASE i <= at + 1
    BY <1>1, <1>2, <1>3, <2>1
  <2>2. CASE i > at + 1
    <3>1. i \in at + 2 .. Len(d) - n /\ i + n \in DOMAIN d /\ ~(i <= at + 1)
      BY <1>1, <1>2, <1>3, <2>2
    <3> QED BY <1>1, <3>1
  <2> QED BY <1>3, <2>1, <2>2
<1>6. \A i \in DOMAIN s : \E j \in DOMAIN d : s[i] = d[j] /\ j = at + 1 + i
  BY <1>1, <1>2, <1>4
<1>7. Ids(e) \cup Ids(s) \subseteq Ids(d)
  BY <1>5, <1>6 DEF Ids
<1>8. ASSUME NEW i \in DOMAIN e, NEW k \in DOMAIN s, e[i].id = s[k].id PROVE FALSE
  <2>1. PICK j \in DOMAIN d : e[i] = d[j] /\ j = (IF i <= at + 1 THEN i ELSE i + n)
    BY <1>5
  <2>2. PICK l \in DOMAIN d : s[k] = d[l] /\ l = at + 1 + k
    BY <1>6
  <2>3. j = l
    BY <1>8, <2>1, <2>2 DEF TextOnce
  <2>4. k \in 1 .. n /\ i \in Nat
    BY <1>1, <1>2, <1>3, <1>4
  <2> QED BY <2>1, <2>2, <2>3, <2>4
<1>9. Ids(e) \cap Ids(s) = {}
  BY <1>8 DEF Ids
<1>10. TextOnce(e)
  <2> SUFFICES ASSUME NEW i \in DOMAIN e, NEW k \in DOMAIN e, e[i].id = e[k].id PROVE i = k
    BY DEF TextOnce
  <2>1. PICK j \in DOMAIN d : e[i] = d[j] /\ j = (IF i <= at + 1 THEN i ELSE i + n)
    BY <1>5
  <2>2. PICK l \in DOMAIN d : e[k] = d[l] /\ l = (IF k <= at + 1 THEN k ELSE k + n)
    BY <1>5
  <2>3. j = l
    BY <2>1, <2>2 DEF TextOnce
  <2>4. i \in Nat /\ k \in Nat
    BY <1>3
  <2> QED BY <2>1, <2>2, <2>3, <2>4
<1>11. TextOnce(s)
  <2> SUFFICES ASSUME NEW i \in DOMAIN s, NEW k \in DOMAIN s, s[i].id = s[k].id PROVE i = k
    BY DEF TextOnce
  <2>1. PICK j \in DOMAIN d : s[i] = d[j] /\ j = at + 1 + i
    BY <1>6
  <2>2. PICK l \in DOMAIN d : s[k] = d[l] /\ l = at + 1 + k
    BY <1>6
  <2>3. j = l
    BY <2>1, <2>2 DEF TextOnce
  <2>4. i \in Nat /\ k \in Nat
    BY <1>4
  <2> QED BY <2>1, <2>2, <2>3, <2>4
<1> QED BY <1>7, <1>9, <1>10, <1>11

(* The ids of a text whose looks alone have changed.                       *)
LEMMA SameIds ==
  ASSUME NEW d \in Docs, NEW e, SameAtoms(e, d)
  PROVE  Ids(e) = Ids(d) /\ (TextOnce(d) => TextOnce(e))
<1>1. e \in Docs /\ Len(e) = Len(d) /\ \A i \in DOMAIN d : e[i].id = d[i].id
  BY DEF SameAtoms
<1>2. DOMAIN e = DOMAIN d
  BY <1>1, DocFacts
<1> QED BY <1>1, <1>2 DEF Ids, TextOnce

-----------------------------------------------------------------------------
(* Whose atoms ops would bring back                                        *)

bring == [op \in Ops |-> Brings(op)]
Neat(op) == op.t = "insert" => TextOnce(op.content)

(* Brings of a list as what a queue stands for.                            *)
LEMMA BringsOfList ==
  ASSUME NEW ops \in Seq(Ops)
  PROVE  /\ StepBrings(ops) = Whole(ops, bring)
         /\ OpsOnce(ops) <=> ((\A j \in DOMAIN ops : Neat(ops[j])) /\ Once(ops, bring))
<1>1. \A j \in DOMAIN ops : bring[ops[j]] = Brings(ops[j])
  <2>1. \A j \in DOMAIN ops : ops[j] \in Ops
    BY SeqFacts
  <2> QED BY <2>1 DEF bring
<1>2. StepBrings(ops) = Whole(ops, bring)
  BY <1>1 DEF StepBrings, Whole
<1>3. Once(ops, bring) <=> \A j, k \in DOMAIN ops : j # k => Brings(ops[j]) \cap Brings(ops[k]) = {}
  BY <1>1 DEF Once
<1> QED BY <1>2, <1>3 DEF OpsOnce, Neat

(* A list of one op.                                                       *)
LEMMA OneOp ==
  ASSUME NEW op \in Ops, Neat(op)
  PROVE  StepBrings(<<op>>) = Brings(op) /\ OpsOnce(<<op>>) /\ <<op>> \in Seq(Ops)
<1>1. DOMAIN <<op>> = {1} /\ <<op>>[1] = op /\ <<op>> \in Seq(Ops)
  OBVIOUS
<1> QED BY <1>1 DEF StepBrings, OpsOnce, Neat

(* An empty list of ops.                                                   *)
LEMMA NoOps == StepBrings(<<>>) = {} /\ OpsOnce(<<>>) /\ <<>> \in Seq(Ops)
<1>1. DOMAIN <<>> = {} /\ <<>> \in Seq(Ops)
  OBVIOUS
<1> QED BY <1>1 DEF StepBrings, OpsOnce

(* Ops that insert nothing.                                                *)
LEMMA BringNothing ==
  ASSUME NEW ops, \A j \in DOMAIN ops : ops[j].t # "insert"
  PROVE  StepBrings(ops) = {} /\ OpsOnce(ops)
BY DEF StepBrings, OpsOnce, Brings

(* Two lists joined.                                                       *)
LEMMA JoinedOps ==
  ASSUME NEW p \in Seq(Ops), NEW q \in Seq(Ops)
  PROVE  /\ p \o q \in Seq(Ops) /\ StepBrings(p \o q) = StepBrings(p) \cup StepBrings(q)
         /\ OpsOnce(p) /\ OpsOnce(q) /\ StepBrings(p) \cap StepBrings(q) = {} => OpsOnce(p \o q)
<1>1. p \o q \in Seq(Ops)
  BY ConcatFacts
<1>2. PICK c : c = p \o q
  OBVIOUS
<1>3. /\ Whole(c, bring) = Whole(p, bring) \cup Whole(q, bring)
      /\ Once(p, bring) /\ Once(q, bring) /\ Whole(p, bring) \cap Whole(q, bring) = {}
          => Once(c, bring)
  BY <1>2, WholeConcat
<1>4. /\ StepBrings(c) = Whole(c, bring) /\ StepBrings(p) = Whole(p, bring)
          /\ StepBrings(q) = Whole(q, bring)
      /\ OpsOnce(c) <=> ((\A j \in DOMAIN c : Neat(c[j])) /\ Once(c, bring))
      /\ OpsOnce(p) => ((\A j \in DOMAIN p : Neat(p[j])) /\ Once(p, bring))
      /\ OpsOnce(q) => ((\A j \in DOMAIN q : Neat(q[j])) /\ Once(q, bring))
  BY <1>1, <1>2, BringsOfList
<1>5. \A i \in DOMAIN c : (i \in DOMAIN p /\ c[i] = p[i]) \/ \E j \in DOMAIN q : c[i] = q[j]
  BY <1>2, ConcatMembers
<1> QED BY <1>1, <1>2, <1>3, <1>4, <1>5

(* No atom is both in a text and brought back, and none is twice.          *)
Owns(d, ops) == TextOnce(d) /\ OpsOnce(ops) /\ Ids(d) \cap StepBrings(ops) = {}
Held(d, ops) == Ids(d) \cup StepBrings(ops)

(* What an op does to a text, and its inverse.                             *)
LEMMA AppliedFacts ==
  ASSUME NEW d \in Docs, NEW op \in Ops, Fits(d, op)
  PROVE  /\ Applied(d, op).doc \in Docs /\ Applied(d, op).inverse \in Seq(Ops)
         /\ TextOnce(d) /\ Neat(op) /\ Ids(d) \cap Brings(op) = {} =>
              /\ Owns(Applied(d, op).doc, Applied(d, op).inverse)
              /\ Held(Applied(d, op).doc, Applied(d, op).inverse) \subseteq Ids(d) \cup Brings(op)
<1> PICK e, v : e = Applied(d, op).doc /\ v = Applied(d, op).inverse
  OBVIOUS
<1> SUFFICES /\ e \in Docs /\ v \in Seq(Ops)
             /\ TextOnce(d) /\ Neat(op) /\ Ids(d) \cap Brings(op) = {} =>
                  Owns(e, v) /\ Held(e, v) \subseteq Ids(d) \cup Brings(op)
  OBVIOUS
<1>1. CASE op.t = "insert"
  <2>1. op \in InsertOps /\ op.at \in Nat /\ op.content \in Contents
    BY <1>1, OpsByKind
  <2>2. PICK n : n = Len(op.content) /\ OfLength(op.content, n)
    BY DEF OfLength
  <2>3. IsPut(e, d, op.at, op.content, n) /\ v = <<Delete(op.at, n)>>
    BY <2>1, <2>2, InsertedFacts
  <2>4. e \in Docs /\ n \in Nat \ {0}
    BY <2>3 DEF IsPut
  <2>5. Delete(op.at, n) \in Ops /\ Delete(op.at, n).t = "delete"
    BY <2>1, <2>4, OpsMade DEF Delete
  <2>6. v \in Seq(Ops) /\ StepBrings(v) = {} /\ OpsOnce(v)
    BY <2>3, <2>5, OneOp DEF Neat, Brings
  <2>7. Ids(e) = Ids(d) \cup Ids(op.content)
        /\ (TextOnce(d) /\ TextOnce(op.content) /\ Ids(d) \cap Ids(op.content) = {} => TextOnce(e))
    BY <2>1, <2>2, <2>3, PutIds
  <2>8. Brings(op) = Ids(op.content) /\ (Neat(op) => TextOnce(op.content))
    BY <1>1 DEF Brings, Neat
  <2> QED BY <2>4, <2>6, <2>7, <2>8 DEF Owns, Held
<1>2. CASE op.t = "delete"
  <2>1. op \in DeleteOps /\ op.at \in Nat /\ op.len \in Nat \ {0}
    BY <1>2, OpsByKind
  <2>2. PICK s : s = Slice(d, op.at, op.at + op.len)
    OBVIOUS
  <2>3. IsCut(e, d, op.at, op.len, s) /\ v = <<Insert(op.at, s)>>
    BY <2>1, <2>2, DeletedFacts
  <2>4. e \in Docs /\ s \in Contents
    BY <2>3 DEF IsCut
  <2>5. Insert(op.at, s) \in Ops /\ Insert(op.at, s).t = "insert" /\ Insert(op.at, s).content = s
    BY <2>1, <2>4, OpsMade DEF Insert
  <2>6. v \in Seq(Ops) /\ (TextOnce(s) => StepBrings(v) = Ids(s) /\ OpsOnce(v))
    <3>1. v \in Seq(Ops)
      BY <2>3, <2>5
    <3>2. TextOnce(s) => Neat(Insert(op.at, s)) /\ Brings(Insert(op.at, s)) = Ids(s)
      BY <2>5 DEF Neat, Brings
    <3> QED BY <2>3, <2>5, <3>1, <3>2, OneOp
  <2>7. TextOnce(d) => /\ Ids(e) \cup Ids(s) \subseteq Ids(d) /\ Ids(e) \cap Ids(s) = {}
                       /\ TextOnce(e) /\ TextOnce(s)
    BY <2>1, <2>3, CutIds
  <2> QED BY <2>4, <2>6, <2>7 DEF Owns, Held
<1>3. CASE op.t \in {"mark", "restyle"}
  <2>1. SameAtoms(e, d) /\ v \in Seq(Ops) /\ \A j \in DOMAIN v : v[j].t # "insert"
    <3>1. CASE op.t = "mark"
      <4>1. SameAtoms(e, d) /\ v \in Seq(MarkOps)
        BY <3>1, OpsByKind, MarkedFacts
      <4>2. \A j \in DOMAIN v : v[j] \in MarkOps
        BY <4>1, SeqFacts
      <4>3. v \in Seq(Ops)
        BY <4>1 DEF Ops
      <4> QED BY <4>1, <4>2, <4>3 DEF MarkOps
    <3>2. CASE op.t = "restyle"
      <4>1. SameAtoms(e, d) /\ v \in Seq(RestyleOps)
        BY <3>2, OpsByKind, RestyledFacts
      <4>2. \A j \in DOMAIN v : v[j] \in RestyleOps
        BY <4>1, SeqFacts
      <4>3. v \in Seq(Ops)
        BY <4>1 DEF Ops
      <4> QED BY <4>1, <4>2, <4>3 DEF RestyleOps
    <3> QED BY <1>3, <3>1, <3>2
  <2>2. e \in Docs /\ Ids(e) = Ids(d) /\ (TextOnce(d) => TextOnce(e))
    BY <2>1, SameIds DEF SameAtoms
  <2>3. StepBrings(v) = {} /\ OpsOnce(v)
    BY <2>1, BringNothing
  <2> QED BY <2>1, <2>2, <2>3 DEF Owns, Held
<1> QED BY <1>1, <1>2, <1>3, OpsByKind

-----------------------------------------------------------------------------
(* 5. Lists of ops applied                                                 *)

(* A function that takes the steps wherever it is in S passes through S.   *)
Follows(g, n, a, step, S) ==
  /\ g = [k \in 0 .. n |-> g[k]] /\ g[0] = a
  /\ \A k \in 1 .. n : g[k - 1] \in S => g[k] = step[k][g[k - 1]]

(* So it does when its steps are taken from where it is.                   *)
LEMMA FollowsPasses ==
  ASSUME NEW n, NEW S, NEW a \in S, NEW step, NEW g, Stepwise(step, n, S), Follows(g, n, a, step, S)
  PROVE  Passing(g, n, a, step, S)
<1>0. n \in Nat /\ step \in [1 .. n -> [S -> S]]
  BY DEF Stepwise
<1>1. /\ g = [k \in 0 .. n |-> g[k]] /\ g[0] = a
      /\ \A k \in 1 .. n : g[k - 1] \in S => g[k] = step[k][g[k - 1]]
  BY DEF Follows
<1> DEFINE F == {k \in 0 .. n : g[k] \in S}
<1>2. 0 \in F
  BY <1>0, <1>1
<1>3. ASSUME NEW k \in 0 .. n - 1, k \in F PROVE k + 1 \in F
  <2>1. k + 1 \in 1 .. n /\ k + 1 \in 0 .. n /\ (k + 1) - 1 = k /\ g[k] \in S
    BY <1>0, <1>3
  <2>2. g[k + 1] = step[k + 1][g[k]]
    BY <1>1, <2>1
  <2>3. step[k + 1] \in [S -> S]
    BY <1>0, <2>1
  <2> QED BY <1>0, <2>1, <2>2, <2>3
<1> HIDE DEF F
<1>4. 0 .. n \subseteq F
  BY <1>0, <1>2, <1>3, StepByStep
<1>5. \A k \in 0 .. n : g[k] \in S
  BY <1>4 DEF F
<1>6. \A k \in 1 .. n : k - 1 \in 0 .. n
  BY <1>0
<1> QED BY <1>1, <1>5, <1>6 DEF Passing

-----------------------------------------------------------------------------
(* What has come out so far, by its parts.                                 *)
LEMMA OutcomeFacts ==
  ASSUME NEW s \in Outcomes
  PROVE  s.ok \in BOOLEAN /\ s.doc \in Docs /\ s.inverse \in Seq(Ops)
BY DEF Outcomes

(* One more op keeps every atom in one place.                              *)
LEMMA ApplyingFacts ==
  ASSUME NEW s \in Outcomes, NEW op \in Ops
  PROVE  /\ Applying(s, op) \in Outcomes
         /\ Owns(s.doc, s.inverse) /\ Neat(op) /\ Held(s.doc, s.inverse) \cap Brings(op) = {} =>
              /\ Owns(Applying(s, op).doc, Applying(s, op).inverse)
              /\ Held(Applying(s, op).doc, Applying(s, op).inverse) \subseteq Held(s.doc, s.inverse) \cup Brings(op)
<1>1. PICK d, v : d = s.doc /\ v = s.inverse
  OBVIOUS
<1>2. s.ok \in BOOLEAN /\ d \in Docs /\ v \in Seq(Ops)
  BY <1>1, OutcomeFacts
<1>3. CASE s.ok /\ Fits(d, op)
  <2>1. PICK e, w : e = Applied(d, op).doc /\ w = Applied(d, op).inverse
    OBVIOUS
  <2>2. Applying(s, op) = [ok |-> TRUE, doc |-> e, inverse |-> w \o v]
    BY <1>1, <1>3, <2>1 DEF Applying
  <2>3. /\ e \in Docs /\ w \in Seq(Ops)
        /\ TextOnce(d) /\ Neat(op) /\ Ids(d) \cap Brings(op) = {} =>
             Owns(e, w) /\ Held(e, w) \subseteq Ids(d) \cup Brings(op)
    BY <1>2, <1>3, <2>1, AppliedFacts
  <2>4. /\ w \o v \in Seq(Ops) /\ StepBrings(w \o v) = StepBrings(w) \cup StepBrings(v)
        /\ OpsOnce(w) /\ OpsOnce(v) /\ StepBrings(w) \cap StepBrings(v) = {} => OpsOnce(w \o v)
    BY <1>2, <2>3, JoinedOps
  <2>5. PICK u : u = w \o v
    OBVIOUS
  <2>6. Applying(s, op) \in Outcomes /\ Applying(s, op).doc = e /\ Applying(s, op).inverse = u
    BY <2>2, <2>3, <2>4, <2>5 DEF Outcomes
  <2>7. ASSUME Owns(d, v), Neat(op), Held(d, v) \cap Brings(op) = {}
        PROVE  Owns(e, u) /\ Held(e, u) \subseteq Held(d, v) \cup Brings(op)
    BY <2>3, <2>4, <2>5, <2>7 DEF Owns, Held
  <2> QED BY <1>1, <2>6, <2>7
<1>4. CASE ~(s.ok /\ Fits(d, op))
  <2>1. Applying(s, op) = [s EXCEPT !.ok = FALSE]
    BY <1>1, <1>4 DEF Applying
  <2>2. [s EXCEPT !.ok = FALSE] \in Outcomes /\ [s EXCEPT !.ok = FALSE].doc = d
          /\ [s EXCEPT !.ok = FALSE].inverse = v
    BY <1>1, <1>2 DEF Outcomes
  <2> QED BY <1>1, <2>1, <2>2
<1> QED BY <1>3, <1>4

(* Ops applied one by one. *)
LEMMA ApplyAllSteps ==
  ASSUME NEW d \in Docs, NEW ops \in Seq(Ops)
  PROVE  \E f \in [0 .. Len(ops) -> Outcomes] :
           /\ f[0] = [ok |-> TRUE, doc |-> d, inverse |-> <<>>] /\ ApplyAll(d, ops) = f[Len(ops)]
           /\ \A k \in 1 .. Len(ops) : f[k] = Applying(f[k - 1], ops[k])
<1> DEFINE n == Len(ops)
           a == [ok |-> TRUE, doc |-> d, inverse |-> <<>>]
           S == Outcomes
           Def(f) == f = [k \in 0 .. n |-> IF k = 0 THEN a ELSE Applying(f[k - 1], ops[k])]
           after == CHOOSE f : Def(f)
           step == [k \in 1 .. n |-> [s \in S |-> Applying(s, ops[k])]]
<1>1. ApplyAll(d, ops) = after[n]
  BY DEF ApplyAll
<1>2. n \in Nat /\ \A k \in 1 .. n : ops[k] \in Ops
  BY SeqFacts
<1>3. a \in S
  BY NoOps DEF Outcomes
<1> HIDE DEF n, a
<1>4. Stepwise(step, n, S)
  <2>1. \A k \in 1 .. n : \A s \in S : Applying(s, ops[k]) \in S
    BY <1>2, ApplyingFacts
  <2> HIDE DEF S
  <2> QED BY <1>2, <2>1 DEF Stepwise
<1> HIDE DEF S
<1>5. \A k \in 1 .. n : \A s \in S : step[k][s] = Applying(s, ops[k])
  OBVIOUS
<1> HIDE DEF step
<1>6. PICK f : Passing(f, n, a, step, S)
  <2>1. \E f : Passing(f, n, a, step, S)
    BY <1>3, <1>4, Passes
  <2> QED BY <2>1
<1>7. Def(f)
  <2>1. f \in [0 .. n -> S] /\ f[0] = a /\ \A k \in 1 .. n : f[k] = step[k][f[k - 1]]
    BY <1>6 DEF Passing
  <2>2. \A k \in 0 .. n : k = 0 \/ (k \in 1 .. n /\ k - 1 \in 0 .. n)
    BY <1>2
  <2>3. \A k \in 0 .. n : f[k] = IF k = 0 THEN a ELSE Applying(f[k - 1], ops[k])
    BY <1>5, <2>1, <2>2
  <2> QED BY <2>1, <2>3
<1>8. Def(after)
  BY <1>7
<1> HIDE DEF after
<1>9. Follows(after, n, a, step, S)
  <2>1. after = [k \in 0 .. n |-> after[k]]
          /\ \A k \in 0 .. n : after[k] = IF k = 0 THEN a ELSE Applying(after[k - 1], ops[k])
    BY <1>8
  <2>2. 0 \in 0 .. n /\ \A k \in 1 .. n : k \in 0 .. n /\ k # 0
    BY <1>2
  <2> HIDE DEF Def
  <2> QED BY <1>5, <2>1, <2>2 DEF Follows
<1>10. Passing(after, n, a, step, S)
  BY <1>3, <1>4, <1>9, FollowsPasses
<1> HIDE DEF Def
<1>11. after \in [0 .. n -> S] /\ after[0] = a
         /\ \A k \in 1 .. n : after[k] = step[k][after[k - 1]]
  BY <1>10 DEF Passing
<1>12. \A k \in 1 .. n : after[k] = Applying(after[k - 1], ops[k])
  <2>1. \A k \in 1 .. n : after[k - 1] \in S
    <3>1. \A k \in 1 .. n : k - 1 \in 0 .. n
      BY <1>2
    <3> QED BY <1>11, <3>1
  <2> QED BY <1>5, <1>11, <2>1
<1> QED BY <1>1, <1>11, <1>12 DEF n, a, S

(* ... and so do all of them, whether they fit or not.                     *)
LEMMA ApplyAllFacts ==
  ASSUME NEW d \in Docs, NEW ops \in Seq(Ops)
  PROVE  /\ ApplyAll(d, ops) \in Outcomes
         /\ Owns(d, ops) => /\ Owns(ApplyAll(d, ops).doc, ApplyAll(d, ops).inverse)
                            /\ Held(ApplyAll(d, ops).doc, ApplyAll(d, ops).inverse) \subseteq Held(d, ops)
<1> DEFINE n == Len(ops)
           a == [ok |-> TRUE, doc |-> d, inverse |-> <<>>]
<1>0. PICK after \in [0 .. n -> Outcomes] :
        /\ after[0] = a /\ ApplyAll(d, ops) = after[n]
        /\ \A k \in 1 .. n : after[k] = Applying(after[k - 1], ops[k])
  BY ApplyAllSteps
<1>1. ApplyAll(d, ops) = after[n]
  BY <1>0
<1>2. n \in Nat /\ DOMAIN ops = 1 .. n /\ \A k \in 1 .. n : ops[k] \in Ops
  BY SeqFacts
<1>3. a \in Outcomes /\ a.doc = d /\ a.inverse = <<>>
  BY NoOps DEF Outcomes
<1> HIDE DEF n, a
<1>11. after \in [0 .. n -> Outcomes] /\ after[0] = a
         /\ \A k \in 1 .. n : after[k] = Applying(after[k - 1], ops[k])
  BY <1>0
<1>12. ASSUME Owns(d, ops)
       PROVE  Owns(after[n].doc, after[n].inverse)
                /\ Held(after[n].doc, after[n].inverse) \subseteq Held(d, ops)
  <2> DEFINE F == {k \in 0 .. n : /\ Owns(after[k].doc, after[k].inverse)
                                  /\ Held(after[k].doc, after[k].inverse) \subseteq Held(d, ops)
                                  /\ \A j \in k + 1 .. n : Held(after[k].doc, after[k].inverse) \cap Brings(ops[j]) = {}}
  <2>0. \A j \in 1 .. n : Brings(ops[j]) \subseteq StepBrings(ops)
    BY <1>2 DEF StepBrings
  <2>1. 0 \in F
    <3>1. Owns(a.doc, a.inverse) /\ Held(a.doc, a.inverse) \subseteq Held(d, ops)
      BY <1>3, <1>12, NoOps DEF Owns, Held
    <3>2. \A j \in 0 + 1 .. n : Held(a.doc, a.inverse) \cap Brings(ops[j]) = {}
      BY <1>2, <1>3, <1>12, <2>0, NoOps DEF Owns, Held
    <3> QED BY <1>2, <1>11, <3>1, <3>2
  <2>2. ASSUME NEW k \in 0 .. n - 1, k \in F PROVE k + 1 \in F
    <3>1. PICK s, m : s = after[k] /\ m = k + 1
      OBVIOUS
    <3>2. m \in 1 .. n /\ m \in 0 .. n /\ s \in Outcomes /\ m - 1 = k /\ k \in 0 .. n
      BY <1>2, <1>11, <3>1
    <3>3. after[m] = Applying(s, ops[m]) /\ ops[m] \in Ops /\ Neat(ops[m])
      BY <1>2, <1>11, <1>12, <3>1, <3>2 DEF Owns, OpsOnce, Neat
    <3>4. /\ Owns(s.doc, s.inverse) /\ Held(s.doc, s.inverse) \subseteq Held(d, ops)
          /\ \A j \in m .. n : Held(s.doc, s.inverse) \cap Brings(ops[j]) = {}
      BY <2>2, <3>1
    <3>5. Held(s.doc, s.inverse) \cap Brings(ops[m]) = {}
      BY <3>2, <3>4
    <3>6. /\ Owns(after[m].doc, after[m].inverse)
          /\ Held(after[m].doc, after[m].inverse) \subseteq Held(s.doc, s.inverse)
              \cup Brings(ops[m])
      BY <3>2, <3>3, <3>4, <3>5, ApplyingFacts
    <3>7. Held(after[m].doc, after[m].inverse) \subseteq Held(d, ops)
      BY <2>0, <3>2, <3>4, <3>6 DEF Held
    <3>8. ASSUME NEW j \in m + 1 .. n PROVE Held(after[m].doc, after[m].inverse) \cap Brings(ops[j]) = {}
      <4>1. j \in m .. n /\ j \in 1 .. n /\ j # m
        BY <1>2, <3>2
      <4>2. Brings(ops[m]) \cap Brings(ops[j]) = {}
        BY <1>2, <1>12, <3>2, <4>1 DEF Owns, OpsOnce
      <4> QED BY <3>4, <3>6, <4>1, <4>2
    <3> QED BY <3>1, <3>2, <3>6, <3>7, <3>8
  <2> HIDE DEF F
  <2>3. 0 .. n \subseteq F
    BY <1>2, <2>1, <2>2, StepByStep
  <2>4. n \in F
    BY <1>2, <2>3
  <2> QED BY <2>4 DEF F
<1> QED BY <1>1, <1>2, <1>11, <1>12

-----------------------------------------------------------------------------
(* 6. The rebase of lists: how much they hold                              *)

(* The rebase of lists: what it leaves, and that it ends.                  *)

Real == {e \in Edits : e.len # 0}

Weight(e) == IF e.len = 0 THEN 1 ELSE e.len

(* The characters of a list of edits, an empty one counting for one.       *)
Load(q) ==
  LET sum[k \in 0 .. Len(q)] == IF k = 0 THEN 0 ELSE sum[k - 1] + Weight(q[k])
  IN  sum[Len(q)]

(* An edit counts for something.                                           *)
LEMMA WeightFacts == \A e \in Edits : Weight(e) \in Nat \ {0}
BY DEF Weight, Edits

(* A sum by its parts.                                                     *)
Summing(f, q) == f \in [0 .. Len(q) -> Nat] /\ f[0] = 0
  /\ \A k \in 1 .. Len(q) : f[k] = f[k - 1] + Weight(q[k])

(* A load is a sum by its parts.                                           *)
LEMMA LoadSums ==
  ASSUME NEW q \in Seq(Edits)
  PROVE  \E f : Summing(f, q) /\ Load(q) = f[Len(q)]
<1> DEFINE n == Len(q)
           Def(f) == f = [k \in 0 .. n |-> IF k = 0 THEN 0 ELSE f[k - 1] + Weight(q[k])]
           sum == CHOOSE f : Def(f)
           step == [k \in 1 .. n |-> [s \in Nat |-> s + Weight(q[k])]]
<1>1. Load(q) = sum[n]
  BY DEF Load
<1>2. n \in Nat /\ \A k \in 1 .. n : q[k] \in Edits /\ Weight(q[k]) \in Nat
  BY SeqFacts, WeightFacts
<1> HIDE DEF n
<1>4. Stepwise(step, n, Nat)
  BY <1>2 DEF Stepwise
<1>5. \A k \in 1 .. n : \A s \in Nat : step[k][s] = s + Weight(q[k])
  OBVIOUS
<1> HIDE DEF step
<1>6. PICK f : Passing(f, n, 0, step, Nat)
  <2>1. \E f : Passing(f, n, 0, step, Nat)
    BY <1>4, Passes
  <2> QED BY <2>1
<1>7. Def(f)
  <2>1. f \in [0 .. n -> Nat] /\ f[0] = 0 /\ \A k \in 1 .. n : f[k] = step[k][f[k - 1]]
    BY <1>6 DEF Passing
  <2>2. \A k \in 0 .. n : k = 0 \/ (k \in 1 .. n /\ k - 1 \in 0 .. n)
    BY <1>2
  <2>3. \A k \in 0 .. n : f[k] = IF k = 0 THEN 0 ELSE f[k - 1] + Weight(q[k])
    BY <1>5, <2>1, <2>2
  <2> QED BY <2>1, <2>3
<1>8. Def(sum)
  BY <1>7
<1> HIDE DEF sum
<1>9. Follows(sum, n, 0, step, Nat)
  <2>1. sum = [k \in 0 .. n |-> sum[k]] /\ \A k \in 0 .. n : sum[k] = IF k = 0 THEN 0
          ELSE sum[k - 1] + Weight(q[k])
    BY <1>8
  <2>2. 0 \in 0 .. n /\ \A k \in 1 .. n : k \in 0 .. n /\ k # 0
    BY <1>2
  <2> HIDE DEF Def
  <2> QED BY <1>5, <2>1, <2>2 DEF Follows
<1>10. Passing(sum, n, 0, step, Nat)
  BY <1>4, <1>9, FollowsPasses
<1> HIDE DEF Def
<1>11. sum \in [0 .. n -> Nat] /\ sum[0] = 0 /\ \A k \in 1 .. n : sum[k] = step[k][sum[k - 1]]
  BY <1>10 DEF Passing
<1>12. \A k \in 1 .. n : sum[k - 1] \in Nat
  BY <1>2, <1>11
<1>13. \A k \in 1 .. n : sum[k] = sum[k - 1] + Weight(q[k])
  BY <1>5, <1>11, <1>12
<1>14. Summing(sum, q)
  BY <1>11, <1>13 DEF Summing, n
<1> QED BY <1>1, <1>14 DEF n

(* ... and any such sum is the load.                                       *)
LEMMA SumsAgree ==
  ASSUME NEW q \in Seq(Edits), NEW f, NEW g, Summing(f, q), Summing(g, q)
  PROVE  f[Len(q)] = g[Len(q)]
<1>0. PICK n : n = Len(q)
  OBVIOUS
<1>1. n \in Nat
  BY <1>0, SeqFacts
<1>2. /\ f[0] = 0 /\ \A k \in 1 .. n : f[k] = f[k - 1] + Weight(q[k])
      /\ g[0] = 0 /\ \A k \in 1 .. n : g[k] = g[k - 1] + Weight(q[k])
  BY <1>0 DEF Summing
<1> DEFINE F == {k \in 0 .. n : f[k] = g[k]}
<1>3. 0 \in F
  BY <1>1, <1>2
<1>4. ASSUME NEW k \in 0 .. n - 1, k \in F PROVE k + 1 \in F
  <2>1. k + 1 \in 1 .. n /\ k + 1 \in 0 .. n /\ (k + 1) - 1 = k
    BY <1>1
  <2> QED BY <1>2, <1>4, <2>1
<1> HIDE DEF F
<1>5. 0 .. n \subseteq F
  BY <1>1, <1>3, <1>4, StepByStep
<1> QED BY <1>0, <1>1, <1>5 DEF F

(* The load of nothing.                                                    *)
LEMMA NoLoad == Load(<<>>) = 0
<1>1. <<>> \in Seq(Edits) /\ Len(<<>>) = 0
  OBVIOUS
<1>2. PICK f : Summing(f, <<>>) /\ Load(<<>>) = f[Len(<<>>)]
  BY <1>1, LoadSums
<1> QED BY <1>1, <1>2 DEF Summing

(* The load of one edit.                                                   *)
LEMMA LoadOfOne ==
  ASSUME NEW e \in Edits
  PROVE  Load(<<e>>) = Weight(e) /\ <<e>> \in Seq(Edits)
<1>0. PICK q : q = <<e>>
  OBVIOUS
<1>1. q \in Seq(Edits) /\ Len(q) = 1 /\ q[1] = e
  BY <1>0
<1>2. PICK f : Summing(f, q) /\ Load(q) = f[Len(q)]
  BY <1>1, LoadSums
<1>3. f[1] = f[1 - 1] + Weight(q[1]) /\ f[0] = 0
  BY <1>1, <1>2 DEF Summing
<1>4. Weight(e) \in Nat
  BY WeightFacts
<1> QED BY <1>0, <1>1, <1>2, <1>3, <1>4

(* The load of two lists joined.                                           *)
LEMMA LoadOfJoined ==
  ASSUME NEW p \in Seq(Edits), NEW q \in Seq(Edits)
  PROVE  p \o q \in Seq(Edits) /\ Load(p \o q) = Load(p) + Load(q) /\ Load(p) \in Nat
           /\ Load(q) \in Nat
<1>0. PICK c, m, n : c = p \o q /\ m = Len(p) /\ n = Len(q)
  OBVIOUS
<1>1. /\ c \in Seq(Edits) /\ Len(c) = m + n /\ m \in Nat /\ n \in Nat
      /\ \A i \in 1 .. m : c[i] = p[i]
      /\ \A i \in 1 .. n : c[m + i] = q[i]
  BY <1>0, ConcatFacts
<1>2. PICK f : Summing(f, p) /\ Load(p) = f[Len(p)]
  BY LoadSums
<1>3. PICK g : Summing(g, q) /\ Load(q) = g[Len(q)]
  BY LoadSums
<1>4. PICK h : Summing(h, c) /\ Load(c) = h[Len(c)]
  BY <1>1, LoadSums
<1>5. f \in [0 .. m -> Nat] /\ f[0] = 0 /\ (\A k \in 1 .. m : f[k] = f[k - 1] + Weight(p[k]))
        /\ Load(p) = f[m]
  BY <1>0, <1>2 DEF Summing
<1>6. g \in [0 .. n -> Nat] /\ g[0] = 0 /\ (\A k \in 1 .. n : g[k] = g[k - 1] + Weight(q[k]))
        /\ Load(q) = g[n]
  BY <1>0, <1>3 DEF Summing
<1>7. h[0] = 0 /\ (\A k \in 1 .. m + n : h[k] = h[k - 1] + Weight(c[k])) /\ Load(c) = h[m + n]
  BY <1>1, <1>4 DEF Summing
<1> DEFINE F == {k \in 0 .. m : h[k] = f[k]}
           G == {k \in 0 .. n : h[m + k] = f[m] + g[k]}
<1>8. 0 .. m \subseteq F
  <2>1. 0 \in F
    BY <1>1, <1>5, <1>7
  <2>2. ASSUME NEW k \in 0 .. m - 1, k \in F PROVE k + 1 \in F
    <3>1. k + 1 \in 1 .. m /\ k + 1 \in 0 .. m /\ (k + 1) - 1 = k /\ k + 1 \in 1 .. m + n
      BY <1>1
    <3>2. h[k + 1] = h[k] + Weight(c[k + 1]) /\ f[k + 1] = f[k] + Weight(p[k + 1])
            /\ c[k + 1] = p[k + 1]
      BY <1>1, <1>5, <1>7, <3>1
    <3> QED BY <2>2, <3>1, <3>2
  <2> HIDE DEF F
  <2> QED BY <1>1, <2>1, <2>2, StepByStep
<1>9. h[m] = f[m] /\ f[m] \in Nat
  BY <1>1, <1>5, <1>8
<1>10. 0 .. n \subseteq G
  <2>1. 0 \in G
    BY <1>1, <1>6, <1>9
  <2>2. ASSUME NEW k \in 0 .. n - 1, k \in G PROVE k + 1 \in G
    <3>1. k + 1 \in 1 .. n /\ k + 1 \in 0 .. n /\ (k + 1) - 1 = k /\ m + (k + 1) \in 1 .. m + n
            /\ (m + (k + 1)) - 1 = m + k
      BY <1>1
    <3>2. h[m + (k + 1)] = h[m + k] + Weight(c[m + (k + 1)])
            /\ g[k + 1] = g[k] + Weight(q[k + 1]) /\ c[m + (k + 1)] = q[k + 1]
      BY <1>1, <1>6, <1>7, <3>1
    <3>3. PICK w : w = Weight(q[k + 1])
      OBVIOUS
    <3>4. q[k + 1] \in Edits
      BY <1>0, <3>1, SeqFacts
    <3>5. w \in Nat
      BY <3>3, <3>4, WeightFacts
    <3>6. g[k] \in Nat /\ k \in 0 .. n
      BY <1>1, <1>6
    <3>7. h[m + (k + 1)] = (f[m] + g[k]) + w /\ g[k + 1] = g[k] + w
      BY <2>2, <3>2, <3>3
    <3>8. h[m + (k + 1)] = f[m] + g[k + 1]
      BY <1>9, <3>5, <3>6, <3>7
    <3> QED BY <3>1, <3>8
  <2> HIDE DEF G
  <2> QED BY <1>1, <2>1, <2>2, StepByStep
<1>11. h[m + n] = f[m] + g[n] /\ g[n] \in Nat
  BY <1>1, <1>6, <1>10
<1> QED BY <1>0, <1>1, <1>5, <1>6, <1>7, <1>9, <1>11

(* A list that is not empty.                                               *)
LEMMA LoadOfTail ==
  ASSUME NEW q \in Seq(Edits), q # <<>>
  PROVE  /\ Head(q) \in Edits /\ Tail(q) \in Seq(Edits) /\ <<Head(q)>> \in Seq(Edits)
         /\ Load(q) = Load(<<Head(q)>>) + Load(Tail(q))
         /\ Load(<<Head(q)>>) \in Nat \ {0} /\ Load(Tail(q)) \in Nat
         /\ Len(Tail(q)) = Len(q) - 1 /\ Len(q) \in Nat \ {0}
<1>1. /\ Tail(q) \in Seq(Edits) /\ Len(q) \in Nat \ {0} /\ Len(Tail(q)) = Len(q) - 1
      /\ Head(q) \in Edits
  BY TailFacts
<1>2. PICK x, t : x = Head(q) /\ t = Tail(q)
  OBVIOUS
<1>3. q = <<x>> \o t
  BY <1>2
<1>4. x \in Edits /\ t \in Seq(Edits)
  BY <1>1, <1>2
<1>5. <<x>> \in Seq(Edits) /\ Load(<<x>>) = Weight(x) /\ Weight(x) \in Nat \ {0}
  BY <1>4, LoadOfOne, WeightFacts
<1>6. Load(<<x>> \o t) = Load(<<x>>) + Load(t) /\ Load(t) \in Nat
  BY <1>4, <1>5, LoadOfJoined
<1> QED BY <1>1, <1>2, <1>3, <1>5, <1>6

-----------------------------------------------------------------------------
(* 7. One edit as it applies after another                                 *)

(* The smaller and the larger of two numbers.                              *)
LEMMA Extremes ==
  ASSUME NEW x \in Nat, NEW y \in Nat
  PROVE  /\ Max({x, y}) = (IF x >= y THEN x ELSE y)
         /\ Min({x, y}) = (IF x <= y THEN x ELSE y)
<1>1. PICK T : T = {x, y}
  OBVIOUS
<1>2. T \in SUBSET Nat /\ T # {} /\ x \in T /\ y \in T /\ \A k \in T : k = x \/ k = y
  BY <1>1
<1>3. PICK n \in Nat : \A k \in T : k <= n
  <2>1. x + y \in Nat /\ \A k \in T : k <= x + y
    BY <1>2
  <2> QED BY <2>1
<1>4. Max(T) \in T /\ \A k \in T : k <= Max(T)
  BY <1>2, <1>3, MaxIsGreatest
<1>5. Min(T) \in T /\ \A k \in T : Min(T) <= k
  BY <1>2, MinIsLeast
<1> QED BY <1>1, <1>2, <1>4, <1>5

Single(q) == Len(q) = 1 /\ q[1].t = "insert"

Cuts == {e \in Real : e.t = "delete"}

(* What may stand for an edit after others.                                *)
InPlaceOf(s, a) ==
  /\ s \in Seq(Edits) /\ Load(s) <= Weight(a)
  /\ a \in Real => s \in Seq(Real)
  /\ a \in Cuts => s \in Seq(Cuts)
  /\ a.t = "insert" => Single(s)

(* An edit by its parts.                                                   *)
LEMMA EditFacts ==
  ASSUME NEW e \in Edits
  PROVE  /\ e.t \in {"insert", "delete"} /\ e.at \in Nat /\ e.len \in Nat
         /\ e.len # 0 => e \in Real /\ Weight(e) = e.len
         /\ e.len = 0 => e \notin Real /\ Weight(e) = 1
BY DEF Edits, Real, Weight

(* What makes a delete that takes in something.                            *)
LEMMA DeleteMade ==
  ASSUME NEW at \in Nat, NEW len \in Nat \ {0}
  PROVE  Delete(at, len) \in Cuts /\ Delete(at, len) \in Edits /\ Weight(Delete(at, len)) = len
<1>1. Delete(at, len) \in Edits /\ Delete(at, len).len = len /\ Delete(at, len).t = "delete"
  BY DEF Delete, Edits
<1> QED BY <1>1 DEF Real, Cuts, Weight

(* A list of one real delete, and of two.                                  *)
LEMMA OnePiece ==
  ASSUME NEW a \in Real, a.t = "delete", NEW x \in Cuts, Weight(x) <= Weight(a)
  PROVE  InPlaceOf(<<x>>, a)
<1>1. x \in Edits /\ x \in Real /\ a.t # "insert"
  BY DEF Real, Cuts
<1>2. Load(<<x>>) = Weight(x) /\ <<x>> \in Seq(Edits) /\ <<x>> \in Seq(Real) /\ <<x>> \in Seq(Cuts)
  BY <1>1, LoadOfOne
<1> QED BY <1>1, <1>2 DEF InPlaceOf

(* A list of two real deletes that weigh no more may stand for one.        *)
LEMMA TwoPieces ==
  ASSUME NEW a \in Real, a.t = "delete", NEW x \in Cuts, NEW y \in Cuts, Weight(x) + Weight(y) <= Weight(a)
  PROVE  InPlaceOf(<<x>> \o <<y>>, a)
<1>1. x \in Edits /\ y \in Edits /\ x \in Real /\ y \in Real /\ a.t # "insert"
  BY DEF Real, Cuts
<1>2. PICK p, q : p = <<x>> /\ q = <<y>>
  OBVIOUS
<1>3. /\ Load(p) = Weight(x) /\ p \in Seq(Edits) /\ p \in Seq(Real) /\ p \in Seq(Cuts)
      /\ Load(q) = Weight(y) /\ q \in Seq(Edits) /\ q \in Seq(Real) /\ q \in Seq(Cuts)
  BY <1>1, <1>2, LoadOfOne
<1>4. p \o q \in Seq(Edits) /\ Load(p \o q) = Load(p) + Load(q)
  BY <1>3, LoadOfJoined
<1>5. p \o q \in Seq(Real) /\ p \o q \in Seq(Cuts)
  BY <1>3, ConcatFacts
<1> QED BY <1>1, <1>2, <1>3, <1>4, <1>5 DEF InPlaceOf

(* Nothing may stand for a delete.                                         *)
LEMMA NoPiece ==
  ASSUME NEW a \in Edits, a.t = "delete"
  PROVE  InPlaceOf(<<>>, a)
<1>1. Weight(a) \in Nat /\ <<>> \in Seq(Edits) /\ <<>> \in Seq(Real) /\ <<>> \in Seq(Cuts)
        /\ a.t # "insert"
  BY WeightFacts
<1> QED BY <1>1, NoLoad DEF InPlaceOf

(* An insert moved.                                                        *)
LEMMA MovedInsert ==
  ASSUME NEW a \in Edits, a.t = "insert", NEW at \in Nat
  PROVE  InPlaceOf(<<[a EXCEPT !.at = at]>>, a)
<1>1. PICK x : x = [a EXCEPT !.at = at]
  OBVIOUS
<1>2. x \in Edits /\ x.t = "insert" /\ x.len = a.len
  BY <1>1 DEF Edits
<1>3. Weight(x) = Weight(a) /\ Weight(x) \in Nat /\ (a \in Real => x \in Real)
  BY <1>2, WeightFacts DEF Weight, Real
<1>4. Load(<<x>>) = Weight(x) /\ <<x>> \in Seq(Edits) /\ (x \in Real => <<x>> \in Seq(Real))
      /\ Len(<<x>>) = 1 /\ <<x>>[1] = x
  BY <1>2, LoadOfOne
<1>5. PICK q : q = <<x>>
  OBVIOUS
<1>6. Load(q) = Weight(a) /\ q \in Seq(Edits) /\ (a \in Real => q \in Seq(Real)) /\ Single(q)
  BY <1>2, <1>3, <1>4, <1>5 DEF Single
<1>7. Load(q) <= Weight(a)
  BY <1>3, <1>6
<1>8. InPlaceOf(q, a)
  BY <1>6, <1>7 DEF InPlaceOf, Cuts
<1> QED BY <1>1, <1>5, <1>8

(* What a delete leaves of another may stand for it.                       *)
LEMMA LeftOverFacts ==
  ASSUME NEW a \in Real, a.t = "delete", NEW b \in Edits
  PROVE  InPlaceOf(LeftOver(a, b), a)
<1>0. a \in Edits /\ a.at \in Nat /\ a.len \in Nat \ {0} /\ b.at \in Nat /\ b.len \in Nat
        /\ Weight(a) = a.len
  BY EditFacts DEF Real
<1>a. PICK at, len, p, n : at = a.at /\ len = a.len /\ p = b.at /\ n = b.len
  OBVIOUS
<1>b. PICK end : end = at + len
  OBVIOUS
<1>c. PICK from, till : from = Max({at, p + n}) /\ till = Min({end, p})
  OBVIOUS
<1>1. /\ at \in Nat /\ len \in Nat \ {0} /\ p \in Nat /\ n \in Nat /\ end \in Nat
          /\ p + n \in Nat /\ Weight(a) = len
      /\ end = at + len
  BY <1>0, <1>a, <1>b
<1>2. from = (IF at >= p + n THEN at ELSE p + n) /\ till = (IF end <= p THEN end ELSE p)
  BY <1>1, <1>c, Extremes
<1>3. from \in Nat /\ till \in Nat
  BY <1>1, <1>2
<1> DEFINE first == Delete(from - n, end - from)
           last == Delete(at, till - at)
<1>4. LeftOver(a, b) = (IF end > p + n THEN <<first>> ELSE <<>>) \o (IF at < p THEN <<last>> ELSE <<>>)
  BY <1>a, <1>b, <1>c DEF LeftOver
<1>5. end > p + n => /\ from - n \in Nat /\ end - from \in Nat \ {0}
                     /\ first \in Cuts /\ Weight(first) = end - from
  <2>1. end > p + n => from - n \in Nat /\ end - from \in Nat \ {0}
    BY <1>1, <1>2
  <2> QED BY <2>1, DeleteMade
<1>6. at < p => /\ till - at \in Nat \ {0}
                /\ last \in Cuts /\ Weight(last) = till - at
  <2>1. at < p => till - at \in Nat \ {0}
    BY <1>1, <1>2
  <2> QED BY <1>1, <2>1, DeleteMade
<1>7. end > p + n /\ at < p => (end - from) + (till - at) <= len
  BY <1>1, <1>2
<1>8. (end > p + n => end - from <= len) /\ (at < p => till - at <= len)
  BY <1>1, <1>2
<1> HIDE DEF first, last
<1>9. CASE end > p + n /\ at < p
  <2>1. LeftOver(a, b) = <<first>> \o <<last>>
    BY <1>4, <1>9
  <2>2. first \in Cuts /\ last \in Cuts /\ Weight(first) + Weight(last) <= Weight(a)
    BY <1>1, <1>5, <1>6, <1>7, <1>9
  <2>3. InPlaceOf(<<first>> \o <<last>>, a)
    BY <2>2, TwoPieces
  <2> QED BY <2>1, <2>3
<1>10. CASE end > p + n /\ ~(at < p)
  <2>1. LeftOver(a, b) = <<first>>
    BY <1>4, <1>10
  <2>2. first \in Cuts /\ Weight(first) <= Weight(a)
    BY <1>1, <1>5, <1>8, <1>10
  <2>3. InPlaceOf(<<first>>, a)
    BY <2>2, OnePiece
  <2> QED BY <2>1, <2>3
<1>11. CASE ~(end > p + n) /\ at < p
  <2>1. LeftOver(a, b) = <<last>>
    BY <1>4, <1>11
  <2>2. last \in Cuts /\ Weight(last) <= Weight(a)
    BY <1>1, <1>6, <1>8, <1>11
  <2>3. InPlaceOf(<<last>>, a)
    BY <2>2, OnePiece
  <2> QED BY <2>1, <2>3
<1>12. CASE ~(end > p + n) /\ ~(at < p)
  <2>1. LeftOver(a, b) = <<>>
    BY <1>4, <1>12
  <2>3. InPlaceOf(<<>>, a)
    BY <1>0, NoPiece
  <2> QED BY <2>1, <2>3
<1> QED BY <1>9, <1>10, <1>11, <1>12

(* So may the two pieces text splits a delete into.                        *)
LEMMA SplitFacts ==
  ASSUME NEW a \in Real, a.t = "delete", NEW b \in Edits, a.at < b.at, b.at < a.at + a.len
  PROVE  InPlaceOf(Split(a, b), a)
<1>0. a.at \in Nat /\ a.len \in Nat \ {0} /\ b.at \in Nat /\ b.len \in Nat /\ Weight(a) = a.len
  BY EditFacts DEF Real
<1>1. PICK first, last : first = Delete(b.at + b.len, a.at + a.len - b.at)
        /\ last = Delete(a.at, b.at - a.at)
  OBVIOUS
<1>2. b.at + b.len \in Nat /\ a.at + a.len - b.at \in Nat \ {0} /\ b.at - a.at \in Nat \ {0}
      /\ (a.at + a.len - b.at) + (b.at - a.at) = a.len
  BY <1>0
<1>3. first \in Cuts /\ Weight(first) = a.at + a.len - b.at
  BY <1>1, <1>2, DeleteMade
<1>4. last \in Cuts /\ Weight(last) = b.at - a.at
  BY <1>0, <1>1, <1>2, DeleteMade
<1>5. Weight(first) + Weight(last) <= Weight(a)
  BY <1>0, <1>2, <1>3, <1>4
<1>6. InPlaceOf(<<first>> \o <<last>>, a)
  BY <1>3, <1>4, <1>5, TwoPieces
<1>7. Split(a, b) = <<first>> \o <<last>>
  BY <1>1 DEF Split
<1> QED BY <1>6, <1>7

(* So may whatever through makes of an edit.                               *)
LEMMA ThroughFacts ==
  ASSUME NEW a \in Edits, NEW b \in Edits, NEW bFirst \in BOOLEAN
  PROVE  InPlaceOf(Through(a, b, bFirst), a)
<1>0. /\ a.t \in {"insert", "delete"} /\ a.at \in Nat /\ a.len \in Nat
      /\ b.t \in {"insert", "delete"} /\ b.at \in Nat /\ b.len \in Nat
      /\ (a.len # 0 => a \in Real /\ Weight(a) = a.len)
  BY EditFacts
<1>1. CASE a.t = "insert" /\ b.t = "insert"
  <2>1. PICK at : at = IF b.at < a.at \/ (b.at = a.at /\ bFirst) THEN a.at + b.len ELSE a.at
    OBVIOUS
  <2>2. at \in Nat
    BY <1>0, <2>1
  <2>3. Through(a, b, bFirst) = <<[a EXCEPT !.at = at]>>
    BY <1>1, <2>1 DEF Through
  <2>4. InPlaceOf(<<[a EXCEPT !.at = at]>>, a)
    BY <1>1, <2>2, MovedInsert
  <2> QED BY <2>3, <2>4
<1>2. CASE a.t = "insert" /\ b.t = "delete"
  <2>1. PICK at : at = IF a.at <= b.at THEN a.at ELSE IF a.at >= b.at + b.len THEN a.at - b.len
          ELSE b.at
    OBVIOUS
  <2>2. at \in Nat
    BY <1>0, <2>1
  <2>3. Through(a, b, bFirst) = <<[a EXCEPT !.at = at]>>
    BY <1>2, <2>1 DEF Through
  <2>4. InPlaceOf(<<[a EXCEPT !.at = at]>>, a)
    BY <1>2, <2>2, MovedInsert
  <2> QED BY <2>3, <2>4
<1>3. CASE a.t = "delete" /\ a.len = 0
  <2>1. Through(a, b, bFirst) = <<>>
    BY <1>0, <1>3 DEF Through
  <2>2. InPlaceOf(<<>>, a)
    BY <1>3, NoPiece
  <2> QED BY <2>1, <2>2
<1>4. CASE a.t = "delete" /\ a.len # 0 /\ b.t = "insert"
  <2>0. a \in Real
    BY <1>0, <1>4
  <2>1. CASE b.at <= a.at
    <3>1. Through(a, b, bFirst) = <<Delete(a.at + b.len, a.len)>>
      BY <1>4, <2>1 DEF Through
    <3>2. a.at + b.len \in Nat /\ a.len \in Nat \ {0}
      BY <1>0, <1>4
    <3>3. Delete(a.at + b.len, a.len) \in Cuts /\ Weight(Delete(a.at + b.len, a.len)) = a.len
      BY <3>2, DeleteMade
    <3>4. Weight(Delete(a.at + b.len, a.len)) <= Weight(a)
      BY <1>0, <1>4, <3>3
    <3>5. InPlaceOf(<<Delete(a.at + b.len, a.len)>>, a)
      BY <1>4, <2>0, <3>3, <3>4, OnePiece
    <3> QED BY <3>1, <3>5
  <2>2. CASE ~(b.at <= a.at) /\ b.at >= a.at + a.len
    <3>1. Through(a, b, bFirst) = <<a>>
      BY <1>4, <2>2 DEF Through
    <3>2. Weight(a) <= Weight(a) /\ a \in Cuts
      BY <1>0, <1>4, <2>0 DEF Cuts
    <3>3. InPlaceOf(<<a>>, a)
      BY <1>4, <2>0, <3>2, OnePiece
    <3> QED BY <3>1, <3>3
  <2>3. CASE ~(b.at <= a.at) /\ ~(b.at >= a.at + a.len)
    <3>1. Through(a, b, bFirst) = Split(a, b)
      BY <1>4, <2>3 DEF Through
    <3>2. a.at < b.at /\ b.at < a.at + a.len
      BY <1>0, <2>3
    <3>3. InPlaceOf(Split(a, b), a)
      BY <1>4, <2>0, <3>2, SplitFacts
    <3> QED BY <3>1, <3>3
  <2> QED BY <2>1, <2>2, <2>3
<1>5. CASE a.t = "delete" /\ a.len # 0 /\ b.t = "delete"
  <2>1. Through(a, b, bFirst) = LeftOver(a, b)
    BY <1>5 DEF Through
  <2>2. InPlaceOf(LeftOver(a, b), a)
    BY <1>0, <1>5, LeftOverFacts
  <2> QED BY <2>1, <2>2
<1> QED BY <1>0, <1>1, <1>2, <1>3, <1>4, <1>5

-----------------------------------------------------------------------------
(* 8. it_lists, one step of its recursion                                  *)

Pairs == Seq(Edits) \X Seq(Edits)
Measure(ab) == Load(ab[1]) + Load(ab[2])

(* What it_lists makes of a pair, f being what it makes of smaller ones.   *)
Listing(f, ab) ==
  LET a == ab[1]
      b == ab[2]
  IN  IF a = <<>> \/ b = <<>> THEN ab
      ELSE IF Len(a) = 1 /\ Len(b) = 1
      THEN <<Through(a[1], b[1], TRUE), Through(b[1], a[1], FALSE)>>
      ELSE IF Len(a) = 1 THEN
          LET one == f[<<a, <<Head(b)>>>>]
              others == f[<<one[1], Tail(b)>>]
          IN  <<others[1], one[2] \o others[2]>>
      ELSE
          LET one == f[<<<<Head(a)>>, b>>]
              others == f[<<Tail(a), one[2]>>]
          IN  <<one[1] \o others[1], others[2]>>

(* The function as its definition chooses it.                              *)
LEMMA ListsIsChosen == Lists = CHOOSE f : f = [ab \in Pairs |-> Listing(f, ab)]
BY DEF Lists, Listing, Pairs

(* What a pair may become.                                                 *)
Becomes(ab, r) ==
  /\ r \in Pairs
  /\ Load(r[1]) <= Load(ab[1]) /\ Load(r[2]) <= Load(ab[2])
  /\ ab[1] \in Seq(Real) /\ ab[2] \in Seq(Real) => r[1] \in Seq(Real) /\ r[2] \in Seq(Real)
  /\ ab[1] \in Seq(Cuts) => r[1] \in Seq(Cuts)
  /\ Single(ab[1]) => Single(r[1])

Below(n) == {ab \in Pairs : Measure(ab) < n}
SoundBelow(f, n) == \A ab \in Below(n) : Becomes(ab, f[ab])
AgreeBelow(f, g, n) == \A ab \in Below(n) : f[ab] = g[ab]

(* A pair of lists by its parts.                                           *)
LEMMA PairFacts ==
  ASSUME NEW ab \in Pairs
  PROVE  /\ ab[1] \in Seq(Edits) /\ ab[2] \in Seq(Edits) /\ ab = <<ab[1], ab[2]>>
         /\ Load(ab[1]) \in Nat /\ Load(ab[2]) \in Nat /\ Measure(ab) \in Nat
<1>1. ab[1] \in Seq(Edits) /\ ab[2] \in Seq(Edits) /\ ab = <<ab[1], ab[2]>>
  BY DEF Pairs
<1>2. Load(ab[1]) \in Nat /\ Load(ab[2]) \in Nat
  BY <1>1, LoadOfJoined
<1> QED BY <1>1, <1>2 DEF Measure

(* What makes a pair.                                                      *)
LEMMA PairMade ==
  ASSUME NEW a \in Seq(Edits), NEW b \in Seq(Edits)
  PROVE  <<a, b>> \in Pairs /\ <<a, b>>[1] = a /\ <<a, b>>[2] = b
           /\ Measure(<<a, b>>) = Load(a) + Load(b)
BY DEF Pairs, Measure

(* A sequence of one item.                                                 *)
LEMMA Singleton ==
  ASSUME NEW S, NEW q \in Seq(S), Len(q) = 1
  PROVE  q = <<q[1]>> /\ q[1] \in S /\ q # <<>>
OBVIOUS

(* Sums of ordered numbers.                                                *)
LEMMA SumsOrdered == \A i, j, k, l \in Nat : i <= k /\ j <= l => i + j <= k + l
OBVIOUS

(* Order is transitive.                                                    *)
LEMMA OrderedTwice == \A i, j, k \in Nat : i <= j /\ j <= k => i <= k
OBVIOUS

(* One edit through several: the first of them, then the others.           *)
LEMMA OneThroughMany ==
  ASSUME NEW a \in Seq(Edits), NEW b \in Seq(Edits), a # <<>>, b # <<>>, Len(b) # 1, NEW n \in Nat,
         Load(a) + Load(b) <= n, NEW f, SoundBelow(f, n)
  PROVE  LET x == <<a, <<Head(b)>>>>
             r == f[x]
             y == <<r[1], Tail(b)>>
             s == f[y]
         IN  x \in Below(n) /\ y \in Below(n) /\ Becomes(<<a, b>>, <<s[1], r[2] \o s[2]>>)
<1> DEFINE x == <<a, <<Head(b)>>>>
           r == f[x]
           y == <<r[1], Tail(b)>>
           s == f[y]
<1>1. PICK h, t : h = <<Head(b)>> /\ t = Tail(b)
  OBVIOUS
<1>2. /\ h \in Seq(Edits) /\ t \in Seq(Edits) /\ Load(b) = Load(h) + Load(t)
      /\ Load(h) \in Nat \ {0} /\ Load(t) \in Nat /\ Len(t) = Len(b) - 1 /\ Len(b) \in Nat \ {0}
  BY <1>1, LoadOfTail
<1>3. t # <<>>
  BY <1>2
<1>4. Load(t) \in Nat \ {0}
  <2>1. Load(t) = Load(<<Head(t)>>) + Load(Tail(t)) /\ Load(<<Head(t)>>) \in Nat \ {0}
          /\ Load(Tail(t)) \in Nat
    BY <1>2, <1>3, LoadOfTail
  <2> QED BY <2>1
<1>5. Load(a) \in Nat
  BY LoadOfJoined
<1>6. x \in Below(n)
  <2>1. x = <<a, h>> /\ <<a, h>> \in Pairs /\ Measure(<<a, h>>) = Load(a) + Load(h)
    BY <1>1, <1>2, PairMade
  <2>2. Load(a) + Load(h) < n
    BY <1>2, <1>4, <1>5
  <2> QED BY <2>1, <2>2 DEF Below
<1>7. x[1] = a /\ x[2] = h
  BY <1>1
<1> HIDE DEF x
<1>8. Becomes(x, r)
  BY <1>6 DEF SoundBelow
<1>9. r \in Pairs /\ Load(r[1]) <= Load(a) /\ Load(r[2]) <= Load(h)
  BY <1>7, <1>8 DEF Becomes
<1>10. /\ r[1] \in Seq(Edits) /\ r[2] \in Seq(Edits)
       /\ Load(r[1]) \in Nat /\ Load(r[2]) \in Nat
  BY <1>9, PairFacts
<1> HIDE DEF r
<1>11. y \in Below(n)
  <2>1. y = <<r[1], t>> /\ <<r[1], t>> \in Pairs /\ Measure(<<r[1], t>>) = Load(r[1]) + Load(t)
    BY <1>1, <1>2, <1>10, PairMade
  <2>2. Load(r[1]) + Load(t) < n
    BY <1>2, <1>4, <1>5, <1>9, <1>10
  <2> QED BY <2>1, <2>2 DEF Below
<1>12. y[1] = r[1] /\ y[2] = t
  BY <1>1
<1> HIDE DEF y
<1>13. Becomes(y, s)
  BY <1>11 DEF SoundBelow
<1>14. s \in Pairs /\ Load(s[1]) <= Load(r[1]) /\ Load(s[2]) <= Load(t)
  BY <1>12, <1>13 DEF Becomes
<1>15. /\ s[1] \in Seq(Edits) /\ s[2] \in Seq(Edits)
       /\ Load(s[1]) \in Nat /\ Load(s[2]) \in Nat
  BY <1>14, PairFacts
<1> HIDE DEF s
<1>16. PICK u : u = r[2] \o s[2]
  OBVIOUS
<1>17. u \in Seq(Edits) /\ Load(u) = Load(r[2]) + Load(s[2])
  BY <1>10, <1>15, <1>16, LoadOfJoined
<1>18. <<s[1], u>> \in Pairs /\ <<s[1], u>>[1] = s[1] /\ <<s[1], u>>[2] = u
       /\ <<a, b>>[1] = a /\ <<a, b>>[2] = b
  BY <1>15, <1>17, PairMade
<1>19. Load(s[1]) <= Load(a) /\ Load(u) <= Load(b)
  <2>1. Load(s[1]) <= Load(a)
    BY <1>5, <1>9, <1>10, <1>14, <1>15, OrderedTwice
  <2>2. Load(r[2]) + Load(s[2]) <= Load(h) + Load(t)
    BY <1>2, <1>9, <1>10, <1>14, <1>15, SumsOrdered
  <2> QED BY <1>2, <1>17, <2>1, <2>2
<1>20. ASSUME a \in Seq(Real), b \in Seq(Real) PROVE s[1] \in Seq(Real) /\ u \in Seq(Real)
  <2>1. h \in Seq(Real) /\ t \in Seq(Real)
    BY <1>1, <1>20
  <2>2. r[1] \in Seq(Real) /\ r[2] \in Seq(Real)
    BY <1>7, <1>8, <1>20, <2>1 DEF Becomes
  <2>3. s[1] \in Seq(Real) /\ s[2] \in Seq(Real)
    BY <1>12, <1>13, <2>1, <2>2 DEF Becomes
  <2> QED BY <1>16, <2>2, <2>3, ConcatFacts
<1>21. Single(a) => Single(s[1])
  BY <1>7, <1>8, <1>12, <1>13 DEF Becomes
<1>22. a \in Seq(Cuts) => s[1] \in Seq(Cuts)
  BY <1>7, <1>8, <1>12, <1>13 DEF Becomes
<1>23. Becomes(<<a, b>>, <<s[1], u>>)
  BY <1>18, <1>19, <1>20, <1>21, <1>22 DEF Becomes
<1> QED BY <1>6, <1>11, <1>16, <1>23 DEF x, y, r, s

(* Several through what there is: the first, then the others.              *)
LEMMA ManyThrough ==
  ASSUME NEW a \in Seq(Edits), NEW b \in Seq(Edits), a # <<>>, b # <<>>, Len(a) # 1, NEW n \in Nat,
         Load(a) + Load(b) <= n, NEW f, SoundBelow(f, n)
  PROVE  LET x == <<<<Head(a)>>, b>>
             r == f[x]
             y == <<Tail(a), r[2]>>
             s == f[y]
         IN  x \in Below(n) /\ y \in Below(n) /\ Becomes(<<a, b>>, <<r[1] \o s[1], s[2]>>)
<1> DEFINE x == <<<<Head(a)>>, b>>
           r == f[x]
           y == <<Tail(a), r[2]>>
           s == f[y]
<1>1. PICK h, t : h = <<Head(a)>> /\ t = Tail(a)
  OBVIOUS
<1>2. /\ h \in Seq(Edits) /\ t \in Seq(Edits) /\ Load(a) = Load(h) + Load(t)
      /\ Load(h) \in Nat \ {0} /\ Load(t) \in Nat /\ Len(t) = Len(a) - 1 /\ Len(a) \in Nat \ {0}
  BY <1>1, LoadOfTail
<1>3. t # <<>>
  BY <1>2
<1>4. Load(t) \in Nat \ {0}
  <2>1. Load(t) = Load(<<Head(t)>>) + Load(Tail(t)) /\ Load(<<Head(t)>>) \in Nat \ {0}
          /\ Load(Tail(t)) \in Nat
    BY <1>2, <1>3, LoadOfTail
  <2> QED BY <2>1
<1>5. Load(b) \in Nat
  BY LoadOfJoined
<1>6. x \in Below(n)
  <2>1. x = <<h, b>> /\ <<h, b>> \in Pairs /\ Measure(<<h, b>>) = Load(h) + Load(b)
    BY <1>1, <1>2, PairMade
  <2>2. Load(h) + Load(b) < n
    BY <1>2, <1>4, <1>5
  <2> QED BY <2>1, <2>2 DEF Below
<1>7. x[1] = h /\ x[2] = b
  BY <1>1
<1> HIDE DEF x
<1>8. Becomes(x, r)
  BY <1>6 DEF SoundBelow
<1>9. r \in Pairs /\ Load(r[1]) <= Load(h) /\ Load(r[2]) <= Load(b)
  BY <1>7, <1>8 DEF Becomes
<1>10. /\ r[1] \in Seq(Edits) /\ r[2] \in Seq(Edits)
       /\ Load(r[1]) \in Nat /\ Load(r[2]) \in Nat
  BY <1>9, PairFacts
<1> HIDE DEF r
<1>11. y \in Below(n)
  <2>1. y = <<t, r[2]>> /\ <<t, r[2]>> \in Pairs /\ Measure(<<t, r[2]>>) = Load(t) + Load(r[2])
    BY <1>1, <1>2, <1>10, PairMade
  <2>2. Load(t) + Load(r[2]) < n
    BY <1>2, <1>4, <1>5, <1>9, <1>10
  <2> QED BY <2>1, <2>2 DEF Below
<1>12. y[1] = t /\ y[2] = r[2]
  BY <1>1
<1> HIDE DEF y
<1>13. Becomes(y, s)
  BY <1>11 DEF SoundBelow
<1>14. s \in Pairs /\ Load(s[1]) <= Load(t) /\ Load(s[2]) <= Load(r[2])
  BY <1>12, <1>13 DEF Becomes
<1>15. /\ s[1] \in Seq(Edits) /\ s[2] \in Seq(Edits)
       /\ Load(s[1]) \in Nat /\ Load(s[2]) \in Nat
  BY <1>14, PairFacts
<1> HIDE DEF s
<1>16. PICK u : u = r[1] \o s[1]
  OBVIOUS
<1>17. u \in Seq(Edits) /\ Load(u) = Load(r[1]) + Load(s[1])
  BY <1>10, <1>15, <1>16, LoadOfJoined
<1>18. <<u, s[2]>> \in Pairs /\ <<u, s[2]>>[1] = u /\ <<u, s[2]>>[2] = s[2]
       /\ <<a, b>>[1] = a /\ <<a, b>>[2] = b
  BY <1>15, <1>17, PairMade
<1>19. Load(u) <= Load(a) /\ Load(s[2]) <= Load(b)
  <2>1. Load(s[2]) <= Load(b)
    BY <1>5, <1>9, <1>10, <1>14, <1>15, OrderedTwice
  <2>2. Load(r[1]) + Load(s[1]) <= Load(h) + Load(t)
    BY <1>2, <1>9, <1>10, <1>14, <1>15, SumsOrdered
  <2> QED BY <1>2, <1>17, <2>1, <2>2
<1>20. ASSUME a \in Seq(Real), b \in Seq(Real) PROVE u \in Seq(Real) /\ s[2] \in Seq(Real)
  <2>1. h \in Seq(Real) /\ t \in Seq(Real)
    BY <1>1, <1>20
  <2>2. r[1] \in Seq(Real) /\ r[2] \in Seq(Real)
    BY <1>7, <1>8, <1>20, <2>1 DEF Becomes
  <2>3. s[1] \in Seq(Real) /\ s[2] \in Seq(Real)
    BY <1>12, <1>13, <2>1, <2>2 DEF Becomes
  <2> QED BY <1>16, <2>2, <2>3, ConcatFacts
<1>21. ~Single(a)
  BY DEF Single
<1>22. ASSUME a \in Seq(Cuts) PROVE u \in Seq(Cuts)
  <2>1. h \in Seq(Cuts) /\ t \in Seq(Cuts)
    BY <1>1, <1>22
  <2>2. r[1] \in Seq(Cuts) /\ s[1] \in Seq(Cuts)
    BY <1>7, <1>8, <1>12, <1>13, <2>1 DEF Becomes
  <2> QED BY <1>16, <2>2, ConcatFacts
<1>23. Becomes(<<a, b>>, <<u, s[2]>>)
  BY <1>18, <1>19, <1>20, <1>21, <1>22 DEF Becomes
<1> QED BY <1>6, <1>11, <1>16, <1>23 DEF x, y, r, s

(* One edit and one edit.                                                  *)
LEMMA OneThroughOne ==
  ASSUME NEW a \in Seq(Edits), NEW b \in Seq(Edits), Len(a) = 1, Len(b) = 1
  PROVE  Becomes(<<a, b>>, <<Through(a[1], b[1], TRUE), Through(b[1], a[1], FALSE)>>)
<1>1. PICK x, y : x = a[1] /\ y = b[1]
  OBVIOUS
<1>2. x \in Edits /\ y \in Edits /\ a = <<x>> /\ b = <<y>>
  BY <1>1
<1>3. PICK p, q : p = Through(x, y, TRUE) /\ q = Through(y, x, FALSE)
  OBVIOUS
<1>4. InPlaceOf(p, x) /\ InPlaceOf(q, y)
  BY <1>2, <1>3, ThroughFacts
<1>5. /\ p \in Seq(Edits) /\ Load(p) <= Weight(x) /\ (x \in Real => p \in Seq(Real))
          /\ (x.t = "insert" => Single(p))
      /\ q \in Seq(Edits) /\ Load(q) <= Weight(y) /\ (y \in Real => q \in Seq(Real))
  BY <1>4 DEF InPlaceOf
<1>6. Load(a) = Weight(x) /\ Load(b) = Weight(y)
  BY <1>2, LoadOfOne
<1>7. /\ <<p, q>> \in Pairs /\ <<p, q>>[1] = p /\ <<p, q>>[2] = q
      /\ <<a, b>>[1] = a /\ <<a, b>>[2] = b
  BY <1>5, PairMade
<1>8. ASSUME a \in Seq(Real), b \in Seq(Real) PROVE x \in Real /\ y \in Real
  <2>1. a[1] \in Real /\ b[1] \in Real
    BY <1>8, Singleton
  <2> QED BY <1>1, <2>1
<1>9. Single(a) => Single(p)
  BY <1>1, <1>5 DEF Single
<1>10. ASSUME a \in Seq(Cuts) PROVE p \in Seq(Cuts)
  <2>1. x \in Cuts
    BY <1>1, <1>10, Singleton
  <2> QED BY <1>4, <2>1 DEF InPlaceOf
<1>11. Becomes(<<a, b>>, <<p, q>>)
  BY <1>5, <1>6, <1>7, <1>8, <1>9, <1>10 DEF Becomes
<1> QED BY <1>1, <1>3, <1>11

(* What it_lists makes of a pair is sound when what it makes of smaller ones *)
(* is, and depends on these alone.                                         *)
LEMMA ListingFacts ==
  ASSUME NEW n \in Nat, NEW f, SoundBelow(f, n), NEW ab \in Below(n + 1)
  PROVE  /\ Becomes(ab, Listing(f, ab))
         /\ \A g : AgreeBelow(f, g, n) => Listing(f, ab) = Listing(g, ab)
<1>1. PICK a, b : a = ab[1] /\ b = ab[2]
  OBVIOUS
<1>2. ab \in Pairs /\ Measure(ab) < n + 1
  BY DEF Below
<1>3. /\ a \in Seq(Edits) /\ b \in Seq(Edits) /\ ab = <<a, b>>
      /\ Load(a) \in Nat /\ Load(b) \in Nat
  BY <1>1, <1>2, PairFacts
<1>4. Load(a) + Load(b) <= n
  BY <1>1, <1>2, <1>3 DEF Measure
<1>5. CASE a = <<>> \/ b = <<>>
  <2>1. \A g : Listing(g, ab) = ab
    BY <1>1, <1>5 DEF Listing
  <2>2. Load(ab[1]) <= Load(ab[1]) /\ Load(ab[2]) <= Load(ab[2])
    BY <1>1, <1>3
  <2>3. Becomes(ab, ab)
    BY <1>2, <2>2 DEF Becomes
  <2> QED BY <2>1, <2>3
<1>6. CASE a # <<>> /\ b # <<>> /\ Len(a) = 1 /\ Len(b) = 1
  <2>1. \A g : Listing(g, ab) = <<Through(a[1], b[1], TRUE), Through(b[1], a[1], FALSE)>>
    BY <1>1, <1>6 DEF Listing
  <2>2. Becomes(<<a, b>>, <<Through(a[1], b[1], TRUE), Through(b[1], a[1], FALSE)>>)
    BY <1>3, <1>6, OneThroughOne
  <2> QED BY <1>3, <2>1, <2>2
<1>7. CASE a # <<>> /\ b # <<>> /\ Len(a) = 1 /\ Len(b) # 1
  <2>1. \A g : Listing(g, ab) = LET one == g[<<a, <<Head(b)>>>>]
                                    others == g[<<one[1], Tail(b)>>]
                                IN  <<others[1], one[2] \o others[2]>>
    BY <1>1, <1>7 DEF Listing
  <2>2. LET x == <<a, <<Head(b)>>>>
            r == f[x]
            y == <<r[1], Tail(b)>>
            s == f[y]
        IN  x \in Below(n) /\ y \in Below(n) /\ Becomes(<<a, b>>, <<s[1], r[2] \o s[2]>>)
    BY <1>3, <1>4, <1>7, OneThroughMany
  <2>3. PICK x : x = <<a, <<Head(b)>>>>
    OBVIOUS
  <2>4. PICK r : r = f[x]
    OBVIOUS
  <2>5. PICK y : y = <<r[1], Tail(b)>>
    OBVIOUS
  <2>6. PICK s : s = f[y]
    OBVIOUS
  <2>7. x \in Below(n) /\ y \in Below(n) /\ Becomes(ab, <<s[1], r[2] \o s[2]>>)
    BY <1>3, <2>2, <2>3, <2>4, <2>5, <2>6
  <2>8. Listing(f, ab) = <<s[1], r[2] \o s[2]>>
    BY <2>1, <2>3, <2>4, <2>5, <2>6
  <2>9. ASSUME NEW g, AgreeBelow(f, g, n) PROVE Listing(g, ab) = <<s[1], r[2] \o s[2]>>
    <3>1. g[x] = r /\ g[y] = s
      BY <2>4, <2>6, <2>7, <2>9 DEF AgreeBelow
    <3> QED BY <2>1, <2>3, <2>5, <3>1
  <2> QED BY <2>7, <2>8, <2>9
<1>8. CASE a # <<>> /\ b # <<>> /\ Len(a) # 1
  <2>1. \A g : Listing(g, ab) = LET one == g[<<<<Head(a)>>, b>>]
                                    others == g[<<Tail(a), one[2]>>]
                                IN  <<one[1] \o others[1], others[2]>>
    BY <1>1, <1>8 DEF Listing
  <2>2. LET x == <<<<Head(a)>>, b>>
            r == f[x]
            y == <<Tail(a), r[2]>>
            s == f[y]
        IN  x \in Below(n) /\ y \in Below(n) /\ Becomes(<<a, b>>, <<r[1] \o s[1], s[2]>>)
    BY <1>3, <1>4, <1>8, ManyThrough
  <2>3. PICK x : x = <<<<Head(a)>>, b>>
    OBVIOUS
  <2>4. PICK r : r = f[x]
    OBVIOUS
  <2>5. PICK y : y = <<Tail(a), r[2]>>
    OBVIOUS
  <2>6. PICK s : s = f[y]
    OBVIOUS
  <2>7. x \in Below(n) /\ y \in Below(n) /\ Becomes(ab, <<r[1] \o s[1], s[2]>>)
    BY <1>3, <2>2, <2>3, <2>4, <2>5, <2>6
  <2>8. Listing(f, ab) = <<r[1] \o s[1], s[2]>>
    BY <2>1, <2>3, <2>4, <2>5, <2>6
  <2>9. ASSUME NEW g, AgreeBelow(f, g, n) PROVE Listing(g, ab) = <<r[1] \o s[1], s[2]>>
    <3>1. g[x] = r /\ g[y] = s
      BY <2>4, <2>6, <2>7, <2>9 DEF AgreeBelow
    <3> QED BY <2>1, <2>3, <2>5, <3>1
  <2> QED BY <2>7, <2>8, <2>9
<1> QED BY <1>5, <1>6, <1>7, <1>8

-----------------------------------------------------------------------------
(* 9. it_lists ends                                                        *)

(* A function that is what it_lists says of the pairs below n.             *)
Solves(f, n) ==
  /\ f \in [Pairs -> Pairs] /\ SoundBelow(f, n)
  /\ \A ab \in Below(n) : f[ab] = Listing(f, ab)

(* No pair holds less than nothing.                                        *)
LEMMA NoneBelow == Below(0) = {}
<1>1. \A ab \in Pairs : Measure(ab) \in Nat
  BY PairFacts
<1> QED BY <1>1 DEF Below

(* A higher bound takes in more pairs.                                     *)
LEMMA BelowMore == \A k, n \in Nat : k <= n => Below(k) \subseteq Below(n)
<1> SUFFICES ASSUME NEW k \in Nat, NEW n \in Nat, k <= n, NEW ab \in Below(k) PROVE ab \in Below(n)
  OBVIOUS
<1>1. ab \in Pairs /\ Measure(ab) < k /\ Measure(ab) \in Nat
  BY PairFacts DEF Below
<1>2. Measure(ab) < n
  BY <1>1
<1> QED BY <1>1, <1>2 DEF Below

(* There is one for the bound zero.                                        *)
LEMMA SolvesFirst == Solves([ab \in Pairs |-> ab], 0)
BY NoneBelow DEF Solves, SoundBelow

(* One for the next bound from one for a bound.                            *)
LEMMA SolvesNext ==
  ASSUME NEW k \in Nat, NEW f, Solves(f, k)
  PROVE  Solves([ab \in Pairs |-> IF ab \in Below(k + 1) THEN Listing(f, ab) ELSE ab], k + 1)
<1> DEFINE g == [ab \in Pairs |-> IF ab \in Below(k + 1) THEN Listing(f, ab) ELSE ab]
<1>1. f \in [Pairs -> Pairs] /\ SoundBelow(f, k) /\ \A ab \in Below(k) : f[ab] = Listing(f, ab)
  BY DEF Solves
<1>2. \A ab \in Below(k + 1) : Becomes(ab, Listing(f, ab)) /\ \A h : AgreeBelow(f, h, k)
        => Listing(f, ab) = Listing(h, ab)
  BY <1>1, ListingFacts
<1>3. \A ab \in Below(k + 1) : Listing(f, ab) \in Pairs
  BY <1>2 DEF Becomes
<1>4. Below(k) \subseteq Below(k + 1) /\ Below(k + 1) \subseteq Pairs
  <2>1. k <= k + 1 /\ k + 1 \in Nat
    OBVIOUS
  <2> QED BY <2>1, BelowMore DEF Below
<1>5. g \in [Pairs -> Pairs]
  BY <1>3
<1>6. \A ab \in Below(k + 1) : g[ab] = Listing(f, ab)
  BY <1>4
<1> HIDE DEF g
<1>7. AgreeBelow(f, g, k)
  BY <1>1, <1>4, <1>6 DEF AgreeBelow
<1>8. SoundBelow(g, k + 1)
  BY <1>2, <1>6 DEF SoundBelow
<1>9. \A ab \in Below(k + 1) : g[ab] = Listing(g, ab)
  BY <1>2, <1>6, <1>7
<1>10. Solves(g, k + 1)
  BY <1>5, <1>8, <1>9 DEF Solves
<1> QED BY <1>10 DEF g

(* So there is one for every bound.                                        *)
LEMMA SolvesSomehow == \A n \in Nat : \E f : Solves(f, n)
<1> SUFFICES ASSUME NEW n \in Nat PROVE \E f : Solves(f, n)
  OBVIOUS
<1> DEFINE F == {k \in 0 .. n : \E f : Solves(f, k)}
<1>1. 0 \in F
  BY SolvesFirst
<1>2. ASSUME NEW k \in 0 .. n - 1, k \in F PROVE k + 1 \in F
  <2>1. PICK f : Solves(f, k)
    BY <1>2
  <2>2. k \in Nat /\ k + 1 \in 0 .. n
    OBVIOUS
  <2>3. \E g : Solves(g, k + 1)
    BY <2>1, <2>2, SolvesNext
  <2> QED BY <2>2, <2>3
<1> HIDE DEF F
<1>3. 0 .. n \subseteq F
  BY <1>1, <1>2, StepByStep
<1> QED BY <1>3 DEF F

(* All such functions agree.                                               *)
LEMMA SolvesAgree ==
  ASSUME NEW n \in Nat, NEW m \in Nat, n <= m, NEW f, NEW g, Solves(f, n), Solves(g, m)
  PROVE  AgreeBelow(f, g, n)
<1>1. /\ SoundBelow(f, n) /\ \A ab \in Below(n) : f[ab] = Listing(f, ab)
      /\ \A ab \in Below(m) : g[ab] = Listing(g, ab)
  BY DEF Solves
<1> DEFINE F == {k \in 0 .. n : AgreeBelow(f, g, k)}
<1>2. 0 \in F
  BY NoneBelow DEF AgreeBelow
<1>3. ASSUME NEW k \in 0 .. n - 1, k \in F PROVE k + 1 \in F
  <2>1. k \in Nat /\ k + 1 \in Nat /\ k + 1 \in 0 .. n /\ k <= n /\ k + 1 <= n /\ k + 1 <= m
    OBVIOUS
  <2>2. Below(k) \subseteq Below(n) /\ Below(k + 1) \subseteq Below(n)
          /\ Below(k + 1) \subseteq Below(m)
    BY <2>1, BelowMore
  <2>3. SoundBelow(f, k)
    BY <1>1, <2>2 DEF SoundBelow
  <2>4. AgreeBelow(f, g, k)
    BY <1>3
  <2>5. \A ab \in Below(k + 1) : Listing(f, ab) = Listing(g, ab)
    BY <2>1, <2>3, <2>4, ListingFacts
  <2>6. AgreeBelow(f, g, k + 1)
    BY <1>1, <2>2, <2>5 DEF AgreeBelow
  <2> QED BY <2>1, <2>6
<1> HIDE DEF F
<1>4. 0 .. n \subseteq F
  BY <1>2, <1>3, StepByStep
<1> QED BY <1>4 DEF F

(* it_lists ends, whatever the lists: it is a function, and what it says.  *)
THEOREM RebaseEnds == Lists = [ab \in Pairs |-> Listing(Lists, ab)]
<1> DEFINE F(ab) == CHOOSE f : Solves(f, Measure(ab) + 1)
           h == [ab \in Pairs |-> F(ab)[ab]]
<1>1. ASSUME NEW ab \in Pairs PROVE Solves(F(ab), Measure(ab) + 1) /\ Measure(ab) \in Nat
  <2>1. Measure(ab) \in Nat /\ Measure(ab) + 1 \in Nat
    BY PairFacts
  <2>2. \E f : Solves(f, Measure(ab) + 1)
    BY <2>1, SolvesSomehow
  <2> QED BY <2>1, <2>2
<1>2. \A ab \in Pairs : h[ab] = F(ab)[ab]
  OBVIOUS
<1>3. h = [ab \in Pairs |-> h[ab]]
  OBVIOUS
<1> HIDE DEF F, h
<1>4. ASSUME NEW ab \in Pairs PROVE h[ab] = Listing(h, ab)
  <2>1. PICK f, n : f = F(ab) /\ n = Measure(ab)
    OBVIOUS
  <2>2. Solves(f, n + 1) /\ n \in Nat /\ ab \in Below(n + 1)
    <3>1. n < n + 1
      BY <1>1, <2>1
    <3> QED BY <1>1, <2>1, <3>1 DEF Below
  <2>3. AgreeBelow(f, h, n)
    <3> SUFFICES ASSUME NEW x \in Below(n) PROVE f[x] = h[x]
      BY DEF AgreeBelow
    <3>1. PICK m : m = Measure(x)
      OBVIOUS
    <3>2. x \in Pairs /\ m < n /\ Solves(F(x), m + 1) /\ m \in Nat
      BY <1>1, <3>1 DEF Below
    <3>3. m + 1 \in Nat /\ n + 1 \in Nat /\ m + 1 <= n + 1 /\ m < m + 1
      BY <2>2, <3>2
    <3>4. AgreeBelow(F(x), f, m + 1)
      BY <2>2, <3>2, <3>3, SolvesAgree
    <3>5. x \in Below(m + 1)
      BY <3>1, <3>2, <3>3 DEF Below
    <3> QED BY <1>2, <3>2, <3>4, <3>5 DEF AgreeBelow
  <2>4. SoundBelow(f, n) /\ f[ab] = Listing(f, ab)
    <3>1. Below(n) \subseteq Below(n + 1)
      <4>1. n + 1 \in Nat /\ n <= n + 1
        BY <2>2
      <4> QED BY <2>2, <4>1, BelowMore
    <3> QED BY <2>2, <3>1 DEF Solves, SoundBelow
  <2>5. Listing(f, ab) = Listing(h, ab)
    BY <2>2, <2>3, <2>4, ListingFacts
  <2> QED BY <1>2, <2>1, <2>4, <2>5
<1>5. h = [ab \in Pairs |-> Listing(h, ab)]
  BY <1>3, <1>4
<1>6. \E f : f = [ab \in Pairs |-> Listing(f, ab)]
  BY <1>5
<1> QED BY <1>6, ListsIsChosen

(* The edits of two lists as they apply after each other.                  *)
LEMMA ListsFacts ==
  ASSUME NEW a \in Seq(Edits), NEW b \in Seq(Edits)
  PROVE  LET r == Lists[<<a, b>>]
         IN  /\ r[1] \in Seq(Edits) /\ r[2] \in Seq(Edits)
             /\ a \in Seq(Real) /\ b \in Seq(Real) => r[1] \in Seq(Real) /\ r[2] \in Seq(Real)
             /\ a \in Seq(Cuts) => r[1] \in Seq(Cuts)
             /\ Single(a) => Single(r[1])
<1>1. PICK ab : ab = <<a, b>>
  OBVIOUS
<1>2. ab \in Pairs /\ ab[1] = a /\ ab[2] = b
  BY <1>1, PairMade
<1>3. Measure(ab) \in Nat
  BY <1>2, PairFacts
<1>4. PICK n : n = Measure(ab) + 1
  OBVIOUS
<1>5. n \in Nat /\ Measure(ab) < n
  BY <1>3, <1>4
<1> DEFINE F == {k \in 0 .. n : SoundBelow(Lists, k)}
<1>6. 0 \in F
  BY <1>5, NoneBelow DEF SoundBelow
<1>7. ASSUME NEW k \in 0 .. n - 1, k \in F PROVE k + 1 \in F
  <2>1. k \in Nat /\ k + 1 \in 0 .. n
    BY <1>5
  <2>2. SoundBelow(Lists, k)
    BY <1>7
  <2>3. \A x \in Below(k + 1) : Becomes(x, Listing(Lists, x))
    BY <2>1, <2>2, ListingFacts
  <2>4. \A x \in Pairs : Lists[x] = Listing(Lists, x)
    BY RebaseEnds
  <2>5. SoundBelow(Lists, k + 1)
    BY <2>3, <2>4 DEF SoundBelow, Below
  <2> QED BY <2>1, <2>5
<1> HIDE DEF F
<1>8. 0 .. n \subseteq F
  BY <1>5, <1>6, <1>7, StepByStep
<1>9. SoundBelow(Lists, n)
  BY <1>5, <1>8 DEF F
<1>10. Becomes(ab, Lists[ab])
  BY <1>2, <1>5, <1>9 DEF SoundBelow, Below
<1>11. PICK r : r = Lists[ab]
  OBVIOUS
<1>12. r \in Pairs
         /\ (a \in Seq(Real) /\ b \in Seq(Real) => r[1] \in Seq(Real) /\ r[2] \in Seq(Real))
       /\ (a \in Seq(Cuts) => r[1] \in Seq(Cuts)) /\ (Single(a) => Single(r[1]))
  BY <1>2, <1>10, <1>11 DEF Becomes
<1>13. r[1] \in Seq(Edits) /\ r[2] \in Seq(Edits)
  BY <1>12, PairFacts
<1> QED BY <1>1, <1>11, <1>12, <1>13

-----------------------------------------------------------------------------
(* 10. Lists of lists                                                      *)

(* Lists joined to one.                                                    *)
LEMMA FlattenSteps ==
  ASSUME NEW S, NEW q \in Seq(Seq(S))
  PROVE  \E f \in [0 .. Len(q) -> Seq(S)] :
           f[0] = <<>> /\ FlattenSeq(q) = f[Len(q)] /\ \A k \in 1 .. Len(q) : f[k] = f[k - 1] \o q[k]
<1> DEFINE n == Len(q)
           Def(f) == f = [i \in 1 .. n |-> IF i = 1 THEN q[i] ELSE f[i - 1] \o q[i]]
           flatten == CHOOSE f : Def(f)
           step == [k \in 1 .. n |-> [s \in Seq(S) |-> s \o q[k]]]
<1>1. FlattenSeq(q) = IF n = 0 THEN q ELSE flatten[n]
  BY DEF FlattenSeq
<1>2. n \in Nat /\ \A k \in 1 .. n : q[k] \in Seq(S)
  BY SeqFacts
<1>3. n = 0 => q = <<>> /\ q \in Seq(S)
  OBVIOUS
<1> HIDE DEF n
<1>4. Stepwise(step, n, Seq(S))
  <2>1. \A k \in 1 .. n : \A s \in Seq(S) : s \o q[k] \in Seq(S)
    BY <1>2, ConcatFacts
  <2> QED BY <1>2, <2>1 DEF Stepwise
<1>5. \A k \in 1 .. n : \A s \in Seq(S) : step[k][s] = s \o q[k]
  OBVIOUS
<1> HIDE DEF step
<1>6. PICK p : Passing(p, n, <<>>, step, Seq(S))
  <2>1. <<>> \in Seq(S)
    OBVIOUS
  <2>2. \E f : Passing(f, n, <<>>, step, Seq(S))
    BY <1>4, <2>1, Passes
  <2> QED BY <2>2
<1>7. p \in [0 .. n -> Seq(S)] /\ p[0] = <<>> /\ \A k \in 1 .. n : p[k] = step[k][p[k - 1]]
  BY <1>6 DEF Passing
<1>8. \A k \in 1 .. n : k - 1 \in 0 .. n /\ p[k - 1] \in Seq(S) /\ p[k] = p[k - 1] \o q[k]
  <2>1. \A k \in 1 .. n : k - 1 \in 0 .. n
    BY <1>2
  <2> QED BY <1>5, <1>7, <2>1
<1>9. Def([i \in 1 .. n |-> p[i]])
  <2> DEFINE g == [i \in 1 .. n |-> p[i]]
  <2>1. ASSUME NEW i \in 1 .. n PROVE g[i] = IF i = 1 THEN q[i] ELSE g[i - 1] \o q[i]
    <3>1. CASE i = 1
      <4>0. 1 \in 1 .. n /\ p[1] = p[1 - 1] \o q[1]
        BY <1>8, <3>1
      <4>4. 1 - 1 = 0
        OBVIOUS
      <4>1. p[1] = <<>> \o q[1]
        BY <1>7, <4>0, <4>4
      <4>2. <<>> \o q[1] = q[1]
        BY <1>2, <3>1
      <4> QED BY <3>1, <4>1, <4>2
    <3>2. CASE i # 1
      <4>1. i - 1 \in 1 .. n
        BY <1>2, <3>2
      <4> QED BY <1>8, <3>2, <4>1
    <3> QED BY <3>1, <3>2
  <2>2. g = [i \in 1 .. n |-> g[i]]
    OBVIOUS
  <2> HIDE DEF g
  <2>3. Def(g)
    BY <2>1, <2>2
  <2> QED BY <2>3 DEF g
<1>10. Def(flatten)
  BY <1>9
<1> HIDE DEF flatten
<1>11. \A i \in 1 .. n : flatten[i] = IF i = 1 THEN q[i] ELSE flatten[i - 1] \o q[i]
  BY <1>10
<1> HIDE DEF Def
<1> DEFINE F == {i \in 0 .. n : i # 0 => flatten[i] = p[i]}
<1>12. 0 \in F
  BY <1>2
<1>13. ASSUME NEW i \in 0 .. n - 1, i \in F PROVE i + 1 \in F
  <2>1. i + 1 \in 1 .. n /\ i + 1 \in 0 .. n /\ (i + 1) - 1 = i
    BY <1>2
  <2>2. CASE i = 0
    <3>0. 1 \in 1 .. n /\ 1 - 1 = 0
      BY <2>1, <2>2
    <3>1. flatten[1] = q[1] /\ q[1] \in Seq(S) /\ p[1] = p[1 - 1] \o q[1]
      BY <1>2, <1>8, <1>11, <3>0
    <3>2. p[1] = <<>> \o q[1]
      BY <1>7, <3>0, <3>1
    <3>3. <<>> \o q[1] = q[1]
      BY <3>1
    <3> QED BY <2>1, <2>2, <3>1, <3>2, <3>3
  <2>3. CASE i # 0
    <3>3. PICK m : m = i + 1
      OBVIOUS
    <3>4. m \in 1 .. n /\ m - 1 = i /\ m # 1
      BY <1>2, <2>1, <2>3, <3>3
    <3>5. flatten[m] = flatten[i] \o q[m] /\ p[m] = p[i] \o q[m]
      BY <1>8, <1>11, <3>4
    <3>6. flatten[i] = p[i]
      BY <1>13, <2>3
    <3> QED BY <2>1, <3>3, <3>5, <3>6
  <2> QED BY <2>2, <2>3
<1> HIDE DEF F
<1>14. 0 .. n \subseteq F
  BY <1>2, <1>12, <1>13, StepByStep
<1>15. n # 0 => flatten[n] = p[n]
  BY <1>2, <1>14 DEF F
<1>16. FlattenSeq(q) = p[n]
  BY <1>1, <1>3, <1>7, <1>15
<1> QED BY <1>7, <1>8, <1>16 DEF n

(* So it is a list of the same.                                              *)
LEMMA FlattenFacts ==
  ASSUME NEW S, NEW q \in Seq(Seq(S))
  PROVE  FlattenSeq(q) \in Seq(S)
<1>1. PICK f \in [0 .. Len(q) -> Seq(S)] : FlattenSeq(q) = f[Len(q)]
  BY FlattenSteps
<1>2. Len(q) \in 0 .. Len(q)
  <2>1. Len(q) \in Nat
    BY SeqFacts
  <2> QED BY <2>1
<1> QED BY <1>1, <1>2

-----------------------------------------------------------------------------
(* Marks                                                                   *)

(* A piece of a range is a list of marks.                                  *)
LEMMA PieceMade ==
  ASSUME NEW from \in Nat, NEW to \in Nat, NEW l \in Looks
  PROVE  Piece(from, to, l) \in Seq(MarkOps)
<1>1. CASE from < to
  <2>1. Mark(from, to, l) \in MarkOps
    BY <1>1 DEF Mark, MarkOps
  <2>2. Piece(from, to, l) = <<Mark(from, to, l)>>
    BY <1>1 DEF Piece
  <2> QED BY <2>1, <2>2
<1>2. CASE ~(from < to)
  <2>1. Piece(from, to, l) = <<>>
    BY <1>2 DEF Piece
  <2> QED BY <2>1
<1> QED BY <1>1, <1>2

(* What an edit leaves of a mark's range.                                  *)
LEMMA PiecesFacts ==
  ASSUME NEW op \in MarkOps, NEW edit \in Edits
  PROVE  Pieces(op, edit) \in Seq(MarkOps)
<1>a. PICK from, to, l, p, n : from = op.from /\ to = op.to /\ l = op.look /\ p = edit.at
  /\ n = edit.len
  OBVIOUS
<1>1. from \in Nat /\ to \in Nat /\ l \in Looks /\ p \in Nat /\ n \in Nat
  BY <1>a, EditFacts DEF MarkOps
<1>2. \A x, y \in Nat : Piece(x, y, l) \in Seq(MarkOps)
  BY <1>1, PieceMade
<1>3. \A q, r \in Seq(MarkOps) : q \o r \in Seq(MarkOps)
  BY ConcatFacts
<1>4. CASE edit.t = "insert"
  <2>1. Pieces(op, edit) = IF p <= from THEN Piece(from + n, to + n, l)
                           ELSE IF p >= to THEN Piece(from, to, l)
                           ELSE Piece(from, p, l) \o Piece(p + n, to + n, l)
    BY <1>a, <1>4 DEF Pieces
  <2>2. from + n \in Nat /\ to + n \in Nat /\ p + n \in Nat
    BY <1>1
  <2>3. Piece(from, p, l) \o Piece(p + n, to + n, l) \in Seq(MarkOps)
    BY <1>1, <1>2, <1>3, <2>2
  <2>4. Piece(from + n, to + n, l) \in Seq(MarkOps) /\ Piece(from, to, l) \in Seq(MarkOps)
    BY <1>1, <1>2, <2>2
  <2> QED BY <2>1, <2>3, <2>4
<1>5. CASE edit.t # "insert"
  <2>0. PICK till, since : till = Min({to, p}) /\ since = Max({from, p + n})
    OBVIOUS
  <2>1. PICK first, last : /\ first = (IF from < p THEN Piece(from, till, l) ELSE <<>>)
                           /\ last = (IF to > p + n THEN Piece(since - n, to - n, l) ELSE <<>>)
    OBVIOUS
  <2>2. Pieces(op, edit) = first \o last
    BY <1>a, <1>5, <2>0, <2>1 DEF Pieces
  <2>7. PICK x : x = p + n
    OBVIOUS
  <2>8. x \in Nat
    BY <1>1, <2>7
  <2>9. till = (IF to <= p THEN to ELSE p) /\ since = (IF from >= x THEN from ELSE x)
    <3>1. Min({to, p}) = (IF to <= p THEN to ELSE p)
            /\ Max({from, x}) = (IF from >= x THEN from ELSE x)
      BY <1>1, <2>8, Extremes
    <3> QED BY <2>0, <2>7, <3>1
  <2>10. till \in Nat /\ since \in Nat /\ since >= x
    BY <1>1, <2>8, <2>9
  <2>3. p + n \in Nat /\ till \in Nat /\ since \in Nat /\ since >= p + n
    BY <2>7, <2>8, <2>10
  <2>4. since - n \in Nat /\ (to > p + n => to - n \in Nat)
    BY <1>1, <2>3
  <2>5. first \in Seq(MarkOps)
    BY <1>1, <1>2, <2>1, <2>3
  <2>6. last \in Seq(MarkOps)
    BY <1>1, <1>2, <2>1, <2>4
  <2> QED BY <1>3, <2>2, <2>5, <2>6
<1> QED BY <1>4, <1>5

(* What an edit leaves of several ranges.                                  *)
LEMMA AllPiecesFacts ==
  ASSUME NEW ops \in Seq(MarkOps), NEW edit \in Edits
  PROVE  AllPieces(ops, edit) \in Seq(MarkOps)
<1> DEFINE q == [i \in DOMAIN ops |-> Pieces(ops[i], edit)]
<1>1. Len(ops) \in Nat /\ DOMAIN ops = 1 .. Len(ops) /\ \A i \in 1 .. Len(ops) : ops[i] \in MarkOps
  BY SeqFacts
<1>2. \A i \in 1 .. Len(ops) : Pieces(ops[i], edit) \in Seq(MarkOps)
  BY <1>1, PiecesFacts
<1>3. q \in [1 .. Len(ops) -> Seq(MarkOps)]
  BY <1>1, <1>2
<1>4. q \in Seq(Seq(MarkOps))
  BY <1>1, <1>3
<1>5. AllPieces(ops, edit) = FlattenSeq(q)
  BY DEF AllPieces
<1> HIDE DEF q
<1> QED BY <1>4, <1>5, FlattenFacts

(* Ranges, edit by edit. *)
LEMMA RangesSteps ==
  ASSUME NEW ops \in Seq(MarkOps), NEW edits \in Seq(Edits)
  PROVE  \E f \in [0 .. Len(edits) -> Seq(MarkOps)] :
           /\ f[0] = ops /\ Ranges(ops, edits) = f[Len(edits)]
           /\ \A k \in 1 .. Len(edits) : f[k] = AllPieces(f[k - 1], edits[k])
<1> DEFINE n == Len(edits)
           a == ops
           S == Seq(MarkOps)
           Def(f) == f = [k \in 0 .. n |-> IF k = 0 THEN a ELSE AllPieces(f[k - 1], edits[k])]
           after == CHOOSE f : Def(f)
           step == [k \in 1 .. n |-> [s \in S |-> AllPieces(s, edits[k])]]
<1>1. Ranges(ops, edits) = after[n]
  BY DEF Ranges
<1>2. n \in Nat /\ \A k \in 1 .. n : edits[k] \in Edits
  BY SeqFacts
<1>3. a \in S
  OBVIOUS
<1> HIDE DEF n, a
<1>4. Stepwise(step, n, S)
  <2>1. \A k \in 1 .. n : \A s \in S : AllPieces(s, edits[k]) \in S
    BY <1>2, AllPiecesFacts
  <2> HIDE DEF S
  <2> QED BY <1>2, <2>1 DEF Stepwise
<1> HIDE DEF S
<1>5. \A k \in 1 .. n : \A s \in S : step[k][s] = AllPieces(s, edits[k])
  OBVIOUS
<1> HIDE DEF step
<1>6. PICK f : Passing(f, n, a, step, S)
  <2>1. \E f : Passing(f, n, a, step, S)
    BY <1>3, <1>4, Passes
  <2> QED BY <2>1
<1>7. Def(f)
  <2>1. f \in [0 .. n -> S] /\ f[0] = a /\ \A k \in 1 .. n : f[k] = step[k][f[k - 1]]
    BY <1>6 DEF Passing
  <2>2. \A k \in 0 .. n : k = 0 \/ (k \in 1 .. n /\ k - 1 \in 0 .. n)
    BY <1>2
  <2>3. \A k \in 0 .. n : f[k] = IF k = 0 THEN a ELSE AllPieces(f[k - 1], edits[k])
    BY <1>5, <2>1, <2>2
  <2> QED BY <2>1, <2>3
<1>8. Def(after)
  BY <1>7
<1> HIDE DEF after
<1>9. Follows(after, n, a, step, S)
  <2>1. after = [k \in 0 .. n |-> after[k]]
          /\ \A k \in 0 .. n : after[k] = IF k = 0 THEN a ELSE AllPieces(after[k - 1], edits[k])
    BY <1>8
  <2>2. 0 \in 0 .. n /\ \A k \in 1 .. n : k \in 0 .. n /\ k # 0
    BY <1>2
  <2> HIDE DEF Def
  <2> QED BY <1>5, <2>1, <2>2 DEF Follows
<1>10. Passing(after, n, a, step, S)
  BY <1>3, <1>4, <1>9, FollowsPasses
<1> HIDE DEF Def
<1>11. after \in [0 .. n -> S] /\ after[0] = a
         /\ \A k \in 1 .. n : after[k] = step[k][after[k - 1]]
  BY <1>10 DEF Passing
<1>12. \A k \in 1 .. n : after[k] = AllPieces(after[k - 1], edits[k])
  <2>1. \A k \in 1 .. n : after[k - 1] \in S
    <3>1. \A k \in 1 .. n : k - 1 \in 0 .. n
      BY <1>2
    <3> QED BY <1>11, <3>1
  <2> QED BY <1>5, <1>11, <2>1
<1> QED BY <1>1, <1>11, <1>12 DEF n, a, S

(* The ranges of marks after edits.                                        *)
LEMMA RangesFacts ==
  ASSUME NEW ops \in Seq(MarkOps), NEW edits \in Seq(Edits)
  PROVE  Ranges(ops, edits) \in Seq(MarkOps)
<1>1. PICK f \in [0 .. Len(edits) -> Seq(MarkOps)] : Ranges(ops, edits) = f[Len(edits)]
  BY RangesSteps
<1>2. Len(edits) \in 0 .. Len(edits)
  <2>1. Len(edits) \in Nat
    BY SeqFacts
  <2> QED BY <2>1
<1> QED BY <1>1, <1>2

-----------------------------------------------------------------------------
(* Paragraphs                                                              *)
Places == Nat \cup {Nowhere}

(* A paragraph after one edit ...                                          *)
LEMMA BreakThroughFacts ==
  ASSUME NEW at \in Places, NEW edit \in Edits
  PROVE  BreakThrough(at, edit) \in Places
<1>1. edit.t \in {"insert", "delete"} /\ edit.at \in Nat /\ edit.len \in Nat
  BY EditFacts
<1>2. at = Nowhere \/ (at # Nowhere /\ at \in Nat)
  BY DEF Places, Nowhere
<1>3. CASE at = Nowhere
  BY <1>3 DEF BreakThrough, Places
<1>4. CASE at # Nowhere /\ at \in Nat /\ edit.t = "insert"
  <2>1. BreakThrough(at, edit) = IF edit.at <= at THEN at + edit.len ELSE at
    BY <1>4 DEF BreakThrough
  <2> QED BY <1>1, <1>4, <2>1 DEF Places
<1>5. CASE at # Nowhere /\ at \in Nat /\ edit.t = "delete"
  <2>1. BreakThrough(at, edit) = IF edit.at < at /\ at - 1 < edit.at + edit.len THEN Nowhere
                                 ELSE IF at >= edit.at + edit.len THEN at - edit.len
                                   ELSE Min({at, edit.at})
    BY <1>5 DEF BreakThrough
  <2>2. Min({at, edit.at}) \in Nat
    BY <1>1, <1>5, Extremes
  <2>3. at >= edit.at + edit.len => at - edit.len \in Nat
    BY <1>1, <1>5
  <2> QED BY <2>1, <2>2, <2>3 DEF Places
<1> QED BY <1>1, <1>2, <1>3, <1>4, <1>5

(* A paragraph, edit by edit. *)
LEMMA ParagraphThroughSteps ==
  ASSUME NEW at \in Nat, NEW edits \in Seq(Edits)
  PROVE  \E f \in [0 .. Len(edits) -> Places] :
           /\ f[0] = at /\ ParagraphThrough(at, edits) = f[Len(edits)]
           /\ \A k \in 1 .. Len(edits) : f[k] = BreakThrough(f[k - 1], edits[k])
<1> DEFINE n == Len(edits)
           a == at
           S == Places
           Def(f) == f = [k \in 0 .. n |-> IF k = 0 THEN a ELSE BreakThrough(f[k - 1], edits[k])]
           after == CHOOSE f : Def(f)
           step == [k \in 1 .. n |-> [s \in S |-> BreakThrough(s, edits[k])]]
<1>1. ParagraphThrough(at, edits) = after[n]
  BY DEF ParagraphThrough
<1>2. n \in Nat /\ \A k \in 1 .. n : edits[k] \in Edits
  BY SeqFacts
<1>3. a \in S
  BY DEF Places
<1> HIDE DEF n, a
<1>4. Stepwise(step, n, S)
  <2>1. \A k \in 1 .. n : \A s \in S : BreakThrough(s, edits[k]) \in S
    BY <1>2, BreakThroughFacts
  <2> HIDE DEF S
  <2> QED BY <1>2, <2>1 DEF Stepwise
<1> HIDE DEF S
<1>5. \A k \in 1 .. n : \A s \in S : step[k][s] = BreakThrough(s, edits[k])
  OBVIOUS
<1> HIDE DEF step
<1>6. PICK f : Passing(f, n, a, step, S)
  <2>1. \E f : Passing(f, n, a, step, S)
    BY <1>3, <1>4, Passes
  <2> QED BY <2>1
<1>7. Def(f)
  <2>1. f \in [0 .. n -> S] /\ f[0] = a /\ \A k \in 1 .. n : f[k] = step[k][f[k - 1]]
    BY <1>6 DEF Passing
  <2>2. \A k \in 0 .. n : k = 0 \/ (k \in 1 .. n /\ k - 1 \in 0 .. n)
    BY <1>2
  <2>3. \A k \in 0 .. n : f[k] = IF k = 0 THEN a ELSE BreakThrough(f[k - 1], edits[k])
    BY <1>5, <2>1, <2>2
  <2> QED BY <2>1, <2>3
<1>8. Def(after)
  BY <1>7
<1> HIDE DEF after
<1>9. Follows(after, n, a, step, S)
  <2>1. after = [k \in 0 .. n |-> after[k]]
          /\ \A k \in 0 .. n : after[k] = IF k = 0 THEN a ELSE BreakThrough(after[k - 1], edits[k])
    BY <1>8
  <2>2. 0 \in 0 .. n /\ \A k \in 1 .. n : k \in 0 .. n /\ k # 0
    BY <1>2
  <2> HIDE DEF Def
  <2> QED BY <1>5, <2>1, <2>2 DEF Follows
<1>10. Passing(after, n, a, step, S)
  BY <1>3, <1>4, <1>9, FollowsPasses
<1> HIDE DEF Def
<1>11. after \in [0 .. n -> S] /\ after[0] = a
         /\ \A k \in 1 .. n : after[k] = step[k][after[k - 1]]
  BY <1>10 DEF Passing
<1>12. \A k \in 1 .. n : after[k] = BreakThrough(after[k - 1], edits[k])
  <2>1. \A k \in 1 .. n : after[k - 1] \in S
    <3>1. \A k \in 1 .. n : k - 1 \in 0 .. n
      BY <1>2
    <3> QED BY <1>11, <3>1
  <2> QED BY <1>5, <1>11, <2>1
<1> QED BY <1>1, <1>11, <1>12 DEF n, a, S

(* ... and after several.                                                  *)
LEMMA ParagraphThroughFacts ==
  ASSUME NEW at \in Nat, NEW edits \in Seq(Edits)
  PROVE  ParagraphThrough(at, edits) \in Places
<1>1. PICK f \in [0 .. Len(edits) -> Places] : ParagraphThrough(at, edits) = f[Len(edits)]
  BY ParagraphThroughSteps
<1>2. Len(edits) \in 0 .. Len(edits)
  <2>1. Len(edits) \in Nat
    BY SeqFacts
  <2> QED BY <2>1
<1> QED BY <1>1, <1>2

-----------------------------------------------------------------------------
(* 11. Ops moved                                                           *)

Moves == [fits : BOOLEAN, ops : Seq(Ops), remote : Seq(Real)]

(* Lists of edits that take in something are lists of edits.               *)
LEMMA RealAreEdits == \A q \in Seq(Real) : q \in Seq(Edits)
<1>1. Real \subseteq Edits
  BY DEF Real
<1> QED BY <1>1

(* The text effect of an op.                                               *)
LEMMA TextOfFacts ==
  ASSUME NEW op \in Ops
  PROVE  /\ op.t = "insert" => TextOf(op) \in Real /\ TextOf(op).t = "insert"
         /\ op.t = "delete" => TextOf(op) \in Cuts
<1>1. ASSUME op.t = "insert" PROVE TextOf(op) \in Real /\ TextOf(op).t = "insert"
  <2>1. op.at \in Nat /\ op.content \in Contents
    BY <1>1, OpsByKind
  <2>2. Len(op.content) \in Nat \ {0}
    BY <2>1 DEF Contents
  <2>3. TextOf(op) = [t |-> "insert", at |-> op.at, len |-> Len(op.content)]
    BY <1>1 DEF TextOf, Inserted
  <2> QED BY <2>1, <2>2, <2>3 DEF Real, Edits
<1>2. ASSUME op.t = "delete" PROVE TextOf(op) \in Cuts
  <2>1. op \in DeleteOps /\ TextOf(op) = op
    BY <1>2, OpsByKind DEF TextOf
  <2> QED BY <2>1 DEF DeleteOps, Cuts, Real, Edits
<1> QED BY <1>1, <1>2

(* Taking back an op has an effect on text that takes in something or      *)
(* none.                                                                   *)
LEMMA ForwardFacts ==
  ASSUME NEW op \in Ops
  PROVE  Forward(op) \in Seq(Real)
<1>1. CASE op.t = "insert"
  <2>1. op.at \in Nat /\ op.content \in Contents
    BY <1>1, OpsByKind
  <2>2. Len(op.content) \in Nat \ {0}
    BY <2>1 DEF Contents
  <2>3. Delete(op.at, Len(op.content)) \in Real
    BY <2>1, <2>2, DeleteMade DEF Cuts
  <2>4. Forward(op) = <<Delete(op.at, Len(op.content))>>
    BY <1>1 DEF Forward
  <2> QED BY <2>3, <2>4
<1>2. CASE op.t = "delete"
  <2>1. op.at \in Nat /\ op.len \in Nat \ {0}
    BY <1>2, OpsByKind
  <2>2. Inserted(op.at, op.len) \in Real
    BY <2>1 DEF Inserted, Real, Edits
  <2>3. Forward(op) = <<Inserted(op.at, op.len)>>
    BY <1>2 DEF Forward
  <2> QED BY <2>2, <2>3
<1>3. CASE op.t \in {"mark", "restyle"}
  <2>1. Forward(op) = <<>>
    BY <1>3 DEF Forward
  <2> QED BY <2>1
<1> QED BY <1>1, <1>2, <1>3, OpsByKind

(* So has taking back a step.                                              *)
LEMMA CarriedFacts ==
  ASSUME NEW ops \in Seq(Ops), NEW remote \in Seq(Real)
  PROVE  Carried(ops, remote) \in Seq(Real)
<1> DEFINE n == Len(ops)
           q == [i \in DOMAIN ops |-> Forward(ops[n + 1 - i])]
<1>1. n \in Nat /\ DOMAIN ops = 1 .. n /\ \A i \in 1 .. n : ops[i] \in Ops
  BY SeqFacts
<1>2. \A i \in 1 .. n : n + 1 - i \in 1 .. n
  BY <1>1
<1>3. \A i \in 1 .. n : Forward(ops[n + 1 - i]) \in Seq(Real)
  BY <1>1, <1>2, ForwardFacts
<1>4. Carried(ops, remote) = FlattenSeq(q) \o remote
  BY DEF Carried
<1> HIDE DEF n
<1>5. q \in [1 .. n -> Seq(Real)]
  BY <1>1, <1>3
<1> HIDE DEF q
<1>6. q \in Seq(Seq(Real))
  BY <1>1, <1>5
<1>7. FlattenSeq(q) \in Seq(Real)
  BY <1>6, FlattenFacts
<1> QED BY <1>4, <1>7, ConcatFacts

-----------------------------------------------------------------------------
(* What an op becomes.                                                     *)
Instead(done, op) ==
  /\ done \in Seq(Ops)
  /\ Neat(op) => OpsOnce(done) /\ StepBrings(done) \subseteq Brings(op)

(* An insert moved brings what it brought.                                 *)
LEMMA InsertMoved ==
  ASSUME NEW op \in Ops, op.t = "insert", NEW at \in Nat
  PROVE  Instead(<<[op EXCEPT !.at = at]>>, op)
<1>1. PICK x : x = [op EXCEPT !.at = at]
  OBVIOUS
<1>2. op \in InsertOps
  BY OpsByKind
<1>3. x \in InsertOps /\ x.t = "insert" /\ x.content = op.content
  BY <1>1, <1>2 DEF InsertOps
<1>4. x \in Ops /\ Brings(x) = Brings(op) /\ (Neat(op) => Neat(x))
  BY <1>3 DEF Ops, Brings, Neat
<1>5. <<x>> \in Seq(Ops)
  BY <1>4
<1>6. Neat(op) => StepBrings(<<x>>) = Brings(op) /\ OpsOnce(<<x>>)
  BY <1>4, OneOp
<1> QED BY <1>1, <1>5, <1>6 DEF Instead

(* A list without inserts stands for any op.                               *)
LEMMA NoInserts ==
  ASSUME NEW op, NEW done \in Seq(Ops), \A j \in DOMAIN done : done[j].t # "insert"
  PROVE  Instead(done, op)
BY BringNothing DEF Instead

(* Deletes are ops that bring nothing.                                     *)
LEMMA CutsAreOps == \A q \in Seq(Cuts) : q \in Seq(Ops) /\ \A j \in DOMAIN q : q[j].t # "insert"
<1>1. \A e \in Cuts : e \in Ops /\ e.t # "insert"
  BY DEF Cuts, Real, Edits, Ops, DeleteOps
<1>2. ASSUME NEW q \in Seq(Cuts) PROVE q \in Seq(Ops) /\ \A j \in DOMAIN q : q[j].t # "insert"
  <2>1. DOMAIN q = 1 .. Len(q) /\ \A j \in 1 .. Len(q) : q[j] \in Cuts
    BY SeqFacts
  <2>2. Cuts \subseteq Ops
    BY <1>1
  <2> QED BY <1>1, <2>1, <2>2
<1> QED BY <1>2

(* So are marks.                                                           *)
LEMMA MarksAreOps == \A q \in Seq(MarkOps) : q \in Seq(Ops) /\ \A j \in DOMAIN q : q[j].t # "insert"
<1>1. \A e \in MarkOps : e \in Ops /\ e.t # "insert"
  BY DEF MarkOps, Ops
<1>2. ASSUME NEW q \in Seq(MarkOps) PROVE q \in Seq(Ops) /\ \A j \in DOMAIN q : q[j].t # "insert"
  <2>1. DOMAIN q = 1 .. Len(q) /\ \A j \in 1 .. Len(q) : q[j] \in MarkOps
    BY SeqFacts
  <2>2. MarkOps \subseteq Ops
    BY <1>1
  <2> QED BY <1>1, <2>1, <2>2
<1> QED BY <1>2

(* Each op of a step: either it fits and something stands for it, or not.  *)
LEMMA MovingCases ==
  ASSUME NEW s \in Moves, NEW op \in Ops
  PROVE  \/ Moving(s, op) = s
         \/ Moving(s, op) = [s EXCEPT !.fits = FALSE]
         \/ \E done, remote : /\ Moving(s, op) = [fits |-> TRUE, ops |-> s.ops \o done, remote |-> remote]
                              /\ Instead(done, op) /\ remote \in Seq(Real)
<1>0. s.fits \in BOOLEAN /\ s.ops \in Seq(Ops) /\ s.remote \in Seq(Real) /\ s.remote \in Seq(Edits)
  BY RealAreEdits DEF Moves
<1>1. CASE ~s.fits
  BY <1>1 DEF Moving
<1>2. CASE s.fits /\ op.t = "insert"
  <2>1. PICK both : both = Lists[<<<<TextOf(op)>>, s.remote>>]
    OBVIOUS
  <2>2. PICK e : e = TextOf(op)
    OBVIOUS
  <2>3. e \in Real /\ e.t = "insert" /\ e \in Edits
    BY <1>2, <2>2, TextOfFacts DEF Real
  <2>4. <<e>> \in Seq(Edits) /\ <<e>> \in Seq(Real) /\ Single(<<e>>)
    BY <2>3 DEF Single
  <2>5. both[1] \in Seq(Edits) /\ Single(both[1]) /\ both[2] \in Seq(Real)
    BY <1>0, <2>1, <2>2, <2>4, ListsFacts
  <2>6. both[1][1].at \in Nat
    <3>1. both[1][1] \in Edits
      BY <2>5 DEF Single
    <3> QED BY <3>1, EditFacts
  <2>7. Instead(<<[op EXCEPT !.at = both[1][1].at]>>, op)
    BY <1>2, <2>6, InsertMoved
  <2>8. Moving(s, op)
          = [fits |-> TRUE, ops |-> s.ops \o <<[op EXCEPT !.at = both[1][1].at]>>, remote |-> both[2]]
    BY <1>2, <2>1 DEF Moving
  <2> QED BY <2>5, <2>7, <2>8
<1>3. CASE s.fits /\ op.t = "delete"
  <2>1. PICK both : both = Lists[<<<<TextOf(op)>>, s.remote>>]
    OBVIOUS
  <2>2. PICK e : e = TextOf(op)
    OBVIOUS
  <2>3. e \in Cuts /\ e \in Real /\ e \in Edits
    BY <1>3, <2>2, TextOfFacts DEF Real, Cuts
  <2>4. <<e>> \in Seq(Edits) /\ <<e>> \in Seq(Real) /\ <<e>> \in Seq(Cuts)
    BY <2>3
  <2>5. both[1] \in Seq(Cuts) /\ both[2] \in Seq(Real)
    BY <1>0, <2>1, <2>2, <2>4, ListsFacts
  <2>6. both[1] \in Seq(Ops) /\ \A j \in DOMAIN both[1] : both[1][j].t # "insert"
    BY <2>5, CutsAreOps
  <2>7. Instead(both[1], op)
    BY <2>6, NoInserts
  <2>8. Moving(s, op) = [fits |-> TRUE, ops |-> s.ops \o both[1], remote |-> both[2]]
    BY <1>3, <2>1 DEF Moving
  <2> QED BY <2>5, <2>7, <2>8
<1>4. CASE s.fits /\ op.t = "mark"
  <2>1. PICK done : done = Ranges(<<op>>, s.remote)
    OBVIOUS
  <2>2. op \in MarkOps
    BY <1>4, OpsByKind
  <2>3. <<op>> \in Seq(MarkOps)
    BY <2>2
  <2>4. done \in Seq(MarkOps)
    BY <1>0, <2>1, <2>3, RangesFacts
  <2>5. done \in Seq(Ops) /\ \A j \in DOMAIN done : done[j].t # "insert"
    BY <2>4, MarksAreOps
  <2>6. Instead(done, op)
    BY <2>5, NoInserts
  <2>7. Moving(s, op) = [fits |-> TRUE, ops |-> s.ops \o done, remote |-> s.remote]
    BY <1>4, <2>1 DEF Moving
  <2> QED BY <1>0, <2>6, <2>7
<1>5. CASE s.fits /\ op.t = "restyle"
  <2>1. PICK at : at = ParagraphThrough(op.at, s.remote)
    OBVIOUS
  <2>2. op.at \in Nat /\ op.look \in Looks
    BY <1>5, OpsByKind
  <2>3. at \in Places
    BY <1>0, <2>1, <2>2, ParagraphThroughFacts
  <2>4. CASE at = Nowhere
    BY <1>5, <2>1, <2>4 DEF Moving
  <2>5. CASE at # Nowhere
    <3>1. Moving(s, op)
            = [fits |-> TRUE, ops |-> s.ops \o <<Restyle(at, op.look)>>, remote |-> s.remote]
      BY <1>5, <2>1, <2>5 DEF Moving
    <3>2. at \in Nat
      BY <2>3, <2>5 DEF Places
    <3>3. PICK r : r = Restyle(at, op.look)
      OBVIOUS
    <3>4. r \in Ops /\ r.t # "insert"
      BY <2>2, <3>2, <3>3, OpsMade DEF Restyle
    <3>5. <<r>> \in Seq(Ops) /\ \A j \in DOMAIN <<r>> : <<r>>[j].t # "insert"
      BY <3>4
    <3>6. Instead(<<r>>, op)
      BY <3>5, NoInserts
    <3> QED BY <1>0, <3>1, <3>3, <3>6
  <2> QED BY <2>4, <2>5
<1> QED BY <1>0, <1>1, <1>2, <1>3, <1>4, <1>5, OpsByKind

(* What stands for an op brings back no more than it did, each atom once.  *)
LEMMA MovingFacts ==
  ASSUME NEW s \in Moves, NEW op \in Ops
  PROVE  /\ Moving(s, op) \in Moves
         /\ OpsOnce(s.ops) /\ Neat(op) /\ StepBrings(s.ops) \cap Brings(op) = {} =>
              /\ OpsOnce(Moving(s, op).ops)
              /\ StepBrings(Moving(s, op).ops) \subseteq StepBrings(s.ops) \cup Brings(op)
<1>0. s.fits \in BOOLEAN /\ s.ops \in Seq(Ops) /\ s.remote \in Seq(Real)
  BY DEF Moves
<1>1. CASE Moving(s, op) = s
  BY <1>1
<1>2. CASE Moving(s, op) = [s EXCEPT !.fits = FALSE]
  <2>1. [s EXCEPT !.fits = FALSE] \in Moves /\ [s EXCEPT !.fits = FALSE].ops = s.ops
    BY <1>0 DEF Moves
  <2> QED BY <1>2, <2>1
<1>3. CASE \E done, remote : /\ Moving(s, op) = [fits |-> TRUE, ops |-> s.ops \o done, remote |-> remote]
                             /\ Instead(done, op) /\ remote \in Seq(Real)
  <2>1. PICK done, remote : /\ Moving(s, op) = [fits |-> TRUE, ops |-> s.ops \o done, remote |-> remote]
                            /\ Instead(done, op) /\ remote \in Seq(Real)
    BY <1>3
  <2>2. done \in Seq(Ops) /\ (Neat(op) => OpsOnce(done) /\ StepBrings(done) \subseteq Brings(op))
    BY <2>1 DEF Instead
  <2>3. PICK p, c : p = s.ops /\ c = s.ops \o done
    OBVIOUS
  <2>4. /\ c \in Seq(Ops) /\ StepBrings(c) = StepBrings(p) \cup StepBrings(done)
        /\ OpsOnce(p) /\ OpsOnce(done) /\ StepBrings(p) \cap StepBrings(done) = {} => OpsOnce(c)
    BY <1>0, <2>2, <2>3, JoinedOps
  <2>5. Moving(s, op) \in Moves /\ Moving(s, op).ops = c
    BY <2>1, <2>3, <2>4 DEF Moves
  <2> QED BY <2>2, <2>3, <2>4, <2>5
<1> QED BY <1>1, <1>2, <1>3, MovingCases

-----------------------------------------------------------------------------
(* 12. Steps moved                                                         *)

(* A step moved op by op. *)
LEMMA MovedSteps ==
  ASSUME NEW ops \in Seq(Ops), NEW remote \in Seq(Real)
  PROVE  \E f \in [0 .. Len(ops) -> Moves] :
           /\ f[0] = [fits |-> TRUE, ops |-> <<>>, remote |-> remote] /\ Moved(ops, remote) = f[Len(ops)]
           /\ \A k \in 1 .. Len(ops) : f[k] = Moving(f[k - 1], ops[k])
<1> DEFINE n == Len(ops)
           a == [fits |-> TRUE, ops |-> <<>>, remote |-> remote]
           S == Moves
           Def(f) == f = [k \in 0 .. n |-> IF k = 0 THEN a ELSE Moving(f[k - 1], ops[k])]
           after == CHOOSE f : Def(f)
           step == [k \in 1 .. n |-> [s \in S |-> Moving(s, ops[k])]]
<1>1. Moved(ops, remote) = after[n]
  BY DEF Moved
<1>2. n \in Nat /\ \A k \in 1 .. n : ops[k] \in Ops
  BY SeqFacts
<1>3. a \in S
  BY NoOps DEF Moves
<1> HIDE DEF n, a
<1>4. Stepwise(step, n, S)
  <2>1. \A k \in 1 .. n : \A s \in S : Moving(s, ops[k]) \in S
    BY <1>2, MovingFacts
  <2> HIDE DEF S
  <2> QED BY <1>2, <2>1 DEF Stepwise
<1> HIDE DEF S
<1>5. \A k \in 1 .. n : \A s \in S : step[k][s] = Moving(s, ops[k])
  OBVIOUS
<1> HIDE DEF step
<1>6. PICK f : Passing(f, n, a, step, S)
  <2>1. \E f : Passing(f, n, a, step, S)
    BY <1>3, <1>4, Passes
  <2> QED BY <2>1
<1>7. Def(f)
  <2>1. f \in [0 .. n -> S] /\ f[0] = a /\ \A k \in 1 .. n : f[k] = step[k][f[k - 1]]
    BY <1>6 DEF Passing
  <2>2. \A k \in 0 .. n : k = 0 \/ (k \in 1 .. n /\ k - 1 \in 0 .. n)
    BY <1>2
  <2>3. \A k \in 0 .. n : f[k] = IF k = 0 THEN a ELSE Moving(f[k - 1], ops[k])
    BY <1>5, <2>1, <2>2
  <2> QED BY <2>1, <2>3
<1>8. Def(after)
  BY <1>7
<1> HIDE DEF after
<1>9. Follows(after, n, a, step, S)
  <2>1. after = [k \in 0 .. n |-> after[k]]
          /\ \A k \in 0 .. n : after[k] = IF k = 0 THEN a ELSE Moving(after[k - 1], ops[k])
    BY <1>8
  <2>2. 0 \in 0 .. n /\ \A k \in 1 .. n : k \in 0 .. n /\ k # 0
    BY <1>2
  <2> HIDE DEF Def
  <2> QED BY <1>5, <2>1, <2>2 DEF Follows
<1>10. Passing(after, n, a, step, S)
  BY <1>3, <1>4, <1>9, FollowsPasses
<1> HIDE DEF Def
<1>11. after \in [0 .. n -> S] /\ after[0] = a
         /\ \A k \in 1 .. n : after[k] = step[k][after[k - 1]]
  BY <1>10 DEF Passing
<1>12. \A k \in 1 .. n : after[k] = Moving(after[k - 1], ops[k])
  <2>1. \A k \in 1 .. n : after[k - 1] \in S
    <3>1. \A k \in 1 .. n : k - 1 \in 0 .. n
      BY <1>2
    <3> QED BY <1>11, <3>1
  <2> QED BY <1>5, <1>11, <2>1
<1> QED BY <1>1, <1>11, <1>12 DEF n, a, S

(* A step moved op by op brings back no more than it would have.           *)
LEMMA MovedFacts ==
  ASSUME NEW ops \in Seq(Ops), NEW remote \in Seq(Real)
  PROVE  /\ Moved(ops, remote) \in Moves
         /\ OpsOnce(ops) => /\ OpsOnce(Moved(ops, remote).ops)
                            /\ StepBrings(Moved(ops, remote).ops) \subseteq StepBrings(ops)
<1> DEFINE n == Len(ops)
           a == [fits |-> TRUE, ops |-> <<>>, remote |-> remote]
<1>0. PICK after \in [0 .. n -> Moves] :
        /\ after[0] = a /\ Moved(ops, remote) = after[n]
        /\ \A k \in 1 .. n : after[k] = Moving(after[k - 1], ops[k])
  BY MovedSteps
<1>1. Moved(ops, remote) = after[n]
  BY <1>0
<1>2. n \in Nat /\ DOMAIN ops = 1 .. n /\ \A k \in 1 .. n : ops[k] \in Ops
  BY SeqFacts
<1>3. a \in Moves /\ a.ops = <<>>
  BY NoOps DEF Moves
<1> HIDE DEF n, a
<1>11. after \in [0 .. n -> Moves] /\ after[0] = a
         /\ \A k \in 1 .. n : after[k] = Moving(after[k - 1], ops[k])
  BY <1>0
<1>12. ASSUME OpsOnce(ops)
       PROVE  OpsOnce(after[n].ops) /\ StepBrings(after[n].ops) \subseteq StepBrings(ops)
  <2> DEFINE F == {k \in 0 .. n : /\ OpsOnce(after[k].ops)
                                  /\ StepBrings(after[k].ops) \subseteq StepBrings(ops)
                                  /\ \A j \in k + 1 .. n : StepBrings(after[k].ops) \cap Brings(ops[j]) = {}}
  <2>0. \A j \in 1 .. n : Brings(ops[j]) \subseteq StepBrings(ops)
    BY <1>2 DEF StepBrings
  <2>1. 0 \in F
    BY <1>2, <1>3, <1>11, NoOps
  <2>2. ASSUME NEW k \in 0 .. n - 1, k \in F PROVE k + 1 \in F
    <3>1. PICK s, m : s = after[k] /\ m = k + 1
      OBVIOUS
    <3>2. m \in 1 .. n /\ m \in 0 .. n /\ s \in Moves /\ m - 1 = k /\ k \in 0 .. n
      BY <1>2, <1>11, <3>1
    <3>3. after[m] = Moving(s, ops[m]) /\ ops[m] \in Ops /\ Neat(ops[m])
      BY <1>2, <1>11, <1>12, <3>1, <3>2 DEF OpsOnce, Neat
    <3>4. /\ OpsOnce(s.ops) /\ StepBrings(s.ops) \subseteq StepBrings(ops)
          /\ \A j \in m .. n : StepBrings(s.ops) \cap Brings(ops[j]) = {}
      BY <2>2, <3>1
    <3>5. StepBrings(s.ops) \cap Brings(ops[m]) = {}
      BY <3>2, <3>4
    <3>6. OpsOnce(after[m].ops) /\ StepBrings(after[m].ops) \subseteq StepBrings(s.ops)
            \cup Brings(ops[m])
      BY <3>2, <3>3, <3>4, <3>5, MovingFacts
    <3>7. StepBrings(after[m].ops) \subseteq StepBrings(ops)
      BY <2>0, <3>2, <3>4, <3>6
    <3>8. ASSUME NEW j \in m + 1 .. n PROVE StepBrings(after[m].ops) \cap Brings(ops[j]) = {}
      <4>1. j \in m .. n /\ j \in 1 .. n /\ j # m
        BY <1>2, <3>2
      <4>2. Brings(ops[m]) \cap Brings(ops[j]) = {}
        BY <1>2, <1>12, <3>2, <4>1 DEF OpsOnce
      <4> QED BY <3>4, <3>6, <4>1, <4>2
    <3> QED BY <3>1, <3>2, <3>6, <3>7, <3>8
  <2> HIDE DEF F
  <2>3. 0 .. n \subseteq F
    BY <1>2, <2>1, <2>2, StepByStep
  <2>4. n \in F
    BY <1>2, <2>3
  <2> QED BY <2>4 DEF F
<1> QED BY <1>1, <1>2, <1>11, <1>12

(* Nor does the step as it is stored, which may have been dropped.         *)
LEMMA StepFacts ==
  ASSUME NEW ops \in Seq(Ops), NEW remote \in Seq(Real)
  PROVE  /\ Step(ops, remote) \in Moves
         /\ OpsOnce(ops) => /\ OpsOnce(Step(ops, remote).ops)
                            /\ StepBrings(Step(ops, remote).ops) \subseteq StepBrings(ops)
<1>1. PICK m, c : m = Moved(ops, remote) /\ c = Carried(ops, remote)
  OBVIOUS
<1>2. /\ m \in Moves /\ m.fits \in BOOLEAN
      /\ OpsOnce(ops) => OpsOnce(m.ops) /\ StepBrings(m.ops) \subseteq StepBrings(ops)
  BY <1>1, MovedFacts DEF Moves
<1>3. c \in Seq(Real)
  BY <1>1, CarriedFacts
<1>4. Step(ops, remote) = IF m.fits THEN m ELSE [m EXCEPT !.ops = <<>>, !.remote = c]
  BY <1>1 DEF Step
<1>5. PICK d : d = [m EXCEPT !.ops = <<>>, !.remote = c]
  OBVIOUS
<1>6. d \in Moves /\ d.ops = <<>>
  BY <1>2, <1>3, <1>5, NoOps DEF Moves
<1>7. OpsOnce(d.ops) /\ StepBrings(d.ops) \subseteq StepBrings(ops)
  BY <1>6, NoOps
<1>8. CASE m.fits
  BY <1>2, <1>4, <1>8
<1>9. CASE ~m.fits
  BY <1>4, <1>5, <1>6, <1>7, <1>9
<1> QED BY <1>2, <1>8, <1>9

-----------------------------------------------------------------------------
(* Stacks of steps                                                         *)

Stacks == Seq(Seq(Ops))
brought == [ops \in Seq(Ops) |-> StepBrings(ops)]

(* What the steps of a stack keep as what a queue stands for.              *)
LEMMA KeptOfStack ==
  ASSUME NEW steps \in Stacks
  PROVE  /\ Kept(steps) = Whole(steps, brought)
         /\ StepsOnce(steps) <=> ((\A i \in DOMAIN steps : OpsOnce(steps[i])) /\ Once(steps, brought))
<1>1. \A i \in DOMAIN steps : brought[steps[i]] = StepBrings(steps[i])
  <2>1. \A i \in DOMAIN steps : steps[i] \in Seq(Ops)
    BY SeqFacts DEF Stacks
  <2> QED BY <2>1 DEF brought
<1>2. Kept(steps) = Whole(steps, brought)
  BY <1>1 DEF Kept, Whole
<1>3. Once(steps, brought) <=> \A i, k \in DOMAIN steps : i # k
        => StepBrings(steps[i]) \cap StepBrings(steps[k]) = {}
  BY <1>1 DEF Once
<1> QED BY <1>2, <1>3 DEF StepsOnce

(* An empty stack.                                                         *)
LEMMA NoSteps == <<>> \in Stacks /\ Kept(<<>>) = {} /\ StepsOnce(<<>>)
<1>1. DOMAIN <<>> = {} /\ <<>> \in Stacks
  BY DEF Stacks
<1> QED BY <1>1 DEF Kept, StepsOnce

(* A stack of one step.                                                    *)
LEMMA OneStep ==
  ASSUME NEW ops \in Seq(Ops), OpsOnce(ops)
  PROVE  <<ops>> \in Stacks /\ Kept(<<ops>>) = StepBrings(ops) /\ StepsOnce(<<ops>>)
<1>1. DOMAIN <<ops>> = {1} /\ <<ops>>[1] = ops /\ <<ops>> \in Stacks
  BY DEF Stacks
<1> QED BY <1>1 DEF Kept, StepsOnce

(* Two stacks joined.                                                      *)
LEMMA JoinedSteps ==
  ASSUME NEW p \in Stacks, NEW q \in Stacks
  PROVE  /\ p \o q \in Stacks /\ Kept(p \o q) = Kept(p) \cup Kept(q)
         /\ StepsOnce(p) /\ StepsOnce(q) /\ Kept(p) \cap Kept(q) = {} => StepsOnce(p \o q)
<1>0. p \in Seq(Seq(Ops)) /\ q \in Seq(Seq(Ops))
  BY DEF Stacks
<1>1. p \o q \in Stacks
  BY <1>0, ConcatFacts DEF Stacks
<1>2. PICK c : c = p \o q
  OBVIOUS
<1>3. /\ Whole(c, brought) = Whole(p, brought) \cup Whole(q, brought)
      /\ Once(p, brought) /\ Once(q, brought) /\ Whole(p, brought) \cap Whole(q, brought) = {}
          => Once(c, brought)
  BY <1>0, <1>2, WholeConcat
<1>4. /\ Kept(c) = Whole(c, brought) /\ Kept(p) = Whole(p, brought) /\ Kept(q) = Whole(q, brought)
      /\ StepsOnce(c) <=> ((\A i \in DOMAIN c : OpsOnce(c[i])) /\ Once(c, brought))
      /\ StepsOnce(p) => ((\A i \in DOMAIN p : OpsOnce(p[i])) /\ Once(p, brought))
      /\ StepsOnce(q) => ((\A i \in DOMAIN q : OpsOnce(q[i])) /\ Once(q, brought))
  BY <1>1, <1>2, KeptOfStack
<1>5. \A i \in DOMAIN c : (i \in DOMAIN p /\ c[i] = p[i]) \/ \E j \in DOMAIN q : c[i] = q[j]
  BY <1>0, <1>2, ConcatMembers
<1> QED BY <1>1, <1>2, <1>3, <1>4, <1>5

Chains == [steps : Stacks, remote : Seq(Real)]

(* One more step of a chain.                                               *)
LEMMA RebasedFacts ==
  ASSUME NEW s \in Chains, NEW ops \in Seq(Ops)
  PROVE  /\ Rebased(s, ops) \in Chains
         /\ StepsOnce(s.steps) /\ OpsOnce(ops) /\ Kept(s.steps) \cap StepBrings(ops) = {} =>
              /\ StepsOnce(Rebased(s, ops).steps)
              /\ Kept(Rebased(s, ops).steps) \subseteq Kept(s.steps) \cup StepBrings(ops)
<1>0. s.steps \in Stacks /\ s.remote \in Seq(Real)
  BY DEF Chains
<1>1. PICK top, p : top = Step(ops, s.remote) /\ p = s.steps
  OBVIOUS
<1>2. /\ top \in Moves /\ top.ops \in Seq(Ops) /\ top.remote \in Seq(Real)
      /\ OpsOnce(ops) => OpsOnce(top.ops) /\ StepBrings(top.ops) \subseteq StepBrings(ops)
  BY <1>0, <1>1, StepFacts DEF Moves
<1>3. PICK q : q = IF top.ops = <<>> THEN <<>> ELSE <<top.ops>>
  OBVIOUS
<1>4. /\ q \in Stacks
      /\ OpsOnce(ops) => StepsOnce(q) /\ Kept(q) \subseteq StepBrings(ops)
  <2>1. CASE top.ops = <<>>
    BY <1>3, <2>1, NoSteps
  <2>2. CASE top.ops # <<>>
    <3>1. q = <<top.ops>> /\ <<top.ops>> \in Stacks
      BY <1>2, <1>3, <2>2 DEF Stacks
    <3>2. OpsOnce(top.ops) => Kept(<<top.ops>>) = StepBrings(top.ops) /\ StepsOnce(<<top.ops>>)
      BY <1>2, OneStep
    <3> QED BY <1>2, <3>1, <3>2
  <2> QED BY <2>1, <2>2
<1>5. PICK c : c = q \o p
  OBVIOUS
<1>6. /\ c \in Stacks /\ Kept(c) = Kept(q) \cup Kept(p)
      /\ StepsOnce(q) /\ StepsOnce(p) /\ Kept(q) \cap Kept(p) = {} => StepsOnce(c)
  BY <1>0, <1>1, <1>4, <1>5, JoinedSteps
<1>7. Rebased(s, ops) = [steps |-> c, remote |-> top.remote]
  BY <1>1, <1>3, <1>5 DEF Rebased
<1>8. Rebased(s, ops) \in Chains /\ Rebased(s, ops).steps = c
  BY <1>2, <1>6, <1>7 DEF Chains
<1> QED BY <1>1, <1>4, <1>6, <1>8

(* A chain moved step by step, the top one first. *)
LEMMA ChainSteps ==
  ASSUME NEW steps \in Stacks, NEW remote \in Seq(Real)
  PROVE  \E f \in [0 .. Len(steps) -> Chains] :
           /\ f[0] = [steps |-> <<>>, remote |-> remote] /\ Chain(steps, remote) = f[Len(steps)].steps
           /\ \A k \in 1 .. Len(steps) : f[k] = Rebased(f[k - 1], steps[Len(steps) + 1 - k])
<1> DEFINE n == Len(steps)
           a == [steps |-> <<>>, remote |-> remote]
           S == Chains
           Def(f) == f = [k \in 0 .. n |-> IF k = 0 THEN a ELSE Rebased(f[k - 1], steps[n + 1 - k])]
           after == CHOOSE f : Def(f)
           step == [k \in 1 .. n |-> [s \in S |-> Rebased(s, steps[n + 1 - k])]]
<1>1. Chain(steps, remote) = after[n].steps
  BY DEF Chain
<1>2. n \in Nat /\ \A k \in 1 .. n : steps[n + 1 - k] \in Seq(Ops)
  <2>1. n \in Nat /\ DOMAIN steps = 1 .. n /\ \A k \in 1 .. n : steps[k] \in Seq(Ops)
    BY SeqFacts DEF Stacks
  <2>2. \A k \in 1 .. n : n + 1 - k \in 1 .. n
    BY <2>1
  <2> HIDE DEF n
  <2> QED BY <2>1, <2>2
<1>3. a \in S
  BY NoSteps DEF Chains
<1> HIDE DEF n, a
<1>4. Stepwise(step, n, S)
  <2>1. \A k \in 1 .. n : \A s \in S : Rebased(s, steps[n + 1 - k]) \in S
    BY <1>2, RebasedFacts
  <2> HIDE DEF S
  <2> QED BY <1>2, <2>1 DEF Stepwise
<1> HIDE DEF S
<1>5. \A k \in 1 .. n : \A s \in S : step[k][s] = Rebased(s, steps[n + 1 - k])
  OBVIOUS
<1> HIDE DEF step
<1>6. PICK f : Passing(f, n, a, step, S)
  <2>1. \E f : Passing(f, n, a, step, S)
    BY <1>3, <1>4, Passes
  <2> QED BY <2>1
<1>7. Def(f)
  <2>1. f \in [0 .. n -> S] /\ f[0] = a /\ \A k \in 1 .. n : f[k] = step[k][f[k - 1]]
    BY <1>6 DEF Passing
  <2>2. \A k \in 0 .. n : k = 0 \/ (k \in 1 .. n /\ k - 1 \in 0 .. n)
    BY <1>2
  <2>3. \A k \in 0 .. n : f[k] = IF k = 0 THEN a ELSE Rebased(f[k - 1], steps[n + 1 - k])
    BY <1>5, <2>1, <2>2
  <2> QED BY <2>1, <2>3
<1>8. Def(after)
  BY <1>7
<1> HIDE DEF after
<1>9. Follows(after, n, a, step, S)
  <2>1. after = [k \in 0 .. n |-> after[k]]
          /\ \A k \in 0 .. n : after[k] = IF k = 0 THEN a ELSE Rebased(after[k - 1], steps[n + 1 - k])
    BY <1>8
  <2>2. 0 \in 0 .. n /\ \A k \in 1 .. n : k \in 0 .. n /\ k # 0
    BY <1>2
  <2> HIDE DEF Def
  <2> QED BY <1>5, <2>1, <2>2 DEF Follows
<1>10. Passing(after, n, a, step, S)
  BY <1>3, <1>4, <1>9, FollowsPasses
<1> HIDE DEF Def
<1>11. after \in [0 .. n -> S] /\ after[0] = a
         /\ \A k \in 1 .. n : after[k] = step[k][after[k - 1]]
  BY <1>10 DEF Passing
<1>12. \A k \in 1 .. n : after[k] = Rebased(after[k - 1], steps[n + 1 - k])
  <2>1. \A k \in 1 .. n : after[k - 1] \in S
    <3>1. \A k \in 1 .. n : k - 1 \in 0 .. n
      BY <1>2
    <3> QED BY <1>11, <3>1
  <2> QED BY <1>5, <1>11, <2>1
<1> QED BY <1>1, <1>11, <1>12 DEF n, a, S

(* A chain moved over what the peers did keeps no more than it did, and each *)
(* atom once.                                                              *)
THEOREM RebaseKeepsAtomsOnce ==
  ASSUME NEW steps \in Stacks, NEW remote \in Seq(Real)
  PROVE  /\ Chain(steps, remote) \in Stacks
         /\ StepsOnce(steps) => StepsOnce(Chain(steps, remote))
             /\ Kept(Chain(steps, remote)) \subseteq Kept(steps)
<1> DEFINE n == Len(steps)
           a == [steps |-> <<>>, remote |-> remote]
           At(k) == steps[n + 1 - k]
<1>a. PICK after \in [0 .. n -> Chains] :
        /\ after[0] = a /\ Chain(steps, remote) = after[n].steps
        /\ \A k \in 1 .. n : after[k] = Rebased(after[k - 1], At(k))
  BY ChainSteps
<1>1. Chain(steps, remote) = after[n].steps
  BY <1>a
<1>0. n \in Nat /\ DOMAIN steps = 1 .. n /\ \A k \in 1 .. n : steps[k] \in Seq(Ops)
  BY SeqFacts DEF Stacks
<1>2. \A k \in 1 .. n : n + 1 - k \in DOMAIN steps /\ At(k) \in Seq(Ops)
  <2>1. \A k \in 1 .. n : n + 1 - k \in 1 .. n
    BY <1>0
  <2> HIDE DEF n
  <2> QED BY <1>0, <2>1
<1>b. \A k, j \in 1 .. n : k # j => n + 1 - k # n + 1 - j
  BY <1>0
<1>3. a \in Chains /\ a.steps = <<>>
  BY NoSteps DEF Chains
<1> DEFINE Disjoint == \A k, j \in 1 .. n : k # j => StepBrings(At(k)) \cap StepBrings(At(j)) = {}
<1>c. StepsOnce(steps) => Disjoint /\ \A k \in 1 .. n : OpsOnce(At(k))
  BY <1>2, <1>b DEF StepsOnce
<1>d. \A k \in 1 .. n : StepBrings(At(k)) \subseteq Kept(steps)
  BY <1>2 DEF Kept
<1> HIDE DEF n, a, At
<1>11. after \in [0 .. n -> Chains] /\ after[0] = a
         /\ \A k \in 1 .. n : after[k] = Rebased(after[k - 1], At(k))
  BY <1>a
<1>12. ASSUME StepsOnce(steps)
       PROVE  StepsOnce(after[n].steps) /\ Kept(after[n].steps) \subseteq Kept(steps)
  <2> DEFINE F == {k \in 0 .. n : /\ StepsOnce(after[k].steps)
                                  /\ Kept(after[k].steps) \subseteq Kept(steps)
                                  /\ \A j \in k + 1 .. n : Kept(after[k].steps) \cap StepBrings(At(j)) = {}}
  <2>1. 0 \in F
    BY <1>0, <1>3, <1>11, NoSteps
  <2>2. ASSUME NEW k \in 0 .. n - 1, k \in F PROVE k + 1 \in F
    <3>1. PICK s, m : s = after[k] /\ m = k + 1
      OBVIOUS
    <3>2. m \in 1 .. n /\ m \in 0 .. n /\ s \in Chains /\ m - 1 = k /\ k \in 0 .. n
      BY <1>0, <1>11, <3>1
    <3>3. after[m] = Rebased(s, At(m)) /\ At(m) \in Seq(Ops) /\ OpsOnce(At(m))
      BY <1>2, <1>11, <1>12, <1>c, <3>1, <3>2
    <3>4. /\ StepsOnce(s.steps) /\ Kept(s.steps) \subseteq Kept(steps)
          /\ \A j \in m .. n : Kept(s.steps) \cap StepBrings(At(j)) = {}
      BY <2>2, <3>1
    <3>5. Kept(s.steps) \cap StepBrings(At(m)) = {}
      BY <3>2, <3>4
    <3>6. StepsOnce(after[m].steps) /\ Kept(after[m].steps) \subseteq Kept(s.steps)
            \cup StepBrings(At(m))
      BY <3>2, <3>3, <3>4, <3>5, RebasedFacts
    <3>7. Kept(after[m].steps) \subseteq Kept(steps)
      BY <1>d, <3>2, <3>4, <3>6
    <3>8. ASSUME NEW j \in m + 1 .. n PROVE Kept(after[m].steps) \cap StepBrings(At(j)) = {}
      <4>1. j \in m .. n /\ j \in 1 .. n /\ j # m
        BY <1>0, <3>2
      <4>2. StepBrings(At(m)) \cap StepBrings(At(j)) = {}
        BY <1>12, <1>c, <3>2, <4>1
      <4> QED BY <3>4, <3>6, <4>1, <4>2
    <3> QED BY <3>1, <3>2, <3>6, <3>7, <3>8
  <2> HIDE DEF F
  <2>3. 0 .. n \subseteq F
    BY <1>0, <2>1, <2>2, StepByStep
  <2>4. n \in F
    BY <1>0, <2>3
  <2> QED BY <2>4 DEF F
<1>13. after[n].steps \in Stacks
  <2>1. after[n] \in Chains
    BY <1>0, <1>11
  <2> QED BY <2>1 DEF Chains
<1> QED BY <1>1, <1>12, <1>13

-----------------------------------------------------------------------------
(* 13. Steps pushed and taken                                              *)

(* A stack by its steps.                                                   *)
LEMMA StackFacts ==
  ASSUME NEW steps \in Stacks
  PROVE  Len(steps) \in Nat /\ DOMAIN steps = 1 .. Len(steps)
           /\ \A i \in DOMAIN steps : steps[i] \in Seq(Ops)
BY SeqFacts DEF Stacks

(* A stack with one more step.                                             *)
LEMMA PushedFacts ==
  ASSUME NEW steps \in Stacks, NEW ops \in Seq(Ops), OpsOnce(ops)
  PROVE  /\ Append(steps, ops) \in Stacks /\ Kept(Append(steps, ops)) = Kept(steps)
             \cup StepBrings(ops)
         /\ StepsOnce(steps) /\ Kept(steps) \cap StepBrings(ops) = {}
             => StepsOnce(Append(steps, ops))
<1>1. PICK q : q = <<ops>>
  OBVIOUS
<1>2. q \in Stacks /\ Kept(q) = StepBrings(ops) /\ StepsOnce(q)
  BY <1>1, OneStep
<1>3. Append(steps, ops) = steps \o q
  BY <1>1, OneAppended DEF Stacks
<1>4. /\ steps \o q \in Stacks /\ Kept(steps \o q) = Kept(steps) \cup Kept(q)
      /\ StepsOnce(steps) /\ StepsOnce(q) /\ Kept(steps) \cap Kept(q) = {} => StepsOnce(steps \o q)
  BY <1>2, JoinedSteps
<1> QED BY <1>2, <1>3, <1>4

(* A stack without its top step.                                           *)
LEMMA PoppedFacts ==
  ASSUME NEW steps \in Stacks, steps # <<>>
  PROVE  /\ Front(steps) \in Stacks /\ Kept(Front(steps)) \subseteq Kept(steps)
         /\ Last(steps) \in Seq(Ops) /\ StepBrings(Last(steps)) \subseteq Kept(steps)
         /\ StepsOnce(steps) => /\ StepsOnce(Front(steps)) /\ OpsOnce(Last(steps))
                                /\ Kept(Front(steps)) \cap StepBrings(Last(steps)) = {}
<1>1. PICK n, f, l : n = Len(steps) /\ f = Front(steps) /\ l = Last(steps)
  OBVIOUS
<1>2. n \in Nat \ {0} /\ DOMAIN steps = 1 .. n /\ steps \in Seq(Seq(Ops))
  <2>1. steps \in Seq(Seq(Ops))
    BY DEF Stacks
  <2>2. Len(steps) \in Nat /\ Len(steps) # 0
    BY <2>1
  <2> QED BY <1>1, <2>1, <2>2, SeqFacts
<1>3. l = steps[n] /\ n \in DOMAIN steps
  BY <1>1, <1>2 DEF Last
<1>4. f = SubSeq(steps, 1, n - 1)
  BY <1>1 DEF Front
<1>5. f \in Seq(Seq(Ops)) /\ DOMAIN f = 1 .. n - 1 /\ \A i \in 1 .. n - 1 : f[i] = steps[i]
  BY <1>2, <1>4
<1>6. \A i \in DOMAIN f : i \in DOMAIN steps /\ i # n /\ f[i] = steps[i]
  BY <1>2, <1>5
<1>7. f \in Stacks /\ l \in Seq(Ops)
  BY <1>3, <1>5, StackFacts DEF Stacks
<1>8. Kept(f) \subseteq Kept(steps) /\ StepBrings(l) \subseteq Kept(steps)
  BY <1>3, <1>6 DEF Kept
<1>9. ASSUME StepsOnce(steps) PROVE StepsOnce(f) /\ OpsOnce(l) /\ Kept(f) \cap StepBrings(l) = {}
  <2>1. StepsOnce(f) /\ OpsOnce(l)
    BY <1>3, <1>6, <1>9 DEF StepsOnce
  <2>2. \A i \in DOMAIN f : StepBrings(f[i]) \cap StepBrings(l) = {}
    BY <1>3, <1>6, <1>9 DEF StepsOnce
  <2>3. Kept(f) \cap StepBrings(l) = {}
    BY <2>2 DEF Kept
  <2> QED BY <2>1, <2>3
<1> QED BY <1>1, <1>7, <1>8, <1>9

(* A delete in the top step made longer.                                   *)
LEMMA CoalescedFacts ==
  ASSUME NEW steps \in Stacks, steps # <<>>, NEW next \in Seq(Ops), Coalesces(Last(steps), next)
  PROVE  LET s == [steps EXCEPT ![Len(steps)][1].len = @ + next[1].len]
         IN  s \in Stacks /\ Kept(s) = Kept(steps) /\ (StepsOnce(steps) => StepsOnce(s))
<1>1. PICK n, l, m : n = Len(steps) /\ l = Last(steps) /\ m = next[1].len
  OBVIOUS
<1>2. n \in Nat \ {0} /\ DOMAIN steps = 1 .. n /\ steps \in Seq(Seq(Ops))
  <2>1. steps \in Seq(Seq(Ops))
    BY DEF Stacks
  <2>2. Len(steps) \in Nat /\ Len(steps) # 0
    BY <2>1
  <2> QED BY <1>1, <2>1, <2>2, SeqFacts
<1>3. l = steps[n] /\ n \in DOMAIN steps /\ l \in Seq(Ops)
  BY <1>1, <1>2, SeqFacts DEF Last
<1>4. Len(l) = 1 /\ Len(next) = 1 /\ l[1].t = "delete" /\ next[1].t = "delete"
  BY <1>1 DEF Coalesces
<1>5. l[1] \in DeleteOps /\ m \in Nat \ {0}
  <2>1. l[1] \in Ops /\ next[1] \in Ops
    BY <1>3, <1>4, Singleton
  <2> QED BY <1>1, <1>4, <2>1, OpsByKind
<1>6. PICK e : e = [l[1] EXCEPT !.len = @ + m]
  OBVIOUS
<1>a. PICK x : x = l[1]
  OBVIOUS
<1>b. x.t = "delete" /\ x.at \in Nat /\ x.len \in Nat \ {0} /\ x
  = [t |-> "delete", at |-> x.at, len |-> x.len]
  BY <1>5, <1>a DEF DeleteOps
<1>c. e = [t |-> "delete", at |-> x.at, len |-> x.len + m]
  BY <1>6, <1>a, <1>b
<1>7. e \in Ops /\ e.t = "delete"
  <2>1. x.len + m \in Nat \ {0}
    BY <1>5, <1>b
  <2> QED BY <1>b, <1>c, <2>1 DEF DeleteOps, Ops
<1>8. PICK top : top = <<e>>
  OBVIOUS
<1>9. l = <<l[1]>>
  BY <1>3, <1>4
<1>10. [l EXCEPT ![1].len = @ + m] = top
  BY <1>3, <1>4, <1>6, <1>8, <1>9
<1>11. PICK s : s = [steps EXCEPT ![n] = top]
  OBVIOUS
<1>12. [steps EXCEPT ![Len(steps)][1].len = @ + next[1].len] = s
  BY <1>1, <1>2, <1>3, <1>10, <1>11
<1>13. top \in Seq(Ops) /\ StepBrings(top) = {} /\ OpsOnce(top)
  <2>1. top \in Seq(Ops) /\ \A j \in DOMAIN top : top[j].t # "insert"
    BY <1>7, <1>8
  <2> QED BY <2>1, BringNothing
<1>14. StepBrings(l) = {}
  <2>1. \A j \in DOMAIN l : l[j].t # "insert"
    BY <1>3, <1>4
  <2> QED BY <2>1, BringNothing
<1>15. s \in Stacks /\ DOMAIN s = DOMAIN steps /\ \A i \in DOMAIN steps : s[i] = IF i = n
         THEN top ELSE steps[i]
  BY <1>2, <1>3, <1>11, <1>13 DEF Stacks
<1>16. \A i \in DOMAIN steps : StepBrings(s[i]) = StepBrings(steps[i])
         /\ (OpsOnce(steps[i]) => OpsOnce(s[i]))
  BY <1>3, <1>13, <1>14, <1>15
<1>17. Kept(s) = Kept(steps)
  BY <1>15, <1>16 DEF Kept
<1>18. StepsOnce(steps) => StepsOnce(s)
  BY <1>15, <1>16 DEF StepsOnce
<1> QED BY <1>12, <1>15, <1>17, <1>18

-----------------------------------------------------------------------------
(* 14. The invariant                                                       *)

(* Every atom in one place.                                                *)
Apart(d, u, r) ==
  /\ d \in Docs /\ u \in Stacks /\ r \in Stacks
  /\ TextOnce(d) /\ StepsOnce(u) /\ StepsOnce(r)
  /\ Ids(d) \cap Kept(u) = {} /\ Ids(d) \cap Kept(r) = {} /\ Kept(u) \cap Kept(r) = {}

(* The ids given so far.                                                   *)
Used(m, h) == (0 .. 9 + m) \cup (20 .. 19 + h)

Everywhere(d, u, r) == Ids(d) \cup Kept(u) \cup Kept(r)

IInv ==
  /\ Apart(doc, undo, redo)
  /\ Everywhere(doc, undo, redo) \subseteq Used(made, heard)
  /\ word \in BOOLEAN /\ made \in 0 .. MaxMade /\ heard \in 0 .. MaxHeard

(* The user's ops: the document, and the new step on the undo stack.       *)
LEMMA ActionIsApart ==
  ASSUME NEW d \in Docs, NEW u \in Stacks, NEW r \in Stacks, Apart(d, u, r),
         NEW ops \in Seq(Ops), OpsOnce(ops), StepBrings(ops) \cap Everywhere(d, u, r) = {}
  PROVE  LET done == ApplyAll(d, ops)
         IN  /\ done.doc \in Docs /\ done.inverse \in Seq(Ops) /\ OpsOnce(done.inverse)
             /\ Apart(done.doc, Append(u, done.inverse), <<>>)
             /\ Everywhere(done.doc, Append(u, done.inverse), <<>>) \subseteq Everywhere(d, u, r) \cup StepBrings(ops)
             /\ Apart(done.doc, u, r)
             /\ Everywhere(done.doc, u, r) \subseteq Everywhere(d, u, r) \cup StepBrings(ops)
<1>1. PICK e, v : e = ApplyAll(d, ops).doc /\ v = ApplyAll(d, ops).inverse
  OBVIOUS
<1>2. /\ TextOnce(d) /\ StepsOnce(u) /\ StepsOnce(r)
      /\ Ids(d) \cap Kept(u) = {} /\ Ids(d) \cap Kept(r) = {} /\ Kept(u) \cap Kept(r) = {}
  BY DEF Apart
<1>3. Owns(d, ops)
  BY <1>2 DEF Owns, Everywhere
<1>4. ApplyAll(d, ops) \in Outcomes /\ Owns(e, v) /\ Held(e, v) \subseteq Held(d, ops)
  BY <1>1, <1>3, ApplyAllFacts
<1>5. e \in Docs /\ v \in Seq(Ops)
  BY <1>1, <1>4, OutcomeFacts
<1>6. /\ TextOnce(e) /\ OpsOnce(v) /\ Ids(e) \cap StepBrings(v) = {}
      /\ Ids(e) \cup StepBrings(v) \subseteq Ids(d) \cup StepBrings(ops)
  BY <1>4 DEF Owns, Held
<1>7. PICK w : w = Append(u, v)
  OBVIOUS
<1>8. /\ w \in Stacks /\ Kept(w) = Kept(u) \cup StepBrings(v)
      /\ StepsOnce(u) /\ Kept(u) \cap StepBrings(v) = {} => StepsOnce(w)
  BY <1>5, <1>6, <1>7, PushedFacts
<1>9. StepsOnce(w)
  BY <1>2, <1>6, <1>8 DEF Everywhere
<1>10. Ids(e) \cap Kept(w) = {} /\ Ids(e) \cap Kept(u) = {} /\ Ids(e) \cap Kept(r) = {}
  BY <1>2, <1>6, <1>8 DEF Everywhere
<1>11. Apart(e, w, <<>>)
  BY <1>5, <1>6, <1>8, <1>9, <1>10, NoSteps DEF Apart
<1>12. Everywhere(e, w, <<>>) \subseteq Everywhere(d, u, r) \cup StepBrings(ops)
  BY <1>6, <1>8, NoSteps DEF Everywhere
<1>13. Apart(e, u, r)
  BY <1>2, <1>5, <1>6, <1>10 DEF Apart
<1>14. Everywhere(e, u, r) \subseteq Everywhere(d, u, r) \cup StepBrings(ops)
  BY <1>6 DEF Everywhere
<1> QED BY <1>1, <1>5, <1>6, <1>7, <1>11, <1>12, <1>13, <1>14

(* A step of one stack taken back, its inverse on the other.               *)
LEMMA ReturnIsApart ==
  ASSUME NEW d \in Docs, NEW u \in Stacks, NEW r \in Stacks, Apart(d, u, r), u # <<>>
  PROVE  LET done == ApplyAll(d, Last(u))
         IN  /\ Apart(done.doc, Front(u), Append(r, done.inverse))
             /\ Everywhere(done.doc, Front(u), Append(r, done.inverse)) \subseteq Everywhere(d, u, r)
             /\ Apart(d, Front(u), r) /\ Everywhere(d, Front(u), r) \subseteq Everywhere(d, u, r)
<1>1. PICK ops, f : ops = Last(u) /\ f = Front(u)
  OBVIOUS
<1>2. /\ TextOnce(d) /\ StepsOnce(u) /\ StepsOnce(r)
      /\ Ids(d) \cap Kept(u) = {} /\ Ids(d) \cap Kept(r) = {} /\ Kept(u) \cap Kept(r) = {}
  BY DEF Apart
<1>3. /\ f \in Stacks /\ Kept(f) \subseteq Kept(u) /\ ops \in Seq(Ops)
          /\ StepBrings(ops) \subseteq Kept(u)
      /\ StepsOnce(f) /\ OpsOnce(ops) /\ Kept(f) \cap StepBrings(ops) = {}
  BY <1>1, <1>2, PoppedFacts
<1>4. Owns(d, ops)
  BY <1>2, <1>3 DEF Owns
<1>5. PICK e, v : e = ApplyAll(d, ops).doc /\ v = ApplyAll(d, ops).inverse
  OBVIOUS
<1>6. ApplyAll(d, ops) \in Outcomes /\ Owns(e, v) /\ Held(e, v) \subseteq Held(d, ops)
  BY <1>3, <1>4, <1>5, ApplyAllFacts
<1>7. e \in Docs /\ v \in Seq(Ops)
  BY <1>5, <1>6, OutcomeFacts
<1>8. /\ TextOnce(e) /\ OpsOnce(v) /\ Ids(e) \cap StepBrings(v) = {}
      /\ Ids(e) \cup StepBrings(v) \subseteq Ids(d) \cup StepBrings(ops)
  BY <1>6 DEF Owns, Held
<1>9. PICK w : w = Append(r, v)
  OBVIOUS
<1>10. /\ w \in Stacks /\ Kept(w) = Kept(r) \cup StepBrings(v)
       /\ StepsOnce(r) /\ Kept(r) \cap StepBrings(v) = {} => StepsOnce(w)
  BY <1>7, <1>8, <1>9, PushedFacts
<1>11. Kept(r) \cap StepBrings(v) = {} /\ Ids(e) \cap Kept(r) = {} /\ Ids(e) \cap Kept(f) = {}
       /\ StepBrings(v) \cap Kept(f) = {}
  BY <1>2, <1>3, <1>8
<1>12. Apart(e, f, w)
  <2>1. Ids(e) \cap Kept(w) = {} /\ Kept(f) \cap Kept(w) = {}
    BY <1>2, <1>3, <1>8, <1>10, <1>11
  <2> QED BY <1>2, <1>3, <1>7, <1>8, <1>10, <1>11, <2>1 DEF Apart
<1>13. Everywhere(e, f, w) \subseteq Everywhere(d, u, r)
  BY <1>3, <1>8, <1>10 DEF Everywhere
<1>14. Apart(d, f, r) /\ Everywhere(d, f, r) \subseteq Everywhere(d, u, r)
  BY <1>2, <1>3 DEF Apart, Everywhere
<1> QED BY <1>1, <1>5, <1>9, <1>12, <1>13, <1>14

(* The roles of the stacks can be swapped.                                 *)
LEMMA ApartSwapped ==
  ASSUME NEW d, NEW u, NEW r
  PROVE  (Apart(d, u, r) => Apart(d, r, u)) /\ Everywhere(d, u, r) = Everywhere(d, r, u)
<1>1. Apart(d, u, r) => Apart(d, r, u)
  BY DEF Apart
<1>2. Everywhere(d, u, r) = Everywhere(d, r, u)
  BY DEF Everywhere
<1> QED BY <1>1, <1>2

(* Both chains moved over what a peer did.                                 *)
LEMMA RebasedIsApart ==
  ASSUME NEW d \in Docs, NEW u \in Stacks, NEW r \in Stacks, Apart(d, u, r), NEW remote \in Seq(Real)
  PROVE  /\ Apart(d, Chain(u, remote), Chain(r, remote))
         /\ Everywhere(d, Chain(u, remote), Chain(r, remote)) \subseteq Everywhere(d, u, r)
<1>1. PICK f, g : f = Chain(u, remote) /\ g = Chain(r, remote)
  OBVIOUS
<1>2. /\ TextOnce(d) /\ StepsOnce(u) /\ StepsOnce(r)
      /\ Ids(d) \cap Kept(u) = {} /\ Ids(d) \cap Kept(r) = {} /\ Kept(u) \cap Kept(r) = {}
  BY DEF Apart
<1>3. /\ f \in Stacks /\ StepsOnce(f) /\ Kept(f) \subseteq Kept(u)
      /\ g \in Stacks /\ StepsOnce(g) /\ Kept(g) \subseteq Kept(r)
  BY <1>1, <1>2, RebaseKeepsAtomsOnce
<1>4. Ids(d) \cap Kept(f) = {} /\ Ids(d) \cap Kept(g) = {} /\ Kept(f) \cap Kept(g) = {}
  BY <1>2, <1>3
<1>5. Apart(d, f, g)
  BY <1>2, <1>3, <1>4 DEF Apart
<1>6. Everywhere(d, f, g) \subseteq Everywhere(d, u, r)
  BY <1>3 DEF Everywhere
<1> QED BY <1>1, <1>5, <1>6

-----------------------------------------------------------------------------
(* 15. The actions of the user                                             *)

(* The next ids were not given before.                                     *)
LEMMA FreshIds ==
  ASSUME NEW m \in 0 .. 9, NEW h \in Nat
  PROVE  /\ m < 9 => /\ 10 + m \notin Used(m, h)
                     /\ 10 + m \in Used(m + 1, h) /\ Used(m, h) \subseteq Used(m + 1, h)
         /\ \A k \in Nat : /\ (20 + h .. 19 + h + k) \cap Used(m, h) = {}
                           /\ Used(m, h) \cup (20 + h .. 19 + h + k) \subseteq Used(m, h + k)
BY DEF Used

(* One action of the user.                                                 *)
LEMMA DoesKeeps ==
  ASSUME IInv, NEW ops \in Seq(Ops), OpsOnce(ops), StepBrings(ops) \subseteq {10 + made},
         NEW typing \in BOOLEAN, NEW atoms, Does(ops, typing, atoms)
  PROVE  IInv'
<1>0. MaxMade \in 0 .. 9 /\ MaxHeard \in Nat
  BY UndoBoundAssumption
<1>1. /\ Apart(doc, undo, redo) /\ Everywhere(doc, undo, redo) \subseteq Used(made, heard)
      /\ word \in BOOLEAN /\ made \in 0 .. MaxMade /\ heard \in 0 .. MaxHeard
  BY DEF IInv
<1>2. doc \in Docs /\ undo \in Stacks /\ redo \in Stacks
  BY <1>1 DEF Apart
<1>3. PICK e, v : e = ApplyAll(doc, ops).doc /\ v = ApplyAll(doc, ops).inverse
  OBVIOUS
<1>4. /\ made < MaxMade /\ doc' = e /\ made' = made + 1 /\ heard' = heard
      /\ redo' = <<>> /\ word' = typing
      /\ undo' = IF typing /\ word /\ undo # <<>> /\ Coalesces(Last(undo), v)
                 THEN [undo EXCEPT ![Len(undo)][1].len = @ + v[1].len]
                 ELSE Append(undo, v)
  BY <1>3 DEF Does, Push
<1>5. made \in 0 .. 9 /\ heard \in Nat /\ made < 9
  BY <1>0, <1>1, <1>4
<1>6. /\ 10 + made \notin Used(made, heard) /\ 10 + made \in Used(made + 1, heard)
      /\ Used(made, heard) \subseteq Used(made + 1, heard)
  BY <1>5, FreshIds
<1>7. StepBrings(ops) \cap Everywhere(doc, undo, redo) = {}
  BY <1>1, <1>6
<1>8. /\ e \in Docs /\ v \in Seq(Ops) /\ OpsOnce(v)
      /\ Apart(e, Append(undo, v), <<>>)
      /\ Everywhere(e, Append(undo, v), <<>>) \subseteq Everywhere(doc, undo, redo)
          \cup StepBrings(ops)
      /\ Apart(e, undo, redo)
      /\ Everywhere(e, undo, redo) \subseteq Everywhere(doc, undo, redo) \cup StepBrings(ops)
  BY <1>1, <1>2, <1>3, <1>7, ActionIsApart
<1>9. Everywhere(doc, undo, redo) \cup StepBrings(ops) \subseteq Used(made + 1, heard)
  BY <1>1, <1>6
<1>10. Apart(e, undo', <<>>) /\ Everywhere(e, undo', <<>>) \subseteq Used(made + 1, heard)
  <2>1. CASE typing /\ word /\ undo # <<>> /\ Coalesces(Last(undo), v)
    <3>1. PICK s : s = [undo EXCEPT ![Len(undo)][1].len = @ + v[1].len]
      OBVIOUS
    <3>2. s \in Stacks /\ Kept(s) = Kept(undo) /\ (StepsOnce(undo) => StepsOnce(s))
      BY <1>2, <1>8, <2>1, <3>1, CoalescedFacts
    <3>3. undo' = s
      BY <1>4, <2>1, <3>1
    <3>4. Apart(e, s, <<>>)
      BY <1>8, <3>2, NoSteps DEF Apart
    <3>5. Everywhere(e, s, <<>>) \subseteq Everywhere(e, undo, redo)
      BY <3>2, NoSteps DEF Everywhere
    <3> QED BY <1>8, <1>9, <3>3, <3>4, <3>5
  <2>2. CASE ~(typing /\ word /\ undo # <<>> /\ Coalesces(Last(undo), v))
    <3>1. undo' = Append(undo, v)
      BY <1>4, <2>2
    <3> QED BY <1>8, <1>9, <3>1
  <2> QED BY <2>1, <2>2
<1>11. made + 1 \in 0 .. MaxMade
  BY <1>0, <1>1, <1>4
<1>12. Apart(doc', undo', redo') /\ Everywhere(doc', undo', redo') \subseteq Used(made', heard')
       /\ word' \in BOOLEAN /\ made' \in 0 .. MaxMade /\ heard' \in 0 .. MaxHeard
  BY <1>1, <1>4, <1>10, <1>11
<1> QED BY <1>12 DEF IInv

-----------------------------------------------------------------------------
(* The ops of the actions                                                  *)

(* Offsets are numbers.                                                    *)
LEMMA OffsetFacts ==
  ASSUME IInv
  PROVE  doc \in Docs /\ \A at \in Offsets(doc) : at \in Nat /\ at <= DocLen(doc)
<1>1. doc \in Docs
  BY DEF IInv, Apart
<1> QED BY <1>1, DocFacts DEF Offsets

(* A new atom of the user's as a text.                                     *)
LEMMA TypedFacts ==
  ASSUME IInv, NEW brk \in BOOLEAN, NEW look \in Looks, NEW at \in Nat
  PROVE  LET op == Insert(at, <<Typed(brk, look)>>)
         IN  op \in Ops /\ Neat(op) /\ Brings(op) = {10 + made}
<1>1. PICK x : x = Typed(brk, look)
  OBVIOUS
<1>2. made \in Nat
  BY UndoBoundAssumption DEF IInv
<1>3. x \in Atoms /\ x.id = 10 + made
  BY <1>1, <1>2 DEF Typed, Atom, Atoms
<1>4. PICK c : c = <<x>>
  OBVIOUS
<1>5. c \in Contents /\ DOMAIN c = {1} /\ c[1] = x
  BY <1>3, <1>4 DEF Contents
<1>6. TextOnce(c) /\ Ids(c) = {10 + made}
  BY <1>3, <1>5 DEF TextOnce, Ids
<1>7. PICK op : op = Insert(at, c)
  OBVIOUS
<1>8. op \in Ops /\ op.t = "insert" /\ op.content = c
  BY <1>5, <1>7, OpsMade DEF Insert
<1>9. Neat(op) /\ Brings(op) = {10 + made}
  BY <1>6, <1>8 DEF Neat, Brings
<1> QED BY <1>1, <1>4, <1>7, <1>8, <1>9

(* Typing a character.                                                     *)
LEMMA TypeKeeps ==
  ASSUME IInv, NEW at \in Offsets(doc), NEW look \in TypedLooks, NEW typing \in BOOLEAN, Type(at, look, typing)
  PROVE  IInv'
<1>1. at \in Nat /\ look \in Looks
  BY OffsetFacts, LooksAssumption
<1>2. PICK op : op = Insert(at, <<Typed(FALSE, look)>>)
  OBVIOUS
<1>3. op \in Ops /\ Neat(op) /\ Brings(op) = {10 + made}
  BY <1>1, <1>2, TypedFacts
<1>4. <<op>> \in Seq(Ops) /\ OpsOnce(<<op>>) /\ StepBrings(<<op>>) \subseteq {10 + made}
  BY <1>3, OneOp
<1>5. Does(<<op>>, typing, {10 + made})
  BY <1>2 DEF Type
<1> QED BY <1>4, <1>5, DoesKeeps

(* A new paragraph.                                                        *)
LEMMA EnterKeeps ==
  ASSUME IInv, NEW at \in Offsets(doc), Enter(at)
  PROVE  IInv'
<1>1. at \in Nat /\ at <= DocLen(doc) /\ doc \in Docs
  BY OffsetFacts
<1>2. PICK look : look = doc[ParagraphOf(doc, at)].look
  OBVIOUS
<1>3. look \in Looks
  <2>1. ParagraphOf(doc, at) \in DOMAIN doc
    BY <1>1, ParagraphFacts
  <2> QED BY <1>1, <1>2, <2>1, DocFacts
<1>4. PICK op : op = Insert(at, <<Typed(TRUE, look)>>)
  OBVIOUS
<1>5. op \in Ops /\ Neat(op) /\ Brings(op) = {10 + made}
  BY <1>1, <1>3, <1>4, TypedFacts
<1>6. <<op>> \in Seq(Ops) /\ OpsOnce(<<op>>) /\ StepBrings(<<op>>) \subseteq {10 + made}
  BY <1>5, OneOp
<1>7. Does(<<op>>, FALSE, {10 + made})
  BY <1>2, <1>4 DEF Enter
<1> QED BY <1>6, <1>7, DoesKeeps

(* A span takes in something.                                              *)
LEMMA SpanFacts ==
  ASSUME IInv, NEW s \in Spans
  PROVE  s[1] \in Nat /\ s[2] \in Nat /\ s[1] < s[2] /\ s[2] - s[1] \in Nat \ {0}
<1>1. s[1] \in Nat /\ s[2] \in Nat /\ s[1] < s[2]
  BY OffsetFacts DEF Spans
<1> QED BY <1>1

(* A sequence of two as one with another item ...                          *)
LEMMA OneThenOther == ASSUME NEW S, NEW x \in S, NEW y \in S PROVE <<x, y>> = Append(<<x>>, y)
OBVIOUS

(* ... and as a concatenation.                                             *)
LEMMA TwoInARow ==
  ASSUME NEW S, NEW x \in S, NEW y \in S
  PROVE  <<x, y>> = <<x>> \o <<y>>
<1>1. <<x>> \in Seq(S)
  OBVIOUS
<1>2. Append(<<x>>, y) = <<x>> \o <<y>>
  BY <1>1, OneAppended
<1> QED BY <1>2, OneThenOther

(* Typing over a selection.                                                *)
LEMMA ReplaceKeeps ==
  ASSUME IInv, NEW s \in Spans, Replace(s[1], s[2])
  PROVE  IInv'
<1>1. s[1] \in Nat /\ s[2] - s[1] \in Nat \ {0}
  BY SpanFacts
<1>2. PICK x, y : x = Delete(s[1], s[2] - s[1]) /\ y = Insert(s[1], <<Typed(FALSE, 0)>>)
  OBVIOUS
<1>3. x \in Ops /\ x.t # "insert"
  BY <1>1, <1>2, OpsMade DEF Delete
<1>4. y \in Ops /\ Neat(y) /\ Brings(y) = {10 + made}
  <2>1. 0 \in Looks
    BY DEF Looks
  <2> QED BY <1>1, <1>2, <2>1, TypedFacts
<1>5. PICK p, q : p = <<x>> /\ q = <<y>>
  OBVIOUS
<1>6. p \in Seq(Ops) /\ OpsOnce(p) /\ StepBrings(p) = {}
  <2>1. p \in Seq(Ops) /\ \A j \in DOMAIN p : p[j].t # "insert"
    BY <1>3, <1>5
  <2> QED BY <2>1, BringNothing
<1>7. q \in Seq(Ops) /\ OpsOnce(q) /\ StepBrings(q) = {10 + made}
  BY <1>4, <1>5, OneOp
<1>8. p \o q \in Seq(Ops) /\ StepBrings(p \o q) = {10 + made} /\ OpsOnce(p \o q)
  BY <1>6, <1>7, JoinedOps
<1>9. <<x, y>> = p \o q
  <2>1. <<x, y>> = <<x>> \o <<y>>
    BY <1>3, <1>4, TwoInARow
  <2> QED BY <1>5, <2>1
<1>10. Does(<<x, y>>, FALSE, {10 + made} \cup Ids(Slice(doc, s[1], s[2])))
  BY <1>2 DEF Replace
<1> QED BY <1>8, <1>9, <1>10, DoesKeeps

(* Actions that insert nothing.                                            *)
LEMMA DoesWithoutInsert ==
  ASSUME IInv, NEW ops \in Seq(Ops), \A j \in DOMAIN ops : ops[j].t # "insert", NEW atoms, Does(ops, FALSE, atoms)
  PROVE  IInv'
<1>1. OpsOnce(ops) /\ StepBrings(ops) \subseteq {10 + made}
  BY BringNothing
<1> QED BY <1>1, DoesKeeps

(* Erasing.                                                                *)
LEMMA EraseKeeps ==
  ASSUME IInv, NEW s \in Spans, Erase(s[1], s[2])
  PROVE  IInv'
<1>1. s[1] \in Nat /\ s[2] - s[1] \in Nat \ {0}
  BY SpanFacts
<1>2. PICK x : x = Delete(s[1], s[2] - s[1])
  OBVIOUS
<1>3. x \in Ops /\ x.t # "insert"
  BY <1>1, <1>2, OpsMade DEF Delete
<1>4. <<x>> \in Seq(Ops) /\ \A j \in DOMAIN <<x>> : <<x>>[j].t # "insert"
  BY <1>3
<1>5. Does(<<x>>, FALSE, Ids(Slice(doc, s[1], s[2])))
  BY <1>2 DEF Erase
<1> QED BY <1>4, <1>5, DoesWithoutInsert

(* A mark.                                                                 *)
LEMMA FormatKeeps ==
  ASSUME IInv, NEW s \in Spans, NEW look \in Looks, Format(s[1], s[2], look)
  PROVE  IInv'
<1>1. s[1] \in Nat /\ s[2] \in Nat /\ s[1] < s[2]
  BY SpanFacts
<1>2. PICK x : x = Mark(s[1], s[2], look)
  OBVIOUS
<1>3. x \in Ops /\ x.t # "insert"
  BY <1>1, <1>2, OpsMade DEF Mark
<1>4. <<x>> \in Seq(Ops) /\ \A j \in DOMAIN <<x>> : <<x>>[j].t # "insert"
  BY <1>3
<1>5. Does(<<x>>, FALSE, {doc[k + 2].id : k \in Changed(doc, x)})
  BY <1>2 DEF Format
<1> QED BY <1>4, <1>5, DoesWithoutInsert

(* A style for the paragraphs of a span.                                   *)
LEMMA RestyleParagraphsKeeps ==
  ASSUME IInv, NEW from \in Offsets(doc), NEW to \in Offsets(doc), NEW look \in Looks, RestyleParagraphs(from, to, look)
  PROVE  IInv'
<1> DEFINE breaks == {i \in ParagraphOf(doc, from) .. (to + 1) : doc[i].brk /\ doc[i].look # look}
           order == InOrder(breaks)
           ops == [i \in DOMAIN order |-> Restyle(order[i] - 1, look)]
<1>1. from \in Nat /\ to \in Nat /\ from <= DocLen(doc) /\ doc \in Docs
  BY OffsetFacts
<1>2. ParagraphOf(doc, from) \in Nat \ {0}
  <2>1. ParagraphOf(doc, from) \in DOMAIN doc
    BY <1>1, ParagraphFacts
  <2> QED BY <1>1, <2>1, DocFacts
<1>3. breaks \in SUBSET Nat /\ IsFiniteSet(breaks) /\ \A i \in breaks : i - 1 \in Nat
  <2>1. IsFiniteSet(ParagraphOf(doc, from) .. (to + 1))
    <3>1. ParagraphOf(doc, from) \in Int /\ to + 1 \in Int
      BY <1>1, <1>2
    <3> QED BY <3>1, FS_Interval
  <2>2. breaks \subseteq ParagraphOf(doc, from) .. (to + 1)
    OBVIOUS
  <2>3. IsFiniteSet(breaks)
    BY <2>1, <2>2, FS_Subset
  <2> QED BY <1>1, <1>2, <2>3
<1>4. Does(ops, FALSE, {doc[i].id : i \in breaks})
  BY DEF RestyleParagraphs
<1> HIDE DEF breaks
<1>5. PICK n : n = Cardinality(breaks)
  OBVIOUS
<1>6. n \in Nat /\ order \in [1 .. n -> breaks]
  BY <1>3, <1>5, InOrderFacts
<1> HIDE DEF order
<1>7. \A i \in 1 .. n : Restyle(order[i] - 1, look) \in Ops
        /\ Restyle(order[i] - 1, look).t # "insert"
  <2>1. \A i \in 1 .. n : order[i] - 1 \in Nat
    BY <1>3, <1>6
  <2> QED BY <2>1, OpsMade DEF Restyle
<1>8. DOMAIN order = 1 .. n
  BY <1>6
<1>9. ops \in [1 .. n -> Ops] /\ \A j \in 1 .. n : ops[j].t # "insert"
  BY <1>7, <1>8
<1> HIDE DEF ops
<1>10. ops \in Seq(Ops) /\ \A j \in DOMAIN ops : ops[j].t # "insert"
  BY <1>6, <1>9
<1> QED BY <1>4, <1>10, DoesWithoutInsert

(* An edit of a paragraph's text and style at once.                        *)
LEMMA RewriteKeeps ==
  ASSUME IInv, NEW at \in Offsets(doc), NEW look \in Looks, Rewrite(at, look)
  PROVE  IInv'
<1>1. at \in Nat
  BY OffsetFacts
<1>2. PICK x, y : x = Delete(at, 1) /\ y = Restyle(at, look)
  OBVIOUS
<1>3. x \in Ops /\ x.t # "insert" /\ y \in Ops /\ y.t # "insert"
  BY <1>1, <1>2, OpsMade DEF Delete, Restyle
<1>4. <<x, y>> \in Seq(Ops) /\ \A j \in DOMAIN <<x, y>> : <<x, y>>[j].t # "insert"
  BY <1>3
<1>5. Does(<<x, y>>, FALSE, {doc[at + 1].id, doc[at + 1 + 1].id})
  BY <1>2 DEF Rewrite
<1> QED BY <1>4, <1>5, DoesWithoutInsert

-----------------------------------------------------------------------------
(* 16. Undo, redo and the peers                                            *)

(* Undo: the top step back on the document or dropped.                     *)
LEMMA UndoKeeps ==
  ASSUME IInv, Undo
  PROVE  IInv'
<1>1. /\ Apart(doc, undo, redo) /\ Everywhere(doc, undo, redo) \subseteq Used(made, heard)
      /\ made \in 0 .. MaxMade /\ heard \in 0 .. MaxHeard
  BY DEF IInv
<1>2. doc \in Docs /\ undo \in Stacks /\ redo \in Stacks
  BY <1>1 DEF Apart
<1>3. PICK done : done = ApplyAll(doc, Last(undo))
  OBVIOUS
<1>4. /\ undo # <<>> /\ undo' = Front(undo) /\ word' = FALSE /\ made' = made /\ heard' = heard
      /\ \/ doc' = done.doc /\ redo' = Append(redo, done.inverse)
         \/ doc' = doc /\ redo' = redo
  BY <1>3 DEF Undo
<1>5. /\ Apart(done.doc, Front(undo), Append(redo, done.inverse))
      /\ Everywhere(done.doc, Front(undo), Append(redo, done.inverse)) \subseteq Everywhere(doc, undo, redo)
      /\ Apart(doc, Front(undo), redo)
          /\ Everywhere(doc, Front(undo), redo) \subseteq Everywhere(doc, undo, redo)
  BY <1>1, <1>2, <1>3, <1>4, ReturnIsApart
<1>6. Apart(doc', undo', redo')
        /\ Everywhere(doc', undo', redo') \subseteq Everywhere(doc, undo, redo)
  BY <1>4, <1>5
<1> QED BY <1>1, <1>4, <1>6 DEF IInv

(* Redo: the same with the stacks swapped.                                 *)
LEMMA RedoKeeps ==
  ASSUME IInv, Redo
  PROVE  IInv'
<1>1. /\ Apart(doc, undo, redo) /\ Everywhere(doc, undo, redo) \subseteq Used(made, heard)
      /\ made \in 0 .. MaxMade /\ heard \in 0 .. MaxHeard
  BY DEF IInv
<1>2. /\ doc \in Docs /\ undo \in Stacks /\ redo \in Stacks
      /\ Apart(doc, redo, undo) /\ Everywhere(doc, redo, undo) \subseteq Used(made, heard)
  BY <1>1, ApartSwapped DEF Apart
<1>3. PICK done : done = ApplyAll(doc, Last(redo))
  OBVIOUS
<1>4. /\ redo # <<>> /\ redo' = Front(redo) /\ word' = FALSE /\ made' = made /\ heard' = heard
      /\ \/ doc' = done.doc /\ undo' = Append(undo, done.inverse)
         \/ doc' = doc /\ undo' = undo
  BY <1>3 DEF Redo
<1>5. /\ Apart(done.doc, Front(redo), Append(undo, done.inverse))
      /\ Everywhere(done.doc, Front(redo), Append(undo, done.inverse)) \subseteq Everywhere(doc, redo, undo)
      /\ Apart(doc, Front(redo), undo)
          /\ Everywhere(doc, Front(redo), undo) \subseteq Everywhere(doc, redo, undo)
  BY <1>2, <1>3, <1>4, ReturnIsApart
<1>6. Apart(doc', redo', undo')
        /\ Everywhere(doc', redo', undo') \subseteq Everywhere(doc, redo, undo)
  BY <1>4, <1>5
<1>7. Apart(doc', undo', redo') /\ Everywhere(doc', undo', redo') \subseteq Used(made, heard)
  BY <1>2, <1>6, ApartSwapped
<1> QED BY <1>1, <1>4, <1>7 DEF IInv

PeerInsert(n, at, look) == Insert(at, <<Atom(20 + n, FALSE, look)>>)

(* The edits of a peer, by kind.                                           *)
LEMMA PeerOpsUnfolded ==
  ASSUME NEW n
  PROVE  PeerOps(doc, n) = {PeerInsert(n, at, look) : at \in Offsets(doc), look \in PeerLooks}
                           \cup {Delete(at, len) : at \in Offsets(doc), len \in 1 .. 2}
BY DEF PeerOps, PeerInsert

(* An edit of a peer: an op that brings at most its own atom, and an edit  *)
(* that takes in something.                                                *)
LEMMA PeerOpFacts ==
  ASSUME IInv, NEW n \in Nat, NEW op \in PeerOps(doc, n)
  PROVE  op \in Ops /\ Neat(op) /\ Brings(op) \subseteq {20 + n} /\ TextOf(op) \in Real
<1>0. doc \in Docs /\ \A at \in Offsets(doc) : at \in Nat
  BY OffsetFacts
<1>1. CASE \E at \in Offsets(doc), look \in PeerLooks : op = PeerInsert(n, at, look)
  <2>1. PICK at \in Offsets(doc), look \in PeerLooks : op = PeerInsert(n, at, look)
    BY <1>1
  <2>2. at \in Nat /\ look \in Looks
    BY <1>0, LooksAssumption
  <2>3. PICK x : x = Atom(20 + n, FALSE, look)
    OBVIOUS
  <2>4. x \in Atoms /\ x.id = 20 + n
    BY <2>2, <2>3 DEF Atom, Atoms
  <2>5. PICK c : c = <<x>>
    OBVIOUS
  <2>6. c \in Contents /\ DOMAIN c = {1} /\ c[1] = x
    BY <2>4, <2>5 DEF Contents
  <2>7. TextOnce(c) /\ Ids(c) = {20 + n}
    BY <2>4, <2>6 DEF TextOnce, Ids
  <2>8. op \in Ops /\ op.t = "insert" /\ op.content = c
    BY <2>1, <2>2, <2>3, <2>5, <2>6, OpsMade DEF Insert, PeerInsert
  <2>9. Neat(op) /\ Brings(op) = {20 + n}
    BY <2>7, <2>8 DEF Neat, Brings
  <2>10. TextOf(op) \in Real
    BY <2>8, TextOfFacts
  <2> QED BY <2>8, <2>9, <2>10
<1>2. CASE \E at \in Offsets(doc), len \in 1 .. 2 : op = Delete(at, len)
  <2>1. PICK at \in Offsets(doc), len \in 1 .. 2 : op = Delete(at, len)
    BY <1>2
  <2>2. at \in Nat /\ len \in Nat \ {0}
    BY <1>0
  <2>3. op \in Ops /\ op.t = "delete"
    BY <2>1, <2>2, OpsMade DEF Delete
  <2>4. TextOf(op) \in Real
    <3>1. TextOf(op) \in Cuts
      BY <2>3, TextOfFacts
    <3> QED BY <3>1 DEF Cuts
  <2>5. Neat(op) /\ Brings(op) = {}
    BY <2>3 DEF Neat, Brings
  <2> QED BY <2>3, <2>4, <2>5
<1>3. \/ \E at \in Offsets(doc), look \in PeerLooks : op = PeerInsert(n, at, look)
      \/ \E at \in Offsets(doc), len \in 1 .. 2 : op = Delete(at, len)
  BY PeerOpsUnfolded
<1> QED BY <1>1, <1>2, <1>3

(* One import.                                                             *)
LEMMA ImportFacts ==
  ASSUME IInv, NEW ops \in Imports
  PROVE  /\ ops \in Seq(Ops) /\ OpsOnce(ops)
         /\ StepBrings(ops) \subseteq 20 + heard .. 19 + heard + Len(ops)
         /\ \A j \in DOMAIN ops : TextOf(ops[j]) \in Real
<1>0. heard \in Nat /\ heard + 1 \in Nat
  BY UndoBoundAssumption DEF IInv
<1>1. CASE \E e \in PeerOps(doc, heard) : ops = <<e>>
  <2>1. PICK e \in PeerOps(doc, heard) : ops = <<e>>
    BY <1>1
  <2>2. e \in Ops /\ Neat(e) /\ Brings(e) \subseteq {20 + heard} /\ TextOf(e) \in Real
    BY <1>0, PeerOpFacts
  <2>3. StepBrings(ops) = Brings(e) /\ OpsOnce(ops) /\ ops \in Seq(Ops)
    BY <2>1, <2>2, OneOp
  <2>4. Len(ops) = 1 /\ \A j \in DOMAIN ops : ops[j] = e
    BY <2>1
  <2>5. 20 + heard \in 20 + heard .. 19 + heard + Len(ops)
    BY <1>0, <2>4
  <2> QED BY <2>2, <2>3, <2>4, <2>5
<1>2. CASE \E p \in PeerOps(doc, heard) \X PeerOps(doc, heard + 1) : ops = p
  <2>1. PICK x \in PeerOps(doc, heard), y \in PeerOps(doc, heard + 1) : ops = <<x, y>>
    BY <1>2
  <2>2. x \in Ops /\ Neat(x) /\ Brings(x) \subseteq {20 + heard} /\ TextOf(x) \in Real
    BY <1>0, PeerOpFacts
  <2>3. y \in Ops /\ Neat(y) /\ Brings(y) \subseteq {20 + (heard + 1)} /\ TextOf(y) \in Real
    BY <1>0, PeerOpFacts
  <2>4. PICK p, q : p = <<x>> /\ q = <<y>>
    OBVIOUS
  <2>5. /\ StepBrings(p) = Brings(x) /\ OpsOnce(p) /\ p \in Seq(Ops)
        /\ StepBrings(q) = Brings(y) /\ OpsOnce(q) /\ q \in Seq(Ops)
    BY <2>2, <2>3, <2>4, OneOp
  <2>6. ops = p \o q
    <3>1. <<x, y>> = <<x>> \o <<y>>
      BY <2>2, <2>3, TwoInARow
    <3> QED BY <2>1, <2>4, <3>1
  <2>7. 20 + heard # 20 + (heard + 1)
    BY <1>0
  <2>8. StepBrings(p) \cap StepBrings(q) = {}
    BY <2>2, <2>3, <2>5, <2>7
  <2>9. p \o q \in Seq(Ops) /\ StepBrings(p \o q) = StepBrings(p) \cup StepBrings(q)
          /\ OpsOnce(p \o q)
    BY <2>5, <2>8, JoinedOps
  <2>10. Len(ops) = 2 /\ \A j \in DOMAIN ops : ops[j] \in {x, y}
    BY <2>1
  <2>11. /\ 20 + heard \in 20 + heard .. 19 + heard + Len(ops)
         /\ 20 + (heard + 1) \in 20 + heard .. 19 + heard + Len(ops)
    BY <1>0, <2>10
  <2>12. StepBrings(ops) \subseteq 20 + heard .. 19 + heard + Len(ops)
    BY <2>2, <2>3, <2>5, <2>6, <2>9, <2>11
  <2> QED BY <2>2, <2>3, <2>6, <2>9, <2>10, <2>12
<1> QED BY <1>1, <1>2 DEF Imports

(* An import: the edits on the document, both stacks rebased.              *)
LEMMA PeerEditsKeeps ==
  ASSUME IInv, NEW ops \in Imports, PeerEdits(ops)
  PROVE  IInv'
<1>0. MaxMade \in 0 .. 9 /\ MaxHeard \in Nat
  BY UndoBoundAssumption
<1>1. /\ Apart(doc, undo, redo) /\ Everywhere(doc, undo, redo) \subseteq Used(made, heard)
      /\ made \in 0 .. MaxMade /\ heard \in 0 .. MaxHeard
  BY DEF IInv
<1>2. doc \in Docs /\ undo \in Stacks /\ redo \in Stacks
  BY <1>1 DEF Apart
<1>3. PICK n, e, remote : n = Len(ops) /\ e = ApplyAll(doc, ops).doc /\ remote
        = [i \in DOMAIN ops |-> TextOf(ops[i])]
  OBVIOUS
<1>4. /\ heard + n <= MaxHeard /\ doc' = e /\ word' = FALSE
      /\ undo' = Chain(undo, remote) /\ redo' = Chain(redo, remote)
      /\ heard' = heard + n /\ made' = made
  BY <1>3 DEF PeerEdits
<1>5. /\ ops \in Seq(Ops) /\ OpsOnce(ops) /\ StepBrings(ops) \subseteq 20 + heard .. 19 + heard + n
      /\ \A j \in DOMAIN ops : TextOf(ops[j]) \in Real
  BY <1>3, ImportFacts
<1>6. n \in Nat /\ DOMAIN ops = 1 .. n
  BY <1>3, <1>5, SeqFacts
<1>7. remote \in Seq(Real)
  <2>1. remote \in [1 .. n -> Real]
    BY <1>3, <1>5, <1>6
  <2> QED BY <1>6, <2>1
<1>8. made \in 0 .. 9 /\ heard \in Nat
  BY <1>0, <1>1
<1>9. /\ (20 + heard .. 19 + heard + n) \cap Used(made, heard) = {}
      /\ Used(made, heard) \cup (20 + heard .. 19 + heard + n) \subseteq Used(made, heard + n)
  BY <1>6, <1>8, FreshIds
<1>10. StepBrings(ops) \cap Everywhere(doc, undo, redo) = {}
  BY <1>1, <1>5, <1>9
<1>11. /\ e \in Docs /\ Apart(e, undo, redo)
       /\ Everywhere(e, undo, redo) \subseteq Everywhere(doc, undo, redo) \cup StepBrings(ops)
  BY <1>1, <1>2, <1>3, <1>5, <1>10, ActionIsApart
<1>12. /\ Apart(e, Chain(undo, remote), Chain(redo, remote))
       /\ Everywhere(e, Chain(undo, remote), Chain(redo, remote)) \subseteq Everywhere(e, undo, redo)
  BY <1>2, <1>7, <1>11, RebasedIsApart
<1>13. Everywhere(e, Chain(undo, remote), Chain(redo, remote)) \subseteq Used(made, heard + n)
  BY <1>1, <1>5, <1>9, <1>11, <1>12
<1>14. heard + n \in 0 .. MaxHeard
  BY <1>0, <1>1, <1>4, <1>6
<1>15. Apart(doc', undo', redo') /\ Everywhere(doc', undo', redo') \subseteq Used(made', heard')
       /\ word' \in BOOLEAN /\ made' \in 0 .. MaxMade /\ heard' \in 0 .. MaxHeard
  BY <1>1, <1>4, <1>12, <1>13, <1>14
<1> QED BY <1>15 DEF IInv

-----------------------------------------------------------------------------
(* 17. The theorems                                                        *)

(* Initially.                                                              *)
LEMMA InitIInv == Init => IInv
<1> SUFFICES ASSUME Init PROVE IInv
  OBVIOUS
<1>1. /\ doc = Original /\ undo = <<>> /\ redo = <<>> /\ word = FALSE /\ made = 0 /\ heard = 0
  BY DEF Init
<1>2. /\ Original \in Seq(Atoms) /\ Original # <<>> /\ Original[1].brk
      /\ \A i \in DOMAIN Original : Original[i].id = i - 1 /\ i <= 10
  BY OriginalAssumption
<1>3. DOMAIN Original = 1 .. Len(Original) /\ Len(Original) \in Nat \ {0}
  BY <1>2
<1>4. Original \in Docs
  BY <1>2, <1>3 DEF Docs
<1>5. TextOnce(Original) /\ Ids(Original) \subseteq 0 .. 9
  <2>1. TextOnce(Original)
    BY <1>2, <1>3 DEF TextOnce
  <2>2. Ids(Original) \subseteq 0 .. 9
    BY <1>2, <1>3 DEF Ids
  <2> QED BY <2>1, <2>2
<1>6. Apart(doc, undo, redo) /\ Everywhere(doc, undo, redo) \subseteq 0 .. 9
  BY <1>1, <1>4, <1>5, NoSteps DEF Apart, Everywhere
<1>7. 0 .. 9 \subseteq Used(0, 0)
  BY DEF Used
<1>8. 0 \in 0 .. MaxMade /\ 0 \in 0 .. MaxHeard
  BY UndoBoundAssumption
<1> QED BY <1>1, <1>6, <1>7, <1>8 DEF IInv

(* Every step.                                                             *)
LEMMA NextKeepsIInv == IInv /\ [Next]_vars => IInv'
<1> SUFFICES ASSUME IInv, [Next]_vars PROVE IInv'
  OBVIOUS
<1>1. ASSUME NEW at \in Offsets(doc), NEW look \in TypedLooks, NEW typing \in BOOLEAN, Type(at, look, typing)
      PROVE  IInv'
  BY <1>1, TypeKeeps
<1>2. ASSUME NEW at \in Offsets(doc), Enter(at) PROVE IInv'
  BY <1>2, EnterKeeps
<1>3. ASSUME NEW at \in Offsets(doc), NEW look \in Looks, Rewrite(at, look) PROVE IInv'
  BY <1>3, RewriteKeeps
<1>4. ASSUME NEW s \in Spans, Replace(s[1], s[2]) PROVE IInv'
  BY <1>4, ReplaceKeeps
<1>5. ASSUME NEW s \in Spans, Erase(s[1], s[2]) PROVE IInv'
  BY <1>5, EraseKeeps
<1>6. ASSUME NEW s \in Spans, NEW look \in Looks, Format(s[1], s[2], look) PROVE IInv'
  BY <1>6, FormatKeeps
<1>7. ASSUME NEW from \in Offsets(doc), NEW to \in Offsets(doc), NEW look \in Looks, RestyleParagraphs(from, to, look)
      PROVE  IInv'
  BY <1>7, RestyleParagraphsKeeps
<1>8. CASE Undo
  BY <1>8, UndoKeeps
<1>9. CASE Redo
  BY <1>9, RedoKeeps
<1>10. ASSUME NEW ops \in Imports, PeerEdits(ops) PROVE IInv'
  BY <1>10, PeerEditsKeeps
<1>11. CASE UNCHANGED vars
  <2>1. doc' = doc /\ undo' = undo /\ redo' = redo /\ word' = word /\ made' = made /\ heard' = heard
    BY <1>11 DEF vars
  <2> QED BY <2>1 DEF IInv
<1> QED
  BY <1>1, <1>2, <1>3, <1>4, <1>5, <1>6, <1>7, <1>8, <1>9, <1>10, <1>11 DEF Next

(* The type of ops says what OpOK does.                                    *)
LEMMA OpsAreOK ==
  ASSUME NEW op \in Ops
  PROVE  OpOK(op)
<1>1. op.t \in {"insert", "delete", "mark", "restyle"}
  BY OpsByKind
<1>2. op.t = "insert" => op.at \in Nat /\ op.content # <<>>
  BY OpsByKind DEF Contents
<1>3. /\ op.t = "delete" => op.at \in Nat /\ op.len \in Nat \ {0}
      /\ op.t = "mark" => op.from \in Nat /\ op.to \in Nat /\ op.from < op.to /\ op.look \in Looks
      /\ op.t = "restyle" => op.at \in Nat /\ op.look \in Looks
  BY OpsByKind
<1> QED BY <1>1, <1>2, <1>3 DEF OpOK

(* The invariant implies the property.                                     *)
LEMMA InvariantIsTypeOK == IInv => TypeOK
<1> SUFFICES ASSUME IInv PROVE TypeOK
  OBVIOUS
<1>1. /\ doc \in Docs /\ undo \in Stacks /\ redo \in Stacks
      /\ TextOnce(doc) /\ StepsOnce(undo) /\ StepsOnce(redo)
      /\ Ids(doc) \cap Kept(undo) = {} /\ Ids(doc) \cap Kept(redo) = {}
          /\ Kept(undo) \cap Kept(redo) = {}
      /\ word \in BOOLEAN /\ made \in 0 .. MaxMade /\ heard \in 0 .. MaxHeard
  BY DEF IInv, Apart
<1>2. doc[1].id = 0
  BY <1>1, DocFacts
<1>3. \A steps \in {undo, redo} : \A i \in DOMAIN steps : \A j \in DOMAIN steps[i] : OpOK(steps[i][j])
  <2>1. ASSUME NEW steps \in Stacks, NEW i \in DOMAIN steps, NEW j \in DOMAIN steps[i] PROVE OpOK(steps[i][j])
    <3>1. steps[i] \in Seq(Ops)
      BY StackFacts
    <3>2. steps[i][j] \in Ops
      BY <3>1, SeqFacts
    <3> QED BY <3>2, OpsAreOK
  <2> QED BY <1>1, <2>1
<1>4. Ids(doc) \cap (Kept(undo) \cup Kept(redo)) = {}
  BY <1>1
<1> QED BY <1>1, <1>2, <1>3, <1>4 DEF TypeOK

(* The invariant holds.                                                    *)
THEOREM Invariance == Spec => []IInv
BY InitIInv, NextKeepsIInv, PTL DEF Spec

(* Every stored step is sound whatever it was moved over, and every atom   *)
(* is in one place only: no sequence of actions, undo, redo and imports    *)
(* gives a text twice or a delete that takes in nothing.                   *)
THEOREM TypesHold == Spec => []TypeOK
BY Invariance, InvariantIsTypeOK, PTL
=============================================================================
