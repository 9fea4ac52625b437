-------------------------- MODULE SharedUndoOwnProofs --------------------------
(***************************************************************************)
(* What an undo or a redo takes back is the user's: the stored steps fit    *)
(* the document whatever the peers did to it since, so that none is ever    *)
(* refused, and what is not the user's stands where it was.  For any        *)
(* document and any bounds.                                                 *)
(*                                                                         *)
(* The argument is about texts, a document less the styles of its           *)
(* paragraphs.  Lists of edits and steps of ops lead from text to text, and *)
(* what goes in and what goes out is known by whose it is (1, 3, 8).  Two   *)
(* edits of one text meet in one text when each is taken through the other  *)
(* (2, 4, 5); so do two lists (6), a step of the user and the edits of the  *)
(* peers (7-11), and a stack, step by step from the top (12).  An op and    *)
(* its inverse lead there and back (13-16), and ops of the user's own atoms *)
(* leave what is not theirs (17).  With that the stacks lead somewhere in   *)
(* every reachable state (18-21).                                           *)
(***************************************************************************)
EXTENDS SharedUndoProofs

-----------------------------------------------------------------------------
(* 1. Texts as the stacks see them, and ways from one to another           *)

(* A text as the stacks see it: the style of a paragraph is left out.      *)
Items == {a \in Atoms : a.brk => a.look = 0}
Texts == Seq(Items)

(* A text with something put in, or taken out, at an offset.               *)
With(s, at, c) ==
  [i \in 1 .. Len(s) + Len(c) |->
     IF i <= at + 1 THEN s[i] ELSE IF i <= at + 1 + Len(c) THEN c[i - at - 1] ELSE s[i - Len(c)]]
Without(s, at, n) == [i \in 1 .. Len(s) - n |-> IF i <= at + 1 THEN s[i] ELSE s[i + n]]

(* A text by its places.                                                   *)
LEMMA TextFacts ==
  ASSUME NEW s \in Texts
  PROVE  Len(s) \in Nat /\ DOMAIN s = 1 .. Len(s) /\ \A i \in 1 .. Len(s) : s[i] \in Items
BY DEF Texts

(* What makes a text.                                                      *)
LEMMA TextMade ==
  ASSUME NEW n \in Nat, NEW s \in [1 .. n -> Items]
  PROVE  s \in Texts /\ Len(s) = n
BY DEF Texts

(* Texts that agree at every place are the same.                           *)
LEMMA SameText ==
  ASSUME NEW s \in Texts, NEW t \in Texts, Len(s) = Len(t), \A i \in 1 .. Len(s) : s[i] = t[i]
  PROVE  s = t
BY DEF Texts

(* What is put in, by place.                                               *)
LEMMA WithFacts ==
  ASSUME NEW s \in Texts, NEW at \in Nat, at < Len(s), NEW c \in Texts
  PROVE  /\ With(s, at, c) \in Texts /\ Len(With(s, at, c)) = Len(s) + Len(c)
         /\ \A i \in 1 .. Len(s) + Len(c) : With(s, at, c)[i] =
              IF i <= at + 1 THEN s[i] ELSE IF i <= at + 1 + Len(c) THEN c[i - at - 1]
                ELSE s[i - Len(c)]
<1>1. Len(s) \in Nat /\ Len(c) \in Nat /\ Len(s) + Len(c) \in Nat
  BY TextFacts
<1>2. ASSUME NEW i \in 1 .. Len(s) + Len(c)
      PROVE  (IF i <= at + 1 THEN s[i]
              ELSE IF i <= at + 1 + Len(c) THEN c[i - at - 1] ELSE s[i - Len(c)]) \in Items
  <2>1. CASE i <= at + 1
    <3>1. i \in 1 .. Len(s)
      BY <1>1, <2>1
    <3> QED BY <2>1, <3>1, TextFacts
  <2>2. CASE i > at + 1 /\ i <= at + 1 + Len(c)
    <3>1. i - at - 1 \in 1 .. Len(c) /\ ~(i <= at + 1)
      BY <1>1, <2>2
    <3>2. c[i - at - 1] \in Items
      BY <3>1, TextFacts
    <3> QED BY <2>2, <3>1, <3>2
  <2>3. CASE i > at + 1 + Len(c)
    <3>1. i - Len(c) \in 1 .. Len(s) /\ ~(i <= at + 1) /\ ~(i <= at + 1 + Len(c))
      BY <1>1, <2>3
    <3>2. s[i - Len(c)] \in Items
      BY <3>1, TextFacts
    <3> QED BY <3>1, <3>2
  <2> QED BY <1>1, <2>1, <2>2, <2>3
<1>3. With(s, at, c) \in [1 .. Len(s) + Len(c) -> Items]
  BY <1>2 DEF With
<1> QED BY <1>1, <1>3, TextMade DEF With

(* What is left when something is taken out.                               *)
LEMMA WithoutFacts ==
  ASSUME NEW s \in Texts, NEW at \in Nat, NEW n \in Nat, at + n < Len(s)
  PROVE  /\ Without(s, at, n) \in Texts /\ Len(Without(s, at, n)) = Len(s) - n
         /\ \A i \in 1 .. Len(s) - n : Without(s, at, n)[i] = IF i <= at + 1 THEN s[i] ELSE s[i + n]
<1>1. Len(s) \in Nat /\ Len(s) - n \in Nat
  BY TextFacts
<1>2. ASSUME NEW i \in 1 .. Len(s) - n PROVE (IF i <= at + 1 THEN s[i] ELSE s[i + n]) \in Items
  <2>1. i \in 1 .. Len(s) /\ i + n \in 1 .. Len(s)
    BY <1>1
  <2> QED BY <2>1, TextFacts
<1>3. Without(s, at, n) \in [1 .. Len(s) - n -> Items]
  BY <1>2 DEF Without
<1> QED BY <1>1, <1>3, TextMade DEF Without

-----------------------------------------------------------------------------
(* From text to text, along a list of what is done; rel[x][s] are the texts x *)
(* may make of s.                                                          *)
Path(f, rel, q, s, t) ==
  /\ f \in [0 .. Len(q) -> Texts] /\ f[0] = s /\ f[Len(q)] = t
  /\ \A k \in 1 .. Len(q) : f[k] \in rel[q[k]][f[k - 1]]
Leads(rel, q, s, t) == \E f : Path(f, rel, q, s, t)

(* What is led from and to is a text.                                      *)
LEMMA LeadsTexts ==
  ASSUME NEW X, NEW q \in Seq(X), NEW rel, NEW s, NEW t, Leads(rel, q, s, t)
  PROVE  s \in Texts /\ t \in Texts
<1>1. Len(q) \in Nat
  OBVIOUS
<1> QED BY <1>1 DEF Leads, Path

(* Nothing done leads nowhere else.                                        *)
LEMMA LeadsNone ==
  ASSUME NEW rel, NEW s \in Texts
  PROVE  /\ Leads(rel, <<>>, s, s)
         /\ \A t : Leads(rel, <<>>, s, t) => t = s
<1>1. Len(<<>>) = 0
  OBVIOUS
<1>2. Path([k \in 0 .. 0 |-> s], rel, <<>>, s, s)
  <2> DEFINE f == [k \in 0 .. 0 |-> s]
  <2>1. f \in [0 .. 0 -> Texts] /\ f[0] = s
    OBVIOUS
  <2>2. \A k \in 1 .. 0 : FALSE
    OBVIOUS
  <2> HIDE DEF f
  <2>3. Path(f, rel, <<>>, s, s)
    BY <1>1, <2>1, <2>2 DEF Path
  <2> QED BY <2>3 DEF f
<1> QED BY <1>1, <1>2 DEF Leads, Path

(* One item.                                                               *)
LEMMA LeadsOne ==
  ASSUME NEW rel, NEW x, NEW s \in Texts, NEW t \in Texts
  PROVE  Leads(rel, <<x>>, s, t) <=> t \in rel[x][s]
<1>1. Len(<<x>>) = 1 /\ <<x>>[1] = x
  OBVIOUS
<1>2. ASSUME Leads(rel, <<x>>, s, t) PROVE t \in rel[x][s]
  <2>1. PICK f : Path(f, rel, <<x>>, s, t)
    BY <1>2 DEF Leads
  <2>2. f[0] = s /\ f[1] = t /\ f[1] \in rel[<<x>>[1]][f[1 - 1]]
    BY <1>1, <2>1 DEF Path
  <2>3. 1 - 1 = 0
    OBVIOUS
  <2> QED BY <1>1, <2>2, <2>3
<1>3. ASSUME t \in rel[x][s] PROVE Leads(rel, <<x>>, s, t)
  <2> DEFINE f == [k \in 0 .. 1 |-> IF k = 0 THEN s ELSE t]
  <2>1. f \in [0 .. 1 -> Texts] /\ f[0] = s /\ f[1] = t
    OBVIOUS
  <2>2. ASSUME NEW k \in 1 .. 1 PROVE f[k] \in rel[<<x>>[k]][f[k - 1]]
    <3>1. k = 1 /\ k - 1 = 0
      OBVIOUS
    <3> QED BY <1>1, <1>3, <2>1, <3>1
  <2> HIDE DEF f
  <2>3. Path(f, rel, <<x>>, s, t)
    BY <1>1, <2>1, <2>2 DEF Path
  <2> QED BY <2>3 DEF Leads
<1> QED BY <1>2, <1>3

(* One list, then another.                                                 *)
LEMMA LeadsJoin ==
  ASSUME NEW X, NEW p \in Seq(X), NEW q \in Seq(X), NEW rel, NEW s, NEW u, NEW t,
         Leads(rel, p, s, u), Leads(rel, q, u, t)
  PROVE  Leads(rel, p \o q, s, t)
<1>1. PICK f : Path(f, rel, p, s, u)
  BY DEF Leads
<1>2. PICK g : Path(g, rel, q, u, t)
  BY DEF Leads
<1> DEFINE m == Len(p)
           n == Len(q)
           h == [k \in 0 .. m + n |-> IF k <= m THEN f[k] ELSE g[k - m]]
<1>3. m \in Nat /\ n \in Nat /\ Len(p \o q) = m + n /\ p \o q \in Seq(X)
      /\ (\A k \in 1 .. m : (p \o q)[k] = p[k]) /\ (\A k \in 1 .. n : (p \o q)[m + k] = q[k])
  OBVIOUS
<1>4. f \in [0 .. m -> Texts] /\ f[0] = s /\ f[m] = u
        /\ \A k \in 1 .. m : f[k] \in rel[p[k]][f[k - 1]]
  BY <1>1 DEF Path
<1>5. g \in [0 .. n -> Texts] /\ g[0] = u /\ g[n] = t
        /\ \A k \in 1 .. n : g[k] \in rel[q[k]][g[k - 1]]
  BY <1>2 DEF Path
<1> HIDE DEF m, n
<1>6. h \in [0 .. m + n -> Texts] /\ h[0] = s /\ h[m + n] = t
  BY <1>3, <1>4, <1>5
<1>7. ASSUME NEW k \in 1 .. m + n PROVE h[k] \in rel[(p \o q)[k]][h[k - 1]]
  <2>1. CASE k <= m
    <3>1. k \in 1 .. m /\ k \in 0 .. m + n /\ k - 1 \in 0 .. m + n /\ k - 1 <= m
      BY <1>3, <2>1
    <3>2. h[k] = f[k] /\ h[k - 1] = f[k - 1] /\ (p \o q)[k] = p[k]
      BY <1>3, <2>1, <3>1
    <3> HIDE DEF h
    <3> QED BY <1>4, <3>1, <3>2
  <2>2. CASE k > m
    <3> DEFINE j == k - m
    <3>1. j \in 1 .. n /\ k = m + j /\ k \in 0 .. m + n /\ k - 1 \in 0 .. m + n
      BY <1>3, <2>2
    <3>2. h[k] = g[j] /\ (p \o q)[k] = q[j]
      BY <1>3, <2>2, <3>1
    <3>3. h[k - 1] = g[j - 1]
      <4>1. CASE j = 1
        BY <1>3, <1>4, <1>5, <3>1, <4>1
      <4>2. CASE j # 1
        BY <1>3, <3>1, <4>2
      <4> QED BY <4>1, <4>2
    <3> HIDE DEF h, j
    <3> QED BY <1>5, <3>1, <3>2, <3>3
  <2> QED BY <1>3, <2>1, <2>2
<1> HIDE DEF h
<1>8. Path(h, rel, p \o q, s, t)
  BY <1>3, <1>6, <1>7 DEF Path
<1> QED BY <1>8 DEF Leads

(* The text in between.                                                    *)
LEMMA LeadsSplit ==
  ASSUME NEW X, NEW p \in Seq(X), NEW q \in Seq(X), NEW rel, NEW s, NEW t, Leads(rel, p \o q, s, t)
  PROVE  \E u \in Texts : Leads(rel, p, s, u) /\ Leads(rel, q, u, t)
<1>1. PICK h : Path(h, rel, p \o q, s, t)
  BY DEF Leads
<1> DEFINE m == Len(p)
           n == Len(q)
           f == [k \in 0 .. m |-> h[k]]
           g == [k \in 0 .. n |-> h[m + k]]
<1>3. m \in Nat /\ n \in Nat /\ Len(p \o q) = m + n
      /\ (\A k \in 1 .. m : (p \o q)[k] = p[k]) /\ (\A k \in 1 .. n : (p \o q)[m + k] = q[k])
  OBVIOUS
<1>4. h \in [0 .. m + n -> Texts] /\ h[0] = s /\ h[m + n] = t
      /\ \A k \in 1 .. m + n : h[k] \in rel[(p \o q)[k]][h[k - 1]]
  BY <1>1, <1>3 DEF Path
<1> HIDE DEF m, n
<1>5. Path(f, rel, p, s, h[m])
  <2>1. f \in [0 .. m -> Texts] /\ f[0] = s /\ f[m] = h[m]
    BY <1>3, <1>4
  <2>2. ASSUME NEW k \in 1 .. m PROVE f[k] \in rel[p[k]][f[k - 1]]
    <3>1. k \in 1 .. m + n /\ f[k] = h[k] /\ f[k - 1] = h[k - 1]
      BY <1>3
    <3> HIDE DEF f
    <3> QED BY <1>3, <1>4, <3>1
  <2> HIDE DEF f
  <2> QED BY <2>1, <2>2 DEF Path, m
<1>6. Path(g, rel, q, h[m], t)
  <2>1. g \in [0 .. n -> Texts] /\ g[0] = h[m] /\ g[n] = t
    BY <1>3, <1>4
  <2>2. ASSUME NEW k \in 1 .. n PROVE g[k] \in rel[q[k]][g[k - 1]]
    <3> DEFINE j == m + k
    <3>1. j \in 1 .. m + n /\ g[k] = h[j] /\ g[k - 1] = h[j - 1] /\ (p \o q)[j] = q[k]
      BY <1>3
    <3> HIDE DEF g, j
    <3> QED BY <1>4, <3>1
  <2> HIDE DEF g
  <2> QED BY <2>1, <2>2 DEF Path, n
<1>7. h[m] \in Texts
  BY <1>3, <1>4
<1> QED BY <1>5, <1>6, <1>7 DEF Leads

(* Where more is allowed, it leads there still.                            *)
LEMMA LeadsMore ==
  ASSUME NEW X, NEW q \in Seq(X), NEW rel, NEW more, NEW s, NEW t, Leads(rel, q, s, t),
         \A x \in X : \A u \in Texts : rel[x][u] \subseteq more[x][u]
  PROVE  Leads(more, q, s, t)
<1>1. PICK f : Path(f, rel, q, s, t)
  BY DEF Leads
<1>2. Len(q) \in Nat /\ \A k \in 1 .. Len(q) : q[k] \in X
  OBVIOUS
<1>3. f \in [0 .. Len(q) -> Texts] /\ f[0] = s /\ f[Len(q)] = t
      /\ \A k \in 1 .. Len(q) : f[k] \in rel[q[k]][f[k - 1]]
  BY <1>1 DEF Path
<1>4. ASSUME NEW k \in 1 .. Len(q) PROVE f[k] \in more[q[k]][f[k - 1]]
  <2>1. f[k - 1] \in Texts
    BY <1>2, <1>3
  <2> QED BY <1>2, <1>3, <2>1
<1>5. Path(f, more, q, s, t)
  BY <1>3, <1>4 DEF Path
<1> QED BY <1>5 DEF Leads

-----------------------------------------------------------------------------
(* 2. What is put in and what is taken out, in either order                *)

(* What With and Without give, by place.                                   *)
IsWith(t, s, at, c) ==
  /\ t \in Texts /\ Len(t) = Len(s) + Len(c)
  /\ \A i \in 1 .. at + 1 : t[i] = s[i]
  /\ \A i \in at + 2 .. at + 1 + Len(c) : t[i] = c[i - at - 1]
  /\ \A i \in at + 2 + Len(c) .. Len(s) + Len(c) : t[i] = s[i - Len(c)]
IsWithout(t, s, at, n) ==
  /\ t \in Texts /\ Len(t) = Len(s) - n
  /\ \A i \in 1 .. at + 1 : t[i] = s[i]
  /\ \A i \in at + 2 .. Len(s) - n : t[i] = s[i + n]

(* With gives it.                                                          *)
LEMMA WithIs ==
  ASSUME NEW s \in Texts, NEW at \in Nat, at < Len(s), NEW c \in Texts
  PROVE  IsWith(With(s, at, c), s, at, c)
<1>1. Len(s) \in Nat /\ Len(c) \in Nat
  BY TextFacts
<1>2. /\ With(s, at, c) \in Texts /\ Len(With(s, at, c)) = Len(s) + Len(c)
      /\ \A i \in 1 .. Len(s) + Len(c) : With(s, at, c)[i] =
           IF i <= at + 1 THEN s[i] ELSE IF i <= at + 1 + Len(c) THEN c[i - at - 1]
             ELSE s[i - Len(c)]
  BY WithFacts
<1> DEFINE t == With(s, at, c)
<1> HIDE DEF t
<1>3. ASSUME NEW i \in 1 .. at + 1 PROVE t[i] = s[i]
  BY <1>1, <1>2 DEF t
<1>4. ASSUME NEW i \in at + 2 .. at + 1 + Len(c) PROVE t[i] = c[i - at - 1]
  <2>1. i \in 1 .. Len(s) + Len(c) /\ ~(i <= at + 1) /\ i <= at + 1 + Len(c)
    BY <1>1
  <2> QED BY <1>2, <2>1 DEF t
<1>5. ASSUME NEW i \in at + 2 + Len(c) .. Len(s) + Len(c) PROVE t[i] = s[i - Len(c)]
  <2>1. i \in 1 .. Len(s) + Len(c) /\ ~(i <= at + 1) /\ ~(i <= at + 1 + Len(c))
    BY <1>1
  <2> QED BY <1>2, <2>1 DEF t
<1> QED BY <1>2, <1>3, <1>4, <1>5 DEF IsWith, t

(* Without gives it.                                                       *)
LEMMA WithoutIs ==
  ASSUME NEW s \in Texts, NEW at \in Nat, NEW n \in Nat, at + n < Len(s)
  PROVE  IsWithout(Without(s, at, n), s, at, n)
<1>1. Len(s) \in Nat
  BY TextFacts
<1>2. /\ Without(s, at, n) \in Texts /\ Len(Without(s, at, n)) = Len(s) - n
      /\ \A i \in 1 .. Len(s) - n : Without(s, at, n)[i] = IF i <= at + 1 THEN s[i] ELSE s[i + n]
  BY WithoutFacts
<1> DEFINE t == Without(s, at, n)
<1> HIDE DEF t
<1>3. ASSUME NEW i \in 1 .. at + 1 PROVE t[i] = s[i]
  BY <1>1, <1>2 DEF t
<1>4. ASSUME NEW i \in at + 2 .. Len(s) - n PROVE t[i] = s[i + n]
  <2>1. i \in 1 .. Len(s) - n /\ ~(i <= at + 1)
    BY <1>1
  <2> QED BY <1>2, <2>1 DEF t
<1> QED BY <1>2, <1>3, <1>4 DEF IsWithout, t

(* Nothing taken out.                                                      *)
LEMMA WithoutNone ==
  ASSUME NEW s \in Texts, NEW at \in Nat
  PROVE  Without(s, at, 0) = s
<1>1. Len(s) \in Nat /\ s = [i \in 1 .. Len(s) |-> s[i]]
  BY DEF Texts
<1>2. \A i \in 1 .. Len(s) : i + 0 = i
  OBVIOUS
<1>3. Len(s) - 0 = Len(s)
  BY <1>1
<1> QED BY <1>1, <1>2, <1>3 DEF Without

(* Where place i of such a text comes from.                                *)
Before(i, at) == i \in 1 .. at + 1
Within(i, j, at, n) == i \in at + 2 .. at + 1 + n /\ j = i - at - 1
Behind(i, j, at, n, len) == i \in at + 2 + n .. len + n /\ j = i - n
Closed(i, j, at, n, len) == i \in at + 2 .. len - n /\ j = i + n

(* Before what is put in.                                                  *)
LEMMA WithFirst ==
  ASSUME NEW t, NEW s, NEW at, NEW c, IsWith(t, s, at, c), NEW i, Before(i, at)
  PROVE  t[i] = s[i]
BY DEF IsWith, Before

(* In it.                                                                  *)
LEMMA WithMiddle ==
  ASSUME NEW t, NEW s, NEW at, NEW c, IsWith(t, s, at, c), NEW i, NEW j, Within(i, j, at, Len(c))
  PROVE  t[i] = c[j]
BY DEF IsWith, Within

(* Behind it.                                                              *)
LEMMA WithLast ==
  ASSUME NEW t, NEW s, NEW at, NEW c, IsWith(t, s, at, c), NEW i, NEW j,
         Behind(i, j, at, Len(c), Len(s))
  PROVE  t[i] = s[j]
BY DEF IsWith, Behind

(* Before what is taken out.                                               *)
LEMMA WithoutFirst ==
  ASSUME NEW t, NEW s, NEW at, NEW n, IsWithout(t, s, at, n), NEW i, Before(i, at)
  PROVE  t[i] = s[i]
BY DEF IsWithout, Before

(* Behind it.                                                              *)
LEMMA WithoutLast ==
  ASSUME NEW t, NEW s, NEW at, NEW n, IsWithout(t, s, at, n), NEW i, NEW j,
         Closed(i, j, at, n, Len(s))
  PROVE  t[i] = s[j]
BY DEF IsWithout, Closed

(* Two texts put in.                                                       *)
LEMMA WithWith ==
  ASSUME NEW s \in Texts, NEW p \in Nat, NEW q \in Nat, p <= q, q < Len(s), NEW c \in Texts,
         NEW d \in Texts
  PROVE  With(With(s, p, c), q + Len(c), d) = With(With(s, q, d), p, c)
<1> DEFINE x == With(s, p, c)
           y == With(s, q, d)
           t == With(x, q + Len(c), d)
           u == With(y, p, c)
<1>1. Len(s) \in Nat /\ Len(c) \in Nat /\ Len(d) \in Nat /\ p < Len(s)
  BY TextFacts
<1>2. IsWith(x, s, p, c) /\ IsWith(y, s, q, d)
  BY <1>1, WithIs
<1>3. x \in Texts /\ y \in Texts /\ q + Len(c) \in Nat /\ q + Len(c) < Len(x) /\ p < Len(y)
  BY <1>1, <1>2 DEF IsWith
<1> HIDE DEF x, y
<1>4. IsWith(t, x, q + Len(c), d) /\ IsWith(u, y, p, c)
  BY <1>3, WithIs
<1> HIDE DEF t, u
<1>5. t \in Texts /\ u \in Texts /\ Len(t) = Len(s) + Len(c) + Len(d) /\ Len(u) = Len(t)
  BY <1>1, <1>2, <1>4 DEF IsWith
<1>5a. Len(x) = Len(s) + Len(c) /\ Len(y) = Len(s) + Len(d) /\ Len(t) = Len(x) + Len(d)
  /\ Len(u) = Len(y) + Len(c)
  BY <1>1, <1>2, <1>4 DEF IsWith
<1>6. ASSUME NEW i \in 1 .. Len(t) PROVE t[i] = u[i]
  <2>1. CASE i <= p + 1
    <3>1. Before(i, q + Len(c))
      BY <1>1, <1>5, <1>5a, <2>1 DEF Before
    <3>2. t[i] = x[i]
      BY <1>4, <3>1, WithFirst
    <3>3. Before(i, p)
      BY <1>1, <1>5, <1>5a, <2>1 DEF Before
    <3>4. x[i] = s[i]
      BY <1>2, <3>3, WithFirst
    <3>5. Before(i, p)
      BY <1>1, <1>5, <1>5a, <2>1 DEF Before
    <3>6. u[i] = y[i]
      BY <1>4, <3>5, WithFirst
    <3>7. Before(i, q)
      BY <1>1, <1>5, <1>5a, <2>1 DEF Before
    <3>8. y[i] = s[i]
      BY <1>2, <3>7, WithFirst
    <3> QED BY <3>2, <3>4, <3>6, <3>8
  <2>2. CASE i > p + 1 /\ i <= p + 1 + Len(c)
    <3> DEFINE j1 == i - p - 1
    <3>0. i \in Int /\ j1 \in Int /\ j1 = i - p - 1
      BY <1>1, <2>2
    <3> HIDE DEF j1
    <3>1. Before(i, q + Len(c))
      BY <1>1, <1>5, <1>5a, <2>2, <3>0 DEF Before
    <3>2. t[i] = x[i]
      BY <1>4, <3>1, WithFirst
    <3>3. Within(i, j1, p, Len(c))
      BY <1>1, <1>5, <1>5a, <2>2, <3>0 DEF Within
    <3>4. x[i] = c[j1]
      BY <1>2, <3>3, WithMiddle
    <3>5. Within(i, j1, p, Len(c))
      BY <1>1, <1>5, <1>5a, <2>2, <3>0 DEF Within
    <3>6. u[i] = c[j1]
      BY <1>4, <3>5, WithMiddle
    <3> QED BY <3>2, <3>4, <3>6
  <2>3. CASE i > p + 1 + Len(c) /\ i <= q + 1 + Len(c)
    <3> DEFINE j1 == i - Len(c)
    <3>0. i \in Int /\ j1 \in Int /\ j1 = i - Len(c)
      BY <1>1, <2>3
    <3> HIDE DEF j1
    <3>1. Before(i, q + Len(c))
      BY <1>1, <1>5, <1>5a, <2>3, <3>0 DEF Before
    <3>2. t[i] = x[i]
      BY <1>4, <3>1, WithFirst
    <3>3. Behind(i, j1, p, Len(c), Len(s))
      BY <1>1, <1>5, <1>5a, <2>3, <3>0 DEF Behind
    <3>4. x[i] = s[j1]
      BY <1>2, <3>3, WithLast
    <3>5. Behind(i, j1, p, Len(c), Len(y))
      BY <1>1, <1>5, <1>5a, <2>3, <3>0 DEF Behind
    <3>6. u[i] = y[j1]
      BY <1>4, <3>5, WithLast
    <3>7. Before(j1, q)
      BY <1>1, <1>5, <1>5a, <2>3, <3>0 DEF Before
    <3>8. y[j1] = s[j1]
      BY <1>2, <3>7, WithFirst
    <3> QED BY <3>2, <3>4, <3>6, <3>8
  <2>4. CASE i > q + 1 + Len(c) /\ i <= q + 1 + Len(c) + Len(d)
    <3> DEFINE j1 == i - (q + Len(c)) - 1
           j2 == i - Len(c)
           j3 == (i - Len(c)) - q - 1
    <3>0. i \in Int /\ j1 \in Int /\ j1 = i - (q + Len(c)) - 1 /\ j2 \in Int /\ j2 = i - Len(c)
            /\ j3 \in Int /\ j3 = (i - Len(c)) - q - 1
      BY <1>1, <2>4
    <3> HIDE DEF j1, j2, j3
    <3>1. Within(i, j1, q + Len(c), Len(d))
      BY <1>1, <1>5, <1>5a, <2>4, <3>0 DEF Within
    <3>2. t[i] = d[j1]
      BY <1>4, <3>1, WithMiddle
    <3>3. Behind(i, j2, p, Len(c), Len(y))
      BY <1>1, <1>5, <1>5a, <2>4, <3>0 DEF Behind
    <3>4. u[i] = y[j2]
      BY <1>4, <3>3, WithLast
    <3>5. Within(j2, j3, q, Len(d))
      BY <1>1, <1>5, <1>5a, <2>4, <3>0 DEF Within
    <3>6. y[j2] = d[j3]
      BY <1>2, <3>5, WithMiddle
    <3>7. j3 = j1
      BY <1>1, <3>0, <2>4
    <3> QED BY <3>2, <3>4, <3>6, <3>7
  <2>5. CASE i > q + 1 + Len(c) + Len(d)
    <3> DEFINE j1 == i - Len(d)
           j2 == (i - Len(d)) - Len(c)
           j3 == i - Len(c)
           j4 == (i - Len(c)) - Len(d)
    <3>0. i \in Int /\ j1 \in Int /\ j1 = i - Len(d) /\ j2 \in Int /\ j2 = (i - Len(d)) - Len(c)
            /\ j3 \in Int /\ j3 = i - Len(c) /\ j4 \in Int /\ j4 = (i - Len(c)) - Len(d)
      BY <1>1, <2>5
    <3> HIDE DEF j1, j2, j3, j4
    <3>1. Behind(i, j1, q + Len(c), Len(d), Len(x))
      BY <1>1, <1>5, <1>5a, <2>5, <3>0 DEF Behind
    <3>2. t[i] = x[j1]
      BY <1>4, <3>1, WithLast
    <3>3. Behind(j1, j2, p, Len(c), Len(s))
      BY <1>1, <1>5, <1>5a, <2>5, <3>0 DEF Behind
    <3>4. x[j1] = s[j2]
      BY <1>2, <3>3, WithLast
    <3>5. Behind(i, j3, p, Len(c), Len(y))
      BY <1>1, <1>5, <1>5a, <2>5, <3>0 DEF Behind
    <3>6. u[i] = y[j3]
      BY <1>4, <3>5, WithLast
    <3>7. Behind(j3, j4, q, Len(d), Len(s))
      BY <1>1, <1>5, <1>5a, <2>5, <3>0 DEF Behind
    <3>8. y[j3] = s[j4]
      BY <1>2, <3>7, WithLast
    <3>9. j4 = j2
      BY <1>1, <3>0, <2>5
    <3> QED BY <3>2, <3>4, <3>6, <3>8, <3>9
  <2> QED BY <1>1, <2>1, <2>2, <2>3, <2>4, <2>5
<1>7. t = u
  BY <1>5, <1>6, SameText
<1> QED BY <1>7 DEF t, u, x, y

(* One put in before what is taken out ...                                 *)
LEMMA WithBefore ==
  ASSUME NEW s \in Texts, NEW p \in Nat, NEW q \in Nat, NEW n \in Nat, p <= q, q + n < Len(s),
         NEW c \in Texts
  PROVE  Without(With(s, p, c), q + Len(c), n) = With(Without(s, q, n), p, c)
<1> DEFINE x == With(s, p, c)
           y == Without(s, q, n)
           t == Without(x, q + Len(c), n)
           u == With(y, p, c)
<1>1. Len(s) \in Nat /\ Len(c) \in Nat /\ p < Len(s)
  BY TextFacts
<1>2. IsWith(x, s, p, c) /\ IsWithout(y, s, q, n)
  BY <1>1, WithIs, WithoutIs
<1>3. x \in Texts /\ y \in Texts /\ q + Len(c) \in Nat /\ q + Len(c) + n < Len(x) /\ p < Len(y)
  BY <1>1, <1>2 DEF IsWith, IsWithout
<1> HIDE DEF x, y
<1>4. IsWithout(t, x, q + Len(c), n) /\ IsWith(u, y, p, c)
  BY <1>3, WithIs, WithoutIs
<1> HIDE DEF t, u
<1>5. t \in Texts /\ u \in Texts /\ Len(t) = Len(s) + Len(c) - n /\ Len(u) = Len(t)
  BY <1>1, <1>2, <1>4 DEF IsWith, IsWithout
<1>5a. Len(x) = Len(s) + Len(c) /\ Len(y) = Len(s) - (n) /\ Len(t) = Len(x) - (n)
  /\ Len(u) = Len(y) + Len(c)
  BY <1>1, <1>2, <1>4 DEF IsWith, IsWithout
<1>6. ASSUME NEW i \in 1 .. Len(t) PROVE t[i] = u[i]
  <2>1. CASE i <= p + 1
    <3>1. Before(i, q + Len(c))
      BY <1>1, <1>5, <1>5a, <2>1 DEF Before
    <3>2. t[i] = x[i]
      BY <1>4, <3>1, WithoutFirst
    <3>3. Before(i, p)
      BY <1>1, <1>5, <1>5a, <2>1 DEF Before
    <3>4. x[i] = s[i]
      BY <1>2, <3>3, WithFirst
    <3>5. Before(i, p)
      BY <1>1, <1>5, <1>5a, <2>1 DEF Before
    <3>6. u[i] = y[i]
      BY <1>4, <3>5, WithFirst
    <3>7. Before(i, q)
      BY <1>1, <1>5, <1>5a, <2>1 DEF Before
    <3>8. y[i] = s[i]
      BY <1>2, <3>7, WithoutFirst
    <3> QED BY <3>2, <3>4, <3>6, <3>8
  <2>2. CASE i > p + 1 /\ i <= p + 1 + Len(c)
    <3> DEFINE j1 == i - p - 1
    <3>0. i \in Int /\ j1 \in Int /\ j1 = i - p - 1
      BY <1>1, <2>2
    <3> HIDE DEF j1
    <3>1. Before(i, q + Len(c))
      BY <1>1, <1>5, <1>5a, <2>2, <3>0 DEF Before
    <3>2. t[i] = x[i]
      BY <1>4, <3>1, WithoutFirst
    <3>3. Within(i, j1, p, Len(c))
      BY <1>1, <1>5, <1>5a, <2>2, <3>0 DEF Within
    <3>4. x[i] = c[j1]
      BY <1>2, <3>3, WithMiddle
    <3>5. Within(i, j1, p, Len(c))
      BY <1>1, <1>5, <1>5a, <2>2, <3>0 DEF Within
    <3>6. u[i] = c[j1]
      BY <1>4, <3>5, WithMiddle
    <3> QED BY <3>2, <3>4, <3>6
  <2>3. CASE i > p + 1 + Len(c) /\ i <= q + 1 + Len(c)
    <3> DEFINE j1 == i - Len(c)
    <3>0. i \in Int /\ j1 \in Int /\ j1 = i - Len(c)
      BY <1>1, <2>3
    <3> HIDE DEF j1
    <3>1. Before(i, q + Len(c))
      BY <1>1, <1>5, <1>5a, <2>3, <3>0 DEF Before
    <3>2. t[i] = x[i]
      BY <1>4, <3>1, WithoutFirst
    <3>3. Behind(i, j1, p, Len(c), Len(s))
      BY <1>1, <1>5, <1>5a, <2>3, <3>0 DEF Behind
    <3>4. x[i] = s[j1]
      BY <1>2, <3>3, WithLast
    <3>5. Behind(i, j1, p, Len(c), Len(y))
      BY <1>1, <1>5, <1>5a, <2>3, <3>0 DEF Behind
    <3>6. u[i] = y[j1]
      BY <1>4, <3>5, WithLast
    <3>7. Before(j1, q)
      BY <1>1, <1>5, <1>5a, <2>3, <3>0 DEF Before
    <3>8. y[j1] = s[j1]
      BY <1>2, <3>7, WithoutFirst
    <3> QED BY <3>2, <3>4, <3>6, <3>8
  <2>4. CASE i > q + 1 + Len(c)
    <3> DEFINE j1 == i + n
           j2 == (i + n) - Len(c)
           j3 == i - Len(c)
           j4 == (i - Len(c)) + n
    <3>0. i \in Int /\ j1 \in Int /\ j1 = i + n /\ j2 \in Int /\ j2 = (i + n) - Len(c)
            /\ j3 \in Int /\ j3 = i - Len(c) /\ j4 \in Int /\ j4 = (i - Len(c)) + n
      BY <1>1, <2>4
    <3> HIDE DEF j1, j2, j3, j4
    <3>1. Closed(i, j1, q + Len(c), n, Len(x))
      BY <1>1, <1>5, <1>5a, <2>4, <3>0 DEF Closed
    <3>2. t[i] = x[j1]
      BY <1>4, <3>1, WithoutLast
    <3>3. Behind(j1, j2, p, Len(c), Len(s))
      BY <1>1, <1>5, <1>5a, <2>4, <3>0 DEF Behind
    <3>4. x[j1] = s[j2]
      BY <1>2, <3>3, WithLast
    <3>5. Behind(i, j3, p, Len(c), Len(y))
      BY <1>1, <1>5, <1>5a, <2>4, <3>0 DEF Behind
    <3>6. u[i] = y[j3]
      BY <1>4, <3>5, WithLast
    <3>7. Closed(j3, j4, q, n, Len(s))
      BY <1>1, <1>5, <1>5a, <2>4, <3>0 DEF Closed
    <3>8. y[j3] = s[j4]
      BY <1>2, <3>7, WithoutLast
    <3>9. j4 = j2
      BY <1>1, <3>0, <2>4
    <3> QED BY <3>2, <3>4, <3>6, <3>8, <3>9
  <2> QED BY <1>1, <2>1, <2>2, <2>3, <2>4
<1>7. t = u
  BY <1>5, <1>6, SameText
<1> QED BY <1>7 DEF t, u, x, y

(* ... behind it ...                                                       *)
LEMMA WithBehind ==
  ASSUME NEW s \in Texts, NEW p \in Nat, NEW q \in Nat, NEW n \in Nat, p >= q + n, p < Len(s),
         NEW c \in Texts
  PROVE  Without(With(s, p, c), q, n) = With(Without(s, q, n), p - n, c)
<1> DEFINE x == With(s, p, c)
           y == Without(s, q, n)
           t == Without(x, q, n)
           u == With(y, p - n, c)
<1>1. Len(s) \in Nat /\ Len(c) \in Nat /\ q + n < Len(s) /\ p - n \in Nat
  BY TextFacts
<1>2. IsWith(x, s, p, c) /\ IsWithout(y, s, q, n)
  BY <1>1, WithIs, WithoutIs
<1>3. x \in Texts /\ y \in Texts /\ q + n < Len(x) /\ p - n < Len(y)
  BY <1>1, <1>2 DEF IsWith, IsWithout
<1> HIDE DEF x, y
<1>4. IsWithout(t, x, q, n) /\ IsWith(u, y, p - n, c)
  BY <1>1, <1>3, WithIs, WithoutIs
<1> HIDE DEF t, u
<1>5. t \in Texts /\ u \in Texts /\ Len(t) = Len(s) + Len(c) - n /\ Len(u) = Len(t)
  BY <1>1, <1>2, <1>4 DEF IsWith, IsWithout
<1>5a. Len(x) = Len(s) + Len(c) /\ Len(y) = Len(s) - (n) /\ Len(t) = Len(x) - (n)
  /\ Len(u) = Len(y) + Len(c)
  BY <1>1, <1>2, <1>4 DEF IsWith, IsWithout
<1>6. ASSUME NEW i \in 1 .. Len(t) PROVE t[i] = u[i]
  <2>1. CASE i <= q + 1
    <3>1. Before(i, q)
      BY <1>1, <1>5, <1>5a, <2>1 DEF Before
    <3>2. t[i] = x[i]
      BY <1>4, <3>1, WithoutFirst
    <3>3. Before(i, p)
      BY <1>1, <1>5, <1>5a, <2>1 DEF Before
    <3>4. x[i] = s[i]
      BY <1>2, <3>3, WithFirst
    <3>5. Before(i, p - n)
      BY <1>1, <1>5, <1>5a, <2>1 DEF Before
    <3>6. u[i] = y[i]
      BY <1>4, <3>5, WithFirst
    <3>7. Before(i, q)
      BY <1>1, <1>5, <1>5a, <2>1 DEF Before
    <3>8. y[i] = s[i]
      BY <1>2, <3>7, WithoutFirst
    <3> QED BY <3>2, <3>4, <3>6, <3>8
  <2>2. CASE i > q + 1 /\ i <= p - n + 1
    <3> DEFINE j1 == i + n
    <3>0. i \in Int /\ j1 \in Int /\ j1 = i + n
      BY <1>1, <2>2
    <3> HIDE DEF j1
    <3>1. Closed(i, j1, q, n, Len(x))
      BY <1>1, <1>5, <1>5a, <2>2, <3>0 DEF Closed
    <3>2. t[i] = x[j1]
      BY <1>4, <3>1, WithoutLast
    <3>3. Before(j1, p)
      BY <1>1, <1>5, <1>5a, <2>2, <3>0 DEF Before
    <3>4. x[j1] = s[j1]
      BY <1>2, <3>3, WithFirst
    <3>5. Before(i, p - n)
      BY <1>1, <1>5, <1>5a, <2>2, <3>0 DEF Before
    <3>6. u[i] = y[i]
      BY <1>4, <3>5, WithFirst
    <3>7. Closed(i, j1, q, n, Len(s))
      BY <1>1, <1>5, <1>5a, <2>2, <3>0 DEF Closed
    <3>8. y[i] = s[j1]
      BY <1>2, <3>7, WithoutLast
    <3> QED BY <3>2, <3>4, <3>6, <3>8
  <2>3. CASE i > p - n + 1 /\ i <= p - n + 1 + Len(c)
    <3> DEFINE j1 == i + n
           j2 == (i + n) - p - 1
           j3 == i - (p - n) - 1
    <3>0. i \in Int /\ j1 \in Int /\ j1 = i + n /\ j2 \in Int /\ j2 = (i + n) - p - 1
            /\ j3 \in Int /\ j3 = i - (p - n) - 1
      BY <1>1, <2>3
    <3> HIDE DEF j1, j2, j3
    <3>1. Closed(i, j1, q, n, Len(x))
      BY <1>1, <1>5, <1>5a, <2>3, <3>0 DEF Closed
    <3>2. t[i] = x[j1]
      BY <1>4, <3>1, WithoutLast
    <3>3. Within(j1, j2, p, Len(c))
      BY <1>1, <1>5, <1>5a, <2>3, <3>0 DEF Within
    <3>4. x[j1] = c[j2]
      BY <1>2, <3>3, WithMiddle
    <3>5. Within(i, j3, p - n, Len(c))
      BY <1>1, <1>5, <1>5a, <2>3, <3>0 DEF Within
    <3>6. u[i] = c[j3]
      BY <1>4, <3>5, WithMiddle
    <3>7. j3 = j2
      BY <1>1, <3>0, <2>3
    <3> QED BY <3>2, <3>4, <3>6, <3>7
  <2>4. CASE i > p - n + 1 + Len(c)
    <3> DEFINE j1 == i + n
           j2 == (i + n) - Len(c)
           j3 == i - Len(c)
           j4 == (i - Len(c)) + n
    <3>0. i \in Int /\ j1 \in Int /\ j1 = i + n /\ j2 \in Int /\ j2 = (i + n) - Len(c)
            /\ j3 \in Int /\ j3 = i - Len(c) /\ j4 \in Int /\ j4 = (i - Len(c)) + n
      BY <1>1, <2>4
    <3> HIDE DEF j1, j2, j3, j4
    <3>1. Closed(i, j1, q, n, Len(x))
      BY <1>1, <1>5, <1>5a, <2>4, <3>0 DEF Closed
    <3>2. t[i] = x[j1]
      BY <1>4, <3>1, WithoutLast
    <3>3. Behind(j1, j2, p, Len(c), Len(s))
      BY <1>1, <1>5, <1>5a, <2>4, <3>0 DEF Behind
    <3>4. x[j1] = s[j2]
      BY <1>2, <3>3, WithLast
    <3>5. Behind(i, j3, p - n, Len(c), Len(y))
      BY <1>1, <1>5, <1>5a, <2>4, <3>0 DEF Behind
    <3>6. u[i] = y[j3]
      BY <1>4, <3>5, WithLast
    <3>7. Closed(j3, j4, q, n, Len(s))
      BY <1>1, <1>5, <1>5a, <2>4, <3>0 DEF Closed
    <3>8. y[j3] = s[j4]
      BY <1>2, <3>7, WithoutLast
    <3>9. j4 = j2
      BY <1>1, <3>0, <2>4
    <3> QED BY <3>2, <3>4, <3>6, <3>8, <3>9
  <2> QED BY <1>1, <2>1, <2>2, <2>3, <2>4
<1>7. t = u
  BY <1>5, <1>6, SameText
<1> QED BY <1>7 DEF t, u, x, y

(* ... and inside it: what is taken out falls in two pieces.               *)
LEMMA WithInside ==
  ASSUME NEW s \in Texts, NEW p \in Nat, NEW q \in Nat, NEW n \in Nat, q < p, p < q + n,
         q + n < Len(s), NEW c \in Texts
  PROVE  Without(Without(With(s, p, c), p + Len(c), q + n - p), q, p - q) =
           With(Without(s, q, n), q, c)
<1> DEFINE x == With(s, p, c)
           y == Without(s, q, n)
           z == Without(x, p + Len(c), q + n - p)
           t == Without(z, q, p - q)
           u == With(y, q, c)
<1>1. Len(s) \in Nat /\ Len(c) \in Nat /\ p < Len(s) /\ q + n - p \in Nat /\ p - q \in Nat
        /\ p + Len(c) \in Nat
  BY TextFacts
<1>2. IsWith(x, s, p, c) /\ IsWithout(y, s, q, n)
  BY <1>1, WithIs, WithoutIs
<1>3. x \in Texts /\ y \in Texts /\ p + Len(c) + (q + n - p) < Len(x) /\ q < Len(y)
  BY <1>1, <1>2 DEF IsWith, IsWithout
<1> HIDE DEF x, y
<1>4. IsWithout(z, x, p + Len(c), q + n - p) /\ IsWith(u, y, q, c)
  BY <1>1, <1>3, WithIs, WithoutIs
<1>4a. z \in Texts /\ q + (p - q) < Len(z)
  BY <1>1, <1>2, <1>4 DEF IsWith, IsWithout
<1> HIDE DEF z
<1>4b. IsWithout(t, z, q, p - q)
  BY <1>1, <1>4a, WithoutIs
<1> HIDE DEF t, u
<1>5. t \in Texts /\ u \in Texts /\ Len(t) = Len(s) + Len(c) - n /\ Len(u) = Len(t)
  BY <1>1, <1>2, <1>4, <1>4b DEF IsWith, IsWithout
<1>5a. Len(x) = Len(s) + Len(c) /\ Len(y) = Len(s) - (n) /\ Len(z) = Len(x) - (q + n - p)
  /\ Len(t) = Len(z) - (p - q) /\ Len(u) = Len(y) + Len(c)
  BY <1>1, <1>2, <1>4, <1>4b DEF IsWith, IsWithout
<1>6. ASSUME NEW i \in 1 .. Len(t) PROVE t[i] = u[i]
  <2>1. CASE i <= q + 1
    <3>1. Before(i, q)
      BY <1>1, <1>5, <1>5a, <2>1 DEF Before
    <3>2. t[i] = z[i]
      BY <1>4b, <3>1, WithoutFirst
    <3>3. Before(i, p + Len(c))
      BY <1>1, <1>5, <1>5a, <2>1 DEF Before
    <3>4. z[i] = x[i]
      BY <1>4, <3>3, WithoutFirst
    <3>5. Before(i, p)
      BY <1>1, <1>5, <1>5a, <2>1 DEF Before
    <3>6. x[i] = s[i]
      BY <1>2, <3>5, WithFirst
    <3>7. Before(i, q)
      BY <1>1, <1>5, <1>5a, <2>1 DEF Before
    <3>8. u[i] = y[i]
      BY <1>4, <3>7, WithFirst
    <3>9. Before(i, q)
      BY <1>1, <1>5, <1>5a, <2>1 DEF Before
    <3>10. y[i] = s[i]
      BY <1>2, <3>9, WithoutFirst
    <3> QED BY <3>2, <3>4, <3>6, <3>8, <3>10
  <2>2. CASE i > q + 1 /\ i <= q + 1 + Len(c)
    <3> DEFINE j1 == i + (p - q)
           j2 == (i + (p - q)) - p - 1
           j3 == i - q - 1
    <3>0. i \in Int /\ j1 \in Int /\ j1 = i + (p - q) /\ j2 \in Int
            /\ j2 = (i + (p - q)) - p - 1 /\ j3 \in Int /\ j3 = i - q - 1
      BY <1>1, <2>2
    <3> HIDE DEF j1, j2, j3
    <3>1. Closed(i, j1, q, p - q, Len(z))
      BY <1>1, <1>5, <1>5a, <2>2, <3>0 DEF Closed
    <3>2. t[i] = z[j1]
      BY <1>4b, <3>1, WithoutLast
    <3>3. Before(j1, p + Len(c))
      BY <1>1, <1>5, <1>5a, <2>2, <3>0 DEF Before
    <3>4. z[j1] = x[j1]
      BY <1>4, <3>3, WithoutFirst
    <3>5. Within(j1, j2, p, Len(c))
      BY <1>1, <1>5, <1>5a, <2>2, <3>0 DEF Within
    <3>6. x[j1] = c[j2]
      BY <1>2, <3>5, WithMiddle
    <3>7. Within(i, j3, q, Len(c))
      BY <1>1, <1>5, <1>5a, <2>2, <3>0 DEF Within
    <3>8. u[i] = c[j3]
      BY <1>4, <3>7, WithMiddle
    <3>9. j3 = j2
      BY <1>1, <3>0, <2>2
    <3> QED BY <3>2, <3>4, <3>6, <3>8, <3>9
  <2>3. CASE i > q + 1 + Len(c)
    <3> DEFINE j1 == i + (p - q)
           j2 == (i + (p - q)) + (q + n - p)
           j3 == ((i + (p - q)) + (q + n - p)) - Len(c)
           j4 == i - Len(c)
           j5 == (i - Len(c)) + n
    <3>0. i \in Int /\ j1 \in Int /\ j1 = i + (p - q) /\ j2 \in Int
            /\ j2 = (i + (p - q)) + (q + n - p) /\ j3 \in Int
                /\ j3 = ((i + (p - q)) + (q + n - p)) - Len(c) /\ j4 \in Int /\ j4 = i - Len(c)
                    /\ j5 \in Int /\ j5 = (i - Len(c)) + n
      BY <1>1, <2>3
    <3> HIDE DEF j1, j2, j3, j4, j5
    <3>1. Closed(i, j1, q, p - q, Len(z))
      BY <1>1, <1>5, <1>5a, <2>3, <3>0 DEF Closed
    <3>2. t[i] = z[j1]
      BY <1>4b, <3>1, WithoutLast
    <3>3. Closed(j1, j2, p + Len(c), q + n - p, Len(x))
      BY <1>1, <1>5, <1>5a, <2>3, <3>0 DEF Closed
    <3>4. z[j1] = x[j2]
      BY <1>4, <3>3, WithoutLast
    <3>5. Behind(j2, j3, p, Len(c), Len(s))
      BY <1>1, <1>5, <1>5a, <2>3, <3>0 DEF Behind
    <3>6. x[j2] = s[j3]
      BY <1>2, <3>5, WithLast
    <3>7. Behind(i, j4, q, Len(c), Len(y))
      BY <1>1, <1>5, <1>5a, <2>3, <3>0 DEF Behind
    <3>8. u[i] = y[j4]
      BY <1>4, <3>7, WithLast
    <3>9. Closed(j4, j5, q, n, Len(s))
      BY <1>1, <1>5, <1>5a, <2>3, <3>0 DEF Closed
    <3>10. y[j4] = s[j5]
      BY <1>2, <3>9, WithoutLast
    <3>11. j5 = j3
      BY <1>1, <3>0, <2>3
    <3> QED BY <3>2, <3>4, <3>6, <3>8, <3>10, <3>11
  <2> QED BY <1>1, <2>1, <2>2, <2>3
<1>7. t = u
  BY <1>5, <1>6, SameText
<1> QED BY <1>7 DEF t, u, x, y, z

(* Two taken out, the first before the second ...                          *)
LEMMA WithoutApart ==
  ASSUME NEW s \in Texts, NEW p \in Nat, NEW m \in Nat, NEW q \in Nat, NEW n \in Nat, p + m <= q,
         q + n < Len(s)
  PROVE  Without(Without(s, p, m), q - m, n) = Without(Without(s, q, n), p, m)
<1> DEFINE x == Without(s, p, m)
           y == Without(s, q, n)
           t == Without(x, q - m, n)
           u == Without(y, p, m)
<1>1. Len(s) \in Nat /\ p + m < Len(s) /\ q - m \in Nat
  BY TextFacts
<1>2. IsWithout(x, s, p, m) /\ IsWithout(y, s, q, n)
  BY <1>1, WithoutIs
<1>3. x \in Texts /\ y \in Texts /\ q - m + n < Len(x) /\ p + m < Len(y)
  BY <1>1, <1>2 DEF IsWithout
<1> HIDE DEF x, y
<1>4. IsWithout(t, x, q - m, n) /\ IsWithout(u, y, p, m)
  BY <1>1, <1>3, WithoutIs
<1> HIDE DEF t, u
<1>5. t \in Texts /\ u \in Texts /\ Len(t) = Len(s) - m - n /\ Len(u) = Len(t)
  BY <1>1, <1>2, <1>4 DEF IsWithout
<1>5a. Len(x) = Len(s) - (m) /\ Len(y) = Len(s) - (n) /\ Len(t) = Len(x) - (n)
  /\ Len(u) = Len(y) - (m)
  BY <1>1, <1>2, <1>4 DEF IsWithout
<1>6. ASSUME NEW i \in 1 .. Len(t) PROVE t[i] = u[i]
  <2>1. CASE i <= p + 1
    <3>1. Before(i, q - m)
      BY <1>1, <1>5, <1>5a, <2>1 DEF Before
    <3>2. t[i] = x[i]
      BY <1>4, <3>1, WithoutFirst
    <3>3. Before(i, p)
      BY <1>1, <1>5, <1>5a, <2>1 DEF Before
    <3>4. x[i] = s[i]
      BY <1>2, <3>3, WithoutFirst
    <3>5. Before(i, p)
      BY <1>1, <1>5, <1>5a, <2>1 DEF Before
    <3>6. u[i] = y[i]
      BY <1>4, <3>5, WithoutFirst
    <3>7. Before(i, q)
      BY <1>1, <1>5, <1>5a, <2>1 DEF Before
    <3>8. y[i] = s[i]
      BY <1>2, <3>7, WithoutFirst
    <3> QED BY <3>2, <3>4, <3>6, <3>8
  <2>2. CASE i > p + 1 /\ i <= q - m + 1
    <3> DEFINE j1 == i + m
    <3>0. i \in Int /\ j1 \in Int /\ j1 = i + m
      BY <1>1, <2>2
    <3> HIDE DEF j1
    <3>1. Before(i, q - m)
      BY <1>1, <1>5, <1>5a, <2>2, <3>0 DEF Before
    <3>2. t[i] = x[i]
      BY <1>4, <3>1, WithoutFirst
    <3>3. Closed(i, j1, p, m, Len(s))
      BY <1>1, <1>5, <1>5a, <2>2, <3>0 DEF Closed
    <3>4. x[i] = s[j1]
      BY <1>2, <3>3, WithoutLast
    <3>5. Closed(i, j1, p, m, Len(y))
      BY <1>1, <1>5, <1>5a, <2>2, <3>0 DEF Closed
    <3>6. u[i] = y[j1]
      BY <1>4, <3>5, WithoutLast
    <3>7. Before(j1, q)
      BY <1>1, <1>5, <1>5a, <2>2, <3>0 DEF Before
    <3>8. y[j1] = s[j1]
      BY <1>2, <3>7, WithoutFirst
    <3> QED BY <3>2, <3>4, <3>6, <3>8
  <2>3. CASE i > q - m + 1
    <3> DEFINE j1 == i + n
           j2 == (i + n) + m
           j3 == i + m
           j4 == (i + m) + n
    <3>0. i \in Int /\ j1 \in Int /\ j1 = i + n /\ j2 \in Int /\ j2 = (i + n) + m /\ j3 \in Int
            /\ j3 = i + m /\ j4 \in Int /\ j4 = (i + m) + n
      BY <1>1, <2>3
    <3> HIDE DEF j1, j2, j3, j4
    <3>1. Closed(i, j1, q - m, n, Len(x))
      BY <1>1, <1>5, <1>5a, <2>3, <3>0 DEF Closed
    <3>2. t[i] = x[j1]
      BY <1>4, <3>1, WithoutLast
    <3>3. Closed(j1, j2, p, m, Len(s))
      BY <1>1, <1>5, <1>5a, <2>3, <3>0 DEF Closed
    <3>4. x[j1] = s[j2]
      BY <1>2, <3>3, WithoutLast
    <3>5. Closed(i, j3, p, m, Len(y))
      BY <1>1, <1>5, <1>5a, <2>3, <3>0 DEF Closed
    <3>6. u[i] = y[j3]
      BY <1>4, <3>5, WithoutLast
    <3>7. Closed(j3, j4, q, n, Len(s))
      BY <1>1, <1>5, <1>5a, <2>3, <3>0 DEF Closed
    <3>8. y[j3] = s[j4]
      BY <1>2, <3>7, WithoutLast
    <3>9. j4 = j2
      BY <1>1, <3>0, <2>3
    <3> QED BY <3>2, <3>4, <3>6, <3>8, <3>9
  <2> QED BY <1>1, <2>1, <2>2, <2>3
<1>7. t = u
  BY <1>5, <1>6, SameText
<1> QED BY <1>7 DEF t, u, x, y

(* ... one inside the other: of that two pieces are left ...               *)
LEMMA WithoutInside ==
  ASSUME NEW s \in Texts, NEW p \in Nat, NEW m \in Nat, NEW q \in Nat, NEW n \in Nat, p <= q,
         q + n <= p + m, p + m < Len(s)
  PROVE  Without(Without(Without(s, q, n), q, p + m - (q + n)), p, q - p) = Without(s, p, m)
<1> DEFINE x == Without(s, q, n)
           y == Without(x, q, p + m - (q + n))
           t == Without(y, p, q - p)
           u == Without(s, p, m)
<1>1. Len(s) \in Nat /\ q + n < Len(s) /\ p + m - (q + n) \in Nat /\ q - p \in Nat
  BY TextFacts
<1>2. IsWithout(x, s, q, n) /\ IsWithout(u, s, p, m)
  BY <1>1, WithoutIs
<1>3. x \in Texts /\ q + (p + m - (q + n)) < Len(x)
  BY <1>1, <1>2 DEF IsWithout
<1> HIDE DEF x
<1>4. IsWithout(y, x, q, p + m - (q + n))
  BY <1>1, <1>3, WithoutIs
<1>4a. y \in Texts /\ p + (q - p) < Len(y)
  BY <1>1, <1>2, <1>4 DEF IsWithout
<1> HIDE DEF y
<1>4b. IsWithout(t, y, p, q - p)
  BY <1>1, <1>4a, WithoutIs
<1> HIDE DEF t, u
<1>5. t \in Texts /\ u \in Texts /\ Len(t) = Len(s) - m /\ Len(u) = Len(t)
  BY <1>1, <1>2, <1>4, <1>4b DEF IsWithout
<1>5a. Len(x) = Len(s) - (n) /\ Len(y) = Len(x) - (p + m - (q + n)) /\ Len(t) = Len(y) - (q - p)
  /\ Len(u) = Len(s) - (m)
  BY <1>1, <1>2, <1>4, <1>4b DEF IsWithout
<1>6. ASSUME NEW i \in 1 .. Len(t) PROVE t[i] = u[i]
  <2>1. CASE i <= p + 1
    <3>1. Before(i, p)
      BY <1>1, <1>5, <1>5a, <2>1 DEF Before
    <3>2. t[i] = y[i]
      BY <1>4b, <3>1, WithoutFirst
    <3>3. Before(i, q)
      BY <1>1, <1>5, <1>5a, <2>1 DEF Before
    <3>4. y[i] = x[i]
      BY <1>4, <3>3, WithoutFirst
    <3>5. Before(i, q)
      BY <1>1, <1>5, <1>5a, <2>1 DEF Before
    <3>6. x[i] = s[i]
      BY <1>2, <3>5, WithoutFirst
    <3>7. Before(i, p)
      BY <1>1, <1>5, <1>5a, <2>1 DEF Before
    <3>8. u[i] = s[i]
      BY <1>2, <3>7, WithoutFirst
    <3> QED BY <3>2, <3>4, <3>6, <3>8
  <2>2. CASE i > p + 1
    <3> DEFINE j1 == i + (q - p)
           j2 == (i + (q - p)) + (p + m - (q + n))
           j3 == ((i + (q - p)) + (p + m - (q + n))) + n
           j4 == i + m
    <3>0. i \in Int /\ j1 \in Int /\ j1 = i + (q - p) /\ j2 \in Int
            /\ j2 = (i + (q - p)) + (p + m - (q + n)) /\ j3 \in Int
                /\ j3 = ((i + (q - p)) + (p + m - (q + n))) + n /\ j4 \in Int /\ j4 = i + m
      BY <1>1, <2>2
    <3> HIDE DEF j1, j2, j3, j4
    <3>1. Closed(i, j1, p, q - p, Len(y))
      BY <1>1, <1>5, <1>5a, <2>2, <3>0 DEF Closed
    <3>2. t[i] = y[j1]
      BY <1>4b, <3>1, WithoutLast
    <3>3. Closed(j1, j2, q, p + m - (q + n), Len(x))
      BY <1>1, <1>5, <1>5a, <2>2, <3>0 DEF Closed
    <3>4. y[j1] = x[j2]
      BY <1>4, <3>3, WithoutLast
    <3>5. Closed(j2, j3, q, n, Len(s))
      BY <1>1, <1>5, <1>5a, <2>2, <3>0 DEF Closed
    <3>6. x[j2] = s[j3]
      BY <1>2, <3>5, WithoutLast
    <3>7. Closed(i, j4, p, m, Len(s))
      BY <1>1, <1>5, <1>5a, <2>2, <3>0 DEF Closed
    <3>8. u[i] = s[j4]
      BY <1>2, <3>7, WithoutLast
    <3>9. j4 = j3
      BY <1>1, <3>0, <2>2
    <3> QED BY <3>2, <3>4, <3>6, <3>8, <3>9
  <2> QED BY <1>1, <2>1, <2>2
<1>7. t = u
  BY <1>5, <1>6, SameText
<1> QED BY <1>7 DEF t, u, x, y

(* ... or both in part the same.                                           *)
LEMMA WithoutBoth ==
  ASSUME NEW s \in Texts, NEW p \in Nat, NEW m \in Nat, NEW q \in Nat, NEW n \in Nat, p <= q,
         q <= p + m,
         p + m <= q + n, q + n < Len(s)
  PROVE  Without(Without(s, p, m), p, q + n - (p + m)) = Without(Without(s, q, n), p, q - p)
<1> DEFINE x == Without(s, p, m)
           y == Without(s, q, n)
           t == Without(x, p, q + n - (p + m))
           u == Without(y, p, q - p)
<1>1. Len(s) \in Nat /\ p + m < Len(s) /\ q + n - (p + m) \in Nat /\ q - p \in Nat
  BY TextFacts
<1>2. IsWithout(x, s, p, m) /\ IsWithout(y, s, q, n)
  BY <1>1, WithoutIs
<1>3. x \in Texts /\ y \in Texts /\ p + (q + n - (p + m)) < Len(x) /\ p + (q - p) < Len(y)
  BY <1>1, <1>2 DEF IsWithout
<1> HIDE DEF x, y
<1>4. IsWithout(t, x, p, q + n - (p + m)) /\ IsWithout(u, y, p, q - p)
  BY <1>1, <1>3, WithoutIs
<1> HIDE DEF t, u
<1>5. t \in Texts /\ u \in Texts /\ Len(t) = Len(s) + p - q - n /\ Len(u) = Len(t)
  BY <1>1, <1>2, <1>4 DEF IsWithout
<1>5a. Len(x) = Len(s) - (m) /\ Len(y) = Len(s) - (n) /\ Len(t) = Len(x) - (q + n - (p + m))
  /\ Len(u) = Len(y) - (q - p)
  BY <1>1, <1>2, <1>4 DEF IsWithout
<1>6. ASSUME NEW i \in 1 .. Len(t) PROVE t[i] = u[i]
  <2>1. CASE i <= p + 1
    <3>1. Before(i, p)
      BY <1>1, <1>5, <1>5a, <2>1 DEF Before
    <3>2. t[i] = x[i]
      BY <1>4, <3>1, WithoutFirst
    <3>3. Before(i, p)
      BY <1>1, <1>5, <1>5a, <2>1 DEF Before
    <3>4. x[i] = s[i]
      BY <1>2, <3>3, WithoutFirst
    <3>5. Before(i, p)
      BY <1>1, <1>5, <1>5a, <2>1 DEF Before
    <3>6. u[i] = y[i]
      BY <1>4, <3>5, WithoutFirst
    <3>7. Before(i, q)
      BY <1>1, <1>5, <1>5a, <2>1 DEF Before
    <3>8. y[i] = s[i]
      BY <1>2, <3>7, WithoutFirst
    <3> QED BY <3>2, <3>4, <3>6, <3>8
  <2>2. CASE i > p + 1
    <3> DEFINE j1 == i + (q + n - (p + m))
           j2 == (i + (q + n - (p + m))) + m
           j3 == i + (q - p)
           j4 == (i + (q - p)) + n
    <3>0. i \in Int /\ j1 \in Int /\ j1 = i + (q + n - (p + m)) /\ j2 \in Int
            /\ j2 = (i + (q + n - (p + m))) + m /\ j3 \in Int /\ j3 = i + (q - p) /\ j4 \in Int
                /\ j4 = (i + (q - p)) + n
      BY <1>1, <2>2
    <3> HIDE DEF j1, j2, j3, j4
    <3>1. Closed(i, j1, p, q + n - (p + m), Len(x))
      BY <1>1, <1>5, <1>5a, <2>2, <3>0 DEF Closed
    <3>2. t[i] = x[j1]
      BY <1>4, <3>1, WithoutLast
    <3>3. Closed(j1, j2, p, m, Len(s))
      BY <1>1, <1>5, <1>5a, <2>2, <3>0 DEF Closed
    <3>4. x[j1] = s[j2]
      BY <1>2, <3>3, WithoutLast
    <3>5. Closed(i, j3, p, q - p, Len(y))
      BY <1>1, <1>5, <1>5a, <2>2, <3>0 DEF Closed
    <3>6. u[i] = y[j3]
      BY <1>4, <3>5, WithoutLast
    <3>7. Closed(j3, j4, q, n, Len(s))
      BY <1>1, <1>5, <1>5a, <2>2, <3>0 DEF Closed
    <3>8. y[j3] = s[j4]
      BY <1>2, <3>7, WithoutLast
    <3>9. j4 = j2
      BY <1>1, <3>0, <2>2
    <3> QED BY <3>2, <3>4, <3>6, <3>8, <3>9
  <2> QED BY <1>1, <2>1, <2>2
<1>7. t = u
  BY <1>5, <1>6, SameText
<1> QED BY <1>7 DEF t, u, x, y

-----------------------------------------------------------------------------
(* 3. Edits of a text                                                      *)

(* What is taken out is in D.                                              *)
Scoped(s, at, n, D) == \A i \in at + 2 .. at + n + 1 : s[i] \in D

(* What an edit may make of a text, when what is put in is in K and what is *)
(* taken out in D.                                                         *)
PutsIn(e, s, t, K) == e.at < Len(s) /\ \E c \in K : Len(c) = e.len /\ t = With(s, e.at, c)
TakesOut(e, s, t, D) == e.at + e.len < Len(s) /\ Scoped(s, e.at, e.len, D)
  /\ t = Without(s, e.at, e.len)
EditTo(e, s, t, K, D) == (e.t = "insert" /\ PutsIn(e, s, t, K)) \/ (e.t = "delete" /\ TakesOut(e,
  s, t, D))

(* What edits make of texts, such as lead from one to another.             *)
editing(K, D) == [e \in Edits |-> [s \in Texts |-> {t \in Texts : EditTo(e, s, t, K, D)}]]

(* One place of it.                                                        *)
LEMMA ScopedPlace ==
  ASSUME NEW s, NEW at \in Nat, NEW n \in Nat, NEW D, Scoped(s, at, n, D), NEW i \in Int,
         at + 2 <= i, i <= at + n + 1
  PROVE  s[i] \in D
BY DEF Scoped

(* A part of it before what is put in ...                                  *)
LEMMA ScopedWithFirst ==
  ASSUME NEW s \in Texts, NEW p \in Nat, NEW c \in Texts, NEW t, IsWith(t, s, p, c),
         NEW q \in Nat, NEW n \in Nat, NEW D, Scoped(s, q, n, D),
         NEW at \in Nat, NEW k \in Nat, q <= at, at + k <= q + n, at + k <= p
  PROVE  Scoped(t, at, k, D)
<1>1. ASSUME NEW i \in at + 2 .. at + k + 1 PROVE t[i] \in D
  <2>1. Before(i, p)
    BY DEF Before
  <2>2. t[i] = s[i]
    BY <2>1, WithFirst
  <2>3. i \in Int /\ q + 2 <= i /\ i <= q + n + 1
    OBVIOUS
  <2>4. s[i] \in D
    BY <2>3, ScopedPlace
  <2> QED BY <2>2, <2>4
<1> QED BY <1>1 DEF Scoped

(* ... and behind.                                                         *)
LEMMA ScopedWithLast ==
  ASSUME NEW s \in Texts, NEW p \in Nat, NEW c \in Texts, NEW t, IsWith(t, s, p, c),
         NEW q \in Nat, NEW n \in Nat, NEW D, Scoped(s, q, n, D), q + n < Len(s),
         NEW at \in Nat, NEW k \in Nat, q <= at, at + k <= q + n, p <= at
  PROVE  Scoped(t, at + Len(c), k, D)
<1>0. Len(s) \in Nat /\ Len(c) \in Nat
  BY TextFacts
<1>1. ASSUME NEW i \in at + Len(c) + 2 .. at + Len(c) + k + 1 PROVE t[i] \in D
  <2> DEFINE j == i - Len(c)
  <2>1. Behind(i, j, p, Len(c), Len(s))
    BY <1>0 DEF Behind
  <2>3. j \in Int /\ q + 2 <= j /\ j <= q + n + 1
    BY <1>0
  <2> HIDE DEF j
  <2>2. t[i] = s[j]
    BY <2>1, WithLast
  <2>4. s[j] \in D
    BY <2>3, ScopedPlace
  <2> QED BY <2>2, <2>4
<1> QED BY <1>1 DEF Scoped

(* The same before something else taken out ...                            *)
LEMMA ScopedWithoutFirst ==
  ASSUME NEW s \in Texts, NEW p \in Nat, NEW m \in Nat, NEW t, IsWithout(t, s, p, m),
         NEW q \in Nat, NEW n \in Nat, NEW D, Scoped(s, q, n, D),
         NEW at \in Nat, NEW k \in Nat, q <= at, at + k <= q + n, at + k <= p
  PROVE  Scoped(t, at, k, D)
<1>1. ASSUME NEW i \in at + 2 .. at + k + 1 PROVE t[i] \in D
  <2>1. Before(i, p)
    BY DEF Before
  <2>2. t[i] = s[i]
    BY <2>1, WithoutFirst
  <2>3. i \in Int /\ q + 2 <= i /\ i <= q + n + 1
    OBVIOUS
  <2>4. s[i] \in D
    BY <2>3, ScopedPlace
  <2> QED BY <2>2, <2>4
<1> QED BY <1>1 DEF Scoped

(* ... and behind.                                                         *)
LEMMA ScopedWithoutLast ==
  ASSUME NEW s \in Texts, NEW p \in Nat, NEW m \in Nat, NEW t, IsWithout(t, s, p, m),
         NEW q \in Nat, NEW n \in Nat, NEW D, Scoped(s, q, n, D), q + n < Len(s),
         NEW at \in Nat, NEW k \in Nat, q <= at, at + k <= q + n, p + m <= at
  PROVE  Scoped(t, at - m, k, D)
<1>0. Len(s) \in Nat
  BY TextFacts
<1>1. ASSUME NEW i \in at - m + 2 .. at - m + k + 1 PROVE t[i] \in D
  <2> DEFINE j == i + m
  <2>1. Closed(i, j, p, m, Len(s))
    BY <1>0 DEF Closed
  <2>3. j \in Int /\ q + 2 <= j /\ j <= q + n + 1
    BY <1>0
  <2> HIDE DEF j
  <2>2. t[i] = s[j]
    BY <2>1, WithoutLast
  <2>4. s[j] \in D
    BY <2>3, ScopedPlace
  <2> QED BY <2>2, <2>4
<1> QED BY <1>1 DEF Scoped

-----------------------------------------------------------------------------

(* The relation by its definition.                                         *)
LEMMA EditingFacts ==
  ASSUME NEW K, NEW D, NEW e \in Edits, NEW s \in Texts, NEW t \in Texts
  PROVE  t \in editing(K, D)[e][s] <=> EditTo(e, s, t, K, D)
BY DEF editing

(* One edit leads where it may.                                            *)
LEMMA LeadsEdit ==
  ASSUME NEW K, NEW D, NEW e \in Edits, NEW s \in Texts, NEW t \in Texts
  PROVE  Leads(editing(K, D), <<e>>, s, t) <=> EditTo(e, s, t, K, D)
BY EditingFacts, LeadsOne

(* A delete.                                                               *)
LEMMA LeadsCut ==
  ASSUME NEW K, NEW D, NEW s \in Texts, NEW at \in Nat, NEW n \in Nat, at + n < Len(s),
         Scoped(s, at, n, D)
  PROVE  Leads(editing(K, D), <<Delete(at, n)>>, s, Without(s, at, n))
<1>1. Delete(at, n) \in Edits /\ Delete(at, n).t = "delete" /\ Delete(at, n).at = at
        /\ Delete(at, n).len = n
  BY DEF Delete, Edits
<1>2. Without(s, at, n) \in Texts
  BY WithoutFacts
<1>3. EditTo(Delete(at, n), s, Without(s, at, n), K, D)
  BY <1>1 DEF EditTo, TakesOut
<1> QED BY <1>1, <1>2, <1>3, LeadsEdit

(* Two, the later piece first.                                             *)
LEMMA LeadsTwoCuts ==
  ASSUME NEW K, NEW D, NEW s \in Texts, NEW at \in Nat, NEW n \in Nat, at + n < Len(s),
         Scoped(s, at, n, D),
         NEW p \in Nat, NEW m \in Nat, p + m <= at, Scoped(s, p, m, D)
  PROVE  Leads(editing(K, D), <<Delete(at, n)>> \o <<Delete(p, m)>>, s, Without(Without(s, at, n),
           p, m))
<1> DEFINE u == Without(s, at, n)
<1>0. Len(s) \in Nat
  BY TextFacts
<1>1. IsWithout(u, s, at, n)
  BY WithoutIs
<1>2. u \in Texts /\ Len(u) = Len(s) - n
  BY <1>1 DEF IsWithout
<1>3. Leads(editing(K, D), <<Delete(at, n)>>, s, u)
  BY LeadsCut
<1> HIDE DEF u
<1>4. Scoped(u, p, m, D)
  BY <1>1, ScopedWithoutFirst
<1>5. p + m < Len(u)
  BY <1>0, <1>2
<1>6. Leads(editing(K, D), <<Delete(p, m)>>, u, Without(u, p, m))
  BY <1>2, <1>4, <1>5, LeadsCut
<1>7. <<Delete(at, n)>> \in Seq(Edits) /\ <<Delete(p, m)>> \in Seq(Edits)
  BY DEF Delete, Edits
<1>8. Leads(editing(K, D), <<Delete(at, n)>> \o <<Delete(p, m)>>, s, Without(u, p, m))
  BY <1>3, <1>6, <1>7, LeadsJoin
<1> QED BY <1>8 DEF u

(* An insert.                                                              *)
LEMMA LeadsPut ==
  ASSUME NEW K \in SUBSET Texts, NEW D, NEW s \in Texts, NEW at \in Nat, at < Len(s), NEW c \in K,
         NEW e, e = [t |-> "insert", at |-> at, len |-> Len(c)]
  PROVE  Leads(editing(K, D), <<e>>, s, With(s, at, c))
<1>0. c \in Texts /\ Len(c) \in Nat
  BY TextFacts
<1>1. e \in Edits /\ e.t = "insert" /\ e.at = at /\ e.len = Len(c)
  BY <1>0 DEF Edits
<1>2. With(s, at, c) \in Texts
  BY <1>0, WithFacts
<1>3. PutsIn(e, s, With(s, at, c), K)
  BY <1>1 DEF PutsIn
<1>4. EditTo(e, s, With(s, at, c), K, D)
  BY <1>1, <1>3 DEF EditTo
<1> QED BY <1>1, <1>2, <1>4, LeadsEdit

-----------------------------------------------------------------------------
(* 4. Two inserts, and an insert and a delete                              *)

(* From s1 along pb, and from s2 along pa, to the same text.               *)
Meets(A, B, pa, pb, s1, s2) == \E s3 \in Texts : Leads(B, pb, s1, s3) /\ Leads(A, pa, s2, s3)

(* An insert of n characters.                                              *)
Ins(at, n) == [t |-> "insert", at |-> at, len |-> n]

(* An insert by its parts.                                                 *)
LEMMA InsertIs ==
  ASSUME NEW e \in Edits, e.t = "insert"
  PROVE  /\ e = Ins(e.at, e.len) /\ e.at \in Nat /\ e.len \in Nat
         /\ \A at : [e EXCEPT !.at = at] = Ins(at, e.len)
BY DEF Edits, Ins

(* A delete by its parts.                                                  *)
LEMMA DeleteIs ==
  ASSUME NEW e \in Edits, e.t = "delete"
  PROVE  e = Delete(e.at, e.len) /\ e.at \in Nat /\ e.len \in Nat
BY DEF Edits, Delete

(* Where an insert leads.                                                  *)
LEMMA LeadsPutIs ==
  ASSUME NEW K \in SUBSET Texts, NEW D, NEW s \in Texts, NEW at \in Nat, at < Len(s), NEW c \in K
  PROVE  Leads(editing(K, D), <<Ins(at, Len(c))>>, s, With(s, at, c))
BY LeadsPut DEF Ins

(* Two inserts, at one place or at two.                                    *)
LEMMA InsertBeforeInsert ==
  ASSUME NEW Ka \in SUBSET Texts, NEW Kb \in SUBSET Texts, NEW Da, NEW Db, NEW s \in Texts,
         NEW p \in Nat, NEW q \in Nat, p <= q, q < Len(s), NEW c \in Ka, NEW d \in Kb
  PROVE  Meets(editing(Ka, Da), editing(Kb, Db), <<Ins(p, Len(c))>>, <<Ins(q + Len(c), Len(d))>>,
               With(s, p, c), With(s, q, d))
<1>0. Len(s) \in Nat /\ Len(c) \in Nat /\ Len(d) \in Nat /\ c \in Texts /\ d \in Texts
  BY TextFacts
<1> DEFINE x == With(s, p, c)
           y == With(s, q, d)
<1>1. IsWith(x, s, p, c) /\ IsWith(y, s, q, d)
  BY <1>0, WithIs
<1>2. x \in Texts /\ y \in Texts /\ q + Len(c) < Len(x) /\ p < Len(y) /\ q + Len(c) \in Nat
  BY <1>0, <1>1 DEF IsWith
<1>3. With(x, q + Len(c), d) = With(y, p, c)
  BY <1>0, WithWith
<1> HIDE DEF x, y
<1>4. Leads(editing(Kb, Db), <<Ins(q + Len(c), Len(d))>>, x, With(x, q + Len(c), d))
  BY <1>2, LeadsPutIs
<1>5. Leads(editing(Ka, Da), <<Ins(p, Len(c))>>, y, With(y, p, c))
  BY <1>2, LeadsPutIs
<1>6. With(y, p, c) \in Texts
  BY <1>0, <1>2, WithFacts
<1>7. Meets(editing(Ka, Da), editing(Kb, Db), <<Ins(p, Len(c))>>, <<Ins(q + Len(c), Len(d))>>, x, y)
  BY <1>3, <1>4, <1>5, <1>6 DEF Meets
<1> QED BY <1>7 DEF x, y

(* The sides swapped.                                                      *)
LEMMA MeetsSwapped ==
  ASSUME NEW A, NEW B, NEW pa, NEW pb, NEW s1, NEW s2, Meets(A, B, pa, pb, s1, s2)
  PROVE  Meets(B, A, pb, pa, s2, s1)
BY DEF Meets

(* Two inserts, whichever comes first.                                     *)
LEMMA InsertInsert ==
  ASSUME NEW Ka \in SUBSET Texts, NEW Kb \in SUBSET Texts, NEW Da, NEW Db, NEW s \in Texts, NEW s1,
         NEW s2,
         NEW a \in Edits, NEW b \in Edits, a.t = "insert", b.t = "insert",
         EditTo(a, s, s1, Ka, Da), EditTo(b, s, s2, Kb, Db)
  PROVE  Meets(editing(Ka, Da), editing(Kb, Db), Through(a, b, TRUE), Through(b, a, FALSE), s1, s2)
<1>1. a.at < Len(s) /\ b.at < Len(s)
  BY DEF EditTo, PutsIn
<1>2. PICK c \in Ka : Len(c) = a.len /\ s1 = With(s, a.at, c)
  BY DEF EditTo, PutsIn
<1>3. PICK d \in Kb : Len(d) = b.len /\ s2 = With(s, b.at, d)
  BY DEF EditTo, PutsIn
<1>4. a.at \in Nat /\ b.at \in Nat /\ a.len \in Nat /\ b.len \in Nat
  BY DEF Edits
<1>5. Through(a, b, TRUE) =
        <<Ins(IF b.at < a.at \/ b.at = a.at THEN a.at + b.len ELSE a.at, a.len)>>
      /\ Through(b, a, FALSE) = <<Ins(IF a.at < b.at THEN b.at + a.len ELSE b.at, b.len)>>
  BY InsertIs DEF Through
<1>6. CASE b.at <= a.at
  <2>0. /\ (IF b.at < a.at \/ b.at = a.at THEN a.at + b.len ELSE a.at) = a.at + Len(d)
        /\ (IF a.at < b.at THEN b.at + a.len ELSE b.at) = b.at
    BY <1>3, <1>4, <1>6
  <2>1. Through(a, b, TRUE) = <<Ins(a.at + Len(d), Len(c))>>
          /\ Through(b, a, FALSE) = <<Ins(b.at, Len(d))>>
    BY <1>2, <1>3, <1>5, <2>0
  <2>2. Meets(editing(Kb, Db), editing(Ka, Da), <<Ins(b.at, Len(d))>>, <<Ins(a.at + Len(d),
          Len(c))>>, s2, s1)
    BY <1>1, <1>2, <1>3, <1>4, <1>6, InsertBeforeInsert
  <2> QED BY <2>1, <2>2, MeetsSwapped
<1>7. CASE a.at < b.at
  <2>0. /\ (IF b.at < a.at \/ b.at = a.at THEN a.at + b.len ELSE a.at) = a.at
        /\ (IF a.at < b.at THEN b.at + a.len ELSE b.at) = b.at + Len(c)
    BY <1>2, <1>4, <1>7
  <2>1. Through(a, b, TRUE) = <<Ins(a.at, Len(c))>>
          /\ Through(b, a, FALSE) = <<Ins(b.at + Len(c), Len(d))>>
    BY <1>2, <1>3, <1>5, <2>0
  <2>2. Meets(editing(Ka, Da), editing(Kb, Db), <<Ins(a.at, Len(c))>>, <<Ins(b.at + Len(c),
          Len(d))>>, s1, s2)
    BY <1>1, <1>2, <1>3, <1>4, <1>7, InsertBeforeInsert
  <2> QED BY <2>1, <2>2
<1>8. b.at <= a.at \/ a.at < b.at
  BY <1>4
<1> QED BY <1>6, <1>7, <1>8

(* What through makes of a delete past an insert, and of the insert.       *)
LEMMA ThroughInsertCases ==
  ASSUME NEW x \in Edits, NEW y \in Edits, x.t = "insert", y.t = "delete", NEW f \in BOOLEAN,
         NEW g \in BOOLEAN
  PROVE  /\ y.len = 0 => /\ Through(y, x, f) = <<>>
                         /\ Through(x, y, g) = <<x>>
         /\ y.len # 0 /\ x.at <= y.at => /\ Through(y, x, f) = <<Delete(y.at + x.len, y.len)>>
                                         /\ Through(x, y, g) = <<x>>
         /\ y.len # 0 /\ x.at >= y.at + y.len => /\ Through(y, x, f) = <<y>>
                                                 /\ Through(x, y, g) = <<Ins(x.at - y.len, x.len)>>
         /\ y.at < x.at /\ x.at < y.at + y.len =>
              /\ Through(y, x, f) = <<Delete(x.at + x.len, y.at + y.len - x.at)>> \o
                   <<Delete(y.at, x.at - y.at)>>
              /\ Through(x, y, g) = <<Ins(y.at, x.len)>>
<1>1. x.at \in Nat /\ x.len \in Nat /\ y.at \in Nat /\ y.len \in Nat /\ x = Ins(x.at, x.len)
  BY InsertIs, DeleteIs
<1>2. Through(x, y, g) =
        <<Ins(IF x.at <= y.at THEN x.at ELSE IF x.at >= y.at + y.len THEN x.at - y.len ELSE y.at,
          x.len)>>
  BY InsertIs DEF Through
<1>3. Through(y, x, f) =
        IF y.len = 0 THEN <<>>
        ELSE IF x.at <= y.at THEN <<Delete(y.at + x.len, y.len)>>
        ELSE IF x.at >= y.at + y.len THEN <<y>>
        ELSE Split(y, x)
  BY DEF Through
<1>4. Split(y, x) = <<Delete(x.at + x.len, y.at + y.len - x.at)>> \o <<Delete(y.at, x.at - y.at)>>
  BY TwoInARow DEF Split
<1>5. CASE y.len = 0
  <2>1. (IF x.at <= y.at THEN x.at ELSE IF x.at >= y.at + y.len THEN x.at - y.len ELSE y.at) = x.at
    BY <1>1, <1>5
  <2> QED BY <1>1, <1>2, <1>3, <1>5, <2>1
<1>6. CASE y.len # 0 /\ x.at <= y.at
  BY <1>1, <1>2, <1>3, <1>6
<1>7. CASE y.len # 0 /\ x.at >= y.at + y.len
  BY <1>1, <1>2, <1>3, <1>7
<1>8. CASE y.at < x.at /\ x.at < y.at + y.len
  BY <1>1, <1>2, <1>3, <1>4, <1>8
<1> QED BY <1>1, <1>5, <1>6, <1>7, <1>8

(* An insert and a delete meet, before, behind and inside it.              *)
LEMMA InsertDelete ==
  ASSUME NEW Kx \in SUBSET Texts, NEW Ky \in SUBSET Texts, NEW Dx, NEW Dy, NEW s \in Texts, NEW s1,
         NEW s2,
         NEW x \in Edits, NEW y \in Edits, x.t = "insert", y.t = "delete", NEW f \in BOOLEAN,
         NEW g \in BOOLEAN,
         EditTo(x, s, s1, Kx, Dx), EditTo(y, s, s2, Ky, Dy)
  PROVE  Meets(editing(Kx, Dx), editing(Ky, Dy), Through(x, y, g), Through(y, x, f), s1, s2)
<1> DEFINE p == x.at
           q == y.at
           n == y.len
<1>1. p < Len(s) /\ q + n < Len(s) /\ Scoped(s, q, n, Dy) /\ s2 = Without(s, q, n)
  BY DEF EditTo, PutsIn, TakesOut
<1>2. PICK c \in Kx : Len(c) = x.len /\ s1 = With(s, p, c)
  BY DEF EditTo, PutsIn
<1>3. p \in Nat /\ q \in Nat /\ n \in Nat /\ Len(s) \in Nat /\ Len(c) \in Nat /\ c \in Texts
      /\ x = Ins(p, Len(c)) /\ y = Delete(q, n)
  BY <1>2, InsertIs, DeleteIs, TextFacts
<1> DEFINE rx == editing(Kx, Dx)
           ry == editing(Ky, Dy)
           tx == Through(x, y, g)
           ty == Through(y, x, f)
<1>3a. /\ n = 0 => /\ ty = <<>>
                   /\ tx = <<x>>
       /\ n # 0 /\ p <= q => /\ ty = <<Delete(q + x.len, n)>>
                             /\ tx = <<x>>
       /\ n # 0 /\ p >= q + n => /\ ty = <<y>>
                                 /\ tx = <<Ins(p - n, x.len)>>
       /\ q < p /\ p < q + n =>
            /\ ty = <<Delete(p + x.len, q + n - p)>> \o <<Delete(q, p - q)>>
            /\ tx = <<Ins(q, x.len)>>
  BY ThroughInsertCases
<1>3b. x.len = Len(c)
  BY <1>2
<1> HIDE DEF p, q, n, tx, ty
<1>4. IsWith(s1, s, p, c) /\ IsWithout(s2, s, q, n)
  BY <1>1, <1>2, <1>3, WithIs, WithoutIs
<1>5. s1 \in Texts /\ s2 \in Texts /\ Len(s1) = Len(s) + Len(c) /\ Len(s2) = Len(s) - n
  BY <1>3, <1>4 DEF IsWith, IsWithout
<1>6. CASE n = 0
  <2>1. tx = <<Ins(p, Len(c))>> /\ ty = <<>>
    BY <1>3, <1>3a, <1>6
  <2>2. s2 = s
    BY <1>1, <1>3, <1>6, WithoutNone
  <2>3. Leads(rx, <<Ins(p, Len(c))>>, s2, s1)
    BY <1>1, <1>2, <1>3, <2>2, LeadsPutIs
  <2>4. Leads(ry, <<>>, s1, s1)
    BY <1>5, LeadsNone
  <2> QED BY <1>5, <2>1, <2>3, <2>4 DEF Meets, tx, ty
<1>7. CASE n # 0 /\ p <= q
  <2>1. tx = <<Ins(p, Len(c))>> /\ ty = <<Delete(q + Len(c), n)>>
    BY <1>3, <1>3a, <1>3b, <1>7
  <2>2. Without(s1, q + Len(c), n) = With(s2, p, c)
    <3>1. Without(With(s, p, c), q + Len(c), n) = With(Without(s, q, n), p, c)
      BY <1>1, <1>3, <1>7, WithBefore
    <3> QED BY <1>1, <1>2, <3>1
  <2>3. Scoped(s1, q + Len(c), n, Dy)
    BY <1>1, <1>3, <1>4, <1>7, ScopedWithLast
  <2>4. q + Len(c) \in Nat /\ q + Len(c) + n < Len(s1) /\ p < Len(s2)
    BY <1>1, <1>3, <1>5, <1>7
  <2>5. Leads(ry, ty, s1, Without(s1, q + Len(c), n))
    BY <1>3, <1>5, <2>1, <2>3, <2>4, LeadsCut
  <2>6. Leads(rx, tx, s2, With(s2, p, c))
    BY <1>3, <1>5, <2>1, <2>4, LeadsPutIs
  <2>7. With(s2, p, c) \in Texts
    BY <1>3, <1>5, <2>4, WithFacts
  <2> QED BY <2>2, <2>5, <2>6, <2>7 DEF Meets, tx, ty
<1>8. CASE n # 0 /\ p >= q + n
  <2>1. tx = <<Ins(p - n, Len(c))>> /\ ty = <<Delete(q, n)>>
    BY <1>3, <1>3a, <1>3b, <1>8
  <2>2. Without(s1, q, n) = With(s2, p - n, c)
    <3>1. Without(With(s, p, c), q, n) = With(Without(s, q, n), p - n, c)
      BY <1>1, <1>3, <1>8, WithBehind
    <3> QED BY <1>1, <1>2, <3>1
  <2>3. Scoped(s1, q, n, Dy)
    BY <1>1, <1>3, <1>4, <1>8, ScopedWithFirst
  <2>4. p - n \in Nat /\ q + n < Len(s1) /\ p - n < Len(s2)
    BY <1>1, <1>3, <1>5, <1>8
  <2>5. Leads(ry, ty, s1, Without(s1, q, n))
    BY <1>3, <1>5, <2>1, <2>3, <2>4, LeadsCut
  <2>6. Leads(rx, tx, s2, With(s2, p - n, c))
    BY <1>3, <1>5, <2>1, <2>4, LeadsPutIs
  <2>7. With(s2, p - n, c) \in Texts
    BY <1>3, <1>5, <2>4, WithFacts
  <2> QED BY <2>2, <2>5, <2>6, <2>7 DEF Meets, tx, ty
<1>9. CASE q < p /\ p < q + n
  <2>1. tx = <<Ins(q, Len(c))>> /\ ty = <<Delete(p + Len(c), q + n - p)>> \o <<Delete(q, p - q)>>
    BY <1>3, <1>3a, <1>3b, <1>9
  <2>2. Without(Without(s1, p + Len(c), q + n - p), q, p - q) = With(s2, q, c)
    <3>1. Without(Without(With(s, p, c), p + Len(c), q + n - p), q, p - q) =
            With(Without(s, q, n), q, c)
      BY <1>1, <1>3, <1>9, WithInside
    <3> QED BY <1>1, <1>2, <3>1
  <2>3. q + n - p \in Nat /\ p - q \in Nat /\ p + Len(c) \in Nat
          /\ p + Len(c) + (q + n - p) < Len(s1) /\ q < Len(s2)
        /\ q + (p - q) <= p + Len(c)
    BY <1>1, <1>3, <1>5, <1>9
  <2>4. Scoped(s1, p + Len(c), q + n - p, Dy)
    <3>1. p + (q + n - p) <= q + n /\ q <= p
      BY <1>3, <1>9
    <3> QED BY <1>1, <1>3, <1>4, <2>3, <3>1, ScopedWithLast
  <2>5. Scoped(s1, q, p - q, Dy)
    <3>1. q + (p - q) <= q + n /\ q + (p - q) <= p /\ q <= q
      BY <1>3, <1>9
    <3> QED BY <1>1, <1>3, <1>4, <2>3, <3>1, ScopedWithFirst
  <2>6. Leads(ry, ty, s1, Without(Without(s1, p + Len(c), q + n - p), q, p - q))
    BY <1>3, <1>5, <2>1, <2>3, <2>4, <2>5, LeadsTwoCuts
  <2>7. Leads(rx, tx, s2, With(s2, q, c))
    BY <1>3, <1>5, <2>1, <2>3, LeadsPutIs
  <2>8. With(s2, q, c) \in Texts
    BY <1>3, <1>5, <2>3, WithFacts
  <2> QED BY <2>2, <2>6, <2>7, <2>8 DEF Meets, tx, ty
<1> QED BY <1>3, <1>6, <1>7, <1>8, <1>9

-----------------------------------------------------------------------------
(* 5. Two deletes                                                          *)

(* A delete of no characters is left out.                                  *)
Maybe(at, n) == IF n > 0 THEN <<Delete(at, n)>> ELSE <<>>

(* Such a list is one of edits.                                            *)
LEMMA MaybeFacts ==
  ASSUME NEW at \in Nat, NEW n \in Nat
  PROVE  Maybe(at, n) \in Seq(Edits)
<1>1. Delete(at, n) \in Edits
  BY DEF Delete, Edits
<1> QED BY <1>1 DEF Maybe

(* It leads where the delete would, of no characters too.                  *)
LEMMA LeadsMaybe ==
  ASSUME NEW K, NEW D, NEW s \in Texts, NEW at \in Nat, NEW n \in Nat, at + n < Len(s),
         Scoped(s, at, n, D)
  PROVE  Leads(editing(K, D), Maybe(at, n), s, Without(s, at, n))
<1>1. CASE n = 0
  <2>1. Maybe(at, n) = <<>> /\ Without(s, at, n) = s
    BY <1>1, WithoutNone DEF Maybe
  <2>2. Leads(editing(K, D), <<>>, s, s)
    BY LeadsNone
  <2> QED BY <2>1, <2>2
<1>2. CASE n > 0
  <2>1. Maybe(at, n) = <<Delete(at, n)>>
    BY <1>2 DEF Maybe
  <2>2. Leads(editing(K, D), <<Delete(at, n)>>, s, Without(s, at, n))
    BY LeadsCut
  <2> QED BY <2>1, <2>2
<1> QED BY <1>1, <1>2

(* Two of them, the later piece first.                                     *)
LEMMA LeadsTwoMaybes ==
  ASSUME NEW K, NEW D, NEW s \in Texts, NEW at \in Nat, NEW n \in Nat, at + n < Len(s),
         Scoped(s, at, n, D),
         NEW p \in Nat, NEW m \in Nat, p + m <= at, Scoped(s, p, m, D)
  PROVE  Leads(editing(K, D), Maybe(at, n) \o Maybe(p, m), s, Without(Without(s, at, n), p, m))
<1> DEFINE u == Without(s, at, n)
<1>0. Len(s) \in Nat
  BY TextFacts
<1>1. IsWithout(u, s, at, n)
  BY WithoutIs
<1>2. u \in Texts /\ Len(u) = Len(s) - n
  BY <1>1 DEF IsWithout
<1>3. Leads(editing(K, D), Maybe(at, n), s, u)
  BY LeadsMaybe
<1> HIDE DEF u
<1>4. Scoped(u, p, m, D)
  BY <1>1, ScopedWithoutFirst
<1>5. p + m < Len(u)
  BY <1>0, <1>2
<1>6. Leads(editing(K, D), Maybe(p, m), u, Without(u, p, m))
  BY <1>2, <1>4, <1>5, LeadsMaybe
<1>7. Maybe(at, n) \in Seq(Edits) /\ Maybe(p, m) \in Seq(Edits)
  BY MaybeFacts
<1>8. Leads(editing(K, D), Maybe(at, n) \o Maybe(p, m), s, Without(u, p, m))
  BY <1>3, <1>6, <1>7, LeadsJoin
<1> QED BY <1>8 DEF u

(* What a delete leaves of another.                                        *)
LEMMA LeftOverIs ==
  ASSUME NEW p \in Nat, NEW m \in Nat, NEW q \in Nat, NEW n \in Nat
  PROVE  LeftOver(Delete(p, m), Delete(q, n)) =
           (IF p + m > q + n THEN <<Delete((IF p >= q + n THEN p ELSE q + n) - n,
             p + m - (IF p >= q + n THEN p ELSE q + n))>> ELSE <<>>)
           \o (IF p < q THEN <<Delete(p, (IF p + m <= q THEN p + m ELSE q) - p)>> ELSE <<>>)
<1> DEFINE x == Delete(p, m)
           y == Delete(q, n)
<1>1. p = x.at /\ m = x.len /\ q = y.at /\ n = y.len
  BY DEF Delete
<1> HIDE DEF x, y
<1>2. PICK end, from, till : end = p + m /\ from = Max({p, q + n}) /\ till = Min({end, q})
  OBVIOUS
<1>3. q + n \in Nat /\ end \in Nat /\ end = p + m
  BY <1>2
<1>4. from = (IF p >= q + n THEN p ELSE q + n) /\ till = (IF end <= q THEN end ELSE q)
  BY <1>2, <1>3, Extremes
<1>5. LeftOver(x, y) =
           (IF end > q + n THEN <<Delete(from - n, end - from)>> ELSE <<>>)
           \o (IF p < q THEN <<Delete(p, till - p)>> ELSE <<>>)
  BY <1>1, <1>2 DEF LeftOver
<1> QED BY <1>3, <1>4, <1>5 DEF x, y

(* The empty list on either side.                                          *)
LEMMA NothingJoined == ASSUME NEW S, NEW q \in Seq(S) PROVE <<>> \o q = q /\ q \o <<>> = q
OBVIOUS

(* What a delete of n at q leaves of one of m at p.                        *)
Rest(p, m, q, n) == IF m = 0 THEN <<>> ELSE LeftOver(Delete(p, m), Delete(q, n))

(* through makes of a delete what the other leaves, whichever comes first. *)
LEMMA ThroughDeleteIs ==
  ASSUME NEW p \in Nat, NEW m \in Nat, NEW q \in Nat, NEW n \in Nat
  PROVE  /\ Through(Delete(p, m), Delete(q, n), TRUE) = Rest(p, m, q, n)
         /\ Through(Delete(p, m), Delete(q, n), FALSE) = Rest(p, m, q, n)
<1>1. Delete(p, m).t = "delete" /\ Delete(q, n).t = "delete" /\ Delete(p, m).len = m
  BY DEF Delete
<1> QED BY <1>1 DEF Through, Rest

(* The two deletes through each other when the first starts no later.      *)
RestsAre(p, m, q, n) ==
  /\ p + m <= q => Rest(p, m, q, n) = Maybe(p, m) /\ Rest(q, n, p, m) = Maybe(q - m, n)
  /\ q < p + m /\ q + n <= p + m =>
       Rest(p, m, q, n) = Maybe(q, p + m - (q + n)) \o Maybe(p, q - p) /\ Rest(q, n, p, m) = <<>>
  /\ q < p + m /\ p + m < q + n =>
       Rest(p, m, q, n) = Maybe(p, q - p) /\ Rest(q, n, p, m) = Maybe(p, q + n - (p + m))

(* So it is.                                                               *)
LEMMA RestCases ==
  ASSUME NEW p \in Nat, NEW m \in Nat, NEW q \in Nat, NEW n \in Nat, p <= q
  PROVE  RestsAre(p, m, q, n)
<1> DEFINE tx == Rest(p, m, q, n)
           ty == Rest(q, n, p, m)
<1>1. tx = IF m = 0 THEN <<>> ELSE
           (IF p + m > q + n THEN <<Delete((IF p >= q + n THEN p ELSE q + n) - n,
             p + m - (IF p >= q + n THEN p ELSE q + n))>> ELSE <<>>)
           \o (IF p < q THEN <<Delete(p, (IF p + m <= q THEN p + m ELSE q) - p)>> ELSE <<>>)
  BY LeftOverIs DEF Rest
<1>2. ty = IF n = 0 THEN <<>> ELSE
           (IF q + n > p + m THEN <<Delete((IF q >= p + m THEN q ELSE p + m) - m,
             q + n - (IF q >= p + m THEN q ELSE p + m))>> ELSE <<>>)
           \o (IF q < p THEN <<Delete(q, (IF q + n <= p THEN q + n ELSE p) - q)>> ELSE <<>>)
  BY LeftOverIs DEF Rest
<1> HIDE DEF tx, ty
<1>3. \A at \in Nat, k \in Nat : <<Delete(at, k)>> \in Seq(Edits)
  BY DEF Delete, Edits
<1>3a. <<>> \in Seq(Edits) /\ <<>> \o <<>> = <<>>
  OBVIOUS
<1>4. CASE p + m <= q
  <2>1. tx = Maybe(p, m)
    <3>1. CASE m = 0
      BY <1>1, <3>1 DEF Maybe
    <3>2. CASE m > 0
      <4>1. ~(p + m > q + n) /\ p < q /\ (p + m) - p = m /\ m # 0
        BY <1>4, <3>2
      <4>2. tx = <<>> \o <<Delete(p, m)>>
        BY <1>1, <1>4, <4>1
      <4>3. <<>> \o <<Delete(p, m)>> = <<Delete(p, m)>>
        BY <1>3, NothingJoined
      <4> QED BY <3>2, <4>2, <4>3 DEF Maybe
    <3> QED BY <3>1, <3>2
  <2>2. ty = Maybe(q - m, n)
    <3>1. CASE n = 0
      BY <1>2, <3>1 DEF Maybe
    <3>2. CASE n > 0
      <4>1. q + n > p + m /\ ~(q < p) /\ q >= p + m /\ (q + n) - q = n /\ n # 0 /\ q - m \in Nat
        BY <1>4, <3>2
      <4>2. ty = <<Delete(q - m, n)>> \o <<>>
        BY <1>2, <4>1
      <4>3. <<Delete(q - m, n)>> \o <<>> = <<Delete(q - m, n)>>
        BY <1>3, <4>1, NothingJoined
      <4> QED BY <3>2, <4>2, <4>3 DEF Maybe
    <3> QED BY <3>1, <3>2
  <2> QED BY <1>4, <2>1, <2>2 DEF RestsAre, tx, ty
<1>5. CASE q < p + m /\ q + n <= p + m
  <2>0. m # 0 /\ ~(q + n > p + m) /\ ~(q < p) /\ p + m - (q + n) \in Nat /\ q - p \in Nat
    BY <1>5
  <2>1. ty = <<>>
    BY <1>2, <1>3a, <2>0
  <2>2. (IF p + m > q + n THEN <<Delete((IF p >= q + n THEN p ELSE q + n) - n,
          p + m - (IF p >= q + n THEN p ELSE q + n))>> ELSE <<>>)
        = Maybe(q, p + m - (q + n))
    <3>1. CASE p + m > q + n
      <4>1. (IF p >= q + n THEN p ELSE q + n) = q + n /\ (q + n) - n = q /\ p + m - (q + n) > 0
        BY <1>5, <3>1
      <4> QED BY <3>1, <4>1 DEF Maybe
    <3>2. CASE ~(p + m > q + n)
      <4>1. ~(p + m - (q + n) > 0)
        BY <1>5, <3>2
      <4> QED BY <3>2, <4>1 DEF Maybe
    <3> QED BY <3>1, <3>2
  <2>3. (IF p < q THEN <<Delete(p, (IF p + m <= q THEN p + m ELSE q) - p)>> ELSE <<>>) =
          Maybe(p, q - p)
    <3>1. CASE p < q
      <4>1. (IF p + m <= q THEN p + m ELSE q) = q /\ q - p > 0
        BY <1>5, <3>1
      <4> QED BY <3>1, <4>1 DEF Maybe
    <3>2. CASE ~(p < q)
      <4>1. ~(q - p > 0)
        BY <1>5, <3>2
      <4> QED BY <3>2, <4>1 DEF Maybe
    <3> QED BY <3>1, <3>2
  <2>4. tx = Maybe(q, p + m - (q + n)) \o Maybe(p, q - p)
    BY <1>1, <2>0, <2>2, <2>3
  <2>5. ~(p + m <= q) /\ ~(p + m < q + n)
    BY <1>5
  <2> QED BY <2>1, <2>4, <2>5 DEF RestsAre, tx, ty
<1>6. CASE q < p + m /\ p + m < q + n
  <2>0. m # 0 /\ n # 0 /\ ~(p + m > q + n) /\ ~(q < p) /\ q + n - (p + m) \in Nat /\ q - p \in Nat
    BY <1>6
  <2>1. (IF p < q THEN <<Delete(p, (IF p + m <= q THEN p + m ELSE q) - p)>> ELSE <<>>) =
          Maybe(p, q - p)
    <3>1. CASE p < q
      <4>1. (IF p + m <= q THEN p + m ELSE q) = q /\ q - p > 0
        BY <1>6, <3>1
      <4> QED BY <3>1, <4>1 DEF Maybe
    <3>2. CASE ~(p < q)
      <4>1. ~(q - p > 0)
        BY <1>6, <3>2
      <4> QED BY <3>2, <4>1 DEF Maybe
    <3> QED BY <3>1, <3>2
  <2>2. tx = <<>> \o Maybe(p, q - p)
    BY <1>1, <2>0, <2>1
  <2>3. <<>> \o Maybe(p, q - p) = Maybe(p, q - p)
    BY <2>0, MaybeFacts, NothingJoined
  <2>4. (IF q >= p + m THEN q ELSE p + m) = p + m /\ (p + m) - m = p /\ q + n > p + m
          /\ q + n - (p + m) > 0
    BY <1>6
  <2>5. ty = <<Delete(p, q + n - (p + m))>> \o <<>>
    BY <1>2, <2>0, <2>4
  <2>6. <<Delete(p, q + n - (p + m))>> \o <<>> = <<Delete(p, q + n - (p + m))>>
    BY <1>3, <2>0, NothingJoined
  <2>7. ty = Maybe(p, q + n - (p + m))
    BY <2>4, <2>5, <2>6 DEF Maybe
  <2>8. ~(p + m <= q) /\ ~(q + n <= p + m)
    BY <1>6
  <2> QED BY <2>2, <2>3, <2>7, <2>8 DEF RestsAre, tx, ty
<1>7. p + m <= q \/ (q < p + m /\ q + n <= p + m) \/ (q < p + m /\ p + m < q + n)
  OBVIOUS
<1> QED BY <1>4, <1>5, <1>6, <1>7 DEF RestsAre, tx, ty

(* Two deletes, the first starting no later.                               *)
LEMMA DeleteBeforeDelete ==
  ASSUME NEW Kx, NEW Ky, NEW Dx, NEW Dy, NEW s \in Texts,
         NEW p \in Nat, NEW m \in Nat, NEW q \in Nat, NEW n \in Nat, p <= q, p + m < Len(s),
         q + n < Len(s),
         Scoped(s, p, m, Dx), Scoped(s, q, n, Dy)
  PROVE  Meets(editing(Kx, Dx), editing(Ky, Dy), Rest(p, m, q, n), Rest(q, n, p, m),
               Without(s, p, m), Without(s, q, n))
<1>t. RestsAre(p, m, q, n)
  BY RestCases
<1> DEFINE tx == Rest(p, m, q, n)
           ty == Rest(q, n, p, m)
           rx == editing(Kx, Dx)
           ry == editing(Ky, Dy)
           s1 == Without(s, p, m)
           s2 == Without(s, q, n)
<1>0. Len(s) \in Nat
  BY TextFacts
<1>1. IsWithout(s1, s, p, m) /\ IsWithout(s2, s, q, n)
  BY WithoutIs
<1>2. s1 \in Texts /\ s2 \in Texts /\ Len(s1) = Len(s) - m /\ Len(s2) = Len(s) - n
  BY <1>1 DEF IsWithout
<1>3. /\ p + m <= q => tx = Maybe(p, m) /\ ty = Maybe(q - m, n)
      /\ q < p + m /\ q + n <= p + m =>
           tx = Maybe(q, p + m - (q + n)) \o Maybe(p, q - p) /\ ty = <<>>
      /\ q < p + m /\ p + m < q + n =>
           tx = Maybe(p, q - p) /\ ty = Maybe(p, q + n - (p + m))
  BY <1>t DEF RestsAre
<1> HIDE DEF tx, ty, rx, ry
<1>4. CASE p + m <= q
  <2>1. Without(s1, q - m, n) = Without(s2, p, m)
    BY <1>4, WithoutApart
  <2> HIDE DEF s1, s2
  <2>2. q - m \in Nat /\ q - m + n < Len(s1) /\ p + m < Len(s2)
    BY <1>0, <1>2, <1>4
  <2>3. Scoped(s1, q - m, n, Dy)
    BY <1>1, <1>4, ScopedWithoutLast
  <2>4. Scoped(s2, p, m, Dx)
    BY <1>1, <1>4, ScopedWithoutFirst
  <2>5. Leads(ry, Maybe(q - m, n), s1, Without(s1, q - m, n))
    BY <1>2, <2>2, <2>3, LeadsMaybe DEF ry
  <2>6. Leads(rx, Maybe(p, m), s2, Without(s2, p, m))
    BY <1>2, <2>2, <2>4, LeadsMaybe DEF rx
  <2>7. Without(s2, p, m) \in Texts
    BY <1>2, <2>2, WithoutFacts
  <2>8. Meets(rx, ry, tx, ty, s1, s2)
    BY <1>3, <1>4, <2>1, <2>5, <2>6, <2>7 DEF Meets
  <2> QED BY <2>8 DEF tx, ty, rx, ry, s1, s2
<1>5. CASE q < p + m /\ q + n <= p + m
  <2>1. Without(Without(s2, q, p + m - (q + n)), p, q - p) = s1
    BY <1>5, WithoutInside
  <2> HIDE DEF s1, s2
  <2>2. p + m - (q + n) \in Nat /\ q - p \in Nat /\ q + (p + m - (q + n)) < Len(s2)
          /\ p + (q - p) <= q
    BY <1>0, <1>2, <1>5
  <2>3. Scoped(s2, q, p + m - (q + n), Dx)
    <3> DEFINE at == q + n
               k == p + m - at
    <3>1. at \in Nat /\ k \in Nat /\ p <= at /\ at + k <= p + m /\ q + n <= at /\ at - n = q
      BY <1>5
    <3> HIDE DEF at, k
    <3>2. Scoped(s2, at - n, k, Dx)
      BY <1>1, <3>1, ScopedWithoutLast
    <3> QED BY <3>1, <3>2 DEF at, k
  <2>4. Scoped(s2, p, q - p, Dx)
    <3>1. p + (q - p) <= p + m /\ p <= p
      BY <1>5
    <3> QED BY <1>1, <2>2, <3>1, ScopedWithoutFirst
  <2>5. Leads(rx, Maybe(q, p + m - (q + n)) \o Maybe(p, q - p), s2, Without(Without(s2, q,
          p + m - (q + n)), p, q - p))
    BY <1>2, <2>2, <2>3, <2>4, LeadsTwoMaybes DEF rx
  <2>6. Leads(ry, <<>>, s1, s1)
    BY <1>2, LeadsNone
  <2>8. Meets(rx, ry, tx, ty, s1, s2)
    BY <1>2, <1>3, <1>5, <2>1, <2>5, <2>6 DEF Meets
  <2> QED BY <2>8 DEF tx, ty, rx, ry, s1, s2
<1>6. CASE q < p + m /\ p + m < q + n
  <2>1. Without(s1, p, q + n - (p + m)) = Without(s2, p, q - p)
    BY <1>6, WithoutBoth
  <2> HIDE DEF s1, s2
  <2>2. q + n - (p + m) \in Nat /\ q - p \in Nat /\ p + (q + n - (p + m)) < Len(s1)
          /\ p + (q - p) < Len(s2)
    BY <1>0, <1>2, <1>6
  <2>3. Scoped(s1, p, q + n - (p + m), Dy)
    <3> DEFINE at == p + m
               k == q + n - at
    <3>1. at \in Nat /\ k \in Nat /\ q <= at /\ at + k <= q + n /\ p + m <= at /\ at - m = p
      BY <1>6
    <3> HIDE DEF at, k
    <3>2. Scoped(s1, at - m, k, Dy)
      BY <1>1, <3>1, ScopedWithoutLast
    <3> QED BY <3>1, <3>2 DEF at, k
  <2>4. Scoped(s2, p, q - p, Dx)
    <3>1. p + (q - p) <= p + m /\ p <= p /\ p + (q - p) <= q
      BY <1>6
    <3> QED BY <1>1, <2>2, <3>1, ScopedWithoutFirst
  <2>5. Leads(rx, Maybe(p, q - p), s2, Without(s2, p, q - p))
    BY <1>2, <2>2, <2>4, LeadsMaybe DEF rx
  <2>6. Leads(ry, Maybe(p, q + n - (p + m)), s1, Without(s1, p, q + n - (p + m)))
    BY <1>2, <2>2, <2>3, LeadsMaybe DEF ry
  <2>7. Without(s2, p, q - p) \in Texts
    BY <1>2, <2>2, WithoutFacts
  <2>8. Meets(rx, ry, tx, ty, s1, s2)
    BY <1>3, <1>6, <2>1, <2>5, <2>6, <2>7 DEF Meets
  <2> QED BY <2>8 DEF tx, ty, rx, ry, s1, s2
<1>7. p + m <= q \/ (q < p + m /\ q + n <= p + m) \/ (q < p + m /\ p + m < q + n)
  OBVIOUS
<1> QED BY <1>4, <1>5, <1>6, <1>7

(* Any two edits.                                                          *)
LEMMA DeleteDelete ==
  ASSUME NEW Ka, NEW Kb, NEW Da, NEW Db, NEW s \in Texts, NEW s1, NEW s2,
         NEW a \in Edits, NEW b \in Edits, a.t = "delete", b.t = "delete",
         EditTo(a, s, s1, Ka, Da), EditTo(b, s, s2, Kb, Db)
  PROVE  Meets(editing(Ka, Da), editing(Kb, Db), Through(a, b, TRUE), Through(b, a, FALSE), s1, s2)
<1>1. /\ a.at + a.len < Len(s) /\ Scoped(s, a.at, a.len, Da) /\ s1 = Without(s, a.at, a.len)
      /\ b.at + b.len < Len(s) /\ Scoped(s, b.at, b.len, Db) /\ s2 = Without(s, b.at, b.len)
  BY DEF EditTo, TakesOut
<1>2. PICK p, m, q, n \in Nat : p = a.at /\ m = a.len /\ q = b.at /\ n = b.len
  BY DEF Edits
<1>3. a = Delete(p, m) /\ b = Delete(q, n)
  BY <1>2, DeleteIs
<1>4. /\ p + m < Len(s) /\ Scoped(s, p, m, Da) /\ s1 = Without(s, p, m)
      /\ q + n < Len(s) /\ Scoped(s, q, n, Db) /\ s2 = Without(s, q, n)
  BY <1>1, <1>2
<1>r. /\ Through(Delete(p, m), Delete(q, n), TRUE) = Rest(p, m, q, n)
      /\ Through(Delete(q, n), Delete(p, m), FALSE) = Rest(q, n, p, m)
  BY ThroughDeleteIs
<1>5. CASE p <= q
  <2>1. Meets(editing(Ka, Da), editing(Kb, Db), Rest(p, m, q, n), Rest(q, n, p, m), Without(s, p,
          m), Without(s, q, n))
    BY <1>4, <1>5, DeleteBeforeDelete
  <2>3. Through(a, b, TRUE) = Rest(p, m, q, n) /\ Through(b, a, FALSE) = Rest(q, n, p, m)
    BY <1>3, <1>r
  <2> QED BY <1>4, <2>1, <2>3
<1>6. CASE q <= p
  <2>1. Meets(editing(Kb, Db), editing(Ka, Da), Rest(q, n, p, m), Rest(p, m, q, n), Without(s, q,
          n), Without(s, p, m))
    BY <1>4, <1>6, DeleteBeforeDelete
  <2>2. Meets(editing(Ka, Da), editing(Kb, Db), Rest(p, m, q, n), Rest(q, n, p, m), Without(s, p,
          m), Without(s, q, n))
    BY <2>1, MeetsSwapped
  <2>3. Through(a, b, TRUE) = Rest(p, m, q, n) /\ Through(b, a, FALSE) = Rest(q, n, p, m)
    BY <1>3, <1>r
  <2> QED BY <1>4, <2>2, <2>3
<1>7. p <= q \/ q <= p
  OBVIOUS
<1> QED BY <1>5, <1>6, <1>7

(* An insert or a delete, and another.                                     *)
LEMMA EditEdit ==
  ASSUME NEW Ka \in SUBSET Texts, NEW Kb \in SUBSET Texts, NEW Da, NEW Db, NEW s \in Texts, NEW s1,
         NEW s2,
         NEW a \in Edits, NEW b \in Edits, EditTo(a, s, s1, Ka, Da), EditTo(b, s, s2, Kb, Db)
  PROVE  Meets(editing(Ka, Da), editing(Kb, Db), Through(a, b, TRUE), Through(b, a, FALSE), s1, s2)
<1>0. a.t \in {"insert", "delete"} /\ b.t \in {"insert", "delete"}
  BY EditFacts
<1>1. CASE a.t = "insert" /\ b.t = "insert"
  BY <1>1, InsertInsert
<1>2. CASE a.t = "insert" /\ b.t = "delete"
  BY <1>2, InsertDelete
<1>3. CASE a.t = "delete" /\ b.t = "insert"
  <2>1. Meets(editing(Kb, Db), editing(Ka, Da), Through(b, a, FALSE), Through(a, b, TRUE), s2, s1)
    BY <1>3, InsertDelete
  <2> QED BY <2>1, MeetsSwapped
<1>4. CASE a.t = "delete" /\ b.t = "delete"
  BY <1>4, DeleteDelete
<1> QED BY <1>0, <1>1, <1>2, <1>3, <1>4

-----------------------------------------------------------------------------
(* 6. it_lists converges                                                   *)

(* Edits of one side and of the other that meet whatever the text.         *)
EditsMeet(A, B) ==
  \A a, b \in Edits : \A s, s1, s2 \in Texts :
    s1 \in A[a][s] /\ s2 \in B[b][s]
      => Meets(A, B, Through(a, b, TRUE), Through(b, a, FALSE), s1, s2)

(* So do lists that become r.                                              *)
ListsMeet(A, B, a, b, ra, rb) ==
  \A s, s1, s2 \in Texts : Leads(A, a, s, s1) /\ Leads(B, b, s, s2) => Meets(A, B, ra, rb, s1, s2)

(* All pairs that weigh less meet.                                         *)
MeetBelow(A, B, n) == \A ab \in Below(n) : ListsMeet(A, B, ab[1], ab[2], Lists[ab][1], Lists[ab][2])

(* Edits do.                                                               *)
LEMMA EditingMeets ==
  ASSUME NEW Ka \in SUBSET Texts, NEW Kb \in SUBSET Texts, NEW Da, NEW Db
  PROVE  EditsMeet(editing(Ka, Da), editing(Kb, Db))
<1> DEFINE A == editing(Ka, Da)
           B == editing(Kb, Db)
<1> SUFFICES ASSUME NEW a \in Edits, NEW b \in Edits, NEW s \in Texts, NEW s1 \in Texts,
                    NEW s2 \in Texts,
                    s1 \in A[a][s], s2 \in B[b][s]
             PROVE  Meets(A, B, Through(a, b, TRUE), Through(b, a, FALSE), s1, s2)
  BY DEF EditsMeet
<1>1. EditTo(a, s, s1, Ka, Da) /\ EditTo(b, s, s2, Kb, Db)
  BY DEF editing
<1> QED BY <1>1, EditEdit

(* An empty list changes nothing.                                          *)
LEMMA EmptyMeets ==
  ASSUME NEW A, NEW B, NEW a, NEW b, a = <<>> \/ b = <<>>
  PROVE  ListsMeet(A, B, a, b, a, b)
<1> SUFFICES ASSUME NEW s \in Texts, NEW s1 \in Texts, NEW s2 \in Texts, Leads(A, a, s, s1),
                    Leads(B, b, s, s2)
             PROVE  Meets(A, B, a, b, s1, s2)
  BY DEF ListsMeet
<1>1. CASE a = <<>>
  <2>1. s1 = s /\ Leads(A, a, s2, s2)
    BY <1>1, LeadsNone
  <2> QED BY <2>1 DEF Meets
<1>2. CASE b = <<>>
  <2>1. s2 = s /\ Leads(B, b, s1, s1)
    BY <1>2, LeadsNone
  <2> QED BY <2>1 DEF Meets
<1> QED BY <1>1, <1>2

(* Two lists of one edit.                                                  *)
LEMMA OneMeetsOne ==
  ASSUME NEW A, NEW B, EditsMeet(A, B), NEW a \in Seq(Edits), NEW b \in Seq(Edits), Len(a) = 1,
         Len(b) = 1
  PROVE  ListsMeet(A, B, a, b, Through(a[1], b[1], TRUE), Through(b[1], a[1], FALSE))
<1> SUFFICES ASSUME NEW s \in Texts, NEW s1 \in Texts, NEW s2 \in Texts, Leads(A, a, s, s1),
                    Leads(B, b, s, s2)
             PROVE  Meets(A, B, Through(a[1], b[1], TRUE), Through(b[1], a[1], FALSE), s1, s2)
  BY DEF ListsMeet
<1>1. PICK x, y : x = a[1] /\ y = b[1]
  OBVIOUS
<1>2. x \in Edits /\ y \in Edits /\ a = <<x>> /\ b = <<y>>
  BY <1>1
<1>3. s1 \in A[x][s] /\ s2 \in B[y][s]
  BY <1>2, LeadsOne
<1> QED BY <1>1, <1>2, <1>3 DEF EditsMeet

(* One list, then another, over the same.                                  *)
LEMMA MeetsTwice ==
  ASSUME NEW A, NEW B, NEW a, NEW h \in Seq(Edits), NEW t \in Seq(Edits),
         NEW ra, NEW rb \in Seq(Edits), NEW sa, NEW sb \in Seq(Edits),
         ListsMeet(A, B, a, h, ra, rb), ListsMeet(A, B, ra, t, sa, sb)
  PROVE  ListsMeet(A, B, a, h \o t, sa, rb \o sb)
<1> SUFFICES ASSUME NEW s \in Texts, NEW s1 \in Texts, NEW s2 \in Texts, Leads(A, a, s, s1),
                    Leads(B, h \o t, s, s2)
             PROVE  Meets(A, B, sa, rb \o sb, s1, s2)
  BY DEF ListsMeet
<1>1. PICK u \in Texts : Leads(B, h, s, u) /\ Leads(B, t, u, s2)
  BY LeadsSplit
<1>2. PICK s3 \in Texts : Leads(B, rb, s1, s3) /\ Leads(A, ra, u, s3)
  BY <1>1 DEF ListsMeet, Meets
<1>3. PICK s4 \in Texts : Leads(B, sb, s3, s4) /\ Leads(A, sa, s2, s4)
  BY <1>1, <1>2 DEF ListsMeet, Meets
<1>4. Leads(B, rb \o sb, s1, s4)
  BY <1>2, <1>3, LeadsJoin
<1> QED BY <1>3, <1>4 DEF Meets

(* The sides swapped.                                                      *)
LEMMA ListsMeetSwapped ==
  ASSUME NEW A, NEW B, NEW a, NEW b, NEW ra, NEW rb
  PROVE  ListsMeet(A, B, a, b, ra, rb) <=> ListsMeet(B, A, b, a, rb, ra)
BY DEF ListsMeet, Meets

(* The first item and the others.                                          *)
LEMMA HeadAndTail ==
  ASSUME NEW q \in Seq(Edits), q # <<>>
  PROVE  <<Head(q)>> \in Seq(Edits) /\ Tail(q) \in Seq(Edits) /\ q = <<Head(q)>> \o Tail(q)
OBVIOUS

(* A pair meets when the smaller ones do.                                  *)
LEMMA ListsMeetNext ==
  ASSUME NEW A, NEW B, EditsMeet(A, B), NEW n \in Nat, SoundBelow(Lists, n), MeetBelow(A, B, n),
         NEW ab \in Below(n + 1)
  PROVE  ListsMeet(A, B, ab[1], ab[2], Lists[ab][1], Lists[ab][2])
<1>1. PICK a, b : a = ab[1] /\ b = ab[2]
  OBVIOUS
<1>2. ab \in Pairs /\ Measure(ab) < n + 1
  BY DEF Below
<1>3. /\ a \in Seq(Edits) /\ b \in Seq(Edits) /\ ab = <<a, b>>
      /\ Load(a) \in Nat /\ Load(b) \in Nat
  BY <1>1, <1>2, PairFacts
<1>4. Load(a) + Load(b) <= n
  BY <1>1, <1>2, <1>3 DEF Measure
<1> DEFINE v == Lists[ab]
<1>l. v = Listing(Lists, ab)
  BY <1>2, RebaseEnds
<1>m. SUFFICES ListsMeet(A, B, a, b, v[1], v[2])
  BY <1>1
<1> HIDE DEF v
<1>5. CASE a = <<>> \/ b = <<>>
  <2>1. Listing(Lists, ab) = ab
    BY <1>1, <1>5 DEF Listing
  <2>2. ListsMeet(A, B, a, b, a, b)
    BY <1>5, EmptyMeets
  <2>3. v[1] = a /\ v[2] = b
    BY <1>1, <1>l, <2>1
  <2> QED BY <2>2, <2>3
<1>6. CASE a # <<>> /\ b # <<>> /\ Len(a) = 1 /\ Len(b) = 1
  <2>1. Listing(Lists, ab) = <<Through(a[1], b[1], TRUE), Through(b[1], a[1], FALSE)>>
    BY <1>1, <1>6 DEF Listing
  <2>2. ListsMeet(A, B, a, b, Through(a[1], b[1], TRUE), Through(b[1], a[1], FALSE))
    BY <1>3, <1>6, OneMeetsOne
  <2>3. v[1] = Through(a[1], b[1], TRUE) /\ v[2] = Through(b[1], a[1], FALSE)
    BY <1>l, <2>1
  <2> QED BY <2>2, <2>3
<1>7. CASE a # <<>> /\ b # <<>> /\ Len(a) = 1 /\ Len(b) # 1
  <2> DEFINE h == <<Head(b)>>
             t == Tail(b)
             x == <<a, h>>
             r == Lists[x]
             y == <<r[1], t>>
             s == Lists[y]
  <2>0. LET one == <<a, <<Head(b)>>>>
            first == Lists[one]
            two == <<first[1], Tail(b)>>
            others == Lists[two]
        IN  one \in Below(n) /\ two \in Below(n)
          /\ Becomes(<<a, b>>, <<others[1], first[2] \o others[2]>>)
    BY <1>3, <1>4, <1>7, OneThroughMany
  <2>1. Listing(Lists, ab) = <<s[1], r[2] \o s[2]>>
    BY <1>1, <1>7 DEF Listing
  <2>2. x \in Below(n) /\ y \in Below(n)
    BY <2>0
  <2>3. h \in Seq(Edits) /\ t \in Seq(Edits) /\ b = h \o t
    BY <1>3, <1>7, HeadAndTail
  <2>4. x[1] = a /\ x[2] = h /\ y[1] = r[1] /\ y[2] = t
    OBVIOUS
  <2> HIDE DEF h, t, x, r, y, s
  <2>5. r = Lists[x] /\ s = Lists[y]
    BY DEF r, s
  <2>6. Becomes(x, r) /\ Becomes(y, s)
    BY <2>2, <2>5 DEF SoundBelow
  <2>7. r[2] \in Seq(Edits) /\ s[2] \in Seq(Edits)
    BY <2>6, PairFacts DEF Becomes
  <2>8. ListsMeet(A, B, a, h, r[1], r[2]) /\ ListsMeet(A, B, r[1], t, s[1], s[2])
    BY <2>2, <2>4, <2>5 DEF MeetBelow
  <2>9. ListsMeet(A, B, a, h \o t, s[1], r[2] \o s[2])
    BY <2>3, <2>7, <2>8, MeetsTwice
  <2>w. PICK w : w = r[2] \o s[2]
    OBVIOUS
  <2>v. v = <<s[1], w>>
    BY <1>l, <2>1, <2>w
  <2>10. v[1] = s[1] /\ v[2] = w
    BY <2>v
  <2> QED BY <2>3, <2>9, <2>10, <2>w
<1>8. CASE a # <<>> /\ b # <<>> /\ Len(a) # 1
  <2> DEFINE h == <<Head(a)>>
             t == Tail(a)
             x == <<h, b>>
             r == Lists[x]
             y == <<t, r[2]>>
             s == Lists[y]
  <2>0. LET one == <<<<Head(a)>>, b>>
            first == Lists[one]
            two == <<Tail(a), first[2]>>
            others == Lists[two]
        IN  one \in Below(n) /\ two \in Below(n)
          /\ Becomes(<<a, b>>, <<first[1] \o others[1], others[2]>>)
    BY <1>3, <1>4, <1>8, ManyThrough
  <2>1. Listing(Lists, ab) = <<r[1] \o s[1], s[2]>>
    BY <1>1, <1>8 DEF Listing
  <2>2. x \in Below(n) /\ y \in Below(n)
    BY <2>0
  <2>3. h \in Seq(Edits) /\ t \in Seq(Edits) /\ a = h \o t
    BY <1>3, <1>8, HeadAndTail
  <2>4. x[1] = h /\ x[2] = b /\ y[1] = t /\ y[2] = r[2]
    OBVIOUS
  <2> HIDE DEF h, t, x, r, y, s
  <2>5. r = Lists[x] /\ s = Lists[y]
    BY DEF r, s
  <2>6. Becomes(x, r) /\ Becomes(y, s)
    BY <2>2, <2>5 DEF SoundBelow
  <2>7. r[1] \in Seq(Edits) /\ s[1] \in Seq(Edits)
    BY <2>6, PairFacts DEF Becomes
  <2>8. ListsMeet(A, B, h, b, r[1], r[2]) /\ ListsMeet(A, B, t, r[2], s[1], s[2])
    BY <2>2, <2>4, <2>5 DEF MeetBelow
  <2>9. ListsMeet(B, A, b, h, r[2], r[1]) /\ ListsMeet(B, A, r[2], t, s[2], s[1])
    BY <2>8, ListsMeetSwapped
  <2>10. ListsMeet(B, A, b, h \o t, s[2], r[1] \o s[1])
    BY <2>3, <2>7, <2>9, MeetsTwice
  <2>11. ListsMeet(A, B, h \o t, b, r[1] \o s[1], s[2])
    BY <2>10, ListsMeetSwapped
  <2>w. PICK w : w = r[1] \o s[1]
    OBVIOUS
  <2>v. v = <<w, s[2]>>
    BY <1>l, <2>1, <2>w
  <2>12. v[1] = w /\ v[2] = s[2]
    BY <2>v
  <2> QED BY <2>3, <2>11, <2>12, <2>w
<1> QED BY <1>5, <1>6, <1>7, <1>8

(* it_lists converges.                                                     *)
LEMMA ListsMeetAll ==
  ASSUME NEW A, NEW B, EditsMeet(A, B), NEW a \in Seq(Edits), NEW b \in Seq(Edits)
  PROVE  ListsMeet(A, B, a, b, Lists[<<a, b>>][1], Lists[<<a, b>>][2])
<1>1. PICK ab : ab = <<a, b>>
  OBVIOUS
<1>2. ab \in Pairs /\ ab[1] = a /\ ab[2] = b
  BY <1>1, PairMade
<1>3. Measure(ab) \in Nat
  BY <1>2, PairFacts
<1>4. PICK n : n = Measure(ab) + 1
  OBVIOUS
<1>5. n \in Nat /\ Measure(ab) < n
  BY <1>3, <1>4
<1> DEFINE F == {k \in 0 .. n : SoundBelow(Lists, k) /\ MeetBelow(A, B, k)}
<1>6. 0 \in F
  BY <1>5, NoneBelow DEF SoundBelow, MeetBelow
<1>7. ASSUME NEW k \in 0 .. n - 1, k \in F PROVE k + 1 \in F
  <2>1. k \in Nat /\ k + 1 \in 0 .. n
    BY <1>5
  <2>2. SoundBelow(Lists, k) /\ MeetBelow(A, B, k)
    BY <1>7
  <2>3. \A x \in Below(k + 1) : Becomes(x, Listing(Lists, x))
    BY <2>1, <2>2, ListingFacts
  <2>4. \A x \in Pairs : Lists[x] = Listing(Lists, x)
    BY RebaseEnds
  <2>5. SoundBelow(Lists, k + 1)
    BY <2>3, <2>4 DEF SoundBelow, Below
  <2>6. MeetBelow(A, B, k + 1)
    BY <2>1, <2>2, ListsMeetNext DEF MeetBelow
  <2> QED BY <2>1, <2>5, <2>6
<1> HIDE DEF F
<1>8. 0 .. n \subseteq F
  BY <1>5, <1>6, <1>7, StepByStep
<1>9. MeetBelow(A, B, n)
  BY <1>5, <1>8 DEF F
<1>10. ListsMeet(A, B, ab[1], ab[2], Lists[ab][1], Lists[ab][2])
  BY <1>2, <1>5, <1>9 DEF MeetBelow, Below
<1> QED BY <1>1, <1>2, <1>10

(* Two lists of edits of one text, made each in its own order, end in one  *)
(* text.                                                                   *)
THEOREM RebaseConverges ==
  ASSUME NEW Ka \in SUBSET Texts, NEW Kb \in SUBSET Texts, NEW Da, NEW Db,
         NEW a \in Seq(Edits), NEW b \in Seq(Edits), NEW s \in Texts, NEW s1 \in Texts,
         NEW s2 \in Texts,
         Leads(editing(Ka, Da), a, s, s1), Leads(editing(Kb, Db), b, s, s2)
  PROVE  Meets(editing(Ka, Da), editing(Kb, Db), Lists[<<a, b>>][1], Lists[<<a, b>>][2], s1, s2)
<1>1. EditsMeet(editing(Ka, Da), editing(Kb, Db))
  BY EditingMeets
<1>2. ListsMeet(editing(Ka, Da), editing(Kb, Db), a, b, Lists[<<a, b>>][1], Lists[<<a, b>>][2])
  BY <1>1, ListsMeetAll
<1> QED BY <1>2 DEF ListsMeet

-----------------------------------------------------------------------------
(* 7. Marks on a text                                                      *)

(* A text with the items at some places given a look.                      *)
Look(a, l) == [id |-> a.id, brk |-> a.brk, look |-> l]
On(s, P, l) == [i \in 1 .. Len(s) |-> IF i \in P THEN Look(s[i], l) ELSE s[i]]

(* Items by their ids, and the letters among them; a mark is on letters.   *)
ByIds(I) == {a \in Items : a.id \in I}
Letters(M) == {a \in Items : ~a.brk /\ a.id \in M}
Paints(s, P, M) == \A i \in P : i \in 1 .. Len(s) /\ s[i] \in Letters(M)

(* A letter with another look is still one.                                *)
LEMMA LookFacts ==
  ASSUME NEW M, NEW a \in Letters(M), NEW l \in Looks
  PROVE  Look(a, l) \in Letters(M) /\ Look(a, l) \in Items /\ Look(a, l).id = a.id
BY DEF Letters, Look, Items, Atoms

(* The text by place.                                                      *)
LEMMA OnFacts ==
  ASSUME NEW s \in Texts, NEW P, NEW M, NEW l \in Looks, Paints(s, P, M)
  PROVE  /\ On(s, P, l) \in Texts /\ Len(On(s, P, l)) = Len(s)
         /\ \A i \in 1 .. Len(s) : On(s, P, l)[i] = IF i \in P THEN Look(s[i], l) ELSE s[i]
<1>1. Len(s) \in Nat
  BY TextFacts
<1>2. ASSUME NEW i \in 1 .. Len(s) PROVE (IF i \in P THEN Look(s[i], l) ELSE s[i]) \in Items
  <2>1. CASE i \in P
    <3>1. s[i] \in Letters(M)
      BY <2>1 DEF Paints
    <3> QED BY <2>1, <3>1, LookFacts
  <2>2. CASE i \notin P
    BY <2>2, TextFacts
  <2> QED BY <2>1, <2>2
<1>3. On(s, P, l) \in [1 .. Len(s) -> Items]
  BY <1>2 DEF On
<1> QED BY <1>1, <1>3, TextMade DEF On

(* The place of an item of D stays one.                                    *)
LEMMA OnIds ==
  ASSUME NEW s \in Texts, NEW P, NEW M, NEW l \in Looks, Paints(s, P, M), NEW I,
         NEW i \in 1 .. Len(s), s[i] \in ByIds(I)
  PROVE  On(s, P, l)[i] \in ByIds(I)
<1>1. On(s, P, l)[i] = IF i \in P THEN Look(s[i], l) ELSE s[i]
  BY OnFacts
<1>2. CASE i \in P
  <2>1. s[i] \in Letters(M)
    BY <1>2 DEF Paints
  <2>2. Look(s[i], l) \in Items /\ Look(s[i], l).id = s[i].id
    BY <2>1, LookFacts
  <2> QED BY <1>1, <1>2, <2>2 DEF ByIds
<1>3. CASE i \notin P
  BY <1>1, <1>3
<1> QED BY <1>2, <1>3

(* No places.                                                              *)
LEMMA OnNone ==
  ASSUME NEW s \in Texts, NEW l
  PROVE  On(s, {}, l) = s
<1>1. s = [i \in 1 .. Len(s) |-> s[i]]
  BY DEF Texts
<1> QED BY <1>1 DEF On

(* More places.                                                            *)
LEMMA OnMore ==
  ASSUME NEW s \in Texts, NEW P, NEW Q, NEW M, NEW l \in Looks, Paints(s, P, M), Paints(s, Q, M)
  PROVE  Paints(On(s, P, l), Q, M) /\ On(On(s, P, l), Q, l) = On(s, P \cup Q, l)
           /\ Paints(s, P \cup Q, M)
<1> DEFINE t == On(s, P, l)
           u == On(t, Q, l)
           w == On(s, P \cup Q, l)
<1>1. t \in Texts /\ Len(t) = Len(s) /\ \A i \in 1 .. Len(s) : t[i] = IF i \in P
        THEN Look(s[i], l) ELSE s[i]
  BY OnFacts
<1> HIDE DEF t
<1>2. Paints(t, Q, M)
  <2> SUFFICES ASSUME NEW i \in Q PROVE i \in 1 .. Len(t) /\ t[i] \in Letters(M)
    BY DEF Paints
  <2>1. i \in 1 .. Len(s) /\ s[i] \in Letters(M)
    BY DEF Paints
  <2>2. Look(s[i], l) \in Letters(M)
    BY <2>1, LookFacts
  <2> QED BY <1>1, <2>1, <2>2
<1>3. Paints(s, P \cup Q, M)
  BY DEF Paints
<1>4. u \in Texts /\ Len(u) = Len(s) /\ \A i \in 1 .. Len(s) : u[i] = IF i \in Q
        THEN Look(t[i], l) ELSE t[i]
  BY <1>1, <1>2, OnFacts
<1>5. w \in Texts /\ Len(w) = Len(s) /\ \A i \in 1 .. Len(s) : w[i] = IF i \in P \cup Q
        THEN Look(s[i], l) ELSE s[i]
  BY <1>3, OnFacts
<1> HIDE DEF u, w
<1>6. ASSUME NEW i \in 1 .. Len(u) PROVE u[i] = w[i]
  <2>1. \A a : Look(Look(a, l), l) = Look(a, l)
    BY DEF Look
  <2> QED BY <1>1, <1>4, <1>5, <2>1
<1>7. u = w
  BY <1>4, <1>5, <1>6, SameText
<1> QED BY <1>2, <1>3, <1>7 DEF t, u, w

(* Where the items are after an edit.                                      *)
AfterPut(P, at, n) == {i \in Int : (i \in P /\ i <= at + 1) \/ (i - n \in P /\ i - n > at + 1)}
AfterCut(P, at, n) == {i \in Int : (i \in P /\ i <= at + 1) \/ (i + n \in P /\ i > at + 1)}

(* Text put in behind, before and between the places.                      *)
LEMMA PutOn ==
  ASSUME NEW s \in Texts, NEW P, NEW M, NEW l \in Looks, Paints(s, P, M), NEW at \in Nat,
         at < Len(s), NEW c \in Texts
  PROVE  /\ Paints(With(s, at, c), AfterPut(P, at, Len(c)), M)
         /\ With(On(s, P, l), at, c) = On(With(s, at, c), AfterPut(P, at, Len(c)), l)
<1> DEFINE n == Len(c)
           Q == AfterPut(P, at, n)
           t == With(s, at, c)
           x == On(s, P, l)
           u == With(x, at, c)
           w == On(t, Q, l)
<1>0. Len(s) \in Nat /\ n \in Nat /\ \A i \in P : i \in 1 .. Len(s)
  BY TextFacts DEF Paints
<1>1. t \in Texts /\ Len(t) = Len(s) + n
       /\ \A i \in 1 .. Len(s) + n : t[i] = IF i <= at + 1 THEN s[i] ELSE IF i <= at + 1 + n
           THEN c[i - at - 1] ELSE s[i - n]
  BY WithFacts
<1>2. x \in Texts /\ Len(x) = Len(s) /\ \A i \in 1 .. Len(s) : x[i] = IF i \in P
        THEN Look(s[i], l) ELSE s[i]
  BY OnFacts
<1> HIDE DEF x
<1>3a. u \in Texts /\ Len(u) = Len(x) + n
       /\ \A i \in 1 .. Len(x) + n : u[i] = IF i <= at + 1 THEN x[i] ELSE IF i <= at + 1 + n
           THEN c[i - at - 1] ELSE x[i - n]
  BY <1>2, WithFacts
<1> HIDE DEF u, n
<1>3. u \in Texts /\ Len(u) = Len(s) + n
       /\ \A i \in 1 .. Len(s) + n : u[i] = IF i <= at + 1 THEN x[i] ELSE IF i <= at + 1 + n
           THEN c[i - at - 1] ELSE x[i - n]
  BY <1>2, <1>3a
<1> HIDE DEF t, u, n
<1>4. Paints(t, Q, M)
  <2> SUFFICES ASSUME NEW i \in Q PROVE i \in 1 .. Len(t) /\ t[i] \in Letters(M)
    BY DEF Paints
  <2>1. CASE i \in P /\ i <= at + 1
    <3>1. i \in 1 .. Len(s) /\ i \in 1 .. Len(s) + n
      BY <1>0, <2>1
    <3>2. t[i] = s[i]
      BY <1>1, <2>1, <3>1
    <3> QED BY <1>1, <2>1, <3>1, <3>2 DEF Paints
  <2>2. CASE i - n \in P /\ i - n > at + 1 /\ i \in Int
    <3>1. i - n \in 1 .. Len(s) /\ i \in 1 .. Len(s) + n /\ ~(i <= at + 1) /\ ~(i <= at + 1 + n)
      BY <1>0, <2>2
    <3>2. t[i] = s[i - n]
      BY <1>1, <3>1
    <3>3. s[i - n] \in Letters(M)
      BY <2>2 DEF Paints
    <3> QED BY <1>1, <3>1, <3>2, <3>3
  <2> QED BY <2>1, <2>2 DEF AfterPut
<1>5. w \in Texts /\ Len(w) = Len(s) + n /\ \A i \in 1 .. Len(s) + n : w[i] = IF i \in Q
        THEN Look(t[i], l) ELSE t[i]
  BY <1>1, <1>4, OnFacts
<1> HIDE DEF w
<1>6. ASSUME NEW i \in 1 .. Len(u) PROVE u[i] = w[i]
  <2>0. i \in 1 .. Len(s) + n /\ i \in Int
    BY <1>0, <1>3
  <2>1. CASE i <= at + 1
    <3>1. i \in 1 .. Len(s) /\ ~(i - n > at + 1) /\ (i \in Q <=> i \in P)
      BY <1>0, <2>0, <2>1 DEF AfterPut
    <3>2. u[i] = x[i] /\ t[i] = s[i]
      BY <1>1, <1>3, <2>0, <2>1
    <3> HIDE DEF Q
    <3> QED BY <1>2, <1>5, <2>0, <3>1, <3>2
  <2>2. CASE i > at + 1 /\ i <= at + 1 + n
    <3>1. ~(i <= at + 1) /\ ~(i - n > at + 1) /\ i \notin Q
      BY <1>0, <2>0, <2>2 DEF AfterPut
    <3>2. u[i] = c[i - at - 1] /\ t[i] = c[i - at - 1]
      BY <1>1, <1>3, <2>0, <2>2, <3>1
    <3> HIDE DEF Q
    <3> QED BY <1>5, <2>0, <3>1, <3>2
  <2>3. CASE i > at + 1 + n
    <3>1. ~(i <= at + 1) /\ ~(i <= at + 1 + n) /\ (i \in Q <=> i - n \in P) /\ i - n \in 1 .. Len(s)
      BY <1>0, <2>0, <2>3 DEF AfterPut
    <3>2. u[i] = x[i - n] /\ t[i] = s[i - n]
      BY <1>1, <1>3, <2>0, <3>1
    <3> HIDE DEF Q
    <3> QED BY <1>2, <1>5, <2>0, <3>1, <3>2
  <2> QED BY <1>0, <2>0, <2>1, <2>2, <2>3
<1>7. u = w
  BY <1>3, <1>5, <1>6, SameText
<1> QED BY <1>4, <1>7 DEF t, u, w, x, n

(* Text taken out.                                                         *)
LEMMA CutOn ==
  ASSUME NEW s \in Texts, NEW P, NEW M, NEW l \in Looks, Paints(s, P, M), NEW at \in Nat,
         NEW n \in Nat, at + n < Len(s)
  PROVE  /\ Paints(Without(s, at, n), AfterCut(P, at, n), M)
         /\ Without(On(s, P, l), at, n) = On(Without(s, at, n), AfterCut(P, at, n), l)
<1> DEFINE Q == AfterCut(P, at, n)
           t == Without(s, at, n)
           x == On(s, P, l)
           u == Without(x, at, n)
           w == On(t, Q, l)
<1>0. Len(s) \in Nat /\ \A i \in P : i \in 1 .. Len(s)
  BY TextFacts DEF Paints
<1>1. t \in Texts /\ Len(t) = Len(s) - n
       /\ \A i \in 1 .. Len(s) - n : t[i] = IF i <= at + 1 THEN s[i] ELSE s[i + n]
  BY WithoutFacts
<1>2. x \in Texts /\ Len(x) = Len(s) /\ \A i \in 1 .. Len(s) : x[i] = IF i \in P
        THEN Look(s[i], l) ELSE s[i]
  BY OnFacts
<1> HIDE DEF x
<1>3. u \in Texts /\ Len(u) = Len(s) - n
       /\ \A i \in 1 .. Len(s) - n : u[i] = IF i <= at + 1 THEN x[i] ELSE x[i + n]
  BY <1>2, WithoutFacts
<1> HIDE DEF t, u
<1>4. Paints(t, Q, M)
  <2> SUFFICES ASSUME NEW i \in Q PROVE i \in 1 .. Len(t) /\ t[i] \in Letters(M)
    BY DEF Paints
  <2>1. CASE i \in P /\ i <= at + 1
    <3>1. i \in 1 .. Len(s) - n
      BY <1>0, <2>1
    <3>2. t[i] = s[i]
      BY <1>1, <2>1, <3>1
    <3> QED BY <1>1, <2>1, <3>1, <3>2 DEF Paints
  <2>2. CASE i + n \in P /\ i > at + 1 /\ i \in Int
    <3>1. i \in 1 .. Len(s) - n /\ ~(i <= at + 1)
      BY <1>0, <2>2
    <3>2. t[i] = s[i + n]
      BY <1>1, <3>1
    <3>3. s[i + n] \in Letters(M)
      BY <2>2 DEF Paints
    <3> QED BY <1>1, <3>1, <3>2, <3>3
  <2> QED BY <2>1, <2>2 DEF AfterCut
<1>5a. w \in Texts /\ Len(w) = Len(t) /\ \A i \in 1 .. Len(t) : w[i] = IF i \in Q
  THEN Look(t[i], l) ELSE t[i]
  <2> HIDE DEF Q
  <2>1. t \in Texts
    BY <1>1
  <2> QED BY <1>4, <2>1, OnFacts
<1>5b. Len(t) = Len(s) - n
  BY <1>1
<1> HIDE DEF w
<1>5. w \in Texts /\ Len(w) = Len(s) - n /\ \A i \in 1 .. Len(s) - n : w[i] = IF i \in Q
        THEN Look(t[i], l) ELSE t[i]
  BY <1>5a, <1>5b
<1> HIDE DEF w
<1>6. ASSUME NEW i \in 1 .. Len(u) PROVE u[i] = w[i]
  <2>0. i \in 1 .. Len(s) - n /\ i \in Int /\ i \in 1 .. Len(s) /\ i + n \in 1 .. Len(s)
    BY <1>0, <1>3
  <2>1. CASE i <= at + 1
    <3>1. i \in Q <=> i \in P
      BY <1>0, <2>0, <2>1 DEF AfterCut
    <3>2. u[i] = x[i] /\ t[i] = s[i]
      BY <1>1, <1>3, <2>0, <2>1
    <3> HIDE DEF Q
    <3> QED BY <1>2, <1>5, <2>0, <3>1, <3>2
  <2>2. CASE i > at + 1
    <3>1. ~(i <= at + 1) /\ (i \in Q <=> i + n \in P)
      BY <1>0, <2>0, <2>2 DEF AfterCut
    <3>2. u[i] = x[i + n] /\ t[i] = s[i + n]
      BY <1>1, <1>3, <2>0, <3>1
    <3> HIDE DEF Q
    <3> QED BY <1>2, <1>5, <2>0, <3>1, <3>2
  <2> QED BY <2>0, <2>1, <2>2
<1>7. u = w
  BY <1>3, <1>5, <1>6, SameText
<1> QED BY <1>4, <1>7 DEF t, u, w, x

(* A mark and an edit.                                                     *)
After(P, e) == IF e.t = "insert" THEN AfterPut(P, e.at, e.len) ELSE AfterCut(P, e.at, e.len)

(* They do the same in either order.                                       *)
LEMMA MarkMeetsEdit ==
  ASSUME NEW s \in Texts, NEW P, NEW M, NEW l \in Looks, Paints(s, P, M), NEW K \in SUBSET Texts,
         NEW I,
         NEW e \in Edits, NEW t, EditTo(e, s, t, K, ByIds(I))
  PROVE  /\ t \in Texts /\ Paints(t, After(P, e), M)
         /\ EditTo(e, On(s, P, l), On(t, After(P, e), l), K, ByIds(I))
<1>0. e.at \in Nat /\ e.len \in Nat /\ On(s, P, l) \in Texts /\ Len(On(s, P, l)) = Len(s)
  BY EditFacts, OnFacts
<1>1. CASE e.t = "insert"
  <2>1. e.at < Len(s) /\ PutsIn(e, s, t, K)
    BY <1>1 DEF EditTo, PutsIn
  <2>2. PICK c \in K : Len(c) = e.len /\ t = With(s, e.at, c)
    BY <2>1 DEF PutsIn
  <2>3. c \in Texts
    OBVIOUS
  <2>4. t \in Texts
    BY <1>0, <2>1, <2>2, <2>3, WithFacts
  <2>5. /\ Paints(With(s, e.at, c), AfterPut(P, e.at, Len(c)), M)
        /\ With(On(s, P, l), e.at, c) = On(With(s, e.at, c), AfterPut(P, e.at, Len(c)), l)
    BY <1>0, <2>1, <2>3, PutOn
  <2>6. After(P, e) = AfterPut(P, e.at, Len(c))
    BY <1>1, <2>2 DEF After
  <2>7. On(t, After(P, e), l) = With(On(s, P, l), e.at, c) /\ Paints(t, After(P, e), M)
    BY <2>2, <2>5, <2>6
  <2>8. PutsIn(e, On(s, P, l), On(t, After(P, e), l), K)
    BY <1>0, <2>1, <2>2, <2>7 DEF PutsIn
  <2> QED BY <1>1, <2>4, <2>7, <2>8 DEF EditTo
<1>2. CASE e.t = "delete"
  <2>1. e.at + e.len < Len(s) /\ Scoped(s, e.at, e.len, ByIds(I)) /\ t = Without(s, e.at, e.len)
    BY <1>2 DEF EditTo, TakesOut
  <2>4. t \in Texts
    BY <1>0, <2>1, WithoutFacts
  <2>5. /\ Paints(Without(s, e.at, e.len), AfterCut(P, e.at, e.len), M)
        /\ Without(On(s, P, l), e.at, e.len) =
             On(Without(s, e.at, e.len), AfterCut(P, e.at, e.len), l)
    BY <1>0, <2>1, CutOn
  <2>6. After(P, e) = AfterCut(P, e.at, e.len)
    BY <1>2 DEF After
  <2>7. On(t, After(P, e), l) = Without(On(s, P, l), e.at, e.len) /\ Paints(t, After(P, e), M)
    BY <2>1, <2>5, <2>6
  <2>8. Scoped(On(s, P, l), e.at, e.len, ByIds(I))
    <3> SUFFICES ASSUME NEW i \in e.at + 2 .. e.at + e.len + 1 PROVE On(s, P, l)[i] \in ByIds(I)
      BY DEF Scoped
    <3>1. i \in 1 .. Len(s)
      <4>1. Len(s) \in Nat
        BY TextFacts
      <4> QED BY <1>0, <2>1, <4>1
    <3>2. s[i] \in ByIds(I)
      BY <2>1 DEF Scoped
    <3> QED BY <3>1, <3>2, OnIds
  <2>9. TakesOut(e, On(s, P, l), On(t, After(P, e), l), ByIds(I))
    BY <1>0, <2>1, <2>7, <2>8 DEF TakesOut
  <2> QED BY <1>2, <2>4, <2>7, <2>9 DEF EditTo
<1> QED BY <1>1, <1>2, EditFacts

-----------------------------------------------------------------------------
(* 8. Ops on a text                                                        *)

(* What an op makes of a text, when what it brings, takes and marks is in M. *)
OpTo(op, s, t, M) ==
  \/ op.t = "insert" /\ op.at < Len(s) /\ Ids(op.content) \subseteq M
      /\ t = With(s, op.at, Bare(op.content))
  \/ op.t = "delete" /\ TakesOut(op, s, t, ByIds(M))
  \/ op.t = "mark" /\ Paints(s, op.from + 2 .. op.to + 1, M)
      /\ t = On(s, op.from + 2 .. op.to + 1, op.look)
  \/ op.t = "restyle" /\ op.at < Len(s) /\ t = s

(* What ops make of texts.                                                 *)
own(M) == [op \in Ops |-> [s \in Texts |-> {t \in Texts : OpTo(op, s, t, M)}]]

(* The relation by its definition.                                         *)
LEMMA OwnFacts ==
  ASSUME NEW M, NEW op \in Ops, NEW s \in Texts, NEW t \in Texts
  PROVE  t \in own(M)[op][s] <=> OpTo(op, s, t, M)
BY DEF own

(* Marks that give the items at P a look.                                  *)
Reach(op) == op.from + 2 .. op.to + 1
Reached(q, k) == UNION {Reach(q[j]) : j \in 1 .. k}
Covers(q, P, l) == q \in Seq(MarkOps) /\ (\A j \in 1 .. Len(q) : q[j].look = l)
  /\ P = Reached(q, Len(q))

(* No marks.                                                               *)
LEMMA CoversNone == \A l : Covers(<<>>, {}, l)
<1>1. Len(<<>>) = 0 /\ <<>> \in Seq(MarkOps)
  OBVIOUS
<1> QED BY <1>1 DEF Covers, Reached

(* One mark.                                                               *)
LEMMA CoversOne ==
  ASSUME NEW op \in MarkOps
  PROVE  Covers(<<op>>, Reach(op), op.look)
<1>1. <<op>> \in Seq(MarkOps) /\ Len(<<op>>) = 1 /\ <<op>>[1] = op /\ 1 .. 1 = {1}
  OBVIOUS
<1> QED BY <1>1 DEF Covers, Reached

(* Two lists of marks.                                                     *)
LEMMA CoversJoin ==
  ASSUME NEW p, NEW q, NEW P, NEW Q, NEW l, Covers(p, P, l), Covers(q, Q, l)
  PROVE  Covers(p \o q, P \cup Q, l)
<1>1. p \in Seq(MarkOps) /\ q \in Seq(MarkOps)
  BY DEF Covers
<1> DEFINE r == p \o q
           m == Len(p)
           n == Len(q)
<1>2. /\ r \in Seq(MarkOps) /\ Len(r) = m + n /\ m \in Nat /\ n \in Nat
      /\ \A i \in 1 .. m : r[i] = p[i]
      /\ \A i \in 1 .. n : r[m + i] = q[i]
  BY <1>1, ConcatFacts
<1>3. /\ \A j \in 1 .. m : p[j].look = l
      /\ \A j \in 1 .. n : q[j].look = l
      /\ P = Reached(p, m) /\ Q = Reached(q, n)
  BY DEF Covers
<1> HIDE DEF r, m, n
<1>4. \A j \in 1 .. m + n : j \in 1 .. m \/ (j - m \in 1 .. n /\ j = m + (j - m))
  BY <1>2
<1>5. \A j \in 1 .. m + n : r[j].look = l
  BY <1>2, <1>3, <1>4
<1>6. (\A j \in 1 .. m : j \in 1 .. m + n) /\ (\A j \in 1 .. n : m + j \in 1 .. m + n)
  BY <1>2
<1>7. Reached(r, m + n) = P \cup Q
  <2>1. ASSUME NEW i \in Reached(r, m + n) PROVE i \in P \cup Q
    <3>1. PICK j \in 1 .. m + n : i \in Reach(r[j])
      BY <2>1 DEF Reached
    <3> QED BY <1>2, <1>3, <1>4, <3>1 DEF Reached
  <2>2. ASSUME NEW i \in P PROVE i \in Reached(r, m + n)
    <3>1. PICK j \in 1 .. m : i \in Reach(p[j])
      BY <1>3, <2>2 DEF Reached
    <3> QED BY <1>2, <1>6, <3>1 DEF Reached
  <2>3. ASSUME NEW i \in Q PROVE i \in Reached(r, m + n)
    <3>1. PICK j \in 1 .. n : i \in Reach(q[j])
      BY <1>3, <2>3 DEF Reached
    <3> QED BY <1>2, <1>6, <3>1 DEF Reached
  <2> QED BY <2>1, <2>2, <2>3
<1> QED BY <1>2, <1>5, <1>7 DEF Covers, r

(* One mark more.                                                          *)
LEMMA ReachedNext ==
  ASSUME NEW q, NEW k \in Nat \ {0}
  PROVE  Reached(q, k) = Reached(q, k - 1) \cup Reach(q[k])
<1>1. 1 .. k = (1 .. k - 1) \cup {k}
  OBVIOUS
<1> QED BY <1>1 DEF Reached

(* Marks lead there.                                                       *)
LEMMA MarksLead ==
  ASSUME NEW q, NEW P, NEW l \in Looks, Covers(q, P, l), NEW M, NEW s \in Texts, Paints(s, P, M)
  PROVE  q \in Seq(Ops) /\ On(s, P, l) \in Texts /\ Leads(own(M), q, s, On(s, P, l))
<1> DEFINE n == Len(q)
           f == [k \in 0 .. n |-> On(s, Reached(q, k), l)]
<1>1. /\ q \in Seq(MarkOps) /\ n \in Nat /\ (\A j \in 1 .. n : q[j] \in MarkOps /\ q[j].look = l)
      /\ P = Reached(q, n)
  BY SeqFacts DEF Covers
<1>2. q \in Seq(Ops)
  BY <1>1, MarksAreOps
<1> HIDE DEF n
<1>3. ASSUME NEW k \in 0 .. n PROVE Reached(q, k) \subseteq P /\ Paints(s, Reached(q, k), M)
  <2>1. 1 .. k \subseteq 1 .. n
    BY <1>1
  <2>2. Reached(q, k) \subseteq P
    BY <1>1, <2>1 DEF Reached
  <2> QED BY <2>2 DEF Paints
<1>4. \A k \in 0 .. n : f[k] = On(s, Reached(q, k), l)
  OBVIOUS
<1>5. \A k \in 0 .. n : On(s, Reached(q, k), l) \in Texts
  BY <1>3, OnFacts
<1>6. f \in [0 .. n -> Texts]
  BY <1>5
<1> HIDE DEF f
<1>7. 0 \in 0 .. n /\ n \in 0 .. n
  BY <1>1
<1>8. f[0] = s
  <2>1. Reached(q, 0) = {}
    BY DEF Reached
  <2> QED BY <1>4, <1>7, <2>1, OnNone
<1>9. f[n] = On(s, P, l) /\ f[n] \in Texts
  BY <1>1, <1>4, <1>6, <1>7
<1>10. ASSUME NEW k \in 1 .. n PROVE f[k] \in own(M)[q[k]][f[k - 1]]
  <2>1. k \in Nat \ {0} /\ k - 1 \in 0 .. n /\ k \in 0 .. n
    BY <1>1
  <2> DEFINE U == Reached(q, k - 1)
             R == Reach(q[k])
  <2>2. Reached(q, k) = U \cup R
    BY <2>1, ReachedNext
  <2>3. f[k] = On(s, U \cup R, l) /\ f[k - 1] = On(s, U, l)
    BY <1>4, <2>1, <2>2
  <2>4. Paints(s, U \cup R, M)
    BY <1>3, <2>1, <2>2
  <2>5. Paints(s, U, M) /\ Paints(s, R, M)
    BY <2>4 DEF Paints
  <2> HIDE DEF U, R
  <2>6. Paints(f[k - 1], R, M) /\ f[k] = On(f[k - 1], R, l)
    BY <2>3, <2>5, OnMore
  <2>7. q[k].t = "mark" /\ q[k] \in Ops /\ q[k].look = l
    BY <1>1 DEF MarkOps, Ops
  <2>8. OpTo(q[k], f[k - 1], f[k], M)
    BY <2>6, <2>7 DEF OpTo, R, Reach
  <2>9. f[k - 1] \in Texts /\ f[k] \in Texts
    BY <1>6, <2>1
  <2> QED BY <2>7, <2>8, <2>9, OwnFacts
<1>11. Path(f, own(M), q, s, On(s, P, l))
  BY <1>6, <1>8, <1>9, <1>10 DEF Path, n
<1> QED BY <1>2, <1>9, <1>11 DEF Leads

(* The pieces of a mark cover what is left of its range.                   *)
LEMMA CoversPiece ==
  ASSUME NEW from \in Nat, NEW to \in Nat, NEW l \in Looks
  PROVE  Covers(Piece(from, to, l), from + 2 .. to + 1, l)
<1>1. CASE from < to
  <2> DEFINE op == Mark(from, to, l)
  <2>1. op \in MarkOps /\ op.from = from /\ op.to = to /\ op.look = l
    BY <1>1 DEF Mark, MarkOps
  <2>2. Piece(from, to, l) = <<op>>
    BY <1>1 DEF Piece
  <2> HIDE DEF op
  <2>3. Covers(<<op>>, Reach(op), op.look)
    BY <2>1, CoversOne
  <2> QED BY <2>1, <2>2, <2>3 DEF Reach
<1>2. CASE ~(from < to)
  <2>1. from + 2 .. to + 1 = {}
    BY <1>2
  <2>2. Piece(from, to, l) = <<>>
    BY <1>2 DEF Piece
  <2> QED BY <2>1, <2>2, CoversNone
<1> QED BY <1>1, <1>2

(* After one edit.                                                         *)
LEMMA PiecesCover ==
  ASSUME NEW op \in MarkOps, NEW e \in Edits
  PROVE  Covers(Pieces(op, e), After(Reach(op), e), op.look)
<1>1. PICK from, to, l, p, n : from = op.from /\ to = op.to /\ l = op.look /\ p = e.at /\ n = e.len
  OBVIOUS
<1>2. from \in Nat /\ to \in Nat /\ from < to /\ l \in Looks /\ p \in Nat /\ n \in Nat
        /\ e.t \in {"insert", "delete"}
  BY <1>1, EditFacts DEF MarkOps
<1>3. Reach(op) = from + 2 .. to + 1
  BY <1>1 DEF Reach
<1>4. CASE e.t = "insert"
  <2> DEFINE Q == AfterPut(from + 2 .. to + 1, p, n)
  <2>1. After(Reach(op), e) = Q
    BY <1>1, <1>3, <1>4 DEF After
  <2>2. CASE p <= from
    <3>1. Q = (from + n) + 2 .. (to + n) + 1
      BY <1>2, <2>2 DEF AfterPut
    <3>2. Pieces(op, e) = Piece(from + n, to + n, l)
      BY <1>1, <1>4, <2>2 DEF Pieces
    <3>3. from + n \in Nat /\ to + n \in Nat
      BY <1>2
    <3> QED BY <1>1, <1>2, <2>1, <3>1, <3>2, <3>3, CoversPiece
  <2>3. CASE p >= to
    <3>1. Q = from + 2 .. to + 1
      BY <1>2, <2>3 DEF AfterPut
    <3>2. Pieces(op, e) = Piece(from, to, l)
      <4>1. ~(p <= from)
        BY <1>2, <2>3
      <4> QED BY <1>1, <1>4, <2>3, <4>1 DEF Pieces
    <3> QED BY <1>1, <1>2, <2>1, <3>1, <3>2, CoversPiece
  <2>4. CASE from < p /\ p < to
    <3>1. Q = (from + 2 .. p + 1) \cup ((p + n) + 2 .. (to + n) + 1)
      BY <1>2, <2>4 DEF AfterPut
    <3>2. Pieces(op, e) = Piece(from, p, l) \o Piece(p + n, to + n, l)
      <4>1. ~(p <= from) /\ ~(p >= to)
        BY <1>2, <2>4
      <4> QED BY <1>1, <1>4, <4>1 DEF Pieces
    <3>3. p + n \in Nat /\ to + n \in Nat
      BY <1>2
    <3>4. Covers(Piece(from, p, l), from + 2 .. p + 1, l)
            /\ Covers(Piece(p + n, to + n, l), (p + n) + 2 .. (to + n) + 1, l)
      BY <1>2, <3>3, CoversPiece
    <3>5. Covers(Piece(from, p, l) \o Piece(p + n, to + n, l), (from + 2 .. p + 1) \cup
            ((p + n) + 2 .. (to + n) + 1), l)
      BY <3>4, CoversJoin
    <3> HIDE DEF Q
    <3> QED BY <1>1, <2>1, <3>1, <3>2, <3>5
  <2> QED BY <1>2, <2>2, <2>3, <2>4
<1>5. CASE e.t = "delete"
  <2> DEFINE Q == AfterCut(from + 2 .. to + 1, p, n)
             left == IF from < p THEN Piece(from, Min({to, p}), l) ELSE <<>>
             right == IF to > p + n THEN Piece(Max({from, p + n}) - n, to - n, l) ELSE <<>>
             L == {i \in from + 2 .. to + 1 : i <= p + 1}
             R == {i \in Int : i + n \in from + 2 .. to + 1 /\ i > p + 1}
  <2>1. After(Reach(op), e) = Q
    BY <1>1, <1>3, <1>5 DEF After
  <2>2. Pieces(op, e) = left \o right
    BY <1>1, <1>5 DEF Pieces
  <2>3. Q = L \cup R
    BY <1>2 DEF AfterCut
  <2>4. Covers(left, L, l)
    <3>1. CASE from < p
      <4>1. PICK m : m = Min({to, p})
        OBVIOUS
      <4>2. m = IF to <= p THEN to ELSE p
        BY <1>2, <4>1, Extremes
      <4>3. m \in Nat /\ L = from + 2 .. m + 1
        BY <1>2, <4>2
      <4>4. left = Piece(from, m, l)
        BY <3>1, <4>1
      <4> HIDE DEF left, L
      <4> QED BY <1>2, <4>3, <4>4, CoversPiece
    <3>2. CASE ~(from < p)
      <4>1. L = {}
        BY <1>2, <3>2
      <4>2. left = <<>>
        BY <3>2
      <4> HIDE DEF left, L
      <4> QED BY <4>1, <4>2, CoversNone
    <3> QED BY <3>1, <3>2
  <2>5. Covers(right, R, l)
    <3>1. CASE to > p + n
      <4>1. PICK m : m = Max({from, p + n})
        OBVIOUS
      <4>2. m = IF from >= p + n THEN from ELSE p + n
        <5>1. p + n \in Nat
          BY <1>2
        <5> QED BY <1>2, <4>1, <5>1, Extremes
      <4>3. m - n \in Nat /\ to - n \in Nat /\ R = (m - n) + 2 .. (to - n) + 1
        BY <1>2, <3>1, <4>2
      <4>4. right = Piece(m - n, to - n, l)
        BY <3>1, <4>1
      <4> HIDE DEF right, R
      <4> QED BY <1>2, <4>3, <4>4, CoversPiece
    <3>2. CASE ~(to > p + n)
      <4>1. R = {}
        BY <1>2, <3>2
      <4>2. right = <<>>
        BY <3>2
      <4> HIDE DEF right, R
      <4> QED BY <4>1, <4>2, CoversNone
    <3> QED BY <3>1, <3>2
  <2> HIDE DEF left, right, L, R
  <2>6. Covers(left \o right, L \cup R, l)
    BY <2>4, <2>5, CoversJoin
  <2> QED BY <1>1, <2>1, <2>2, <2>3, <2>6
<1> QED BY <1>2, <1>4, <1>5

-----------------------------------------------------------------------------
(* 9. A mark over the edits of the peers                                   *)

(* The places after an edit, of two sets ...                               *)
LEMMA AfterJoined == \A P, Q, e : After(P \cup Q, e) = After(P, e) \cup After(Q, e)
BY DEF After, AfterPut, AfterCut

(* ... and of none.                                                        *)
LEMMA AfterNone == \A e : After({}, e) = {}
BY DEF After, AfterPut, AfterCut

(* The pieces of several marks.                                            *)
LEMMA AllPiecesCover ==
  ASSUME NEW q, NEW P, NEW l, Covers(q, P, l), NEW e \in Edits
  PROVE  Covers(AllPieces(q, e), After(P, e), l)
<1> DEFINE n == Len(q)
           parts == [i \in DOMAIN q |-> Pieces(q[i], e)]
<1>1. /\ q \in Seq(MarkOps) /\ n \in Nat /\ DOMAIN q = 1 .. n
      /\ \A j \in 1 .. n : q[j] \in MarkOps /\ q[j].look = l
      /\ P = Reached(q, n)
  BY SeqFacts DEF Covers
<1> HIDE DEF n
<1>2. \A j \in 1 .. n : Covers(Pieces(q[j], e), After(Reach(q[j]), e), l)
  BY <1>1, PiecesCover
<1>3. \A j \in 1 .. n : Pieces(q[j], e) \in Seq(MarkOps)
  BY <1>2 DEF Covers
<1>4. parts \in [1 .. n -> Seq(MarkOps)] /\ \A j \in 1 .. n : parts[j] = Pieces(q[j], e)
  BY <1>1, <1>3
<1>5. AllPieces(q, e) = FlattenSeq(parts)
  BY DEF AllPieces
<1> HIDE DEF parts
<1>6. parts \in Seq(Seq(MarkOps)) /\ Len(parts) = n
  BY <1>1, <1>4
<1>7. PICK f \in [0 .. n -> Seq(MarkOps)] :
        f[0] = <<>> /\ FlattenSeq(parts) = f[n] /\ \A k \in 1 .. n : f[k] = f[k - 1] \o parts[k]
  BY <1>6, FlattenSteps
<1> DEFINE F == {k \in 0 .. n : Covers(f[k], After(Reached(q, k), e), l)}
<1>8. 0 \in F
  <2>1. Reached(q, 0) = {}
    BY DEF Reached
  <2>2. Covers(f[0], After(Reached(q, 0), e), l)
    BY <1>7, <2>1, AfterNone, CoversNone
  <2> QED BY <1>1, <2>2
<1>9. ASSUME NEW k \in 0 .. n - 1, k \in F PROVE k + 1 \in F
  <2>1. PICK m : m = k + 1
    OBVIOUS
  <2>2. m \in 1 .. n /\ m \in Nat \ {0} /\ m - 1 = k /\ m \in 0 .. n
    BY <1>1, <2>1
  <2>3. f[m] = f[k] \o parts[m] /\ parts[m] = Pieces(q[m], e)
    BY <1>4, <1>7, <2>2
  <2>4. Reached(q, m) = Reached(q, k) \cup Reach(q[m])
    BY <2>2, ReachedNext
  <2>5. Covers(f[k], After(Reached(q, k), e), l)
          /\ Covers(Pieces(q[m], e), After(Reach(q[m]), e), l)
    BY <1>2, <1>9, <2>2
  <2>6. Covers(f[k] \o Pieces(q[m], e), After(Reached(q, k), e) \cup After(Reach(q[m]), e), l)
    BY <2>5, CoversJoin
  <2>8. After(Reached(q, m), e) = After(Reached(q, k), e) \cup After(Reach(q[m]), e)
    BY <2>4, AfterJoined
  <2>7. Covers(f[m], After(Reached(q, m), e), l)
    BY <2>3, <2>6, <2>8
  <2> QED BY <2>1, <2>2, <2>7
<1> HIDE DEF F
<1>10. 0 .. n \subseteq F
  BY <1>1, <1>8, <1>9, StepByStep
<1>11. n \in F
  BY <1>1, <1>10
<1> QED BY <1>1, <1>5, <1>7, <1>11 DEF F

(* A mark and the edits of the peers: the pieces do to the text what the   *)
(* mark would have.                                                        *)
LEMMA MarkMeetsEdits ==
  ASSUME NEW M, NEW K \in SUBSET Texts, NEW I, NEW op \in MarkOps, NEW edits \in Seq(Edits),
         NEW s \in Texts, NEW r \in Texts, Paints(s, Reach(op), M),
         Leads(editing(K, ByIds(I)), edits, s, r)
  PROVE  /\ Ranges(<<op>>, edits) \in Seq(MarkOps)
         /\ Meets(own(M), editing(K, ByIds(I)), Ranges(<<op>>, edits), edits, On(s, Reach(op),
              op.look), r)
<1> DEFINE n == Len(edits)
           A == editing(K, ByIds(I))
           l == op.look
<1>1. n \in Nat /\ \A k \in 1 .. n : edits[k] \in Edits
  BY SeqFacts
<1>2. <<op>> \in Seq(MarkOps) /\ l \in Looks
  BY DEF MarkOps
<1>3. PICK f \in [0 .. n -> Seq(MarkOps)] :
        /\ f[0] = <<op>> /\ Ranges(<<op>>, edits) = f[n]
        /\ \A k \in 1 .. n : f[k] = AllPieces(f[k - 1], edits[k])
  BY <1>2, RangesSteps
<1>4. PICK h : Path(h, A, edits, s, r)
  BY DEF Leads
<1> HIDE DEF A, n, l
<1>5. /\ h \in [0 .. n -> Texts] /\ h[0] = s /\ h[n] = r
      /\ \A k \in 1 .. n : h[k] \in A[edits[k]][h[k - 1]]
  BY <1>4 DEF Path, n
<1> DEFINE P(k) == Reached(f[k], Len(f[k]))
           g == [k \in 0 .. n |-> On(h[k], P(k), l)]
           F == {k \in 0 .. n : /\ Covers(f[k], P(k), l) /\ Paints(h[k], P(k), M)
                                /\ k # 0 => On(h[k], P(k), l) \in A[edits[k]][On(h[k - 1],
                                     P(k - 1), l)]}
<1>6. Covers(<<op>>, Reach(op), l) /\ P(0) = Reach(op)
  <2>1. Covers(<<op>>, Reach(op), l)
    BY CoversOne DEF l
  <2> QED BY <1>3, <2>1 DEF Covers
<1>g. \A k \in 0 .. n : g[k] = On(h[k], P(k), l)
  OBVIOUS
<1> HIDE DEF P
<1>7. 0 \in F
  BY <1>1, <1>3, <1>5, <1>6
<1>8. ASSUME NEW k \in 0 .. n - 1, k \in F PROVE k + 1 \in F
  <2>1. PICK m : m = k + 1
    OBVIOUS
  <2>2. m \in 1 .. n /\ m - 1 = k /\ m \in 0 .. n /\ k \in 0 .. n
    BY <1>1, <2>1
  <2>3. Covers(f[k], P(k), l) /\ Paints(h[k], P(k), M)
    BY <1>8
  <2>4. PICK e : e = edits[m]
    OBVIOUS
  <2>5. e \in Edits /\ f[m] = AllPieces(f[k], e) /\ h[m] \in A[e][h[k]] /\ h[k] \in Texts
          /\ h[m] \in Texts
    BY <1>1, <1>3, <1>5, <2>2, <2>4
  <2>6. Covers(f[m], After(P(k), e), l)
    BY <2>3, <2>5, AllPiecesCover
  <2>7. P(m) = After(P(k), e)
    BY <2>6 DEF Covers, P
  <2>8. EditTo(e, h[k], h[m], K, ByIds(I))
    BY <2>5 DEF A, editing
  <2>9. /\ Paints(h[m], After(P(k), e), M)
        /\ EditTo(e, On(h[k], P(k), l), On(h[m], After(P(k), e), l), K, ByIds(I))
    BY <1>2, <2>3, <2>5, <2>8, MarkMeetsEdit
  <2>10. On(h[k], P(k), l) \in Texts /\ On(h[m], P(m), l) \in Texts
    BY <1>2, <2>3, <2>5, <2>7, <2>9, OnFacts
  <2>11. On(h[m], P(m), l) \in A[e][On(h[k], P(k), l)]
    BY <2>5, <2>7, <2>9, <2>10 DEF A, editing
  <2>12. m \in F
    BY <2>2, <2>4, <2>6, <2>7, <2>9, <2>11
  <2> QED BY <2>1, <2>12
<1>9. 0 .. n \subseteq F
  <2> HIDE DEF F
  <2> QED BY <1>1, <1>7, <1>8, StepByStep
<1>10. \A k \in 0 .. n : Covers(f[k], P(k), l) /\ Paints(h[k], P(k), M)
         /\ On(h[k], P(k), l) \in Texts
  <2>1. \A k \in 0 .. n : Covers(f[k], P(k), l) /\ Paints(h[k], P(k), M)
    BY <1>9
  <2> QED BY <1>2, <1>5, <2>1, OnFacts
<1>11. \A k \in 1 .. n : On(h[k], P(k), l) \in A[edits[k]][On(h[k - 1], P(k - 1), l)]
  <2>1. \A k \in 1 .. n : k \in 0 .. n /\ k # 0
    BY <1>1
  <2> QED BY <1>9, <2>1
<1>12. g \in [0 .. n -> Texts]
  BY <1>10
<1> HIDE DEF g, F
<1>13. 0 \in 0 .. n /\ n \in 0 .. n /\ \A k \in 1 .. n : k \in 0 .. n /\ k - 1 \in 0 .. n
  BY <1>1
<1>14. g[0] = On(s, Reach(op), l) /\ g[n] = On(r, P(n), l)
  BY <1>5, <1>6, <1>13, <1>g
<1>15. Path(g, A, edits, On(s, Reach(op), l), On(r, P(n), l))
  BY <1>11, <1>12, <1>13, <1>14, <1>g DEF Path, n
<1>16. Leads(A, edits, On(s, Reach(op), l), On(r, P(n), l))
  BY <1>15 DEF Leads
<1>17. Covers(f[n], P(n), l) /\ Paints(r, P(n), M)
  BY <1>5, <1>10, <1>13
<1>18. On(r, P(n), l) \in Texts /\ Leads(own(M), f[n], r, On(r, P(n), l))
  BY <1>2, <1>17, MarksLead
<1>19. Meets(own(M), A, f[n], edits, On(s, Reach(op), l), r)
  BY <1>16, <1>18 DEF Meets
<1>20. f[n] \in Seq(MarkOps)
  BY <1>17 DEF Covers
<1> QED BY <1>3, <1>19, <1>20 DEF A, l

-----------------------------------------------------------------------------
(* 10. The other ops over them                                             *)

(* All ops but marks.                                                      *)
OtherOps == InsertOps \cup DeleteOps \cup RestyleOps

(* A bare text by its places.                                              *)
LEMMA BareFacts ==
  ASSUME NEW d \in Seq(Atoms)
  PROVE  /\ Bare(d) \in Texts /\ Len(Bare(d)) = Len(d) /\ Len(d) \in Nat
         /\ \A i \in 1 .. Len(d) : /\ Bare(d)[i].id = d[i].id /\ Bare(d)[i].brk = d[i].brk
                                   /\ Bare(d)[i] = Look(d[i], IF d[i].brk THEN 0 ELSE d[i].look)
<1>1. Len(d) \in Nat /\ DOMAIN d = 1 .. Len(d) /\ \A i \in 1 .. Len(d) : d[i] \in Atoms
  BY SeqFacts
<1>2. ASSUME NEW i \in 1 .. Len(d)
      PROVE  /\ [d[i] EXCEPT !.look = IF d[i].brk THEN 0 ELSE @] =
                  Look(d[i], IF d[i].brk THEN 0 ELSE d[i].look)
             /\ Look(d[i], IF d[i].brk THEN 0 ELSE d[i].look) \in Items
  <2>1. d[i] \in Atoms
    BY <1>1
  <2> QED BY <2>1 DEF Atoms, Look, Items, Looks
<1>3. Bare(d) = [i \in 1 .. Len(d) |-> [d[i] EXCEPT !.look = IF d[i].brk THEN 0 ELSE @]]
  BY <1>1 DEF Bare
<1>4. Bare(d) \in [1 .. Len(d) -> Items]
  BY <1>2, <1>3
<1>5. \A i \in 1 .. Len(d) : Bare(d)[i] = Look(d[i], IF d[i].brk THEN 0 ELSE d[i].look)
  BY <1>2, <1>3
<1>6. \A a, l : Look(a, l).id = a.id /\ Look(a, l).brk = a.brk
  BY DEF Look
<1> QED BY <1>1, <1>4, <1>5, <1>6, TextMade

(* What stands for an op after the peers' edits, and what these are after it. *)
Stands(op, done) ==
  /\ op \in MarkOps => done \in Seq(MarkOps)
  /\ op \in OtherOps => done \in Seq(OtherOps)

(* An insert, moved, and the edits after it.                               *)
LEMMA InsertMeets ==
  ASSUME NEW M, NEW K \in SUBSET Texts, NEW I, NEW op \in Ops, op.t = "insert",
         NEW remote \in Seq(Edits),
         NEW s \in Texts, NEW s1 \in Texts, NEW r \in Texts, OpTo(op, s, s1, M),
         Leads(editing(K, ByIds(I)), remote, s, r), NEW both, both =
           Lists[<<<<TextOf(op)>>, remote>>]
  PROVE  /\ <<[op EXCEPT !.at = both[1][1].at]>> \in Seq(InsertOps)
         /\ Meets(own(M), editing(K, ByIds(I)), <<[op EXCEPT !.at = both[1][1].at]>>, both[2], s1,
              r)
<1> DEFINE c == Bare(op.content)
           e == TextOf(op)
           A == editing({c}, {})
           B == editing(K, ByIds(I))
<1>1. op \in InsertOps /\ op.at \in Nat /\ op.content \in Seq(Atoms)
  BY OpsByKind DEF InsertOps, Contents
<1>2. c \in Texts /\ Len(c) = Len(op.content) /\ Len(c) \in Nat
  BY <1>1, BareFacts
<1>3. op.at < Len(s) /\ Ids(op.content) \subseteq M /\ s1 = With(s, op.at, c)
  BY DEF OpTo
<1>4. e = Ins(op.at, Len(c)) /\ e \in Edits
  <2>1. e = Ins(op.at, Len(c))
    BY <1>2 DEF TextOf, Inserted, Ins
  <2>2. e \in Edits
    BY TextOfFacts DEF Real
  <2> QED BY <2>1, <2>2
<1>5. {c} \in SUBSET Texts
  BY <1>2
<1> HIDE DEF c, e
<1>6. Leads(A, <<e>>, s, s1)
  BY <1>1, <1>3, <1>4, <1>5, LeadsPutIs
<1>7. Single(<<e>>) /\ <<e>> \in Seq(Edits)
  BY <1>4 DEF Single, Ins
<1>8. both[1] \in Seq(Edits) /\ Single(both[1])
  <2>1. both = Lists[<<<<e>>, remote>>]
    BY DEF e
  <2> QED BY <1>7, <2>1, ListsFacts
<1>9. Meets(A, B, both[1], both[2], s1, r)
  <2>1. both = Lists[<<<<e>>, remote>>]
    BY DEF e
  <2>2. Meets(A, B, Lists[<<<<e>>, remote>>][1], Lists[<<<<e>>, remote>>][2], s1, r)
    BY <1>5, <1>6, <1>7, RebaseConverges
  <2> QED BY <2>1, <2>2
<1>10. PICK s3 \in Texts : Leads(B, both[2], s1, s3) /\ Leads(A, both[1], r, s3)
  BY <1>9 DEF Meets
<1>11. PICK x : x = both[1][1]
  OBVIOUS
<1>12. x \in Edits /\ x.t = "insert" /\ both[1] = <<x>> /\ x.at \in Nat
  <2>1. x \in Edits /\ x.t = "insert" /\ both[1] = <<x>>
    BY <1>8, <1>11, Singleton DEF Single
  <2> QED BY <2>1, EditFacts
<1>13. s3 \in A[x][r]
  BY <1>10, <1>12, LeadsOne
<1>14. PutsIn(x, r, s3, {c})
  BY <1>12, <1>13 DEF editing, EditTo
<1>15. x.at < Len(r) /\ s3 = With(r, x.at, c)
  BY <1>14 DEF PutsIn
<1>16. PICK y : y = [op EXCEPT !.at = x.at]
  OBVIOUS
<1>17. y \in InsertOps /\ y \in Ops /\ y.t = "insert" /\ y.at = x.at /\ y.content = op.content
  BY <1>1, <1>12, <1>16 DEF InsertOps, Ops
<1>18. OpTo(y, r, s3, M)
  BY <1>3, <1>15, <1>17 DEF OpTo, c
<1>19. Leads(own(M), <<y>>, r, s3)
  BY <1>17, <1>18, OwnFacts, LeadsOne
<1>20. Meets(own(M), B, <<y>>, both[2], s1, r)
  BY <1>10, <1>19 DEF Meets
<1>21. <<y>> \in Seq(InsertOps)
  BY <1>17
<1> QED BY <1>11, <1>16, <1>20, <1>21

(* A delete.                                                               *)
LEMMA DeleteMeets ==
  ASSUME NEW M, NEW K \in SUBSET Texts, NEW I, NEW op \in Ops, op.t = "delete",
         NEW remote \in Seq(Edits),
         NEW s \in Texts, NEW s1 \in Texts, NEW r \in Texts, OpTo(op, s, s1, M),
         Leads(editing(K, ByIds(I)), remote, s, r), NEW both, both =
           Lists[<<<<TextOf(op)>>, remote>>]
  PROVE  /\ both[1] \in Seq(DeleteOps)
         /\ Meets(own(M), editing(K, ByIds(I)), both[1], both[2], s1, r)
<1> DEFINE e == TextOf(op)
           A == editing({}, ByIds(M))
           B == editing(K, ByIds(I))
<1>1. e = op /\ e \in Cuts /\ e \in Edits /\ e.t = "delete"
  <2>1. e = op
    BY DEF TextOf
  <2>2. e \in Cuts
    BY TextOfFacts
  <2> QED BY <2>1, <2>2 DEF Cuts, Real
<1>2. both = Lists[<<<<e>>, remote>>]
  OBVIOUS
<1> HIDE DEF e
<1>3. TakesOut(e, s, s1, ByIds(M))
  BY <1>1 DEF OpTo
<1>4. EditTo(e, s, s1, {}, ByIds(M))
  BY <1>1, <1>3 DEF EditTo
<1>5. Leads(A, <<e>>, s, s1)
  <2>1. s1 \in A[e][s]
    BY <1>1, <1>4 DEF editing
  <2> QED BY <2>1, LeadsOne
<1>6. <<e>> \in Seq(Edits) /\ <<e>> \in Seq(Cuts)
  BY <1>1
<1>7. both[1] \in Seq(Cuts)
  BY <1>2, <1>6, ListsFacts
<1>8. Meets(A, B, both[1], both[2], s1, r)
  <2>1. {} \in SUBSET Texts
    OBVIOUS
  <2>2. Meets(A, B, Lists[<<<<e>>, remote>>][1], Lists[<<<<e>>, remote>>][2], s1, r)
    BY <1>5, <1>6, <2>1, RebaseConverges
  <2> QED BY <1>2, <2>2
<1>9. PICK s3 \in Texts : Leads(B, both[2], s1, s3) /\ Leads(A, both[1], r, s3)
  BY <1>8 DEF Meets
<1>10. ASSUME NEW x \in Cuts, NEW u \in Texts PROVE A[x][u] \subseteq own(M)[x][u]
  <2> SUFFICES ASSUME NEW t \in A[x][u] PROVE t \in own(M)[x][u]
    OBVIOUS
  <2>1. x \in Edits /\ x.t = "delete" /\ x \in Ops
    BY DEF Cuts, Real, Edits, Ops, DeleteOps
  <2>2. t \in Texts /\ TakesOut(x, u, t, ByIds(M))
    BY <2>1 DEF editing, EditTo
  <2>3. OpTo(x, u, t, M)
    BY <2>1, <2>2 DEF OpTo
  <2> QED BY <2>1, <2>2, <2>3, OwnFacts
<1>11. Leads(own(M), both[1], r, s3)
  BY <1>7, <1>9, <1>10, LeadsMore
<1>12. Meets(own(M), B, both[1], both[2], s1, r)
  BY <1>9, <1>11 DEF Meets
<1>13. Cuts \subseteq DeleteOps
  BY DEF Cuts, Real, Edits, DeleteOps
<1>14. both[1] \in Seq(DeleteOps)
  BY <1>7, <1>13
<1> QED BY <1>12, <1>14

(* A paragraph's offset stays in the text.                                 *)
LEMMA BreakStays ==
  ASSUME NEW at \in Places, NEW s \in Texts, at # Nowhere => at < Len(s),
         NEW K \in SUBSET Texts, NEW D, NEW e \in Edits, NEW t, EditTo(e, s, t, K, D)
  PROVE  BreakThrough(at, e) # Nowhere => BreakThrough(at, e) < Len(t)
<1> DEFINE p == e.at
           n == e.len
<1>0. p \in Nat /\ n \in Nat /\ Len(s) \in Nat /\ e.t \in {"insert", "delete"}
  BY TextFacts, EditFacts
<1>1. CASE at = Nowhere
  BY <1>1 DEF BreakThrough
<1>2. CASE at # Nowhere /\ e.t = "insert"
  <2>1. p < Len(s) /\ PutsIn(e, s, t, K)
    BY <1>2 DEF EditTo, PutsIn
  <2>2. PICK c \in K : Len(c) = n /\ t = With(s, p, c)
    BY <2>1 DEF PutsIn
  <2>3. c \in Texts
    OBVIOUS
  <2>4. Len(t) = Len(s) + n
    BY <1>0, <2>1, <2>2, <2>3, WithFacts
  <2>5. BreakThrough(at, e) = IF p <= at THEN at + n ELSE at
    BY <1>2 DEF BreakThrough
  <2>6. at \in Nat /\ at < Len(s)
    BY <1>2 DEF Places
  <2> HIDE DEF p, n
  <2> QED BY <1>0, <2>4, <2>5, <2>6
<1>3. CASE at # Nowhere /\ e.t = "delete"
  <2>1. p + n < Len(s) /\ t = Without(s, p, n)
    BY <1>3 DEF EditTo, TakesOut
  <2>4. Len(t) = Len(s) - n
    BY <1>0, <2>1, WithoutFacts
  <2>6. at \in Nat /\ at < Len(s)
    BY <1>3 DEF Places
  <2>5. BreakThrough(at, e) = IF p < at /\ at - 1 < p + n THEN Nowhere
                              ELSE IF at >= p + n THEN at - n ELSE Min({at, p})
    BY <1>3 DEF BreakThrough
  <2>7. Min({at, p}) = IF at <= p THEN at ELSE p
    BY <1>0, <2>6, Extremes
  <2>8. PICK m : m = Min({at, p})
    OBVIOUS
  <2> HIDE DEF p, n
  <2>9. m < Len(t) /\ (at >= p + n => at - n < Len(t))
    BY <1>0, <2>1, <2>4, <2>6, <2>7, <2>8
  <2> QED BY <2>5, <2>8, <2>9
<1> QED BY <1>0, <1>1, <1>2, <1>3

(* A restyle whose paragraph is left keeps an offset in the text.          *)
LEMMA RestyleMeets ==
  ASSUME NEW K \in SUBSET Texts, NEW D, NEW at \in Nat, NEW remote \in Seq(Edits),
         NEW s \in Texts, NEW r \in Texts, at < Len(s), Leads(editing(K, D), remote, s, r),
         ParagraphThrough(at, remote) # Nowhere
  PROVE  ParagraphThrough(at, remote) \in Nat /\ ParagraphThrough(at, remote) < Len(r)
<1> DEFINE n == Len(remote)
           A == editing(K, D)
<1>1. n \in Nat /\ \A k \in 1 .. n : remote[k] \in Edits
  BY SeqFacts
<1>3. PICK f \in [0 .. n -> Places] :
        /\ f[0] = at /\ ParagraphThrough(at, remote) = f[n]
        /\ \A k \in 1 .. n : f[k] = BreakThrough(f[k - 1], remote[k])
  BY ParagraphThroughSteps
<1>4. PICK h : Path(h, A, remote, s, r)
  BY DEF Leads
<1> HIDE DEF A, n
<1>5. /\ h \in [0 .. n -> Texts] /\ h[0] = s /\ h[n] = r
      /\ \A k \in 1 .. n : h[k] \in A[remote[k]][h[k - 1]]
  BY <1>4 DEF Path, n
<1> DEFINE F == {k \in 0 .. n : f[k] # Nowhere => f[k] < Len(h[k])}
<1>6. 0 \in F
  BY <1>1, <1>3, <1>5
<1>7. ASSUME NEW k \in 0 .. n - 1, k \in F PROVE k + 1 \in F
  <2>1. PICK m : m = k + 1
    OBVIOUS
  <2>2. m \in 1 .. n /\ m - 1 = k /\ m \in 0 .. n /\ k \in 0 .. n
    BY <1>1, <2>1
  <2>3. f[k] # Nowhere => f[k] < Len(h[k])
    BY <1>7
  <2>4. PICK e : e = remote[m]
    OBVIOUS
  <2>5. e \in Edits /\ f[m] = BreakThrough(f[k], e) /\ f[k] \in Places /\ h[m] \in A[e][h[k]]
          /\ h[k] \in Texts
    BY <1>1, <1>3, <1>5, <2>2, <2>4
  <2>6. EditTo(e, h[k], h[m], K, D)
    BY <2>5 DEF A, editing
  <2>7. f[m] # Nowhere => f[m] < Len(h[m])
    BY <2>3, <2>5, <2>6, BreakStays
  <2> QED BY <2>1, <2>2, <2>7
<1> HIDE DEF F
<1>8. 0 .. n \subseteq F
  BY <1>1, <1>6, <1>7, StepByStep
<1>9. n \in F /\ f[n] \in Places
  BY <1>1, <1>3, <1>8
<1>10. f[n] < Len(r)
  BY <1>3, <1>5, <1>9 DEF F
<1> QED BY <1>3, <1>9, <1>10 DEF Places

-----------------------------------------------------------------------------
(* 11. A step over them                                                    *)

(* What the peers may do to a text: anything but a mark or a restyle.      *)
Peers == editing(Texts, ByIds(Nat))

(* A step of the user is marks only, or has no mark.                       *)
Pure(ops) == ops \in Seq(MarkOps) \/ ops \in Seq(OtherOps)

(* One op and what the peers did.                                          *)
LEMMA MovingMeets ==
  ASSUME NEW M, NEW before \in Moves, before.fits, NEW op \in Ops,
         NEW s \in Texts, NEW s1 \in Texts, NEW r \in Texts, OpTo(op, s, s1, M),
         Leads(Peers, before.remote, s, r)
  PROVE  \/ op \in RestyleOps /\ Moving(before, op) = [before EXCEPT !.fits = FALSE]
         \/ \E done \in Seq(Ops), remote \in Seq(Real) :
              /\ Moving(before, op) = [fits |-> TRUE, ops |-> before.ops \o done, remote |-> remote]
              /\ Stands(op, done) /\ Meets(own(M), Peers, done, remote, s1, r)
<1>0. before.remote \in Seq(Real) /\ before.remote \in Seq(Edits)
  BY RealAreEdits DEF Moves
<1>a. Texts \in SUBSET Texts
  OBVIOUS
<1> DEFINE both == Lists[<<<<TextOf(op)>>, before.remote>>]
<1>1. CASE op.t = "insert"
  <2>1. PICK done : done = <<[op EXCEPT !.at = both[1][1].at]>>
    OBVIOUS
  <2>2. Moving(before, op) = [fits |-> TRUE, ops |-> before.ops \o done, remote |-> both[2]]
    BY <1>1, <2>1 DEF Moving
  <2>3. Leads(editing(Texts, ByIds(Nat)), before.remote, s, r)
    BY DEF Peers
  <2>4. PICK b : b = both
    OBVIOUS
  <2>5. /\ <<[op EXCEPT !.at = b[1][1].at]>> \in Seq(InsertOps)
        /\ Meets(own(M), editing(Texts, ByIds(Nat)), <<[op EXCEPT !.at = b[1][1].at]>>, b[2], s1, r)
    BY <1>0, <1>1, <1>a, <2>3, <2>4, InsertMeets
  <2>6. done \in Seq(InsertOps) /\ Meets(own(M), Peers, done, both[2], s1, r)
    BY <2>1, <2>4, <2>5 DEF Peers
  <2>7. both[2] \in Seq(Real)
    <3>1. TextOf(op) \in Real /\ TextOf(op) \in Edits
      BY <1>1, TextOfFacts DEF Real
    <3>2. PICK e : e = TextOf(op)
      OBVIOUS
    <3>3. <<e>> \in Seq(Edits) /\ <<e>> \in Seq(Real)
      BY <3>1, <3>2
    <3>4. b[2] \in Seq(Real)
      BY <1>0, <2>4, <3>2, <3>3, ListsFacts
    <3> QED BY <2>4, <3>4
  <2>8. op \in InsertOps /\ op \notin MarkOps
    <3>1. op \in InsertOps
      BY <1>1, OpsByKind
    <3> QED BY <1>1, <3>1 DEF MarkOps
  <2>9. InsertOps \subseteq OtherOps /\ InsertOps \subseteq Ops
    BY DEF OtherOps, Ops
  <2>10. done \in Seq(OtherOps) /\ done \in Seq(Ops)
    BY <2>6, <2>9
  <2>11. Stands(op, done)
    BY <2>8, <2>10 DEF Stands
  <2> HIDE DEF both
  <2> QED BY <2>2, <2>6, <2>7, <2>10, <2>11
<1>2. CASE op.t = "delete"
  <2>1. PICK b : b = both
    OBVIOUS
  <2>2. Moving(before, op) = [fits |-> TRUE, ops |-> before.ops \o b[1], remote |-> b[2]]
    BY <1>2, <2>1 DEF Moving
  <2>3. Leads(editing(Texts, ByIds(Nat)), before.remote, s, r)
    BY DEF Peers
  <2>5. /\ b[1] \in Seq(DeleteOps)
        /\ Meets(own(M), editing(Texts, ByIds(Nat)), b[1], b[2], s1, r)
    BY <1>0, <1>2, <1>a, <2>1, <2>3, DeleteMeets
  <2>6. Meets(own(M), Peers, b[1], b[2], s1, r)
    BY <2>5 DEF Peers
  <2>7. b[2] \in Seq(Real)
    <3>1. TextOf(op) \in Real /\ TextOf(op) \in Edits
      BY <1>2, TextOfFacts DEF Real, Cuts
    <3>2. PICK e : e = TextOf(op)
      OBVIOUS
    <3>3. <<e>> \in Seq(Edits) /\ <<e>> \in Seq(Real)
      BY <3>1, <3>2
    <3> QED BY <1>0, <2>1, <3>2, <3>3, ListsFacts
  <2>8. op \notin MarkOps
    BY <1>2 DEF MarkOps
  <2>9. DeleteOps \subseteq OtherOps /\ DeleteOps \subseteq Ops
    BY DEF OtherOps, Ops
  <2>10. b[1] \in Seq(OtherOps) /\ b[1] \in Seq(Ops)
    BY <2>5, <2>9
  <2>11. Stands(op, b[1])
    BY <2>8, <2>10 DEF Stands
  <2> HIDE DEF both
  <2> QED BY <2>2, <2>6, <2>7, <2>10, <2>11
<1>3. CASE op.t = "mark"
  <2>1. PICK done : done = Ranges(<<op>>, before.remote)
    OBVIOUS
  <2>2. op \in MarkOps /\ op \notin OtherOps
    <3>1. op \in MarkOps
      BY <1>3, OpsByKind
    <3> QED BY <1>3, <3>1 DEF OtherOps, InsertOps, DeleteOps, RestyleOps
  <2>3. Moving(before, op) = [fits |-> TRUE, ops |-> before.ops \o done, remote |-> before.remote]
    BY <1>3, <2>1 DEF Moving
  <2>4. Paints(s, Reach(op), M) /\ s1 = On(s, Reach(op), op.look)
    BY <1>3 DEF OpTo, Reach
  <2>5. Leads(editing(Texts, ByIds(Nat)), before.remote, s, r)
    BY DEF Peers
  <2>6. /\ Ranges(<<op>>, before.remote) \in Seq(MarkOps)
        /\ Meets(own(M), editing(Texts, ByIds(Nat)), Ranges(<<op>>, before.remote), before.remote,
                 On(s, Reach(op), op.look), r)
    BY <1>0, <1>a, <2>2, <2>4, <2>5, MarkMeetsEdits
  <2>7. done \in Seq(MarkOps) /\ Meets(own(M), Peers, done, before.remote, s1, r)
    BY <2>1, <2>4, <2>6 DEF Peers
  <2>8. done \in Seq(Ops)
    BY <2>7, MarksAreOps
  <2>9. Stands(op, done)
    BY <2>2, <2>7 DEF Stands
  <2> QED BY <1>0, <2>3, <2>7, <2>8, <2>9
<1>4. CASE op.t = "restyle"
  <2>1. PICK at : at = ParagraphThrough(op.at, before.remote)
    OBVIOUS
  <2>2. op \in RestyleOps /\ op \notin MarkOps /\ op.at \in Nat /\ op.look \in Looks
    <3>1. op \in RestyleOps /\ op.at \in Nat /\ op.look \in Looks
      BY <1>4, OpsByKind
    <3> QED BY <1>4, <3>1 DEF MarkOps
  <2>3. op.at < Len(s) /\ s1 = s
    BY <1>4 DEF OpTo
  <2>4. CASE at = Nowhere
    BY <1>4, <2>1, <2>2, <2>4 DEF Moving
  <2>5. CASE at # Nowhere
    <3>1. PICK x : x = Restyle(at, op.look)
      OBVIOUS
    <3>2. Moving(before, op)
            = [fits |-> TRUE, ops |-> before.ops \o <<x>>, remote |-> before.remote]
      BY <1>4, <2>1, <2>5, <3>1 DEF Moving
    <3>3. Leads(editing(Texts, ByIds(Nat)), before.remote, s, r)
      BY DEF Peers
    <3>4. at \in Nat /\ at < Len(r)
      BY <1>0, <1>a, <2>1, <2>2, <2>3, <2>5, <3>3, RestyleMeets
    <3>5. x \in RestyleOps /\ x.t = "restyle" /\ x.at = at
      BY <2>2, <3>1, <3>4 DEF Restyle, RestyleOps
    <3>6. x \in Ops /\ x \in OtherOps
      BY <3>5 DEF Ops, OtherOps
    <3>7. OpTo(x, r, r, M)
      BY <3>4, <3>5 DEF OpTo
    <3>8. Leads(own(M), <<x>>, r, r)
      BY <3>6, <3>7, OwnFacts, LeadsOne
    <3>9. Meets(own(M), Peers, <<x>>, before.remote, s1, r)
      BY <2>3, <3>8 DEF Meets
    <3>10. <<x>> \in Seq(Ops) /\ <<x>> \in Seq(OtherOps)
      BY <3>6
    <3>11. Stands(op, <<x>>)
      BY <2>2, <3>10 DEF Stands
    <3> QED BY <1>0, <3>2, <3>9, <3>10, <3>11
  <2> QED BY <2>4, <2>5
<1> QED BY <1>1, <1>2, <1>3, <1>4, OpsByKind

(* The ops of a step.                                                      *)
Keeps(ops, moved) ==
  /\ ops \in Seq(MarkOps) => moved \in Seq(MarkOps)
  /\ ops \in Seq(OtherOps) => moved \in Seq(OtherOps)

(* A step does not fit, which takes a restyle in it, or it meets the       *)
(* edits.                                                                  *)
MovesTo(M, m, ops, u, r) ==
  \/ ~m.fits /\ \E j \in 1 .. Len(ops) : ops[j] \in RestyleOps
  \/ m.fits /\ Keeps(ops, m.ops) /\ Meets(own(M), Peers, m.ops, m.remote, u, r)

(* One of the two it is.                                                   *)
LEMMA MovedMeets ==
  ASSUME NEW M, NEW ops \in Seq(Ops), NEW remote \in Seq(Real), NEW s \in Texts, NEW u \in Texts,
         NEW r \in Texts,
         Leads(own(M), ops, s, u), Leads(Peers, remote, s, r)
  PROVE  MovesTo(M, Moved(ops, remote), ops, u, r)
<1> DEFINE n == Len(ops)
<1>1. n \in Nat /\ \A k \in 1 .. n : ops[k] \in Ops
  BY SeqFacts
<1>2. PICK f \in [0 .. n -> Moves] :
        /\ f[0] = [fits |-> TRUE, ops |-> <<>>, remote |-> remote] /\ Moved(ops, remote) = f[n]
        /\ \A k \in 1 .. n : f[k] = Moving(f[k - 1], ops[k])
  BY MovedSteps
<1>3. PICK h : Path(h, own(M), ops, s, u)
  BY DEF Leads
<1>4. /\ h \in [0 .. n -> Texts] /\ h[0] = s /\ h[n] = u
      /\ \A k \in 1 .. n : h[k] \in own(M)[ops[k]][h[k - 1]]
  BY <1>3 DEF Path
<1>5. /\ ops \in Seq(MarkOps) => \A k \in 1 .. n : ops[k] \in MarkOps
      /\ ops \in Seq(OtherOps) => \A k \in 1 .. n : ops[k] \in OtherOps
  BY SeqFacts
<1> HIDE DEF n
<1> DEFINE Good(k) == MovesTo(M, f[k], ops, h[k], r)
           F == {k \in 0 .. n : Good(k)}
<1>6. 0 \in F
  <2>1. f[0].fits /\ f[0].ops = <<>> /\ f[0].remote = remote
    BY <1>2
  <2>2. Leads(own(M), <<>>, r, r)
    BY LeadsNone
  <2>3. Meets(own(M), Peers, <<>>, remote, s, r)
    BY <2>2 DEF Meets
  <2>4. Keeps(ops, <<>>)
    BY DEF Keeps
  <2>5. Good(0)
    BY <1>4, <2>1, <2>3, <2>4 DEF MovesTo
  <2> QED BY <1>1, <2>5
<1>7. ASSUME NEW k \in 0 .. n - 1, k \in F PROVE k + 1 \in F
  <2>1. PICK m : m = k + 1
    OBVIOUS
  <2>2. m \in 1 .. n /\ m - 1 = k /\ m \in 0 .. n /\ k \in 0 .. n
    BY <1>1, <2>1
  <2>3. PICK op, b, v : op = ops[m] /\ b = f[k] /\ v = h[k]
    OBVIOUS
  <2>4. op \in Ops /\ b \in Moves /\ f[m] = Moving(b, op) /\ v \in Texts /\ h[m] \in Texts
          /\ h[m] \in own(M)[op][v]
    BY <1>1, <1>2, <1>4, <2>2, <2>3
  <2>5. MovesTo(M, b, ops, v, r)
    BY <1>7, <2>3
  <2>6. CASE ~b.fits
    <3>1. f[m] = b
      BY <2>4, <2>6 DEF Moving
    <3>2. \E j \in 1 .. Len(ops) : ops[j] \in RestyleOps
      BY <2>5, <2>6 DEF MovesTo
    <3>3. Good(m)
      BY <2>6, <3>1, <3>2 DEF MovesTo
    <3> QED BY <2>1, <2>2, <3>3
  <2>7. CASE b.fits
    <3>1. Keeps(ops, b.ops) /\ Meets(own(M), Peers, b.ops, b.remote, v, r)
      BY <2>5, <2>7 DEF MovesTo
    <3>2. PICK w \in Texts : Leads(Peers, b.remote, v, w) /\ Leads(own(M), b.ops, r, w)
      BY <3>1 DEF Meets
    <3>3. OpTo(op, v, h[m], M)
      BY <2>4, OwnFacts
    <3>4. CASE op \in RestyleOps /\ f[m] = [b EXCEPT !.fits = FALSE]
      <4>1. ~f[m].fits
        BY <2>4, <3>4 DEF Moves
      <4>2. \E j \in 1 .. Len(ops) : ops[j] \in RestyleOps
        BY <2>2, <2>3, <3>4 DEF n
      <4>3. Good(m)
        BY <4>1, <4>2 DEF MovesTo
      <4> QED BY <2>1, <2>2, <4>3
    <3>5. CASE \E done \in Seq(Ops), rem \in Seq(Real) :
              /\ f[m] = [fits |-> TRUE, ops |-> b.ops \o done, remote |-> rem]
              /\ Stands(op, done) /\ Meets(own(M), Peers, done, rem, h[m], w)
      <4>1. PICK done \in Seq(Ops), rem \in Seq(Real) :
              /\ f[m] = [fits |-> TRUE, ops |-> b.ops \o done, remote |-> rem]
              /\ Stands(op, done) /\ Meets(own(M), Peers, done, rem, h[m], w)
        BY <3>5
      <4>2. PICK w1 \in Texts : Leads(Peers, rem, h[m], w1) /\ Leads(own(M), done, w, w1)
        BY <4>1 DEF Meets
      <4>3. b.ops \in Seq(Ops)
        BY <2>4 DEF Moves
      <4>4. PICK c : c = b.ops \o done
        OBVIOUS
      <4>5. Leads(own(M), c, r, w1)
        BY <3>2, <4>2, <4>3, <4>4, LeadsJoin
      <4>6. Meets(own(M), Peers, c, rem, h[m], r)
        BY <4>2, <4>5 DEF Meets
      <4>7. Keeps(ops, c)
        <5>1. ASSUME ops \in Seq(MarkOps) PROVE c \in Seq(MarkOps)
          <6>1. b.ops \in Seq(MarkOps) /\ done \in Seq(MarkOps)
            BY <1>5, <2>2, <2>3, <3>1, <4>1, <5>1 DEF Keeps, Stands
          <6> QED BY <4>4, <6>1, ConcatFacts
        <5>2. ASSUME ops \in Seq(OtherOps) PROVE c \in Seq(OtherOps)
          <6>1. b.ops \in Seq(OtherOps) /\ done \in Seq(OtherOps)
            BY <1>5, <2>2, <2>3, <3>1, <4>1, <5>2 DEF Keeps, Stands
          <6> QED BY <4>4, <6>1, ConcatFacts
        <5> QED BY <5>1, <5>2 DEF Keeps
      <4>8. f[m].fits /\ f[m].ops = c /\ f[m].remote = rem
        BY <4>1, <4>4
      <4>9. Good(m)
        BY <4>6, <4>7, <4>8 DEF MovesTo
      <4> HIDE DEF Good
      <4> QED BY <2>1, <2>2, <4>9
    <3> HIDE DEF F
    <3> QED BY <2>4, <2>7, <3>2, <3>3, <3>4, <3>5, MovingMeets
  <2> QED BY <2>6, <2>7
<1> HIDE DEF F
<1>8. 0 .. n \subseteq F
  BY <1>1, <1>6, <1>7, StepByStep
<1>9. n \in F
  BY <1>1, <1>8
<1>10. Good(n)
  BY <1>9 DEF F
<1> QED BY <1>2, <1>4, <1>10

-----------------------------------------------------------------------------
(* 12. A stack over them                                                   *)

(* What was put in taken out, and what was taken out put in.               *)
LEMMA PutTaken ==
  ASSUME NEW s \in Texts, NEW at \in Nat, at < Len(s), NEW c \in Texts
  PROVE  at + Len(c) < Len(With(s, at, c)) /\ Without(With(s, at, c), at, Len(c)) = s
<1>1. PICK t, n : t = With(s, at, c) /\ n = Len(c)
  OBVIOUS
<1>2. n \in Nat /\ Len(s) \in Nat
  BY <1>1, TextFacts
<1>3. /\ t \in Texts /\ Len(t) = Len(s) + n
      /\ \A i \in 1 .. Len(s) + n : t[i] = IF i <= at + 1 THEN s[i] ELSE IF i <= at + 1 + n
          THEN c[i - at - 1] ELSE s[i - n]
  BY <1>1, WithFacts
<1>4. at + n < Len(t)
  BY <1>2, <1>3
<1>5. PICK u : u = Without(t, at, n)
  OBVIOUS
<1>6. /\ u \in Texts /\ Len(u) = Len(t) - n
      /\ \A i \in 1 .. Len(t) - n : u[i] = IF i <= at + 1 THEN t[i] ELSE t[i + n]
  BY <1>2, <1>3, <1>4, <1>5, WithoutFacts
<1>7. Len(u) = Len(s)
  BY <1>2, <1>3, <1>6
<1>8. ASSUME NEW i \in 1 .. Len(s) PROVE u[i] = s[i]
  <2>1. i \in 1 .. Len(t) - n /\ i \in 1 .. Len(s) + n /\ i + n \in 1 .. Len(s) + n /\ i + n - n = i
    BY <1>2, <1>3
  <2>2. CASE i <= at + 1
    BY <1>3, <1>6, <2>1, <2>2
  <2>3. CASE ~(i <= at + 1)
    <3>1. PICK j : j = i + n
      OBVIOUS
    <3>2. ~(j <= at + 1) /\ ~(j <= at + 1 + n) /\ j \in 1 .. Len(s) + n /\ j - n = i
      BY <1>2, <2>1, <2>3, <3>1
    <3>3. t[j] = s[j - n]
      BY <1>3, <3>2
    <3>4. u[i] = t[i + n]
      BY <1>6, <2>1, <2>3
    <3> QED BY <3>1, <3>2, <3>3, <3>4
  <2> QED BY <2>2, <2>3
<1>9. u = s
  BY <1>6, <1>7, <1>8, SameText
<1> QED BY <1>1, <1>4, <1>5, <1>9

(* What is taken out.                                                      *)
Taken(s, at, n) == [i \in 1 .. n |-> s[i + at + 1]]

(* ... and the other way round.                                            *)
LEMMA TakenPut ==
  ASSUME NEW s \in Texts, NEW at \in Nat, NEW n \in Nat, at + n < Len(s)
  PROVE  /\ Taken(s, at, n) \in Texts /\ Len(Taken(s, at, n)) = n /\ at < Len(Without(s, at, n))
         /\ With(Without(s, at, n), at, Taken(s, at, n)) = s
<1>1. PICK t, c : t = Without(s, at, n) /\ c = Taken(s, at, n)
  OBVIOUS
<1>2. Len(s) \in Nat /\ \A i \in 1 .. Len(s) : s[i] \in Items
  BY TextFacts
<1>3. /\ t \in Texts /\ Len(t) = Len(s) - n
      /\ \A i \in 1 .. Len(s) - n : t[i] = IF i <= at + 1 THEN s[i] ELSE s[i + n]
  BY <1>1, WithoutFacts
<1>4. c = [i \in 1 .. n |-> s[i + at + 1]]
  BY <1>1 DEF Taken
<1>5. \A i \in 1 .. n : i + at + 1 \in 1 .. Len(s)
  BY <1>2
<1>6. c \in [1 .. n -> Items] /\ \A i \in 1 .. n : c[i] = s[i + at + 1]
  BY <1>2, <1>4, <1>5
<1>7. c \in Texts /\ Len(c) = n
  BY <1>6, TextMade
<1>8. at < Len(t)
  BY <1>2, <1>3
<1>9. PICK u : u = With(t, at, c)
  OBVIOUS
<1>10. /\ u \in Texts /\ Len(u) = Len(t) + n
       /\ \A i \in 1 .. Len(t) + n : u[i] = IF i <= at + 1 THEN t[i] ELSE IF i <= at + 1 + n
           THEN c[i - at - 1] ELSE t[i - n]
  <2>1. /\ With(t, at, c) \in Texts /\ Len(With(t, at, c)) = Len(t) + Len(c)
        /\ \A i \in 1 .. Len(t) + Len(c) : With(t, at, c)[i] =
             IF i <= at + 1 THEN t[i] ELSE IF i <= at + 1 + Len(c) THEN c[i - at - 1]
               ELSE t[i - Len(c)]
    BY <1>3, <1>7, <1>8, WithFacts
  <2> QED BY <1>7, <1>9, <2>1
<1>11. Len(u) = Len(s)
  BY <1>2, <1>3, <1>10
<1>12. ASSUME NEW i \in 1 .. Len(s) PROVE u[i] = s[i]
  <2>1. i \in 1 .. Len(t) + n
    BY <1>2, <1>3
  <2>2. CASE i <= at + 1
    <3>1. i \in 1 .. Len(s) - n
      BY <1>2, <2>2
    <3> QED BY <1>3, <1>10, <2>1, <2>2, <3>1
  <2>3. CASE ~(i <= at + 1) /\ i <= at + 1 + n
    <3>1. i - at - 1 \in 1 .. n /\ i - at - 1 + at + 1 = i
      BY <2>3
    <3> QED BY <1>6, <1>10, <2>1, <2>3, <3>1
  <2>4. CASE ~(i <= at + 1 + n)
    <3>1. i - n \in 1 .. Len(s) - n /\ ~(i - n <= at + 1) /\ i - n + n = i /\ ~(i <= at + 1)
      BY <1>2, <2>4
    <3> QED BY <1>3, <1>10, <2>1, <2>4, <3>1
  <2> QED BY <2>2, <2>3, <2>4
<1>13. u = s
  BY <1>10, <1>11, <1>12, SameText
<1> QED BY <1>1, <1>7, <1>8, <1>9, <1>13

(* The forward edit of an op leads back to the text it was undone in.      *)
LEMMA ForwardLeads ==
  ASSUME NEW M, NEW op \in OtherOps, NEW s \in Texts, NEW t \in Texts, OpTo(op, s, t, M)
  PROVE  Leads(Peers, Forward(op), t, s)
<1>a. op \in Ops
  BY DEF OtherOps, Ops
<1>b. Texts \in SUBSET Texts
  OBVIOUS
<1>c. ByIds(Nat) = Items
  BY DEF ByIds, Items, Atoms
<1>1. CASE op.t = "insert"
  <2>1. op.at \in Nat /\ op.content \in Seq(Atoms)
    BY <1>a, <1>1, OpsByKind DEF Contents
  <2>2. PICK c : c = Bare(op.content)
    OBVIOUS
  <2>3. c \in Texts /\ Len(c) = Len(op.content) /\ Len(c) \in Nat
    BY <2>1, <2>2, BareFacts
  <2>4. op.at < Len(s) /\ t = With(s, op.at, c)
    BY <1>1, <2>2 DEF OpTo
  <2>5. op.at + Len(c) < Len(t) /\ Without(t, op.at, Len(c)) = s
    BY <2>1, <2>3, <2>4, PutTaken
  <2>6. Forward(op) = <<Delete(op.at, Len(c))>>
    BY <1>1, <2>3 DEF Forward
  <2>7. Scoped(t, op.at, Len(c), ByIds(Nat))
    <3>1. \A i \in op.at + 2 .. op.at + Len(c) + 1 : i \in 1 .. Len(t)
      BY <2>1, <2>3, <2>5, TextFacts
    <3>2. \A i \in 1 .. Len(t) : t[i] \in Items
      BY TextFacts
    <3> QED BY <1>c, <3>1, <3>2 DEF Scoped
  <2>8. Leads(editing(Texts, ByIds(Nat)), <<Delete(op.at, Len(c))>>, t, Without(t, op.at, Len(c)))
    BY <2>1, <2>3, <2>5, <2>7, LeadsCut
  <2> QED BY <2>5, <2>6, <2>8 DEF Peers
<1>2. CASE op.t = "delete"
  <2>1. op.at \in Nat /\ op.len \in Nat
    BY <1>a, <1>2, OpsByKind
  <2>2. op.at + op.len < Len(s) /\ t = Without(s, op.at, op.len)
    BY <1>2 DEF OpTo, TakesOut
  <2>3. PICK c : c = Taken(s, op.at, op.len)
    OBVIOUS
  <2>4. c \in Texts /\ Len(c) = op.len /\ op.at < Len(t) /\ With(t, op.at, c) = s
    BY <2>1, <2>2, <2>3, TakenPut
  <2>5. Forward(op) = <<Ins(op.at, Len(c))>>
    BY <1>2, <2>4 DEF Forward, Inserted, Ins
  <2>6. Leads(editing(Texts, ByIds(Nat)), <<Ins(op.at, Len(c))>>, t, With(t, op.at, c))
    BY <1>b, <2>1, <2>4, LeadsPutIs
  <2> QED BY <2>4, <2>5, <2>6 DEF Peers
<1>3. CASE op.t = "restyle"
  <2>1. Forward(op) = <<>> /\ t = s
    BY <1>3 DEF Forward, OpTo
  <2> QED BY <2>1, LeadsNone
<1>4. op.t \in {"insert", "delete", "restyle"}
  BY DEF OtherOps, InsertOps, DeleteOps, RestyleOps
<1> QED BY <1>1, <1>2, <1>3, <1>4

(* So do those of a step, the last op first.                               *)
LEMMA CarriedLeads ==
  ASSUME NEW M, NEW ops \in Seq(OtherOps), NEW remote \in Seq(Real),
         NEW s \in Texts, NEW u \in Texts, NEW r \in Texts,
         Leads(own(M), ops, s, u), Leads(Peers, remote, s, r)
  PROVE  Leads(Peers, Carried(ops, remote), u, r)
<1> DEFINE n == Len(ops)
           q == [i \in DOMAIN ops |-> Forward(ops[n + 1 - i])]
<1>1. n \in Nat /\ DOMAIN ops = 1 .. n /\ \A k \in 1 .. n : ops[k] \in OtherOps
  BY SeqFacts
<1>2. \A i \in 1 .. n : n + 1 - i \in 1 .. n /\ n - i \in 0 .. n /\ n + 1 - i - 1 = n - i
  <2> HIDE DEF n
  <2> QED BY <1>1
<1>a. OtherOps \subseteq Ops
  BY DEF OtherOps, Ops
<1>3. \A i \in 1 .. n : Forward(ops[n + 1 - i]) \in Seq(Real)
  BY <1>1, <1>2, <1>a, ForwardFacts
<1>4. Carried(ops, remote) = FlattenSeq(q) \o remote
  BY DEF Carried
<1>5. PICK h : Path(h, own(M), ops, s, u)
  BY DEF Leads
<1>6. /\ h \in [0 .. n -> Texts] /\ h[0] = s /\ h[n] = u
      /\ \A k \in 1 .. n : h[k] \in own(M)[ops[k]][h[k - 1]]
  BY <1>5 DEF Path
<1> HIDE DEF n
<1>7. q \in [1 .. n -> Seq(Real)] /\ \A i \in 1 .. n : q[i] = Forward(ops[n + 1 - i])
  BY <1>1, <1>3
<1> HIDE DEF q
<1>8. q \in Seq(Seq(Real)) /\ Len(q) = n
  BY <1>1, <1>7
<1>9. PICK f \in [0 .. n -> Seq(Real)] :
        f[0] = <<>> /\ FlattenSeq(q) = f[n] /\ \A k \in 1 .. n : f[k] = f[k - 1] \o q[k]
  <2>1. \E f \in [0 .. Len(q) -> Seq(Real)] :
          f[0] = <<>> /\ FlattenSeq(q) = f[Len(q)] /\ \A k \in 1 .. Len(q) : f[k] = f[k - 1] \o q[k]
    BY <1>8, FlattenSteps
  <2> QED BY <1>8, <2>1
<1> DEFINE Good(k) == Leads(Peers, f[k], u, h[n - k])
           F == {k \in 0 .. n : Good(k)}
<1>10. 0 \in F
  <2>1. n - 0 = n
    BY <1>1
  <2>2. Leads(Peers, <<>>, u, u)
    BY LeadsNone
  <2> QED BY <1>1, <1>6, <1>9, <2>1, <2>2
<1>11. ASSUME NEW k \in 0 .. n - 1, k \in F PROVE k + 1 \in F
  <2>1. PICK m : m = k + 1
    OBVIOUS
  <2>2. m \in 1 .. n /\ m - 1 = k /\ m \in 0 .. n /\ k \in 0 .. n /\ n + 1 - m = n - k
    BY <1>1, <2>1
  <2>3. PICK j : j = n + 1 - m
    OBVIOUS
  <2>4. j \in 1 .. n /\ j - 1 = n - m /\ j = n - k /\ n - m \in 0 .. n /\ n - k \in 0 .. n
    BY <1>1, <2>2, <2>3
  <2>5. q[m] = Forward(ops[j]) /\ f[m] = f[k] \o q[m] /\ f[k] \in Seq(Real) /\ q[m] \in Seq(Real)
    BY <1>7, <1>9, <2>2, <2>3
  <2>6. ops[j] \in OtherOps /\ ops[j] \in Ops /\ h[j] \in Texts /\ h[n - m] \in Texts
          /\ h[j] \in own(M)[ops[j]][h[n - m]]
    <3>1. h[j] \in own(M)[ops[j]][h[j - 1]]
      BY <1>6, <2>4
    <3> QED BY <1>1, <1>6, <1>a, <2>4, <3>1
  <2>7. OpTo(ops[j], h[n - m], h[j], M)
    BY <2>6, OwnFacts
  <2>8. Leads(Peers, q[m], h[j], h[n - m])
    BY <2>5, <2>6, <2>7, ForwardLeads
  <2>9. Leads(Peers, f[k], u, h[j])
    BY <1>11, <2>4
  <2>10. Leads(Peers, f[k] \o q[m], u, h[n - m])
    BY <2>5, <2>8, <2>9, LeadsJoin
  <2>11. Good(m)
    BY <2>5, <2>10
  <2> HIDE DEF Good
  <2> QED BY <2>1, <2>2, <2>11
<1> HIDE DEF F
<1>12. 0 .. n \subseteq F
  BY <1>1, <1>10, <1>11, StepByStep
<1>13. n \in F /\ n - n = 0 /\ f[n] \in Seq(Real)
  BY <1>1, <1>9, <1>12
<1>14. Leads(Peers, FlattenSeq(q), u, s)
  <2>1. Good(n)
    BY <1>13 DEF F
  <2> QED BY <1>6, <1>9, <1>13, <2>1
<1>15. FlattenSeq(q) \in Seq(Real)
  BY <1>9, <1>13
<1> QED BY <1>4, <1>14, <1>15, LeadsJoin

(* A step, moved or dropped.                                               *)
LEMMA StepMeets ==
  ASSUME NEW M, NEW ops \in Seq(Ops), Pure(ops), NEW remote \in Seq(Real),
         NEW s \in Texts, NEW u \in Texts, NEW r \in Texts,
         Leads(own(M), ops, s, u), Leads(Peers, remote, s, r)
  PROVE  /\ Pure(Step(ops, remote).ops)
         /\ Meets(own(M), Peers, Step(ops, remote).ops, Step(ops, remote).remote, u, r)
<1>1. PICK m, c : m = Moved(ops, remote) /\ c = Carried(ops, remote)
  OBVIOUS
<1>2. m \in Moves
  BY <1>1, MovedFacts
<1>3. Step(ops, remote) = IF m.fits THEN m ELSE [m EXCEPT !.ops = <<>>, !.remote = c]
  BY <1>1 DEF Step
<1>4. MovesTo(M, m, ops, u, r)
  BY <1>1, MovedMeets
<1>5. CASE m.fits
  <2>1. Keeps(ops, m.ops) /\ Meets(own(M), Peers, m.ops, m.remote, u, r)
    BY <1>4, <1>5 DEF MovesTo
  <2> QED BY <1>3, <1>5, <2>1 DEF Keeps, Pure
<1>6. CASE ~m.fits
  <2>1. PICK d : d = [m EXCEPT !.ops = <<>>, !.remote = c]
    OBVIOUS
  <2>2. d.ops = <<>> /\ d.remote = c
    BY <1>2, <2>1 DEF Moves
  <2>3. PICK j \in 1 .. Len(ops) : ops[j] \in RestyleOps
    BY <1>4, <1>6 DEF MovesTo
  <2>4. ops \notin Seq(MarkOps)
    <3>1. SUFFICES ASSUME ops \in Seq(MarkOps) PROVE FALSE
      OBVIOUS
    <3>2. ops[j] \in MarkOps
      BY <3>1, SeqFacts
    <3> QED BY <2>3, <3>2 DEF RestyleOps, MarkOps
  <2>5. ops \in Seq(OtherOps)
    BY <2>4 DEF Pure
  <2>6. Leads(Peers, c, u, r)
    BY <1>1, <2>5, CarriedLeads
  <2>7. Leads(own(M), <<>>, r, r)
    BY LeadsNone
  <2>8. Meets(own(M), Peers, <<>>, c, u, r)
    BY <2>6, <2>7 DEF Meets
  <2>9. Pure(<<>>)
    BY DEF Pure
  <2> QED BY <1>3, <1>6, <2>1, <2>2, <2>8, <2>9
<1> QED BY <1>5, <1>6

(* What a stack's steps make of a text, from the bottom up: each undone ends *)
(* in the text the one below it is undone in.                              *)
chain(M) == [ops \in Seq(Ops) |-> [u \in Texts |-> {s \in Texts : Pure(ops) /\ Leads(own(M), ops,
  s, u)}]]

(* A stack that leads to the text is moved to one that leads to the text   *)
(* after the edits.                                                        *)
LEMMA ChainMeets ==
  ASSUME NEW M, NEW steps \in Stacks, NEW remote \in Seq(Real),
         NEW t, NEW s \in Texts, NEW r \in Texts, Leads(chain(M), steps, t, s),
         Leads(Peers, remote, s, r)
  PROVE  \E v \in Texts : Leads(chain(M), Chain(steps, remote), v, r)
<1> DEFINE n == Len(steps)
<1>1. n \in Nat /\ DOMAIN steps = 1 .. n /\ \A k \in 1 .. n : steps[k] \in Seq(Ops)
  BY SeqFacts DEF Stacks
<1>2. PICK f \in [0 .. n -> Chains] :
        /\ f[0] = [steps |-> <<>>, remote |-> remote] /\ Chain(steps, remote) = f[n].steps
        /\ \A k \in 1 .. n : f[k] = Rebased(f[k - 1], steps[n + 1 - k])
  BY ChainSteps
<1>3. PICK h : Path(h, chain(M), steps, t, s)
  BY DEF Leads
<1>4. /\ h \in [0 .. n -> Texts] /\ h[0] = t /\ h[n] = s
      /\ \A k \in 1 .. n : h[k] \in chain(M)[steps[k]][h[k - 1]]
  BY <1>3 DEF Path
<1> HIDE DEF n
<1> DEFINE Good(k) == \E v \in Texts : Leads(Peers, f[k].remote, h[n - k], v)
      /\ Leads(chain(M), f[k].steps, v, r)
           F == {k \in 0 .. n : Good(k)}
<1>5. 0 \in F
  <2>1. n - 0 = n /\ f[0].remote = remote /\ f[0].steps = <<>>
    BY <1>1, <1>2
  <2>2. Leads(chain(M), <<>>, r, r)
    BY LeadsNone
  <2>3. Good(0)
    BY <1>4, <2>1, <2>2
  <2> QED BY <1>1, <2>3
<1>6. ASSUME NEW k \in 0 .. n - 1, k \in F PROVE k + 1 \in F
  <2>1. PICK m : m = k + 1
    OBVIOUS
  <2>2. m \in 1 .. n /\ m - 1 = k /\ m \in 0 .. n /\ k \in 0 .. n /\ n + 1 - m = n - k
    BY <1>1, <2>1
  <2>3. PICK j : j = n + 1 - m
    OBVIOUS
  <2>4. j \in 1 .. n /\ j - 1 = n - m /\ j = n - k /\ n - m \in 0 .. n /\ n - k \in 0 .. n
    BY <1>1, <2>2, <2>3
  <2>5. PICK b, ops, lower, upper : b = f[k] /\ ops = steps[j] /\ lower = h[n - m] /\ upper = h[j]
    OBVIOUS
  <2>6. b \in Chains /\ ops \in Seq(Ops) /\ lower \in Texts /\ upper \in Texts
          /\ f[m] = Rebased(b, ops)
    BY <1>1, <1>2, <1>4, <2>2, <2>3, <2>4, <2>5
  <2>7. b.remote \in Seq(Real) /\ b.steps \in Stacks
    BY <2>6 DEF Chains
  <2>8. upper \in chain(M)[ops][lower]
    <3>1. h[j] \in chain(M)[steps[j]][h[j - 1]]
      BY <1>4, <2>4
    <3> QED BY <2>4, <2>5, <3>1
  <2>9. Pure(ops) /\ Leads(own(M), ops, upper, lower)
    BY <2>6, <2>8 DEF chain
  <2>10. PICK v \in Texts : Leads(Peers, b.remote, upper, v) /\ Leads(chain(M), b.steps, v, r)
    BY <1>6, <2>4, <2>5
  <2>11. PICK top : top = Step(ops, b.remote)
    OBVIOUS
  <2>12. top \in Moves /\ top.ops \in Seq(Ops)
    BY <2>6, <2>7, <2>11, StepFacts DEF Moves
  <2>13. Pure(top.ops) /\ Meets(own(M), Peers, top.ops, top.remote, lower, v)
    BY <2>6, <2>7, <2>9, <2>10, <2>11, StepMeets
  <2>14. PICK w \in Texts : Leads(Peers, top.remote, lower, w) /\ Leads(own(M), top.ops, v, w)
    BY <2>13 DEF Meets
  <2>15. PICK x : x = IF top.ops = <<>> THEN <<>> ELSE <<top.ops>>
    OBVIOUS
  <2>16. x \in Stacks /\ Leads(chain(M), x, w, v)
    <3>1. CASE top.ops = <<>>
      <4>0. Leads(own(M), <<>>, v, w)
        BY <2>14, <3>1
      <4>1. v = w
        BY <4>0, LeadsNone
      <4> QED BY <2>15, <3>1, <4>1, LeadsNone, NoSteps
    <3>2. CASE top.ops # <<>>
      <4>1. v \in chain(M)[top.ops][w]
        BY <2>12, <2>13, <2>14 DEF chain
      <4>2. <<top.ops>> \in Stacks
        BY <2>12 DEF Stacks
      <4> QED BY <2>15, <3>2, <4>1, <4>2, LeadsOne
    <3> QED BY <3>1, <3>2
  <2>17. PICK c : c = x \o b.steps
    OBVIOUS
  <2>18. Leads(chain(M), c, w, r)
    BY <2>7, <2>10, <2>16, <2>17, LeadsJoin DEF Stacks
  <2>19. f[m] = [steps |-> c, remote |-> top.remote]
    BY <2>6, <2>11, <2>15, <2>17 DEF Rebased
  <2>20. Good(m)
    BY <2>5, <2>14, <2>18, <2>19
  <2> HIDE DEF Good
  <2> QED BY <2>1, <2>2, <2>20
<1> HIDE DEF F
<1>7. 0 .. n \subseteq F
  BY <1>1, <1>5, <1>6, StepByStep
<1>8. n \in F
  BY <1>1, <1>7
<1>9. Good(n)
  BY <1>8 DEF F
<1> QED BY <1>2, <1>9

-----------------------------------------------------------------------------
(* 13. The stretches of a mark                                             *)

(* A set in order leaves none of its members out.                          *)
LEMMA InOrderOnto ==
  ASSUME NEW S \in SUBSET Nat, IsFiniteSet(S), NEW x \in S
  PROVE  \E i \in 1 .. Cardinality(S) : InOrder(S)[i] = x
<1>1. PICK n, f : n = Cardinality(S) /\ f = InOrder(S)
  OBVIOUS
<1>2. n \in Nat /\ f \in [1 .. n -> S] /\ \A i, j \in 1 .. n : i < j => f[i] < f[j]
  BY <1>1, InOrderFacts
<1>3. \A i, j \in 1 .. n : f[i] = f[j] => i = j
  <2> SUFFICES ASSUME NEW i \in 1 .. n, NEW j \in 1 .. n, f[i] = f[j], i # j PROVE FALSE
    OBVIOUS
  <2>1. f[i] \in Nat /\ f[j] \in Nat
    BY <1>2
  <2>2. i < j \/ j < i
    BY <1>2
  <2> QED BY <1>2, <2>1, <2>2
<1>4. f \in Injection(1 .. n, S)
  BY <1>2, <1>3 DEF Injection, IsInjective
<1>5. IsFiniteSet(1 .. n) /\ Cardinality(1 .. n) = n
  BY <1>2, FS_Interval
<1>6. f \in Surjection(1 .. n, S)
  BY <1>1, <1>4, <1>5, FS_Injection
<1> QED BY <1>1, <1>6 DEF Surjection

(* A stretch that begins at k.                                             *)
Stretch(c, k, n) == n \notin c /\ k .. (n - 1) \subseteq c
EndOf(c, k, to) == CHOOSE n \in (k + 1) .. to : Stretch(c, k, n)

(* It is where the stretch ends.                                           *)
LEMMA EndFacts ==
  ASSUME NEW c \in SUBSET Nat, NEW to \in Nat, to \notin c, \A m \in c : m < to, NEW k \in c
  PROVE  EndOf(c, k, to) \in (k + 1) .. to /\ Stretch(c, k, EndOf(c, k, to))
<1> DEFINE U == {n \in (k + 1) .. to : n \notin c}
<1>1. U \in SUBSET Nat /\ to \in U
  OBVIOUS
<1>2. PICK n \in U : \A m \in U : n <= m
  BY <1>1, LeastNatural
<1>3. n \in (k + 1) .. to /\ n \notin c
  OBVIOUS
<1>4. (k .. (n - 1)) \subseteq c
  <2> SUFFICES ASSUME NEW m \in k .. (n - 1), m \notin c PROVE FALSE
    OBVIOUS
  <2>1. m # k /\ m \in (k + 1) .. to /\ m < n
    BY <1>3
  <2>2. m \in U
    BY <2>1
  <2> QED BY <1>2, <1>3, <2>1, <2>2
<1>5. Stretch(c, k, n)
  BY <1>3, <1>4 DEF Stretch
<1>6. \E x \in (k + 1) .. to : Stretch(c, k, x)
  BY <1>3, <1>5
<1> QED BY <1>6 DEF EndOf

(* Every changed place lies in a stretch.                                  *)
LEMMA StartBefore ==
  ASSUME NEW c \in SUBSET Nat, NEW k \in c
  PROVE  \E j \in c : j - 1 \notin c /\ j <= k /\ j .. k \subseteq c
<1> DEFINE T == {j \in 0 .. k : j .. k \subseteq c}
<1>1. T \in SUBSET Nat /\ k \in T
  OBVIOUS
<1>2. PICK j \in T : \A m \in T : j <= m
  BY <1>1, LeastNatural
<1>3. j \in 0 .. k /\ j .. k \subseteq c /\ j \in c
  OBVIOUS
<1>4. j - 1 \notin c
  <2> SUFFICES ASSUME j - 1 \in c PROVE FALSE
    OBVIOUS
  <2>1. j - 1 \in 0 .. k /\ j - 1 < j
    BY <1>3
  <2>2. \A i \in j - 1 .. k : i = j - 1 \/ i \in j .. k
    BY <1>3
  <2>3. j - 1 .. k \subseteq c
    BY <1>3, <2>2
  <2>4. j - 1 \in T
    BY <2>1, <2>3
  <2> QED BY <1>2, <1>3, <2>1, <2>4
<1> QED BY <1>3, <1>4

(* The inverse of a mark gives what it changed the other look.             *)
Shown(c) == {i \in Int : i - 2 \in c}

(* So do the marks that are the inverse.                                   *)
LEMMA StretchesCover ==
  ASSUME NEW d \in Docs, NEW op \in MarkOps
  PROVE  Covers(Stretches(d, op), Shown(Changed(d, op)), 1 - op.look)
<1> DEFINE c == Changed(d, op)
           to == op.to
           T == {k \in c : k - 1 \notin c}
           starts == InOrder(T)
           s == [i \in DOMAIN starts |-> Mark(starts[i], EndOf(c, starts[i], to), 1 - op.look)]
<1>1. /\ c \in SUBSET Nat /\ IsFiniteSet(c) /\ to \notin c
      /\ \A k \in c : k < to
      /\ to \in Nat /\ op.look \in Looks
  BY ChangedFacts
<1>2. Stretches(d, op) = s
  BY DEF Stretches, EndOf, Stretch
<1>0. Stretches(d, op) \in Seq(MarkOps)
  BY StretchesFacts
<1> HIDE DEF c, to
<1>3. T \in SUBSET Nat /\ T \subseteq c
  BY <1>1
<1>4. IsFiniteSet(T)
  BY <1>1, <1>3, FS_Subset
<1>5. PICK n \in Nat : n = Cardinality(T) /\ starts \in [1 .. n -> T]
        /\ \A x \in T : \E i \in 1 .. n : starts[i] = x
  BY <1>3, <1>4, InOrderFacts, InOrderOnto
<1>6. \A x \in T : x \in c /\ x - 1 \notin c
  OBVIOUS
<1>7. \A x \in c : x - 1 \notin c => x \in T
  OBVIOUS
<1> HIDE DEF T, starts
<1>8. DOMAIN s = 1 .. n
        /\ \A i \in 1 .. n : s[i] = Mark(starts[i], EndOf(c, starts[i], to), 1 - op.look)
  BY <1>5
<1> HIDE DEF s
<1>9. s \in Seq(MarkOps) /\ Len(s) = n
  <2>1. s \in Seq(MarkOps)
    BY <1>0, <1>2
  <2>2. DOMAIN s = 1 .. Len(s) /\ Len(s) \in Nat
    BY <2>1, SeqFacts
  <2> QED BY <1>5, <1>8, <2>1, <2>2
<1>10. ASSUME NEW i \in 1 .. n
       PROVE  s[i].look = 1 - op.look /\ Reach(s[i]) = starts[i] + 2 .. EndOf(c, starts[i], to) + 1
  BY <1>8 DEF Mark, Reach
<1>11. ASSUME NEW i \in 1 .. n
       PROVE  \A p \in Reach(s[i]) : p \in Shown(c)
  <2>1. PICK k, m : k = starts[i] /\ m = EndOf(c, k, to)
    OBVIOUS
  <2>2. k \in c /\ k \in Nat
    BY <1>1, <1>3, <1>5, <2>1
  <2>3. m \in (k + 1) .. to /\ Stretch(c, k, m)
    BY <1>1, <2>1, <2>2, EndFacts
  <2>4. Reach(s[i]) = k + 2 .. m + 1
    BY <1>10, <2>1
  <2> SUFFICES ASSUME NEW p \in k + 2 .. m + 1 PROVE p \in Shown(c)
    BY <2>4
  <2>5. p \in Int /\ p - 2 \in k .. m - 1
    BY <1>1, <2>2, <2>3
  <2> QED BY <2>3, <2>5 DEF Stretch, Shown
<1>12. ASSUME NEW p \in Shown(c)
       PROVE  \E i \in 1 .. n : p \in Reach(s[i])
  <2>1. PICK x : x = p - 2 /\ x \in c /\ p \in Int
    BY DEF Shown
  <2>2. PICK k \in c : k - 1 \notin c /\ k <= x /\ k .. x \subseteq c
    BY <1>1, <2>1, StartBefore
  <2>3. PICK i \in 1 .. n : starts[i] = k
    BY <1>5, <1>7, <2>2
  <2>4. PICK m : m = EndOf(c, k, to)
    OBVIOUS
  <2>5. m \in (k + 1) .. to /\ Stretch(c, k, m)
    BY <1>1, <2>4, EndFacts
  <2>6. m \notin c /\ m \in Int /\ x \in Nat /\ k \in Nat
    BY <1>1, <2>1, <2>5 DEF Stretch
  <2>7. x < m
    <3> SUFFICES ASSUME m <= x PROVE FALSE
      BY <2>6
    <3>1. m \in k .. x
      BY <1>1, <2>5, <2>6
    <3> QED BY <2>2, <2>6, <3>1
  <2>8. p \in k + 2 .. m + 1
    BY <2>1, <2>2, <2>6, <2>7
  <2> QED BY <1>10, <2>3, <2>4, <2>8
<1>13. Shown(c) = Reached(s, n)
  BY <1>11, <1>12 DEF Reached
<1>14. Covers(s, Shown(c), 1 - op.look)
  BY <1>9, <1>10, <1>13 DEF Covers
<1> QED BY <1>2, <1>14 DEF c

-----------------------------------------------------------------------------
(* 14. Documents and their texts                                           *)

(* A document and its bare text, item by item.                             *)
Shade(a) == Look(a, IF a.brk THEN 0 ELSE a.look)
IsBare(s, d) == s \in Texts /\ Len(s) = Len(d) /\ \A i \in 1 .. Len(d) : s[i] = Shade(d[i])

(* So it is.                                                               *)
LEMMA BareIs ==
  ASSUME NEW d \in Seq(Atoms)
  PROVE  IsBare(Bare(d), d)
BY BareFacts DEF IsBare, Shade

(* What is put in a document is put in its text.                           *)
LEMMA PutBare ==
  ASSUME NEW d \in Docs, NEW e, NEW at \in Nat, NEW c \in Contents, NEW n, n = Len(c),
         IsPut(e, d, at, c, n)
  PROVE  at < Len(Bare(d)) /\ Bare(e) = With(Bare(d), at, Bare(c))
<1>1. PICK s, t, b : s = Bare(d) /\ t = Bare(e) /\ b = Bare(c)
  OBVIOUS
<1>2. /\ e \in Docs /\ Len(e) = Len(d) + n /\ n \in Nat \ {0} /\ at < Len(d)
      /\ \A i \in 1 .. at + 1 : e[i] = d[i]
      /\ \A i \in 1 .. n : e[at + 1 + i] = c[i]
      /\ \A i \in at + 2 .. Len(d) : e[i + n] = d[i]
  BY DEF IsPut
<1>3. d \in Seq(Atoms) /\ e \in Seq(Atoms) /\ c \in Seq(Atoms) /\ Len(d) \in Nat /\ Len(e) \in Nat
  BY <1>2, DocFacts DEF Contents
<1>4. IsBare(s, d) /\ IsBare(t, e) /\ IsBare(b, c)
  BY <1>1, <1>3, BareIs
<1>5. /\ s \in Texts /\ Len(s) = Len(d) /\ \A i \in 1 .. Len(d) : s[i] = Shade(d[i])
      /\ t \in Texts /\ Len(t) = Len(e) /\ \A i \in 1 .. Len(e) : t[i] = Shade(e[i])
      /\ b \in Texts /\ Len(b) = n /\ \A i \in 1 .. n : b[i] = Shade(c[i])
  BY <1>4 DEF IsBare
<1>6. /\ With(s, at, b) \in Texts /\ Len(With(s, at, b)) = Len(s) + Len(b)
      /\ \A i \in 1 .. Len(s) + Len(b) : With(s, at, b)[i] =
           IF i <= at + 1 THEN s[i] ELSE IF i <= at + 1 + Len(b) THEN b[i - at - 1]
             ELSE s[i - Len(b)]
  BY <1>2, <1>5, WithFacts
<1>7. PICK u, m : u = With(s, at, b) /\ m = Len(d)
  OBVIOUS
<1>8. /\ u \in Texts /\ Len(u) = m + n
      /\ \A i \in 1 .. m + n : u[i] = IF i <= at + 1 THEN s[i] ELSE IF i <= at + 1 + n
          THEN b[i - at - 1] ELSE s[i - n]
  BY <1>5, <1>6, <1>7
<1>9. ASSUME NEW i \in 1 .. m + n PROVE t[i] = u[i]
  <2>0. m \in Nat /\ at < m /\ Len(e) = m + n /\ n \in Nat
    BY <1>2, <1>3, <1>7
  <2>1. CASE i <= at + 1
    <3>1. i \in 1 .. at + 1 /\ i \in 1 .. m
      BY <2>0, <2>1
    <3>2. t[i] = Shade(d[i]) /\ s[i] = Shade(d[i])
      BY <1>2, <1>5, <1>7, <2>0, <3>1
    <3> QED BY <1>8, <2>1, <3>2
  <2>2. CASE ~(i <= at + 1) /\ i <= at + 1 + n
    <3>1. PICK j : j = i - at - 1
      OBVIOUS
    <3>2. j \in 1 .. n /\ at + 1 + j = i
      BY <2>0, <2>2, <3>1
    <3>3. e[i] = c[j]
      BY <1>2, <3>2
    <3>4. t[i] = b[j]
      BY <1>5, <2>0, <3>2, <3>3
    <3> QED BY <1>8, <2>2, <3>1, <3>4
  <2>3. CASE ~(i <= at + 1 + n)
    <3>1. PICK j : j = i - n
      OBVIOUS
    <3>2. j \in at + 2 .. m /\ j + n = i /\ ~(i <= at + 1) /\ j \in 1 .. m
      BY <2>0, <2>3, <3>1
    <3>3. e[i] = d[j]
      BY <1>2, <1>7, <3>2
    <3>4. t[i] = s[j]
      BY <1>5, <1>7, <2>0, <3>2, <3>3
    <3> QED BY <1>8, <2>3, <3>1, <3>2, <3>4
  <2> QED BY <2>1, <2>2, <2>3
<1>10. t = u
  BY <1>2, <1>5, <1>7, <1>8, <1>9, SameText
<1> QED BY <1>1, <1>2, <1>5, <1>7, <1>10

(* What is cut out of it is taken out of its text.                         *)
LEMMA CutBare ==
  ASSUME NEW d \in Docs, NEW e, NEW at \in Nat, NEW n \in Nat \ {0}, NEW c, IsCut(e, d, at, n, c)
  PROVE  /\ at + n < Len(Bare(d)) /\ Bare(e) = Without(Bare(d), at, n)
         /\ c \in Contents /\ Bare(c) = Taken(Bare(d), at, n)
<1>1. PICK s, t, b : s = Bare(d) /\ t = Bare(e) /\ b = Bare(c)
  OBVIOUS
<1>2. /\ e \in Docs /\ Len(e) = Len(d) - n /\ at + n < Len(d)
      /\ \A i \in 1 .. at + 1 : e[i] = d[i]
      /\ \A i \in at + 2 .. Len(d) - n : e[i] = d[i + n]
      /\ c \in Contents /\ Len(c) = n /\ \A i \in 1 .. n : c[i] = d[at + 1 + i]
  BY DEF IsCut
<1>3. d \in Seq(Atoms) /\ e \in Seq(Atoms) /\ c \in Seq(Atoms) /\ Len(d) \in Nat /\ Len(e) \in Nat
  BY <1>2, DocFacts DEF Contents
<1>4. IsBare(s, d) /\ IsBare(t, e) /\ IsBare(b, c)
  BY <1>1, <1>3, BareIs
<1>7. PICK m : m = Len(d)
  OBVIOUS
<1>5. /\ s \in Texts /\ Len(s) = m /\ \A i \in 1 .. m : s[i] = Shade(d[i])
      /\ t \in Texts /\ Len(t) = m - n /\ \A i \in 1 .. m - n : t[i] = Shade(e[i])
      /\ b \in Texts /\ Len(b) = n /\ \A i \in 1 .. n : b[i] = Shade(c[i])
      /\ m \in Nat /\ at + n < m
  BY <1>2, <1>3, <1>4, <1>7 DEF IsBare
<1>6. /\ Without(s, at, n) \in Texts /\ Len(Without(s, at, n)) = Len(s) - n
      /\ \A i \in 1 .. Len(s) - n : Without(s, at, n)[i] = IF i <= at + 1 THEN s[i] ELSE s[i + n]
  BY <1>5, WithoutFacts
<1>8. PICK u : u = Without(s, at, n)
  OBVIOUS
<1>9. /\ u \in Texts /\ Len(u) = m - n
      /\ \A i \in 1 .. m - n : u[i] = IF i <= at + 1 THEN s[i] ELSE s[i + n]
  BY <1>5, <1>6, <1>8
<1>10. ASSUME NEW i \in 1 .. m - n PROVE t[i] = u[i]
  <2>1. CASE i <= at + 1
    <3>1. i \in 1 .. at + 1 /\ i \in 1 .. m
      BY <1>5, <2>1
    <3>2. t[i] = Shade(d[i]) /\ s[i] = Shade(d[i])
      BY <1>2, <1>5, <3>1
    <3> QED BY <1>9, <2>1, <3>2
  <2>2. CASE ~(i <= at + 1)
    <3>1. PICK j : j = i + n
      OBVIOUS
    <3>2. i \in at + 2 .. m - n /\ j \in 1 .. m
      BY <1>5, <2>2, <3>1
    <3>3. e[i] = d[j]
      BY <1>2, <1>7, <3>1, <3>2
    <3>4. t[i] = s[j]
      BY <1>5, <3>2, <3>3
    <3> QED BY <1>9, <2>2, <3>1, <3>4
  <2> QED BY <2>1, <2>2
<1>11. t = u
  BY <1>5, <1>9, <1>10, SameText
<1>12. /\ Taken(s, at, n) \in Texts /\ Len(Taken(s, at, n)) = n
  BY <1>5, TakenPut
<1>13. ASSUME NEW i \in 1 .. n PROVE b[i] = Taken(s, at, n)[i] /\ b[i].id = c[i].id
                /\ b[i] = s[i + at + 1]
  <2>1. PICK j : j = at + 1 + i
    OBVIOUS
  <2>2. j \in 1 .. m /\ i + at + 1 = j
    BY <1>5, <2>1
  <2>3. c[i] = d[j]
    BY <1>2, <2>1
  <2>4. b[i] = s[j]
    BY <1>5, <2>2, <2>3
  <2>5. Taken(s, at, n)[i] = s[j]
    BY <2>2 DEF Taken
  <2>6. b[i].id = c[i].id
    BY <1>5 DEF Shade, Look
  <2> QED BY <2>2, <2>4, <2>5, <2>6
<1>14. b = Taken(s, at, n)
  BY <1>5, <1>12, <1>13, SameText
<1> QED BY <1>1, <1>2, <1>5, <1>8, <1>11, <1>14

(* Whose it is shows in the text.                                          *)
LEMMA CutScoped ==
  ASSUME NEW d \in Docs, NEW e, NEW at \in Nat, NEW n \in Nat \ {0}, NEW c, IsCut(e, d, at, n, c),
         NEW M
  PROVE  Ids(c) \subseteq M <=> Scoped(Bare(d), at, n, ByIds(M))
<1>1. PICK s, b : s = Bare(d) /\ b = Bare(c)
  OBVIOUS
<1>2. at + n < Len(s) /\ c \in Contents /\ b = Taken(s, at, n)
  <2>1. at + n < Len(Bare(d)) /\ Bare(e) = Without(Bare(d), at, n)
        /\ c \in Contents /\ Bare(c) = Taken(Bare(d), at, n)
    BY CutBare
  <2> QED BY <1>1, <2>1
<1>3. c \in Seq(Atoms) /\ d \in Seq(Atoms)
  BY <1>2, DocFacts DEF Contents
<1>4. IsBare(b, c) /\ s \in Texts
  BY <1>1, <1>3, BareIs DEF IsBare
<1>5. b \in Texts /\ Len(b) = n
  BY <1>2, <1>4, TakenPut
<1>6. Len(c) = n /\ \A i \in 1 .. n : b[i] = Shade(c[i])
  BY <1>4, <1>5 DEF IsBare
<1>7. ASSUME NEW i \in 1 .. n PROVE b[i].id = c[i].id /\ b[i] = s[i + at + 1]
  <2>1. b[i] = s[i + at + 1]
    BY <1>2 DEF Taken
  <2>2. b[i] = Shade(c[i])
    BY <1>6
  <2> QED BY <2>1, <2>2 DEF Shade, Look
<1>8. Ids(c) \subseteq M <=> Scoped(s, at, n, ByIds(M))
  <2>0. DOMAIN c = 1 .. n
    BY <1>3, <1>6, SeqFacts
  <2>1. \A i \in 1 .. n : b[i] \in Items
    BY <1>5, TextFacts
  <2>2. Ids(c) \subseteq M <=> \A i \in 1 .. n : b[i].id \in M
    BY <1>7, <2>0 DEF Ids
  <2>3. (\A i \in 1 .. n : b[i].id \in M) <=> (\A i \in 1 .. n : b[i] \in ByIds(M))
    BY <2>1 DEF ByIds
  <2>4. ASSUME \A i \in 1 .. n : b[i] \in ByIds(M) PROVE Scoped(s, at, n, ByIds(M))
    <3> SUFFICES ASSUME NEW i \in at + 2 .. at + n + 1 PROVE s[i] \in ByIds(M)
      BY DEF Scoped
    <3>1. PICK j : j = i - at - 1
      OBVIOUS
    <3>2. j \in 1 .. n /\ j + at + 1 = i
      BY <3>1
    <3> QED BY <1>7, <2>4, <3>2
  <2>5. ASSUME Scoped(s, at, n, ByIds(M)), NEW i \in 1 .. n PROVE b[i] \in ByIds(M)
    <3>1. i + at + 1 \in at + 2 .. at + n + 1
      OBVIOUS
    <3>2. s[i + at + 1] \in ByIds(M)
      BY <2>5, <3>1 DEF Scoped
    <3> QED BY <1>7, <3>2
  <2> QED BY <2>2, <2>3, <2>4, <2>5
<1> QED BY <1>1, <1>8

(* A mark's changes in a bare text.                                        *)
LEMMA MarkBare ==
  ASSUME NEW d \in Docs, NEW op \in MarkOps, Fits(d, op), NEW e, e = Applied(d, op).doc,
         NEW P, P = Shown(Changed(d, op))
  PROVE  /\ e \in Docs /\ Bare(e) = On(Bare(d), P, op.look) /\ Bare(d) = On(Bare(e), P, 1 - op.look)
         /\ P \subseteq 1 .. Len(d) /\ P \subseteq Reach(op)
         /\ \A i \in P : ~d[i].brk /\ d[i].id = Bare(e)[i].id /\ ~Bare(e)[i].brk
         /\ \A i \in Reach(op) : i \in 1 .. Len(d) /\ (i \in P <=> ~d[i].brk /\ d[i].look # op.look)
<1> DEFINE l == op.look
           f == [i \in DOMAIN d |-> IF i - 2 \in Changed(d, op) THEN [d[i] EXCEPT !.look =
             l] ELSE d[i]]
<1>1. op.t = "mark" /\ l \in Looks /\ op.from \in Nat /\ op.to \in Nat
  BY ChangedFacts
<1>2. e = f
  BY <1>1 DEF Applied
<1>3. /\ Len(d) \in Nat /\ DOMAIN d = 1 .. Len(d) /\ d \in Seq(Atoms) /\ DocLen(d) = Len(d) - 1
      /\ \A i \in DOMAIN d : d[i] \in Atoms
  BY DocFacts
<1>4. op.to \in 0 .. DocLen(d)
  BY <1>1 DEF Fits, Offsets
<1>5. SameAtoms(e, d) /\ e \in Docs /\ e \in Seq(Atoms) /\ Len(e) = Len(d)
  BY MarkedFacts, DocFacts DEF SameAtoms
<1>6. \A i \in Int : i \in P <=> i - 2 \in Changed(d, op)
  BY DEF Shown
<1>7. \A k : k \in Changed(d, op) <=> k \in op.from .. (op.to - 1) /\ ~d[k + 2].brk
        /\ d[k + 2].look # l
  BY DEF Changed
<1>8. \A i \in Int : i - 2 + 2 = i
        /\ (i - 2 \in op.from .. op.to - 1 <=> i \in op.from + 2 .. op.to + 1)
  BY <1>1
<1>9. \A i \in Int : i \in P <=> i \in Reach(op) /\ ~d[i].brk /\ d[i].look # l
  <2> SUFFICES ASSUME NEW i \in Int PROVE i \in P <=> i \in Reach(op) /\ ~d[i].brk /\ d[i].look # l
    OBVIOUS
  <2>1. PICK k : k = i - 2
    OBVIOUS
  <2>2. k + 2 = i /\ (k \in op.from .. op.to - 1 <=> i \in op.from + 2 .. op.to + 1)
    BY <1>8, <2>1
  <2>3. k \in Changed(d, op) <=> k \in op.from .. (op.to - 1) /\ ~d[i].brk /\ d[i].look # l
    BY <1>7, <2>2
  <2> QED BY <1>6, <2>1, <2>2, <2>3 DEF Reach
<1>10. Reach(op) \subseteq 1 .. Len(d) /\ P \subseteq Int /\ 1 .. Len(d) \subseteq Int
  <2>1. Reach(op) \subseteq 1 .. Len(d)
    BY <1>1, <1>3, <1>4 DEF Reach
  <2> QED BY <2>1 DEF Shown
<1>11. P \subseteq Reach(op) /\ P \subseteq 1 .. Len(d)
  BY <1>9, <1>10
<1>12. PICK s, t : s = Bare(d) /\ t = Bare(e)
  OBVIOUS
<1>13. IsBare(s, d) /\ IsBare(t, e)
  BY <1>3, <1>5, <1>12, BareIs
<1>14. /\ s \in Texts /\ Len(s) = Len(d) /\ \A i \in 1 .. Len(d) : s[i] = Shade(d[i])
       /\ t \in Texts /\ Len(t) = Len(d) /\ \A i \in 1 .. Len(d) : t[i] = Shade(e[i])
  BY <1>5, <1>13 DEF IsBare
<1>15. ASSUME NEW i \in 1 .. Len(d), i \in P
       PROVE  /\ t[i] = Look(s[i], l) /\ s[i] = Look(t[i], 1 - l) /\ ~d[i].brk
                  /\ d[i].id = t[i].id /\ ~t[i].brk
  <2>0. i \in Int /\ i \in P /\ i \in DOMAIN d
    BY <1>3, <1>10, <1>15
  <2>1. ~d[i].brk /\ d[i].look # l
    BY <1>9, <2>0
  <2>2. e[i] = [d[i] EXCEPT !.look = l]
    BY <1>2, <1>6, <2>0
  <2>3. d[i] \in Atoms
    BY <1>3
  <2>4. d[i].look = 1 - l
    BY <1>1, <2>1, <2>3 DEF Looks, Atoms
  <2>5. e[i].id = d[i].id /\ e[i].brk = d[i].brk /\ e[i].look = l
    BY <2>2, <2>3 DEF Atoms
  <2>6. t[i] = Look(d[i], l) /\ s[i] = Look(d[i], 1 - l)
    BY <1>14, <2>1, <2>4, <2>5 DEF Shade, Look
  <2> QED BY <2>1, <2>6 DEF Look
<1>16. ASSUME NEW i \in 1 .. Len(d), i \notin P
       PROVE  t[i] = s[i]
  <2>0. i \in Int /\ i \notin P /\ i \in DOMAIN d
    BY <1>3, <1>10, <1>16
  <2>1. e[i] = d[i]
    BY <1>2, <1>6, <2>0
  <2> QED BY <1>14, <2>1
<1> HIDE DEF f
<1>17. t = On(s, P, l) /\ s = On(t, P, 1 - l)
  <2>1. t = [i \in 1 .. Len(t) |-> t[i]] /\ s = [i \in 1 .. Len(s) |-> s[i]]
    BY <1>14 DEF Texts
  <2>2. \A i \in 1 .. Len(d) : /\ t[i] = IF i \in P THEN Look(s[i], l) ELSE s[i]
                               /\ s[i] = IF i \in P THEN Look(t[i], 1 - l) ELSE t[i]
    BY <1>15, <1>16
  <2> QED BY <1>14, <2>1, <2>2 DEF On
<1> QED BY <1>5, <1>9, <1>10, <1>11, <1>12, <1>15, <1>17

-----------------------------------------------------------------------------
(* 15. An op applied, and its inverse                                      *)

(* What an op types, deletes or marks in a document is in M.               *)
Touches(d, op, M) ==
  /\ op.t = "insert" => Ids(op.content) \subseteq M
  /\ op.t = "delete" => Ids(Slice(d, op.at, op.at + op.len)) \subseteq M
  /\ op.t = "mark" => {d[k + 2].id : k \in Changed(d, op)} \subseteq M

(* A list of ops that leads back, of the kind of the op.                   *)
Returns(M, d, op, e, v) == v \in Seq(Ops) /\ Stands(op, v) /\ Leads(own(M), v, Bare(e), Bare(d))

(* One op is enough for any but a mark.                                    *)
LEMMA ByOne ==
  ASSUME NEW M, NEW op \in OtherOps, NEW x \in OtherOps, NEW d, NEW e, NEW v, v = <<x>>,
         Bare(d) \in Texts, Bare(e) \in Texts, OpTo(x, Bare(e), Bare(d), M)
  PROVE  Returns(M, d, op, e, v)
<1>1. x \in Ops /\ OtherOps \subseteq Ops
  BY DEF OtherOps, Ops
<1>2. Leads(own(M), <<x>>, Bare(e), Bare(d))
  BY <1>1, OwnFacts, LeadsOne
<1>3. <<x>> \in Seq(Ops) /\ <<x>> \in Seq(OtherOps)
  BY <1>1
<1>4. op \notin MarkOps
  BY DEF OtherOps, InsertOps, DeleteOps, RestyleOps, MarkOps
<1> QED BY <1>2, <1>3, <1>4 DEF Returns, Stands

(* A restyle does not show in a bare text.                                 *)
LEMMA RestyleBare ==
  ASSUME NEW d \in Docs, NEW op \in RestyleOps, Fits(d, op), NEW e, e = Applied(d, op).doc
  PROVE  e \in Docs /\ Bare(e) = Bare(d) /\ op.at < Len(Bare(d))
         /\ \E x \in RestyleOps : x.at = op.at /\ Applied(d, op).inverse = <<x>>
<1> DEFINE p == ParagraphOf(d, op.at)
           f == [d EXCEPT ![p].look = op.look]
<1>1. op.t = "restyle" /\ op.look \in Looks /\ op.at \in Nat
  BY DEF RestyleOps
<1>2. e = f /\ Applied(d, op).inverse = <<Restyle(op.at, d[p].look)>>
  BY <1>1 DEF Applied
<1>3. Len(d) \in Nat \ {0} /\ DOMAIN d = 1 .. Len(d) /\ d \in Seq(Atoms) /\ DocLen(d) = Len(d) - 1
      /\ \A i \in DOMAIN d : d[i] \in Atoms /\ d[i].look \in Looks
  BY DocFacts
<1>4. op.at <= DocLen(d)
  BY <1>1, <1>3 DEF Fits, Offsets
<1>5. p \in DOMAIN d /\ d[p].brk
  BY <1>1, <1>4, ParagraphFacts
<1>6. SameAtoms(e, d) /\ e \in Docs /\ e \in Seq(Atoms) /\ Len(e) = Len(d)
  BY RestyledFacts, DocFacts DEF SameAtoms
<1> HIDE DEF p
<1>7. \A i \in 1 .. Len(d) : e[i] = IF i = p THEN [d[p] EXCEPT !.look = op.look] ELSE d[i]
  BY <1>2, <1>3, <1>5
<1>8. PICK s, t : s = Bare(d) /\ t = Bare(e)
  OBVIOUS
<1>9. IsBare(s, d) /\ IsBare(t, e)
  BY <1>3, <1>6, <1>8, BareIs
<1>10. /\ s \in Texts /\ Len(s) = Len(d) /\ \A i \in 1 .. Len(d) : s[i] = Shade(d[i])
       /\ t \in Texts /\ Len(t) = Len(d) /\ \A i \in 1 .. Len(d) : t[i] = Shade(e[i])
  BY <1>6, <1>9 DEF IsBare
<1>11. ASSUME NEW i \in 1 .. Len(d) PROVE t[i] = s[i]
  <2>1. CASE i # p
    BY <1>7, <1>10, <2>1
  <2>2. CASE i = p
    <3>1. d[p] \in Atoms
      BY <1>3, <1>5
    <3>2. e[i] = [d[p] EXCEPT !.look = op.look]
      BY <1>7, <2>2
    <3>3. e[i].id = d[i].id /\ e[i].brk /\ d[i].brk
      BY <1>5, <2>2, <3>1, <3>2 DEF Atoms
    <3>4. Shade(e[i]) = Shade(d[i])
      BY <3>3 DEF Shade, Look
    <3> QED BY <1>10, <3>4
  <2> QED BY <2>1, <2>2
<1>12. t = s
  BY <1>10, <1>11, SameText
<1>13. Restyle(op.at, d[p].look) \in RestyleOps /\ Restyle(op.at, d[p].look).at = op.at
  BY <1>1, <1>3, <1>5 DEF Restyle, RestyleOps
<1> QED BY <1>1, <1>2, <1>3, <1>4, <1>6, <1>8, <1>10, <1>12, <1>13

(* Every op has such an inverse.                                           *)
LEMMA AppliedBack ==
  ASSUME NEW M, NEW d \in Docs, NEW op \in Ops, Fits(d, op), Touches(d, op, M),
         NEW e, NEW v, e = Applied(d, op).doc, v = Applied(d, op).inverse
  PROVE  e \in Docs /\ Returns(M, d, op, e, v)
<1>0. e \in Docs /\ e \in Seq(Atoms) /\ d \in Seq(Atoms) /\ Bare(d) \in Texts /\ Bare(e) \in Texts
        /\ Len(Bare(d)) \in Nat /\ Len(Bare(e)) \in Nat
  <2>1. e \in Docs
    BY AppliedFacts
  <2>2. e \in Seq(Atoms) /\ d \in Seq(Atoms)
    BY <2>1, DocFacts
  <2> QED BY <2>1, <2>2, BareFacts
<1>1. CASE op.t = "insert"
  <2>1. op \in InsertOps /\ op.at \in Nat /\ op.content \in Contents
    BY <1>1, OpsByKind
  <2>2. PICK at, c, n : at = op.at /\ c = op.content /\ n = Len(op.content)
    OBVIOUS
  <2>3. IsPut(e, d, at, c, n) /\ v = <<Delete(at, n)>> /\ at \in Nat /\ c \in Contents /\ n = Len(c)
    BY <2>1, <2>2, InsertedFacts
  <2>4. at < Len(Bare(d)) /\ Bare(e) = With(Bare(d), at, Bare(c))
    BY <2>3, PutBare
  <2>5. c \in Seq(Atoms) /\ n \in Nat \ {0}
    BY <2>3 DEF IsPut, Contents
  <2>6. IsBare(Bare(c), c)
    BY <2>5, BareIs
  <2>7. Bare(c) \in Texts /\ Len(Bare(c)) = n
    BY <2>3, <2>6 DEF IsBare
  <2>8. at + n < Len(Bare(e)) /\ Without(Bare(e), at, n) = Bare(d)
    <3>1. at + Len(Bare(c)) < Len(With(Bare(d), at, Bare(c)))
            /\ Without(With(Bare(d), at, Bare(c)), at, Len(Bare(c))) = Bare(d)
      BY <1>0, <2>3, <2>4, <2>7, PutTaken
    <3> QED BY <2>4, <2>7, <3>1
  <2>9. Scoped(Bare(e), at, n, ByIds(M))
    <3> SUFFICES ASSUME NEW i \in at + 2 .. at + n + 1 PROVE Bare(e)[i] \in ByIds(M)
      BY DEF Scoped
    <3>1. PICK j : j = i - at - 1
      OBVIOUS
    <3>2. j \in 1 .. n /\ ~(i <= at + 1) /\ i <= at + 1 + n /\ i \in 1 .. Len(Bare(d)) + n
      BY <1>0, <2>3, <2>4, <2>5, <3>1
    <3>3. \A k \in 1 .. Len(Bare(d)) + Len(Bare(c)) : With(Bare(d), at, Bare(c))[k] =
            IF k <= at + 1 THEN Bare(d)[k] ELSE IF k <= at + 1 + Len(Bare(c))
              THEN Bare(c)[k - at - 1] ELSE Bare(d)[k - Len(Bare(c))]
      BY <1>0, <2>3, <2>4, <2>7, WithFacts
    <3>4. Bare(e)[i] = Bare(c)[j]
      BY <2>4, <2>7, <3>1, <3>2, <3>3
    <3>5. Bare(c)[j] = Shade(c[j]) /\ Bare(c)[j] \in Items
      BY <2>3, <2>6, <2>7, <3>2, TextFacts DEF IsBare
    <3>6. c[j].id \in Ids(c)
      BY <2>3, <2>5, <3>2, SeqFacts DEF Ids
    <3>7. Ids(c) \subseteq M
      BY <1>1, <2>2 DEF Touches
    <3> QED BY <3>4, <3>5, <3>6, <3>7 DEF ByIds, Shade, Look
  <2>10. PICK x : x = Delete(at, n)
    OBVIOUS
  <2>11. x \in DeleteOps /\ x.t = "delete" /\ x.at = at /\ x.len = n
    BY <2>3, <2>5, <2>10 DEF Delete, DeleteOps
  <2>12. OpTo(x, Bare(e), Bare(d), M)
    BY <2>8, <2>9, <2>11 DEF OpTo, TakesOut
  <2>13. x \in OtherOps /\ op \in OtherOps
    BY <2>1, <2>11 DEF OtherOps
  <2>14. Returns(M, d, op, e, v)
    BY <1>0, <2>3, <2>10, <2>12, <2>13, ByOne
  <2> QED BY <1>0, <2>14
<1>2. CASE op.t = "delete"
  <2>1. op \in DeleteOps /\ op.at \in Nat /\ op.len \in Nat \ {0}
    BY <1>2, OpsByKind
  <2>2. PICK at, n, c : at = op.at /\ n = op.len /\ c = Slice(d, op.at, op.at + op.len)
    OBVIOUS
  <2>3. IsCut(e, d, at, n, c) /\ v = <<Insert(at, c)>> /\ at \in Nat /\ n \in Nat \ {0}
    BY <2>1, <2>2, DeletedFacts
  <2>4. /\ at + n < Len(Bare(d)) /\ Bare(e) = Without(Bare(d), at, n)
        /\ c \in Contents /\ Bare(c) = Taken(Bare(d), at, n)
    BY <2>3, CutBare
  <2>5. at < Len(Bare(e)) /\ With(Bare(e), at, Bare(c)) = Bare(d)
    <3>1. at < Len(Without(Bare(d), at, n))
            /\ With(Without(Bare(d), at, n), at, Taken(Bare(d), at, n)) = Bare(d)
      BY <1>0, <2>3, <2>4, TakenPut
    <3> QED BY <2>4, <3>1
  <2>6. PICK x : x = Insert(at, c)
    OBVIOUS
  <2>7. x \in InsertOps /\ x.t = "insert" /\ x.at = at /\ x.content = c
    BY <2>3, <2>4, <2>6 DEF Insert, InsertOps
  <2>8. Ids(c) \subseteq M
    BY <1>2, <2>2 DEF Touches
  <2>9. OpTo(x, Bare(e), Bare(d), M)
    BY <2>5, <2>7, <2>8 DEF OpTo
  <2>10. x \in OtherOps /\ op \in OtherOps
    BY <2>1, <2>7 DEF OtherOps
  <2>11. Returns(M, d, op, e, v)
    BY <1>0, <2>3, <2>6, <2>9, <2>10, ByOne
  <2> QED BY <1>0, <2>11
<1>3. CASE op.t = "mark"
  <2>1. op \in MarkOps /\ op.look \in Looks
    BY <1>3, OpsByKind
  <2>2. PICK P, l : P = Shown(Changed(d, op)) /\ l = 1 - op.look
    OBVIOUS
  <2>3. /\ Bare(d) = On(Bare(e), P, l) /\ P \subseteq 1 .. Len(d)
        /\ \A i \in P : ~d[i].brk /\ d[i].id = Bare(e)[i].id /\ ~Bare(e)[i].brk
    BY <2>1, <2>2, MarkBare
  <2>4. v = Stretches(d, op)
    BY <1>3 DEF Applied
  <2>5. Covers(v, P, l) /\ v \in Seq(MarkOps)
    BY <2>1, <2>2, <2>4, StretchesCover, StretchesFacts
  <2>6. l \in Looks
    BY <2>1, <2>2 DEF Looks
  <2>7. Len(e) = Len(d) /\ Len(d) \in Nat
    BY <2>1, MarkedFacts, DocFacts DEF SameAtoms
  <2>8. IsBare(Bare(e), e)
    BY <1>0, BareIs
  <2>9. Len(Bare(e)) = Len(d) /\ \A i \in 1 .. Len(d) : Bare(e)[i] \in Items
    BY <1>0, <2>7, <2>8, TextFacts DEF IsBare
  <2>10. Paints(Bare(e), P, M)
    <3> SUFFICES ASSUME NEW i \in P PROVE i \in 1 .. Len(Bare(e)) /\ Bare(e)[i] \in Letters(M)
      BY DEF Paints
    <3>1. i \in 1 .. Len(d) /\ ~Bare(e)[i].brk /\ d[i].id = Bare(e)[i].id
      BY <2>3
    <3>2. PICK k : k = i - 2
      OBVIOUS
    <3>3. k \in Changed(d, op) /\ k + 2 = i
      BY <2>2, <3>1, <3>2 DEF Shown
    <3>4. d[i].id \in M
      <4>1. d[k + 2].id \in {d[m + 2].id : m \in Changed(d, op)}
        BY <3>3
      <4> QED BY <1>3, <3>3, <4>1 DEF Touches
    <3> QED BY <2>9, <3>1, <3>4 DEF Letters
  <2>11. v \in Seq(Ops) /\ Leads(own(M), v, Bare(e), On(Bare(e), P, l))
    BY <1>0, <2>5, <2>6, <2>10, MarksLead
  <2>12. op \notin OtherOps
    BY <1>3 DEF OtherOps, InsertOps, DeleteOps, RestyleOps
  <2> QED BY <1>0, <2>3, <2>5, <2>11, <2>12 DEF Returns, Stands
<1>4. CASE op.t = "restyle"
  <2>1. op \in RestyleOps
    BY <1>4, OpsByKind
  <2>2. Bare(e) = Bare(d) /\ op.at < Len(Bare(d))
    BY <2>1, RestyleBare
  <2>3. PICK x \in RestyleOps : x.at = op.at /\ v = <<x>>
    BY <2>1, RestyleBare
  <2>4. x.t = "restyle"
    BY DEF RestyleOps
  <2>5. OpTo(x, Bare(e), Bare(d), M)
    BY <2>2, <2>3, <2>4 DEF OpTo
  <2>6. x \in OtherOps /\ op \in OtherOps
    BY <2>1 DEF OtherOps
  <2>7. Returns(M, d, op, e, v)
    BY <1>0, <2>3, <2>5, <2>6, ByOne
  <2> QED BY <1>0, <2>7
<1> QED BY <1>1, <1>2, <1>3, <1>4, OpsByKind

(* An op that fits a bare text fits the document.                          *)
LEMMA AppliedOwn ==
  ASSUME NEW M, NEW d \in Docs, NEW op \in Ops, NEW t \in Texts, OpTo(op, Bare(d), t, M)
  PROVE  Fits(d, op) /\ Touches(d, op, M) /\ Bare(Applied(d, op).doc) = t
<1>0. /\ d \in Seq(Atoms) /\ Bare(d) \in Texts /\ Len(Bare(d)) = Len(d) /\ Len(d) \in Nat
          /\ DocLen(d) = Len(d) - 1
      /\ IsBare(Bare(d), d)
  <2>1. d \in Seq(Atoms) /\ DocLen(d) = Len(d) - 1
    BY DocFacts
  <2> QED BY <2>1, BareFacts, BareIs
<1>1. CASE op.t = "insert"
  <2>1. op \in InsertOps /\ op.at \in Nat /\ op.content \in Contents
    BY <1>1, OpsByKind
  <2>2. op.at < Len(Bare(d)) /\ Ids(op.content) \subseteq M
          /\ t = With(Bare(d), op.at, Bare(op.content))
    BY <1>1 DEF OpTo
  <2>3. Fits(d, op)
    BY <1>0, <1>1, <2>1, <2>2 DEF Fits, Offsets
  <2>4. PICK at, c, n : at = op.at /\ c = op.content /\ n = Len(op.content)
    OBVIOUS
  <2>5. IsPut(Applied(d, op).doc, d, at, c, n) /\ at \in Nat /\ c \in Contents /\ n = Len(c)
    BY <2>1, <2>3, <2>4, InsertedFacts
  <2>6. Bare(Applied(d, op).doc) = With(Bare(d), at, Bare(c))
    BY <2>5, PutBare
  <2> QED BY <1>1, <2>2, <2>3, <2>4, <2>6 DEF Touches
<1>2. CASE op.t = "delete"
  <2>1. op \in DeleteOps /\ op.at \in Nat /\ op.len \in Nat \ {0}
    BY <1>2, OpsByKind
  <2>2. op.at + op.len < Len(Bare(d)) /\ Scoped(Bare(d), op.at, op.len, ByIds(M))
          /\ t = Without(Bare(d), op.at, op.len)
    BY <1>2 DEF OpTo, TakesOut
  <2>3. Fits(d, op)
    BY <1>0, <1>2, <2>1, <2>2 DEF Fits, Offsets
  <2>4. PICK at, n, c : at = op.at /\ n = op.len /\ c = Slice(d, op.at, op.at + op.len)
    OBVIOUS
  <2>5. IsCut(Applied(d, op).doc, d, at, n, c) /\ at \in Nat /\ n \in Nat \ {0}
    BY <2>1, <2>3, <2>4, DeletedFacts
  <2>6. /\ Bare(Applied(d, op).doc) = Without(Bare(d), at, n)
        /\ Ids(c) \subseteq M <=> Scoped(Bare(d), at, n, ByIds(M))
    <3>1. Bare(Applied(d, op).doc) = Without(Bare(d), at, n)
      BY <2>5, CutBare
    <3>2. Ids(c) \subseteq M <=> Scoped(Bare(d), at, n, ByIds(M))
      BY <2>5, CutScoped
    <3> QED BY <3>1, <3>2
  <2> QED BY <1>2, <2>2, <2>3, <2>4, <2>6 DEF Touches
<1>3. CASE op.t = "mark"
  <2>1. op \in MarkOps /\ op.look \in Looks /\ op.from \in Nat /\ op.to \in Nat /\ op.from < op.to
    BY <1>3, OpsByKind
  <2>2. Paints(Bare(d), Reach(op), M) /\ t = On(Bare(d), Reach(op), op.look)
    BY <1>3 DEF OpTo, Reach
  <2>3. Fits(d, op)
    <3>1. op.to + 1 \in Reach(op)
      BY <2>1 DEF Reach
    <3>2. op.to + 1 \in 1 .. Len(d)
      BY <1>0, <2>2, <3>1 DEF Paints
    <3> QED BY <1>0, <1>3, <2>1, <3>2 DEF Fits, Offsets
  <2>4. PICK P, e : P = Shown(Changed(d, op)) /\ e = Applied(d, op).doc
    OBVIOUS
  <2>5. /\ e \in Docs /\ Bare(e) = On(Bare(d), P, op.look)
        /\ P \subseteq 1 .. Len(d) /\ P \subseteq Reach(op)
        /\ \A i \in Reach(op) : i \in 1 .. Len(d) /\ (i \in P <=> ~d[i].brk /\ d[i].look # op.look)
    BY <2>1, <2>3, <2>4, MarkBare
  <2>6. ASSUME NEW i \in Reach(op)
        PROVE  i \in 1 .. Len(d) /\ ~d[i].brk /\ d[i].id \in M /\ Bare(d)[i] = Look(d[i], d[i].look)
    <3>1. i \in 1 .. Len(d) /\ Bare(d)[i] \in Letters(M)
      BY <2>2, <2>5 DEF Paints
    <3>2. Bare(d)[i] = Shade(d[i])
      BY <1>0, <3>1 DEF IsBare
    <3> QED BY <3>1, <3>2 DEF Letters, Shade, Look
  <2>7. ASSUME NEW i \in Reach(op), i \notin P PROVE Look(Bare(d)[i], op.look) = Bare(d)[i]
    <3>1. d[i].look = op.look
      BY <2>5, <2>6, <2>7
    <3>2. PICK a, b : a = d[i] /\ b = Bare(d)[i]
      OBVIOUS
    <3>3. b = Look(a, op.look)
      BY <2>6, <3>1, <3>2
    <3>4. Look(b, op.look) = b
      BY <3>3 DEF Look
    <3> QED BY <3>2, <3>4
  <2>8. On(Bare(d), P, op.look) = On(Bare(d), Reach(op), op.look)
    BY <2>5, <2>7 DEF On
  <2>9. {d[k + 2].id : k \in Changed(d, op)} \subseteq M
    <3> SUFFICES ASSUME NEW k \in Changed(d, op) PROVE d[k + 2].id \in M
      OBVIOUS
    <3>1. k \in Int /\ k + 2 \in Int /\ k + 2 - 2 = k
      BY <2>1, ChangedFacts
    <3>2. k + 2 \in P
      BY <2>4, <3>1 DEF Shown
    <3> QED BY <2>5, <2>6, <3>2
  <2> QED BY <1>3, <2>2, <2>3, <2>4, <2>5, <2>8, <2>9 DEF Touches
<1>4. CASE op.t = "restyle"
  <2>1. op \in RestyleOps /\ op.at \in Nat
    BY <1>4, OpsByKind
  <2>2. op.at < Len(Bare(d)) /\ t = Bare(d)
    BY <1>4 DEF OpTo
  <2>3. Fits(d, op)
    BY <1>0, <1>4, <2>1, <2>2 DEF Fits, Offsets
  <2>4. Bare(Applied(d, op).doc) = Bare(d)
    BY <2>1, <2>3, RestyleBare
  <2> QED BY <1>4, <2>2, <2>3, <2>4 DEF Touches
<1> QED BY <1>1, <1>2, <1>3, <1>4, OpsByKind

-----------------------------------------------------------------------------
(* 16. A list of ops applied, and its inverse                              *)

(* Ops one by one, each with what takes it back.                           *)
Back(M, d, ops, s) == Keeps(ops, s.inverse) /\ Leads(own(M), s.inverse, Bare(s.doc), Bare(d))

(* Before the first op.                                                    *)
LEMMA BackFirst ==
  ASSUME NEW M, NEW d \in Docs, NEW ops, NEW s, s = [ok |-> TRUE, doc |-> d, inverse |-> <<>>]
  PROVE  Back(M, d, ops, s)
<1>1. Bare(d) \in Texts
  BY DocFacts, BareFacts
<1>2. Leads(own(M), <<>>, Bare(d), Bare(d))
  BY <1>1, LeadsNone
<1>3. Keeps(ops, <<>>)
  BY DEF Keeps
<1> QED BY <1>2, <1>3 DEF Back

(* One op more.                                                            *)
LEMMA BackNext ==
  ASSUME NEW M, NEW d \in Docs, NEW ops \in Seq(Ops), NEW k \in 1 .. Len(ops), NEW s \in Outcomes,
         Back(M, d, ops, s),
         s.ok, Fits(s.doc, ops[k]), Touches(s.doc, ops[k], M), NEW r, r = Applying(s, ops[k])
  PROVE  r.ok /\ r.doc = Applied(s.doc, ops[k]).doc /\ Back(M, d, ops, r)
<1>0. s.doc \in Docs /\ s.inverse \in Seq(Ops)
  BY OutcomeFacts
<1>1. PICK op, a, e, v : op = ops[k] /\ a = s.doc /\ e = Applied(s.doc, ops[k]).doc
        /\ v = Applied(s.doc, ops[k]).inverse
  OBVIOUS
<1>2. op \in Ops
  BY <1>1, SeqFacts
<1>3. e \in Docs /\ Returns(M, a, op, e, v)
  BY <1>0, <1>1, <1>2, AppliedBack
<1>4. PICK c : c = v \o s.inverse
  OBVIOUS
<1>5. r = [ok |-> TRUE, doc |-> e, inverse |-> c]
  BY <1>1, <1>4 DEF Applying
<1>6. v \in Seq(Ops) /\ Stands(op, v) /\ Leads(own(M), v, Bare(e), Bare(a))
  BY <1>3 DEF Returns
<1>7. Keeps(ops, s.inverse) /\ Leads(own(M), s.inverse, Bare(a), Bare(d))
  BY <1>1 DEF Back
<1>8. Leads(own(M), c, Bare(e), Bare(d))
  BY <1>0, <1>4, <1>6, <1>7, LeadsJoin
<1>9. Keeps(ops, c)
  <2>1. ASSUME ops \in Seq(MarkOps) PROVE c \in Seq(MarkOps)
    <3>1. op \in MarkOps
      BY <1>1, <2>1, SeqFacts
    <3>2. v \in Seq(MarkOps) /\ s.inverse \in Seq(MarkOps)
      BY <1>6, <1>7, <2>1, <3>1 DEF Keeps, Stands
    <3> QED BY <1>4, <3>2, ConcatFacts
  <2>2. ASSUME ops \in Seq(OtherOps) PROVE c \in Seq(OtherOps)
    <3>1. op \in OtherOps
      BY <1>1, <2>2, SeqFacts
    <3>2. v \in Seq(OtherOps) /\ s.inverse \in Seq(OtherOps)
      BY <1>6, <1>7, <2>2, <3>1 DEF Keeps, Stands
    <3> QED BY <1>4, <3>2, ConcatFacts
  <2> QED BY <2>1, <2>2 DEF Keeps
<1> QED BY <1>1, <1>5, <1>8, <1>9 DEF Back

(* A step that leads somewhere applies, gets there, and can be taken back. *)
LEMMA ApplyAllOwn ==
  ASSUME NEW M, NEW d \in Docs, NEW ops \in Seq(Ops), NEW t, Leads(own(M), ops, Bare(d), t)
  PROVE  ApplyAll(d, ops).ok /\ Bare(ApplyAll(d, ops).doc) = t /\ Back(M, d, ops, ApplyAll(d, ops))
<1> DEFINE n == Len(ops)
<1>1. n \in Nat /\ \A k \in 1 .. n : ops[k] \in Ops
  BY SeqFacts
<1>2. PICK f \in [0 .. n -> Outcomes] :
        /\ f[0] = [ok |-> TRUE, doc |-> d, inverse |-> <<>>] /\ ApplyAll(d, ops) = f[n]
        /\ \A k \in 1 .. n : f[k] = Applying(f[k - 1], ops[k])
  BY ApplyAllSteps
<1>3. PICK h : Path(h, own(M), ops, Bare(d), t)
  BY DEF Leads
<1>4. /\ h \in [0 .. n -> Texts] /\ h[0] = Bare(d) /\ h[n] = t
      /\ \A k \in 1 .. n : h[k] \in own(M)[ops[k]][h[k - 1]]
  BY <1>3 DEF Path
<1>a. \A k \in 1 .. n : k \in 1 .. Len(ops)
  OBVIOUS
<1> HIDE DEF n
<1> DEFINE Good(k) == f[k].ok /\ Bare(f[k].doc) = h[k] /\ Back(M, d, ops, f[k])
           F == {k \in 0 .. n : Good(k)}
<1>5. 0 \in F
  <2>1. Back(M, d, ops, f[0])
    BY <1>2, BackFirst
  <2>2. Good(0)
    BY <1>2, <1>4, <2>1
  <2> HIDE DEF Good
  <2> QED BY <1>1, <2>2
<1>6. ASSUME NEW k \in 0 .. n - 1, k \in F PROVE k + 1 \in F
  <2>1. PICK m : m = k + 1
    OBVIOUS
  <2>2. m \in 1 .. n /\ m - 1 = k /\ m \in 0 .. n /\ k \in 0 .. n
    BY <1>1, <2>1
  <2>3. PICK op, s, v : op = ops[m] /\ s = f[k] /\ v = h[m]
    OBVIOUS
  <2>4. op \in Ops /\ s \in Outcomes /\ f[m] = Applying(s, op) /\ v \in Texts /\ h[k] \in Texts
          /\ v \in own(M)[op][h[k]]
    BY <1>1, <1>2, <1>4, <2>2, <2>3
  <2>5. s.ok /\ Bare(s.doc) = h[k] /\ Back(M, d, ops, s)
    BY <1>6, <2>3
  <2>6. OpTo(op, h[k], v, M)
    BY <2>4, OwnFacts
  <2>7. s.doc \in Docs
    BY <2>4, OutcomeFacts
  <2>8. Fits(s.doc, op) /\ Touches(s.doc, op, M) /\ Bare(Applied(s.doc, op).doc) = v
    BY <2>4, <2>5, <2>6, <2>7, AppliedOwn
  <2>9. f[m].ok /\ f[m].doc = Applied(s.doc, op).doc /\ Back(M, d, ops, f[m])
    BY <1>a, <2>2, <2>3, <2>4, <2>5, <2>8, BackNext
  <2>10. Good(m)
    BY <2>3, <2>8, <2>9
  <2> HIDE DEF Good
  <2> QED BY <2>1, <2>2, <2>10
<1> HIDE DEF F
<1>7. 0 .. n \subseteq F
  BY <1>1, <1>5, <1>6, StepByStep
<1>8. n \in F
  BY <1>1, <1>7
<1>9. Good(n)
  BY <1>8 DEF F
<1> QED BY <1>2, <1>4, <1>9

(* An action of the user can be taken back: only its first op depends on   *)
(* the document.                                                           *)
Settled(op, M) == \A e : Touches(e, op, M)

(* All of its ops are in M.                                                *)
TouchesAll(d, ops, M) == \A k \in 1 .. Len(ops) : IF k = 1 THEN Touches(d, ops[k], M)
  ELSE Settled(ops[k], M)

(* Then its inverse leads back.                                            *)
LEMMA ApplyAllBack ==
  ASSUME NEW M, NEW d \in Docs, NEW ops \in Seq(Ops), TouchesAll(d, ops, M), ApplyAll(d, ops).ok
  PROVE  Back(M, d, ops, ApplyAll(d, ops))
<1> DEFINE n == Len(ops)
<1>1. n \in Nat /\ \A k \in 1 .. n : ops[k] \in Ops
  BY SeqFacts
<1>2. PICK f \in [0 .. n -> Outcomes] :
        /\ f[0] = [ok |-> TRUE, doc |-> d, inverse |-> <<>>] /\ ApplyAll(d, ops) = f[n]
        /\ \A k \in 1 .. n : f[k] = Applying(f[k - 1], ops[k])
  BY ApplyAllSteps
<1>a. \A k \in 1 .. n : k \in 1 .. Len(ops)
  OBVIOUS
<1>b. \A k \in 1 .. n : IF k = 1 THEN Touches(d, ops[k], M) ELSE Settled(ops[k], M)
  BY DEF TouchesAll
<1> HIDE DEF n
<1> DEFINE Good(k) == f[k].ok => Back(M, d, ops, f[k])
           F == {k \in 0 .. n : Good(k)}
<1>5. 0 \in F
  <2>1. Back(M, d, ops, f[0])
    BY <1>2, BackFirst
  <2> QED BY <1>1, <2>1
<1>6. ASSUME NEW k \in 0 .. n - 1, k \in F PROVE k + 1 \in F
  <2>1. PICK m : m = k + 1
    OBVIOUS
  <2>2. m \in 1 .. n /\ m - 1 = k /\ m \in 0 .. n /\ k \in 0 .. n /\ (m = 1 => k = 0)
    BY <1>1, <2>1
  <2>3. PICK op, s : op = ops[m] /\ s = f[k]
    OBVIOUS
  <2>4. op \in Ops /\ s \in Outcomes /\ f[m] = Applying(s, op)
    BY <1>1, <1>2, <2>2, <2>3
  <2>5. Good(m)
    <3> SUFFICES ASSUME f[m].ok PROVE Back(M, d, ops, f[m])
      OBVIOUS
    <3>1. s.ok /\ Fits(s.doc, op)
      <4>1. CASE ~(s.ok /\ Fits(s.doc, op))
        <5>1. f[m] = [s EXCEPT !.ok = FALSE]
          BY <2>4, <4>1 DEF Applying
        <5>2. ~f[m].ok
          BY <2>4, <5>1 DEF Outcomes
        <5> QED BY <5>2
      <4> QED BY <4>1
    <3>2. Back(M, d, ops, s)
      BY <1>6, <2>3, <3>1
    <3>3. Touches(s.doc, op, M)
      <4>1. CASE m = 1
        <5>1. s.doc = d
          BY <1>2, <2>2, <2>3, <4>1
        <5> QED BY <1>b, <2>2, <2>3, <4>1, <5>1
      <4>2. CASE m # 1
        <5>1. Settled(op, M)
          BY <1>b, <2>2, <2>3, <4>2
        <5> QED BY <5>1 DEF Settled
      <4> QED BY <4>1, <4>2
    <3> QED BY <1>a, <2>2, <2>3, <2>4, <3>1, <3>2, <3>3, BackNext
  <2> HIDE DEF Good
  <2> QED BY <2>1, <2>2, <2>5
<1> HIDE DEF F
<1>7. 0 .. n \subseteq F
  BY <1>1, <1>5, <1>6, StepByStep
<1>8. n \in F
  BY <1>1, <1>7
<1>9. Good(n)
  BY <1>8 DEF F
<1> QED BY <1>2, <1>9

(* What the peers did, as edits.                                           *)
TextOps == InsertOps \cup DeleteOps

(* One of their edits.                                                     *)
LEMMA AppliedEdit ==
  ASSUME NEW d \in Docs, NEW op \in TextOps, Fits(d, op)
  PROVE  TextOf(op) \in Real /\ Bare(Applied(d, op).doc) \in Peers[TextOf(op)][Bare(d)]
<1>0. op \in Ops /\ Bare(d) \in Texts /\ Bare(Applied(d, op).doc) \in Texts /\ TextOf(op) \in Real
  <2>1. op \in Ops /\ op.t \in {"insert", "delete"}
    BY DEF TextOps, Ops, InsertOps, DeleteOps
  <2>2. Applied(d, op).doc \in Docs
    BY <2>1, AppliedFacts
  <2> QED BY <2>1, <2>2, DocFacts, BareFacts, TextOfFacts DEF Cuts
<1>a. TextOf(op) \in Edits
  BY <1>0 DEF Real
<1>b. Texts \subseteq Texts /\ ByIds(Nat) = Items
  BY DEF ByIds, Items, Atoms
<1>1. CASE op.t = "insert"
  <2>1. op \in InsertOps
    BY <1>0, <1>1, OpsByKind
  <2>2. PICK at, c, n : at = op.at /\ c = op.content /\ n = Len(op.content)
    OBVIOUS
  <2>3. IsPut(Applied(d, op).doc, d, at, c, n) /\ at \in Nat /\ c \in Contents /\ n = Len(c)
    BY <2>1, <2>2, InsertedFacts
  <2>4. at < Len(Bare(d)) /\ Bare(Applied(d, op).doc) = With(Bare(d), at, Bare(c))
    BY <2>3, PutBare
  <2>5. c \in Seq(Atoms)
    BY <2>3 DEF Contents
  <2>6. Bare(c) \in Texts /\ Len(Bare(c)) = n
    BY <2>3, <2>5, BareFacts
  <2>7. TextOf(op).t = "insert" /\ TextOf(op).at = at /\ TextOf(op).len = n
    BY <1>1, <2>2 DEF TextOf, Inserted
  <2>8. PutsIn(TextOf(op), Bare(d), Bare(Applied(d, op).doc), Texts)
    BY <2>4, <2>6, <2>7 DEF PutsIn
  <2>9. EditTo(TextOf(op), Bare(d), Bare(Applied(d, op).doc), Texts, ByIds(Nat))
    BY <2>7, <2>8 DEF EditTo
  <2> QED BY <1>0, <1>a, <2>9, EditingFacts DEF Peers
<1>2. CASE op.t = "delete"
  <2>1. op \in DeleteOps
    BY <1>0, <1>2, OpsByKind
  <2>2. PICK at, n, c : at = op.at /\ n = op.len /\ c = Slice(d, op.at, op.at + op.len)
    OBVIOUS
  <2>3. IsCut(Applied(d, op).doc, d, at, n, c) /\ at \in Nat /\ n \in Nat \ {0}
    BY <2>1, <2>2, DeletedFacts
  <2>4. at + n < Len(Bare(d)) /\ Bare(Applied(d, op).doc) = Without(Bare(d), at, n)
    BY <2>3, CutBare
  <2>5. TextOf(op) = op
    BY <1>2 DEF TextOf
  <2>6. Scoped(Bare(d), at, n, ByIds(Nat))
    <3>1. \A i \in at + 2 .. at + n + 1 : i \in 1 .. Len(Bare(d))
      BY <1>0, <2>3, <2>4, TextFacts
    <3>2. \A i \in 1 .. Len(Bare(d)) : Bare(d)[i] \in Items
      BY <1>0, TextFacts
    <3> QED BY <1>b, <3>1, <3>2 DEF Scoped
  <2>7. EditTo(op, Bare(d), Bare(Applied(d, op).doc), Texts, ByIds(Nat))
    BY <1>2, <2>2, <2>4, <2>6 DEF EditTo, TakesOut
  <2> QED BY <1>0, <1>a, <2>5, <2>7, EditingFacts DEF Peers
<1>3. op.t \in {"insert", "delete"}
  BY DEF TextOps, InsertOps, DeleteOps
<1> QED BY <1>1, <1>2, <1>3

(* All of them.                                                            *)
LEMMA PeersLead ==
  ASSUME NEW d \in Docs, NEW ops \in Seq(TextOps), ApplyAll(d, ops).ok,
         NEW remote, remote = [i \in DOMAIN ops |-> TextOf(ops[i])]
  PROVE  /\ ApplyAll(d, ops).doc \in Docs /\ remote \in Seq(Real)
         /\ Leads(Peers, remote, Bare(d), Bare(ApplyAll(d, ops).doc))
<1> DEFINE n == Len(ops)
<1>a. TextOps \subseteq Ops
  BY DEF TextOps, Ops
<1>b. ops \in Seq(Ops)
  BY <1>a
<1>1. n \in Nat /\ DOMAIN ops = 1 .. n /\ \A k \in 1 .. n : ops[k] \in TextOps
  BY SeqFacts
<1>2. PICK f \in [0 .. n -> Outcomes] :
        /\ f[0] = [ok |-> TRUE, doc |-> d, inverse |-> <<>>] /\ ApplyAll(d, ops) = f[n]
        /\ \A k \in 1 .. n : f[k] = Applying(f[k - 1], ops[k])
  BY <1>b, ApplyAllSteps
<1> HIDE DEF n
<1>3. ASSUME NEW k \in 1 .. n, f[k].ok
      PROVE  /\ f[k - 1].ok /\ Fits(f[k - 1].doc, ops[k])
                 /\ f[k].doc = Applied(f[k - 1].doc, ops[k]).doc
  <2>1. k - 1 \in 0 .. n
    BY <1>1
  <2>2. PICK s, op : s = f[k - 1] /\ op = ops[k]
    OBVIOUS
  <2>3. s \in Outcomes /\ f[k] = Applying(s, op)
    BY <1>2, <2>1, <2>2
  <2>4. CASE s.ok /\ Fits(s.doc, op)
    <3>1. f[k].doc = Applied(s.doc, op).doc
      BY <2>3, <2>4 DEF Applying
    <3> QED BY <2>2, <2>4, <3>1
  <2>5. CASE ~(s.ok /\ Fits(s.doc, op))
    <3>1. f[k] = [s EXCEPT !.ok = FALSE]
      BY <2>3, <2>5 DEF Applying
    <3>2. ~f[k].ok
      BY <2>3, <3>1 DEF Outcomes
    <3> QED BY <1>3, <3>2
  <2> QED BY <2>4, <2>5
<1> DEFINE F == {k \in 0 .. n : f[n - k].ok}
<1>4. 0 \in F
  <2>1. n - 0 = n
    BY <1>1
  <2> QED BY <1>1, <1>2, <2>1
<1>5. ASSUME NEW k \in 0 .. n - 1, k \in F PROVE k + 1 \in F
  <2>1. PICK j : j = n - k
    OBVIOUS
  <2>2. j \in 1 .. n /\ j - 1 = n - (k + 1) /\ k + 1 \in 0 .. n
    BY <1>1, <2>1
  <2>3. f[j].ok
    BY <1>5, <2>1
  <2>4. f[j - 1].ok
    BY <1>3, <2>2, <2>3
  <2> QED BY <2>2, <2>4
<1>6. 0 .. n \subseteq F
  <2> HIDE DEF F
  <2> QED BY <1>1, <1>4, <1>5, StepByStep
<1>7. \A k \in 1 .. n : f[k].ok
  <2> SUFFICES ASSUME NEW k \in 1 .. n PROVE f[k].ok
    OBVIOUS
  <2>1. PICK j : j = n - k
    OBVIOUS
  <2>2. j \in 0 .. n /\ n - j = k
    BY <1>1, <2>1
  <2>3. j \in F
    BY <1>6, <2>2
  <2> QED BY <2>2, <2>3
<1>8. ASSUME NEW k \in 0 .. n PROVE f[k].doc \in Docs /\ Bare(f[k].doc) \in Texts
  <2>1. f[k] \in Outcomes
    BY <1>2
  <2>2. f[k].doc \in Docs
    BY <2>1, OutcomeFacts
  <2> QED BY <2>2, DocFacts, BareFacts
<1> DEFINE h == [k \in 0 .. n |-> Bare(f[k].doc)]
<1>9. h \in [0 .. n -> Texts] /\ \A k \in 0 .. n : h[k] = Bare(f[k].doc)
  BY <1>8
<1> HIDE DEF F, h
<1>10. ASSUME NEW k \in 1 .. n
       PROVE  TextOf(ops[k]) \in Real /\ h[k] \in Peers[TextOf(ops[k])][h[k - 1]]
  <2>1. k \in 0 .. n /\ k - 1 \in 0 .. n
    BY <1>1
  <2>2. Fits(f[k - 1].doc, ops[k]) /\ f[k].doc = Applied(f[k - 1].doc, ops[k]).doc
    BY <1>3, <1>7
  <2>3. TextOf(ops[k]) \in Real
          /\ Bare(Applied(f[k - 1].doc, ops[k]).doc) \in Peers[TextOf(ops[k])][Bare(f[k - 1].doc)]
    BY <1>1, <1>8, <2>1, <2>2, AppliedEdit
  <2> QED BY <1>9, <2>1, <2>2, <2>3
<1>11. remote = [i \in 1 .. n |-> TextOf(ops[i])]
  BY <1>1
<1>12. remote \in [1 .. n -> Real] /\ \A k \in 1 .. n : remote[k] = TextOf(ops[k])
  BY <1>10, <1>11
<1>13. remote \in Seq(Real) /\ Len(remote) = n
  BY <1>1, <1>12
<1>14. 0 \in 0 .. n /\ n \in 0 .. n
  BY <1>1
<1>15. h[0] = Bare(d) /\ h[n] = Bare(ApplyAll(d, ops).doc)
  BY <1>2, <1>9, <1>14
<1>16. Path(h, Peers, remote, Bare(d), Bare(ApplyAll(d, ops).doc))
  BY <1>9, <1>10, <1>12, <1>13, <1>15 DEF Path
<1> QED BY <1>2, <1>8, <1>13, <1>14, <1>16 DEF Leads

-----------------------------------------------------------------------------
(* 17. What stands                                                         *)

(* The places of what is not in M, and what is there, two by two in order. *)
Firm(s, M) == {i \in 1 .. Len(s) : s[i].id \notin M}
standing(s, M) == {<<s[q[1]], s[q[2]]>> : q \in {q \in Firm(s, M) \X Firm(s, M) : q[1] <= q[2]}}

(* A text found in another, in its order.                                  *)
FoundIn(f, s, t, M) ==
  /\ f \in [Firm(s, M) -> Firm(t, M)]
  /\ \A i \in Firm(s, M) : t[f[i]] = s[i]
  /\ \A i, j \in Firm(s, M) : i <= j => f[i] <= f[j]

(* What stands in a text stands in one it is found in.                     *)
LEMMA FoundStanding ==
  ASSUME NEW M, NEW s, NEW t, NEW f, FoundIn(f, s, t, M)
  PROVE  standing(s, M) \subseteq standing(t, M)
<1> SUFFICES ASSUME NEW x \in standing(s, M) PROVE x \in standing(t, M)
  OBVIOUS
<1>1. PICK q \in Firm(s, M) \X Firm(s, M) : q[1] <= q[2] /\ x = <<s[q[1]], s[q[2]]>>
  BY DEF standing
<1>2. PICK i, j, r : i = q[1] /\ j = q[2] /\ r = <<f[i], f[j]>>
  OBVIOUS
<1>3. i \in Firm(s, M) /\ j \in Firm(s, M) /\ i <= j /\ x = <<s[i], s[j]>>
  BY <1>1, <1>2
<1>4. f[i] \in Firm(t, M) /\ f[j] \in Firm(t, M) /\ f[i] <= f[j] /\ t[f[i]] = s[i] /\ t[f[j]] = s[j]
  BY <1>3 DEF FoundIn
<1>5. r \in Firm(t, M) \X Firm(t, M) /\ r[1] <= r[2] /\ x = <<t[r[1]], t[r[2]]>>
  BY <1>2, <1>3, <1>4
<1> QED BY <1>5 DEF standing

(* What is put in takes nothing from its place but what is in M.           *)
LEMMA PutStands ==
  ASSUME NEW M, NEW s \in Texts, NEW at \in Nat, at < Len(s), NEW c \in Texts,
         \A i \in 1 .. Len(c) : c[i].id \in M
  PROVE  standing(With(s, at, c), M) = standing(s, M)
<1>1. PICK t, m, n : t = With(s, at, c) /\ m = Len(c) /\ n = Len(s)
  OBVIOUS
<1>2. /\ m \in Nat /\ n \in Nat /\ at < n /\ Len(t) = n + m
      /\ \A i \in 1 .. n + m : t[i] = IF i <= at + 1 THEN s[i] ELSE IF i <= at + 1 + m
          THEN c[i - at - 1] ELSE s[i - m]
      /\ \A i \in 1 .. m : c[i].id \in M
  BY <1>1, WithFacts, TextFacts
<1> DEFINE f == [i \in Firm(s, M) |-> IF i <= at + 1 THEN i ELSE i + m]
           g == [i \in Firm(t, M) |-> IF i <= at + 1 THEN i ELSE i - m]
<1>3. FoundIn(f, s, t, M)
  <2>1. ASSUME NEW i \in Firm(s, M)
        PROVE  /\ f[i] = (IF i <= at + 1 THEN i ELSE i + m) /\ f[i] \in 1 .. n + m
               /\ t[f[i]] = s[i] /\ i \in 1 .. n /\ s[i].id \notin M
    <3>1. i \in 1 .. n /\ s[i].id \notin M /\ f[i] = (IF i <= at + 1 THEN i ELSE i + m)
      BY <1>1 DEF Firm
    <3> PICK j : j = f[i]
      OBVIOUS
    <3>2. j \in 1 .. n + m
      BY <1>2, <3>1
    <3>3. t[j] = s[i]
      <4>1. CASE i <= at + 1
        BY <1>2, <3>1, <3>2, <4>1
      <4>2. CASE i > at + 1
        <5>1. j = i + m /\ ~(j <= at + 1) /\ ~(j <= at + 1 + m) /\ j - m = i
          BY <1>2, <3>1, <4>2
        <5> QED BY <1>2, <3>2, <5>1
      <4> QED BY <1>2, <3>1, <4>1, <4>2
    <3> QED BY <3>1, <3>2, <3>3
  <2> HIDE DEF f
  <2>2. f \in [Firm(s, M) -> Firm(t, M)]
    <3>1. ASSUME NEW i \in Firm(s, M) PROVE f[i] \in Firm(t, M)
      <4>1. f[i] \in 1 .. n + m /\ t[f[i]].id \notin M
        BY <2>1
      <4> QED BY <1>2, <4>1 DEF Firm
    <3> QED BY <3>1 DEF f
  <2>3. \A i, j \in Firm(s, M) : i <= j => f[i] <= f[j]
    <3> TAKE i, j \in Firm(s, M)
    <3>1. /\ f[i] = (IF i <= at + 1 THEN i ELSE i + m) /\ f[j] = (IF j <= at + 1 THEN j ELSE j + m)
          /\ i \in 1 .. n /\ j \in 1 .. n
      BY <2>1
    <3> QED BY <1>2, <3>1
  <2> QED BY <2>1, <2>2, <2>3 DEF FoundIn
<1>4. FoundIn(g, t, s, M)
  <2>1. ASSUME NEW i \in Firm(t, M)
        PROVE  /\ g[i] = (IF i <= at + 1 THEN i ELSE i - m) /\ g[i] \in 1 .. n
               /\ s[g[i]] = t[i] /\ i \in 1 .. n + m /\ t[i].id \notin M
               /\ i > at + 1 => i > at + 1 + m
    <3>1. i \in 1 .. n + m /\ t[i].id \notin M /\ g[i] = (IF i <= at + 1 THEN i ELSE i - m)
      BY <1>2 DEF Firm
    <3> PICK j : j = g[i]
      OBVIOUS
    <3>2. i > at + 1 => i > at + 1 + m
      <4> SUFFICES ASSUME i > at + 1, i <= at + 1 + m PROVE FALSE
        BY <1>2, <3>1
      <4> PICK k : k = i - at - 1
        OBVIOUS
      <4>1. k \in 1 .. m /\ ~(i <= at + 1)
        BY <1>2, <3>1
      <4>2. t[i] = c[k] /\ c[k].id \in M
        BY <1>2, <3>1, <4>1
      <4> QED BY <3>1, <4>2
    <3>3. j \in 1 .. n
      BY <1>2, <3>1, <3>2
    <3>4. s[j] = t[i]
      BY <1>2, <3>1, <3>2
    <3> QED BY <3>1, <3>2, <3>3, <3>4
  <2> HIDE DEF g
  <2>2. g \in [Firm(t, M) -> Firm(s, M)]
    <3>1. ASSUME NEW i \in Firm(t, M) PROVE g[i] \in Firm(s, M)
      <4>1. g[i] \in 1 .. n /\ s[g[i]].id \notin M
        BY <2>1
      <4> QED BY <1>1, <4>1 DEF Firm
    <3> QED BY <3>1 DEF g
  <2>3. \A i, j \in Firm(t, M) : i <= j => g[i] <= g[j]
    <3> TAKE i, j \in Firm(t, M)
    <3>1. /\ g[i] = (IF i <= at + 1 THEN i ELSE i - m) /\ g[j] = (IF j <= at + 1 THEN j ELSE j - m)
          /\ i \in 1 .. n + m /\ j \in 1 .. n + m
          /\ i > at + 1 => i > at + 1 + m
          /\ j > at + 1 => j > at + 1 + m
      BY <2>1
    <3> QED BY <1>2, <3>1
  <2> QED BY <2>1, <2>2, <2>3 DEF FoundIn
<1> HIDE DEF f, g
<1>5. standing(s, M) \subseteq standing(t, M)
  BY <1>3, FoundStanding
<1>6. standing(t, M) \subseteq standing(s, M)
  BY <1>4, FoundStanding
<1> QED BY <1>1, <1>5, <1>6

(* Nor does what is taken out when all of it is in M.                      *)
LEMMA CutStands ==
  ASSUME NEW M, NEW s \in Texts, NEW at \in Nat, NEW n \in Nat, at + n < Len(s),
         Scoped(s, at, n, ByIds(M))
  PROVE  standing(Without(s, at, n), M) = standing(s, M)
<1>1. PICK t, c : t = Without(s, at, n) /\ c = Taken(s, at, n)
  OBVIOUS
<1>2. t \in Texts /\ c \in Texts /\ Len(c) = n /\ at < Len(t) /\ With(t, at, c) = s
  BY <1>1, TakenPut, WithoutFacts
<1>3. ASSUME NEW i \in 1 .. Len(c) PROVE c[i].id \in M
  <2> PICK j : j = i + at + 1
    OBVIOUS
  <2>1. i \in 1 .. n /\ j \in Int /\ at + 2 <= j /\ j <= at + n + 1
    BY <1>2
  <2>2. c[i] = s[j]
    BY <1>1, <2>1 DEF Taken
  <2>3. s[j] \in ByIds(M)
    BY <2>1, ScopedPlace
  <2> QED BY <2>2, <2>3 DEF ByIds
<1>4. standing(With(t, at, c), M) = standing(t, M)
  BY <1>2, <1>3, PutStands
<1> QED BY <1>1, <1>2, <1>4

(* Nor does a mark.                                                        *)
LEMMA OnStands ==
  ASSUME NEW M, NEW s \in Texts, NEW P, NEW l \in Looks, Paints(s, P, M)
  PROVE  standing(On(s, P, l), M) = standing(s, M)
<1>1. PICK t : t = On(s, P, l)
  OBVIOUS
<1>2. t \in Texts /\ Len(t) = Len(s) /\ \A i \in 1 .. Len(s) : t[i] = IF i \in P
        THEN Look(s[i], l) ELSE s[i]
  BY <1>1, OnFacts
<1>3. ASSUME NEW i \in 1 .. Len(s) PROVE t[i].id = s[i].id /\ (s[i].id \notin M => t[i] = s[i])
  <2>1. CASE i \in P
    <3>1. s[i] \in Letters(M)
      BY <2>1 DEF Paints
    <3> PICK a : a = s[i]
      OBVIOUS
    <3>2. t[i] = Look(a, l)
      BY <1>2, <2>1
    <3>3. t[i].id = a.id
      BY <3>2 DEF Look
    <3> QED BY <3>1, <3>3 DEF Letters
  <2> QED BY <1>2, <2>1
<1>4. Firm(t, M) = Firm(s, M)
  BY <1>2, <1>3 DEF Firm
<1>5. ASSUME NEW i \in Firm(s, M) PROVE t[i] = s[i] /\ i \in Int
  BY <1>3 DEF Firm
<1> PICK f : f = [i \in Firm(s, M) |-> i]
  OBVIOUS
<1>6. FoundIn(f, s, t, M) /\ FoundIn(f, t, s, M)
  BY <1>4, <1>5 DEF FoundIn
<1> QED BY <1>1, <1>6, FoundStanding

(* What is not in M stands, whatever the ops of M do.                      *)
LEMMA OpStands ==
  ASSUME NEW M, NEW op \in Ops, NEW s \in Texts, NEW t \in Texts, OpTo(op, s, t, M)
  PROVE  standing(t, M) = standing(s, M)
<1>1. CASE op.t = "insert"
  <2>1. op.at \in Nat /\ op.content \in Contents
    BY <1>1, OpsByKind
  <2>2. op.at < Len(s) /\ Ids(op.content) \subseteq M /\ t = With(s, op.at, Bare(op.content))
    BY <1>1 DEF OpTo
  <2> PICK c, b, at : c = op.content /\ b = Bare(c) /\ at = op.at
    OBVIOUS
  <2>3. c \in Seq(Atoms)
    BY <2>1 DEF Contents
  <2>4. b \in Texts /\ Len(b) = Len(c) /\ \A i \in 1 .. Len(c) : b[i].id = c[i].id
    BY <2>3, BareFacts
  <2>5. \A i \in 1 .. Len(b) : b[i].id \in M
    BY <2>2, <2>3, <2>4, SeqFacts DEF Ids
  <2>6. at \in Nat /\ at < Len(s) /\ t = With(s, at, b)
    BY <2>1, <2>2
  <2> QED BY <2>4, <2>5, <2>6, PutStands
<1>2. CASE op.t = "delete"
  <2>1. op.at \in Nat /\ op.len \in Nat
    BY <1>2, OpsByKind
  <2>2. TakesOut(op, s, t, ByIds(M))
    BY <1>2 DEF OpTo
  <2> QED BY <2>1, <2>2, CutStands DEF TakesOut
<1>3. CASE op.t = "mark"
  <2>1. op.look \in Looks
    BY <1>3, OpsByKind
  <2>2. PICK P : P = op.from + 2 .. op.to + 1
    OBVIOUS
  <2>3. Paints(s, P, M) /\ t = On(s, P, op.look)
    BY <1>3, <2>2 DEF OpTo
  <2> QED BY <2>1, <2>3, OnStands
<1>4. CASE op.t = "restyle"
  BY <1>4 DEF OpTo
<1> QED BY <1>1, <1>2, <1>3, <1>4, OpsByKind

(* Nor does a list of ops.                                                 *)
LEMMA OpsStand ==
  ASSUME NEW M, NEW ops \in Seq(Ops), NEW s \in Texts, NEW t \in Texts, Leads(own(M), ops, s, t)
  PROVE  standing(t, M) = standing(s, M)
<1> DEFINE n == Len(ops)
<1>1. n \in Nat /\ \A k \in 1 .. n : ops[k] \in Ops
  BY SeqFacts
<1>2. PICK h : Path(h, own(M), ops, s, t)
  BY DEF Leads
<1>3. /\ h \in [0 .. n -> Texts] /\ h[0] = s /\ h[n] = t
      /\ \A k \in 1 .. n : h[k] \in own(M)[ops[k]][h[k - 1]]
  BY <1>2 DEF Path
<1> HIDE DEF n
<1> DEFINE F == {k \in 0 .. n : standing(h[k], M) = standing(s, M)}
<1>4. 0 \in F
  BY <1>1, <1>3
<1>5. ASSUME NEW k \in 0 .. n - 1, k \in F PROVE k + 1 \in F
  <2>1. PICK m : m = k + 1
    OBVIOUS
  <2>2. m \in 1 .. n /\ m - 1 = k /\ m \in 0 .. n /\ k \in 0 .. n
    BY <1>1, <2>1
  <2>3. PICK op, u, v : op = ops[m] /\ u = h[k] /\ v = h[m]
    OBVIOUS
  <2>4. op \in Ops /\ u \in Texts /\ v \in Texts /\ v \in own(M)[op][u]
    BY <1>1, <1>3, <2>2, <2>3
  <2>5. standing(v, M) = standing(u, M)
    BY <2>4, OwnFacts, OpStands
  <2>6. standing(u, M) = standing(s, M)
    BY <1>5, <2>3
  <2> QED BY <2>1, <2>2, <2>3, <2>5, <2>6
<1> HIDE DEF F
<1>6. 0 .. n \subseteq F
  BY <1>1, <1>4, <1>5, StepByStep
<1>7. n \in F
  BY <1>1, <1>6
<1> QED BY <1>3, <1>7 DEF F

-----------------------------------------------------------------------------
(* 18. Stacks that lead somewhere: a step pushed and a step taken          *)

(* What is done in M is done in more.                                      *)
LEMMA OpToMore ==
  ASSUME NEW M, NEW N, M \subseteq N, NEW op, NEW s \in Texts, NEW t, OpTo(op, s, t, M)
  PROVE  OpTo(op, s, t, N)
<1>1. CASE op.t = "insert" /\ op.at < Len(s) /\ Ids(op.content) \subseteq M
             /\ t = With(s, op.at, Bare(op.content))
  <2>1. Ids(op.content) \subseteq N
    BY <1>1
  <2> QED BY <1>1, <2>1 DEF OpTo
<1>2. CASE op.t = "delete" /\ TakesOut(op, s, t, ByIds(M))
  <2>1. TakesOut(op, s, t, ByIds(N))
    <3>1. ByIds(M) \subseteq ByIds(N)
      BY DEF ByIds
    <3> QED BY <1>2, <3>1 DEF TakesOut, Scoped
  <2> QED BY <1>2, <2>1 DEF OpTo
<1>3. CASE op.t = "mark" /\ Paints(s, op.from + 2 .. op.to + 1, M)
             /\ t = On(s, op.from + 2 .. op.to + 1, op.look)
  <2> PICK P : P = op.from + 2 .. op.to + 1
    OBVIOUS
  <2>1. Paints(s, P, M) /\ op.t = "mark" /\ t = On(s, P, op.look)
    BY <1>3
  <2>2. Paints(s, P, N)
    <3>1. Letters(M) \subseteq Letters(N)
      BY DEF Letters
    <3> QED BY <2>1, <3>1 DEF Paints
  <2> QED BY <2>1, <2>2 DEF OpTo
<1>4. CASE op.t = "restyle" /\ op.at < Len(s) /\ t = s
  BY <1>4 DEF OpTo
<1> QED BY <1>1, <1>2, <1>3, <1>4 DEF OpTo

(* So does a list of ops.                                                  *)
LEMMA OwnMore ==
  ASSUME NEW M, NEW N, M \subseteq N, NEW ops \in Seq(Ops), NEW s, NEW t, Leads(own(M), ops, s, t)
  PROVE  Leads(own(N), ops, s, t)
<1>1. ASSUME NEW x \in Ops, NEW u \in Texts PROVE own(M)[x][u] \subseteq own(N)[x][u]
  <2> SUFFICES ASSUME NEW v \in own(M)[x][u] PROVE v \in own(N)[x][u]
    OBVIOUS
  <2>1. v \in Texts
    BY DEF own
  <2>2. OpTo(x, u, v, M)
    BY <2>1, OwnFacts
  <2>3. OpTo(x, u, v, N)
    BY <2>2, OpToMore
  <2> QED BY <2>1, <2>3, OwnFacts
<1> PICK a, b : a = own(M) /\ b = own(N)
  OBVIOUS
<1>2. \A x \in Ops : \A u \in Texts : a[x][u] \subseteq b[x][u]
  BY <1>1
<1>3. Leads(a, ops, s, t)
  OBVIOUS
<1>4. Leads(b, ops, s, t)
  BY <1>2, <1>3, LeadsMore
<1> QED BY <1>4

(* The relation by its definition.                                         *)
LEMMA ChainFacts ==
  ASSUME NEW M, NEW ops \in Seq(Ops), NEW u \in Texts, NEW s \in Texts
  PROVE  s \in chain(M)[ops][u] <=> Pure(ops) /\ Leads(own(M), ops, s, u)
BY DEF chain

(* So do the steps of a stack.                                             *)
LEMMA ChainMore ==
  ASSUME NEW M, NEW N, M \subseteq N, NEW steps \in Stacks, NEW t, NEW s,
         Leads(chain(M), steps, t, s)
  PROVE  Leads(chain(N), steps, t, s)
<1>1. ASSUME NEW x \in Seq(Ops), NEW u \in Texts PROVE chain(M)[x][u] \subseteq chain(N)[x][u]
  <2> SUFFICES ASSUME NEW v \in chain(M)[x][u] PROVE v \in chain(N)[x][u]
    OBVIOUS
  <2>1. v \in Texts
    BY DEF chain
  <2>2. Pure(x) /\ Leads(own(M), x, v, u)
    BY <2>1, ChainFacts
  <2>3. Leads(own(N), x, v, u)
    BY <2>2, OwnMore
  <2> QED BY <2>1, <2>2, <2>3, ChainFacts
<1> PICK a, b, X : a = chain(M) /\ b = chain(N) /\ X = Seq(Ops)
  OBVIOUS
<1>2. \A x \in X : \A u \in Texts : a[x][u] \subseteq b[x][u]
  BY <1>1
<1>3. Leads(a, steps, t, s) /\ steps \in Seq(X)
  BY DEF Stacks
<1>4. Leads(b, steps, t, s)
  BY <1>2, <1>3, LeadsMore
<1> QED BY <1>4

(* A step on top of a stack, and the top step off it.                      *)
LEMMA ChainPushed ==
  ASSUME NEW M, NEW steps \in Stacks, NEW ops \in Seq(Ops), Pure(ops), NEW t, NEW s \in Texts,
         NEW u \in Texts,
         Leads(chain(M), steps, t, s), Leads(own(M), ops, u, s)
  PROVE  Append(steps, ops) \in Stacks /\ Leads(chain(M), Append(steps, ops), t, u)
<1> PICK X, q, c : X = Seq(Ops) /\ q = <<ops>> /\ c = chain(M)
  OBVIOUS
<1>1. steps \in Seq(X) /\ q \in Seq(X) /\ ops \in X
  BY DEF Stacks
<1>2. Append(steps, ops) = steps \o q
  BY <1>1, OneAppended
<1>3. u \in chain(M)[ops][s]
  BY ChainFacts
<1>4. Leads(c, q, s, u)
  <2>1. Leads(c, <<ops>>, s, u) <=> u \in c[ops][s]
    BY LeadsOne
  <2> QED BY <1>3, <2>1
<1>5. Leads(c, steps, t, s)
  OBVIOUS
<1>6. Leads(c, steps \o q, t, u)
  BY <1>1, <1>4, <1>5, LeadsJoin
<1>7. Append(steps, ops) \in Seq(X)
  BY <1>1
<1> QED BY <1>2, <1>6, <1>7 DEF Stacks

(* Sequences that agree at every place are the same.                       *)
LEMMA SameSeq ==
  ASSUME NEW S, NEW a \in Seq(S), NEW b \in Seq(S), Len(a) = Len(b), \A i \in 1 .. Len(a) : a[i] =
         b[i]
  PROVE  a = b
<1>1. a = [i \in 1 .. Len(a) |-> a[i]] /\ b = [i \in 1 .. Len(b) |-> b[i]]
  OBVIOUS
<1> QED BY <1>1

(* A stack and its top step.                                               *)
LEMMA FrontAndLast ==
  ASSUME NEW steps \in Stacks, steps # <<>>
  PROVE  /\ Front(steps) \in Stacks /\ Last(steps) \in Seq(Ops)
             /\ steps = Append(Front(steps), Last(steps))
         /\ \A top \in Seq(Ops) : [steps EXCEPT ![Len(steps)] = top] = Append(Front(steps), top)
         /\ Last(steps) = steps[Len(steps)] /\ Len(steps) \in Nat \ {0}
<1> PICK X : X = Seq(Ops)
  OBVIOUS
<1>1. steps \in Seq(X)
  BY DEF Stacks
<1>2. Front(steps) \in Stacks /\ Last(steps) \in X
  BY PoppedFacts
<1>3. Len(steps) \in Nat \ {0} /\ Last(steps) = steps[Len(steps)]
  <2>1. Len(steps) \in Nat /\ Len(steps) # 0
    BY <1>1
  <2> QED BY <2>1 DEF Last
<1> PICK n, f, l : n = Len(steps) /\ f = Front(steps) /\ l = Last(steps)
  OBVIOUS
<1>4. f = SubSeq(steps, 1, n - 1)
  BY DEF Front
<1>5. f \in Seq(X) /\ Len(f) = n - 1 /\ \A i \in 1 .. n - 1 : f[i] = steps[i]
  BY <1>1, <1>3, <1>4
<1>6. steps = Append(f, l)
  BY <1>1, <1>2, <1>3, <1>5
<1>7. ASSUME NEW top \in X PROVE [steps EXCEPT ![n] = top] = Append(f, top)
  <2> PICK a, b : a = [steps EXCEPT ![n] = top] /\ b = Append(f, top)
    OBVIOUS
  <2>1. DOMAIN steps = 1 .. n /\ n \in 1 .. n
    BY <1>1, <1>3
  <2>2. a \in Seq(X) /\ Len(a) = n /\ \A i \in 1 .. n : a[i] = IF i = n THEN top ELSE steps[i]
    BY <1>1, <1>3, <2>1
  <2>3. b \in Seq(X) /\ Len(b) = n /\ \A i \in 1 .. n : b[i] = IF i = n THEN top ELSE f[i]
    <3>1. b \in Seq(X) /\ Len(b) = n
      BY <1>3, <1>5
    <3> QED BY <1>3, <1>5, <3>1
  <2>4. a = b
    <3>1. \A i \in 1 .. n : i # n => i \in 1 .. n - 1
      BY <1>3
    <3>2. \A i \in 1 .. n : a[i] = b[i]
      BY <1>5, <2>2, <2>3, <3>1
    <3> QED BY <2>2, <2>3, <3>2, SameSeq
  <2> QED BY <2>4
<1> QED BY <1>2, <1>3, <1>6, <1>7

(* What the top step leads to, the others lead on from.                    *)
LEMMA ChainPopped ==
  ASSUME NEW M, NEW steps \in Stacks, steps # <<>>, NEW t, NEW s \in Texts,
         Leads(chain(M), steps, t, s)
  PROVE  \E u \in Texts : /\ Leads(chain(M), Front(steps), t, u)
                          /\ Pure(Last(steps)) /\ Leads(own(M), Last(steps), s, u)
<1> PICK X, f, l, q, c : X = Seq(Ops) /\ f = Front(steps) /\ l = Last(steps) /\ q = <<l>>
      /\ c = chain(M)
  OBVIOUS
<1>1. f \in Seq(X) /\ l \in X /\ steps = Append(f, l)
  BY FrontAndLast DEF Stacks
<1>2. q \in Seq(X) /\ steps = f \o q
  BY <1>1, OneAppended
<1>3. Leads(c, f \o q, t, s)
  BY <1>2
<1>4. PICK u \in Texts : Leads(c, f, t, u) /\ Leads(c, q, u, s)
  BY <1>1, <1>2, <1>3, LeadsSplit
<1>5. s \in c[l][u]
  <2>1. Leads(c, <<l>>, u, s) <=> s \in c[l][u]
    BY LeadsOne
  <2> QED BY <1>4, <2>1
<1>6. Pure(l) /\ Leads(own(M), l, s, u)
  BY <1>1, <1>5, ChainFacts
<1> QED BY <1>4, <1>6

(* One delete after another at its end: as one.                            *)
LEMMA WithoutNext ==
  ASSUME NEW s \in Texts, NEW p \in Nat, NEW m \in Nat, NEW n \in Nat, p + m + n < Len(s), NEW D,
         Scoped(s, p + m, n, D), Scoped(Without(s, p + m, n), p, m, D)
  PROVE  /\ Without(Without(s, p + m, n), p, m) = Without(s, p, m + n)
         /\ Scoped(s, p, m + n, D)
<1> PICK q, k, len : q = p + m /\ k = m + n /\ len = Len(s)
  OBVIOUS
<1>0. q \in Nat /\ k \in Nat /\ len \in Nat /\ q + n < len /\ p + k < len /\ q = p + m /\ k = m + n
  BY TextFacts
<1>1. PICK t : t = Without(s, q, n)
  OBVIOUS
<1>2. /\ t \in Texts /\ Len(t) = len - n
      /\ \A i \in 1 .. len - n : t[i] = IF i <= q + 1 THEN s[i] ELSE s[i + n]
  BY <1>0, <1>1, WithoutFacts
<1>3. p + m < Len(t)
  BY <1>0, <1>2
<1>4. PICK u : u = Without(t, p, m)
  OBVIOUS
<1>5. /\ u \in Texts /\ Len(u) = Len(t) - m
      /\ \A i \in 1 .. Len(t) - m : u[i] = IF i <= p + 1 THEN t[i] ELSE t[i + m]
  BY <1>2, <1>3, <1>4, WithoutFacts
<1>6. PICK v : v = Without(s, p, k)
  OBVIOUS
<1>7. /\ v \in Texts /\ Len(v) = len - k
      /\ \A i \in 1 .. len - k : v[i] = IF i <= p + 1 THEN s[i] ELSE s[i + k]
  BY <1>0, <1>6, WithoutFacts
<1>8. Len(u) = Len(v)
  BY <1>0, <1>2, <1>5, <1>7
<1>9. ASSUME NEW i \in 1 .. Len(u) PROVE u[i] = v[i]
  <2>1. i \in 1 .. len - k /\ i \in 1 .. Len(t) - m
    BY <1>0, <1>2, <1>5
  <2>2. CASE i <= p + 1
    <3>1. i \in 1 .. len - n /\ i <= q + 1
      BY <1>0, <2>1, <2>2
    <3> QED BY <1>2, <1>5, <1>7, <2>1, <2>2, <3>1
  <2>3. CASE ~(i <= p + 1)
    <3> PICK j, l : j = i + m /\ l = j + n
      OBVIOUS
    <3>1. j \in 1 .. len - n /\ ~(j <= q + 1) /\ i + k = l
      BY <1>0, <2>1, <2>3
    <3>2. u[i] = t[j] /\ t[j] = s[l] /\ v[i] = s[l]
      BY <1>2, <1>5, <1>7, <2>1, <2>3, <3>1
    <3> QED BY <3>2
  <2> QED BY <2>2, <2>3
<1>10. u = v
  BY <1>5, <1>7, <1>8, <1>9, SameText
<1>11. Scoped(s, p, k, D)
  <2> SUFFICES ASSUME NEW i \in p + 2 .. p + k + 1 PROVE s[i] \in D
    BY DEF Scoped
  <2>1. CASE i <= q + 1
    <3>1. i \in Int /\ p + 2 <= i /\ i <= p + m + 1 /\ i \in 1 .. len - n
      BY <1>0, <2>1
    <3>2. Scoped(t, p, m, D)
      BY <1>0, <1>1
    <3>3. t[i] \in D
      BY <3>1, <3>2, ScopedPlace
    <3> QED BY <1>2, <2>1, <3>1, <3>3
  <2>2. CASE ~(i <= q + 1)
    <3>1. i \in Int /\ q + 2 <= i /\ i <= q + n + 1
      BY <1>0, <2>2
    <3>2. Scoped(s, q, n, D)
      BY <1>0
    <3> QED BY <1>0, <3>1, <3>2, ScopedPlace
  <2> QED BY <2>1, <2>2
<1>12. Without(Without(s, p + m, n), p, m) = u /\ Without(s, p, m + n) = v
  BY <1>0, <1>1, <1>4, <1>6
<1> QED BY <1>0, <1>10, <1>11, <1>12

-----------------------------------------------------------------------------
(* 19. The invariant                                                       *)

(* What a delete leads to.                                                 *)
DeleteTo(op, s, t, M) ==
  /\ op.at \in Nat /\ op.len \in Nat \ {0} /\ op = Delete(op.at, op.len)
  /\ op.at + op.len < Len(s) /\ Scoped(s, op.at, op.len, ByIds(M)) /\ t = Without(s, op.at, op.len)

(* What a step of one delete leads to.                                     *)
LEMMA OneDelete ==
  ASSUME NEW M, NEW ops \in Seq(Ops), Len(ops) = 1, ops[1].t = "delete", NEW s \in Texts,
         NEW t \in Texts,
         Leads(own(M), ops, s, t)
  PROVE  DeleteTo(ops[1], s, t, M)
<1> PICK op, o : op = ops[1] /\ o = own(M)
  OBVIOUS
<1>1. ops = <<op>> /\ op \in Ops
  BY Singleton
<1>2. op.at \in Nat /\ op.len \in Nat \ {0} /\ op \in DeleteOps
  BY <1>1, OpsByKind
<1>3. Leads(o, <<op>>, s, t)
  BY <1>1
<1>4. t \in o[op][s]
  BY <1>3, LeadsOne
<1>5. OpTo(op, s, t, M)
  BY <1>1, <1>4, OwnFacts
<1>6. op = Delete(op.at, op.len)
  BY <1>2 DEF DeleteOps, Delete
<1>7. TakesOut(op, s, t, ByIds(M))
  BY <1>5 DEF OpTo
<1> QED BY <1>2, <1>6, <1>7 DEF DeleteTo, TakesOut

(* A word taken back as one.                                               *)
LEMMA ChainCoalesced ==
  ASSUME NEW M, NEW steps \in Stacks, steps # <<>>, NEW next \in Seq(Ops),
         Coalesces(Last(steps), next),
         NEW t, NEW s \in Texts, NEW v \in Texts, Leads(chain(M), steps, t, s),
         Leads(own(M), next, v, s)
  PROVE  Leads(chain(M), [steps EXCEPT ![Len(steps)][1].len = @ + next[1].len], t, v)
<1>1. PICK n, l, f, x, y : n = Len(steps) /\ l = Last(steps) /\ f = Front(steps) /\ x = l[1]
        /\ y = next[1]
  OBVIOUS
<1>2. /\ f \in Stacks /\ l \in Seq(Ops) /\ l = steps[n] /\ n \in Nat \ {0}
      /\ \A top \in Seq(Ops) : [steps EXCEPT ![n] = top] = Append(f, top)
  BY <1>1, FrontAndLast
<1>3. Len(l) = 1 /\ Len(next) = 1 /\ x.t = "delete" /\ y.t = "delete" /\ x.at + x.len = y.at
  BY <1>1 DEF Coalesces
<1>4. PICK u \in Texts : Leads(chain(M), f, t, u) /\ Pure(l) /\ Leads(own(M), l, s, u)
  BY <1>1, ChainPopped
<1>5. DeleteTo(l[1], s, u, M)
  BY <1>1, <1>2, <1>3, <1>4, OneDelete
<1>6. DeleteTo(next[1], v, s, M)
  BY <1>1, <1>3, OneDelete
<1> PICK p, m, k : p = x.at /\ m = x.len /\ k = y.len
  OBVIOUS
<1>7. /\ p \in Nat /\ m \in Nat \ {0} /\ x = Delete(p, m)
      /\ p + m < Len(s) /\ Scoped(s, p, m, ByIds(M)) /\ u = Without(s, p, m)
  BY <1>1, <1>5 DEF DeleteTo
<1>8. y.at = p + m
  BY <1>3
<1>9. /\ k \in Nat \ {0}
      /\ p + m + k < Len(v) /\ Scoped(v, p + m, k, ByIds(M)) /\ s = Without(v, p + m, k)
  BY <1>1, <1>6, <1>8 DEF DeleteTo
<1> PICK D, z : D = ByIds(M) /\ z = m + k
  OBVIOUS
<1>10. Scoped(v, p + m, k, D) /\ Scoped(Without(v, p + m, k), p, m, D)
  BY <1>7, <1>9
<1>11. m \in Nat /\ k \in Nat
  BY <1>7, <1>9
<1>12. Without(Without(v, p + m, k), p, m) = Without(v, p, m + k) /\ Scoped(v, p, m + k, D)
  BY <1>7, <1>9, <1>10, <1>11, WithoutNext
<1>13. u = Without(v, p, z) /\ Scoped(v, p, z, ByIds(M)) /\ z \in Nat \ {0} /\ p + z < Len(v)
  <2>1. u = Without(v, p, z) /\ Scoped(v, p, z, ByIds(M))
    BY <1>7, <1>9, <1>12
  <2>2. z \in Nat \ {0} /\ p + z = p + m + k
    <3>1. p \in Nat /\ m \in Nat \ {0} /\ k \in Nat \ {0}
      BY <1>7, <1>9
    <3> QED BY <3>1
  <2>3. p + z < Len(v)
    BY <1>9, <2>2
  <2> QED BY <2>1, <2>2, <2>3
<1> PICK e, top, o : e = Delete(p, z) /\ top = <<e>> /\ o = own(M)
  OBVIOUS
<1>14. e \in DeleteOps /\ e \in Ops /\ e.t = "delete" /\ e.at = p /\ e.len = z
  BY <1>7, <1>13 DEF Delete, DeleteOps, Ops
<1>15. OpTo(e, v, u, M)
  BY <1>13, <1>14 DEF OpTo, TakesOut
<1>16. Leads(own(M), top, v, u)
  <2>1. u \in o[e][v]
    BY <1>14, <1>15, OwnFacts
  <2>2. Leads(o, <<e>>, v, u)
    BY <2>1, LeadsOne
  <2> QED BY <2>2
<1>17. top \in Seq(Ops) /\ Pure(top)
  BY <1>14 DEF Pure, OtherOps
<1>18. Leads(chain(M), Append(f, top), t, v)
  BY <1>2, <1>4, <1>16, <1>17, ChainPushed
<1>19. [steps EXCEPT ![Len(steps)][1].len = @ + next[1].len] = Append(f, top)
  <2>1. l = <<x>>
    BY <1>1, <1>2, <1>3, Singleton
  <2>2. [l EXCEPT ![1].len = @ + k] = top
    <3>1. [x EXCEPT !.len = @ + k] = e
      BY <1>7 DEF Delete
    <3> QED BY <2>1, <3>1
  <2>3. n \in DOMAIN steps
    BY <1>1, <1>2, StackFacts
  <2>4. [steps EXCEPT ![n][1].len = @ + k] = [steps EXCEPT ![n] = top]
    BY <1>2, <2>2, <2>3
  <2> QED BY <1>1, <1>2, <1>17, <2>4
<1> QED BY <1>18, <1>19

-----------------------------------------------------------------------------
(* The stacks of a document lead somewhere.                                *)
Chained(M, steps, d) == \E t : Leads(chain(M), steps, t, Bare(d))

(* The invariant: both stacks fit the document, each step where the ones   *)
(* above it led, and touch only what is the user's.                        *)
OInv == IInv /\ Chained(mine, undo, doc) /\ Chained(mine, redo, doc)

(* An empty stack fits.                                                    *)
LEMMA ChainedNone ==
  ASSUME NEW M, NEW d \in Docs
  PROVE  Chained(M, <<>>, d)
<1>1. Bare(d) \in Texts
  BY DocFacts, BareFacts
<1>2. Leads(chain(M), <<>>, Bare(d), Bare(d))
  BY <1>1, LeadsNone
<1> QED BY <1>2 DEF Chained

(* So it does when more is the user's.                                     *)
LEMMA ChainedMore ==
  ASSUME NEW M, NEW N, M \subseteq N, NEW steps \in Stacks, NEW d, Chained(M, steps, d)
  PROVE  Chained(N, steps, d)
<1>1. PICK t : Leads(chain(M), steps, t, Bare(d))
  BY DEF Chained
<1>2. Leads(chain(N), steps, t, Bare(d))
  BY <1>1, ChainMore
<1> QED BY <1>2 DEF Chained

(* One action of the user: its inverse leads back.                         *)
LEMMA DoesOwn ==
  ASSUME OInv, NEW ops \in Seq(Ops), Pure(ops), NEW typing \in BOOLEAN, NEW atoms,
         Does(ops, typing, atoms),
         NEW M, M = mine \cup atoms, TouchesAll(doc, ops, M), IInv'
  PROVE  OInv'
<1>1. IInv /\ Chained(mine, undo, doc) /\ Chained(mine, redo, doc)
  BY DEF OInv
<1>2. doc \in Docs /\ undo \in Stacks
  BY <1>1 DEF IInv, Apart
<1> PICK done : done = ApplyAll(doc, ops)
  OBVIOUS
<1> PICK e, v : e = done.doc /\ v = done.inverse
  OBVIOUS
<1>3. /\ done.ok /\ doc' = e /\ mine' = M /\ redo' = <<>>
      /\ undo' = IF typing /\ word /\ undo # <<>> /\ Coalesces(Last(undo), v)
                 THEN [undo EXCEPT ![Len(undo)][1].len = @ + v[1].len]
                 ELSE Append(undo, v)
  BY DEF Does, Push
<1>4. done \in Outcomes
  BY <1>2, ApplyAllFacts
<1>5. e \in Docs /\ v \in Seq(Ops)
  BY <1>4, OutcomeFacts
<1>6. Back(M, doc, ops, done)
  <2>1. ApplyAll(doc, ops).ok
    BY <1>3
  <2>2. Back(M, doc, ops, ApplyAll(doc, ops))
    BY <1>2, <2>1, ApplyAllBack
  <2> QED BY <2>2
<1>7. Keeps(ops, v) /\ Leads(own(M), v, Bare(e), Bare(doc))
  BY <1>6 DEF Back
<1>8. Pure(v)
  BY <1>7 DEF Pure, Keeps
<1>9. Bare(doc) \in Texts /\ Bare(e) \in Texts
  BY <1>2, <1>5, DocFacts, BareFacts
<1>10. PICK t : Leads(chain(M), undo, t, Bare(doc))
  <2>1. Chained(M, undo, doc)
    BY <1>1, <1>2, ChainedMore
  <2> QED BY <2>1 DEF Chained
<1>11. Leads(chain(M), undo', t, Bare(e))
  <2> PICK s, r : s = Bare(doc) /\ r = Bare(e)
    OBVIOUS
  <2>0. s \in Texts /\ r \in Texts /\ Leads(chain(M), undo, t, s) /\ Leads(own(M), v, r, s)
    BY <1>7, <1>9, <1>10
  <2>1. CASE typing /\ word /\ undo # <<>> /\ Coalesces(Last(undo), v)
    <3>1. Leads(chain(M), [undo EXCEPT ![Len(undo)][1].len = @ + v[1].len], t, r)
      BY <1>2, <1>5, <2>0, <2>1, ChainCoalesced
    <3> QED BY <1>3, <2>1, <3>1
  <2>2. CASE ~(typing /\ word /\ undo # <<>> /\ Coalesces(Last(undo), v))
    <3>1. Leads(chain(M), Append(undo, v), t, r)
      BY <1>2, <1>5, <1>8, <2>0, ChainPushed
    <3> QED BY <1>3, <2>2, <3>1
  <2> QED BY <2>1, <2>2
<1>12. Chained(M, undo', e)
  BY <1>11 DEF Chained
<1>13. Chained(M, <<>>, e)
  BY <1>5, ChainedNone
<1>14. Chained(mine', undo', doc') /\ Chained(mine', redo', doc')
  BY <1>3, <1>12, <1>13
<1> QED BY <1>14 DEF OInv

-----------------------------------------------------------------------------
(* 20. The actions of the user                                             *)

(* An action of one op.                                                    *)
LEMMA OneDone ==
  ASSUME OInv, NEW op \in Ops, NEW typing \in BOOLEAN, NEW atoms, Does(<<op>>, typing, atoms),
         Touches(doc, op, mine \cup atoms), IInv'
  PROVE  OInv'
<1> PICK ops, M : ops = <<op>> /\ M = mine \cup atoms
  OBVIOUS
<1>1. ops \in Seq(Ops) /\ Len(ops) = 1 /\ ops[1] = op
  OBVIOUS
<1>2. Pure(ops)
  <2>1. op \in MarkOps \/ op \in OtherOps
    BY DEF Ops, OtherOps
  <2>2. op \in MarkOps => ops \in Seq(MarkOps)
    OBVIOUS
  <2>3. op \in OtherOps => ops \in Seq(OtherOps)
    OBVIOUS
  <2> QED BY <2>1, <2>2, <2>3 DEF Pure
<1>3. TouchesAll(doc, ops, M)
  <2>1. Touches(doc, ops[1], M)
    BY <1>1
  <2>2. \A k \in 1 .. Len(ops) : k = 1
    BY <1>1
  <2> QED BY <2>1, <2>2 DEF TouchesAll
<1>4. Does(ops, typing, atoms)
  OBVIOUS
<1> QED BY <1>1, <1>2, <1>3, <1>4, DoesOwn

(* Two, none of them a mark, the second doing the same whatever the text.  *)
LEMMA TwoDone ==
  ASSUME OInv, NEW x \in OtherOps, NEW y \in OtherOps, NEW atoms, Does(<<x, y>>, FALSE, atoms),
         Touches(doc, x, mine \cup atoms), Settled(y, mine \cup atoms), IInv'
  PROVE  OInv'
<1> PICK ops, M : ops = <<x, y>> /\ M = mine \cup atoms
  OBVIOUS
<1>1. ops \in Seq(OtherOps) /\ Len(ops) = 2 /\ ops[1] = x /\ ops[2] = y
  OBVIOUS
<1>2. ops \in Seq(Ops)
  <2>1. OtherOps \subseteq Ops
    BY DEF OtherOps, Ops
  <2> QED BY <1>1, <2>1
<1>3. TouchesAll(doc, ops, M)
  <2>1. Touches(doc, ops[1], M) /\ Settled(ops[2], M)
    BY <1>1
  <2>2. \A k \in 1 .. Len(ops) : k = 1 \/ k = 2
    BY <1>1
  <2> QED BY <2>1, <2>2 DEF TouchesAll
<1>4. Does(ops, FALSE, atoms) /\ Pure(ops)
  BY <1>1 DEF Pure
<1> QED BY <1>2, <1>3, <1>4, DoesOwn

(* What is typed is the user's.                                            *)
LEMMA TypedIsOwn ==
  ASSUME IInv, NEW brk \in BOOLEAN, NEW look \in Looks, NEW at \in Nat, NEW M, 10 + made \in M,
         NEW op, op = Insert(at, <<Typed(brk, look)>>)
  PROVE  op \in Ops /\ op \in OtherOps /\ Settled(op, M)
<1>1. op \in Ops /\ Brings(op) = {10 + made}
  BY TypedFacts
<1>2. op.t = "insert"
  BY DEF Insert
<1>3. op \in OtherOps
  BY <1>1, <1>2, OpsByKind DEF OtherOps
<1>4. Ids(op.content) \subseteq M
  BY <1>1, <1>2 DEF Brings
<1> QED BY <1>1, <1>2, <1>3, <1>4 DEF Settled, Touches

(* Typing a character.                                                     *)
LEMMA TypeOwn ==
  ASSUME OInv, NEW at \in Offsets(doc), NEW look \in TypedLooks, NEW typing \in BOOLEAN,
         Type(at, look, typing)
  PROVE  OInv'
<1>0. IInv
  BY DEF OInv
<1>1. at \in Nat /\ look \in Looks
  BY <1>0, OffsetFacts, LooksAssumption
<1> PICK op, M : op = Insert(at, <<Typed(FALSE, look)>>) /\ M = mine \cup {10 + made}
  OBVIOUS
<1>2. op \in Ops /\ Settled(op, M)
  <2>1. 10 + made \in M /\ FALSE \in BOOLEAN
    OBVIOUS
  <2> QED BY <1>0, <1>1, <2>1, TypedIsOwn
<1>3. Touches(doc, op, M)
  BY <1>2 DEF Settled
<1>4. Does(<<op>>, typing, {10 + made})
  BY DEF Type
<1>5. IInv'
  BY <1>0, TypeKeeps
<1> QED BY <1>2, <1>3, <1>4, <1>5, OneDone

(* A new paragraph.                                                        *)
LEMMA EnterOwn ==
  ASSUME OInv, NEW at \in Offsets(doc), Enter(at)
  PROVE  OInv'
<1>0. IInv
  BY DEF OInv
<1>1. at \in Nat /\ at <= DocLen(doc) /\ doc \in Docs
  BY <1>0, OffsetFacts
<1> PICK look : look = doc[ParagraphOf(doc, at)].look
  OBVIOUS
<1>2. look \in Looks
  <2>1. ParagraphOf(doc, at) \in DOMAIN doc
    BY <1>1, ParagraphFacts
  <2> QED BY <1>1, <2>1, DocFacts
<1> PICK op, M : op = Insert(at, <<Typed(TRUE, look)>>) /\ M = mine \cup {10 + made}
  OBVIOUS
<1>3. op \in Ops /\ Settled(op, M)
  <2>1. 10 + made \in M /\ TRUE \in BOOLEAN
    OBVIOUS
  <2> QED BY <1>0, <1>1, <1>2, <2>1, TypedIsOwn
<1>4. Touches(doc, op, M)
  BY <1>3 DEF Settled
<1>5. Does(<<op>>, FALSE, {10 + made})
  BY DEF Enter
<1>6. IInv'
  BY <1>0, EnterKeeps
<1> QED BY <1>3, <1>4, <1>5, <1>6, OneDone

(* A span taken out.                                                       *)
LEMMA SpanIsOwn ==
  ASSUME IInv, NEW s \in Spans, NEW M, Ids(Slice(doc, s[1], s[2])) \subseteq M,
         NEW op, op = Delete(s[1], s[2] - s[1])
  PROVE  op \in Ops /\ op \in OtherOps /\ Touches(doc, op, M)
<1>1. s[1] \in Nat /\ s[2] \in Nat /\ s[2] - s[1] \in Nat \ {0} /\ s[1] + (s[2] - s[1]) = s[2]
  BY SpanFacts
<1>2. op \in Ops /\ op.t = "delete" /\ op.at = s[1] /\ op.len = s[2] - s[1]
  BY <1>1, OpsMade DEF Delete
<1>3. op \in OtherOps
  BY <1>2, OpsByKind DEF OtherOps
<1>4. op.at + op.len = s[2]
  BY <1>1, <1>2
<1>5. Ids(Slice(doc, op.at, op.at + op.len)) \subseteq M
  BY <1>2, <1>4
<1> QED BY <1>2, <1>3, <1>5 DEF Touches

(* Typing over a selection.                                                *)
LEMMA ReplaceOwn ==
  ASSUME OInv, NEW s \in Spans, Replace(s[1], s[2])
  PROVE  OInv'
<1>0. IInv
  BY DEF OInv
<1> PICK x, y, A, M : /\ x = Delete(s[1], s[2] - s[1]) /\ y = Insert(s[1], <<Typed(FALSE, 0)>>)
                      /\ A = {10 + made} \cup Ids(Slice(doc, s[1], s[2])) /\ M = mine \cup A
  OBVIOUS
<1>1. s[1] \in Nat /\ 0 \in Looks
  BY <1>0, SpanFacts DEF Looks
<1>2. x \in OtherOps /\ Touches(doc, x, M)
  <2>1. Ids(Slice(doc, s[1], s[2])) \subseteq M
    OBVIOUS
  <2> QED BY <1>0, <2>1, SpanIsOwn
<1>3. y \in OtherOps /\ Settled(y, M)
  <2>1. 10 + made \in M /\ FALSE \in BOOLEAN
    OBVIOUS
  <2> QED BY <1>0, <1>1, <2>1, TypedIsOwn
<1>4. Does(<<x, y>>, FALSE, A)
  BY DEF Replace
<1>5. IInv'
  BY <1>0, ReplaceKeeps
<1> QED BY <1>2, <1>3, <1>4, <1>5, TwoDone

(* Erasing.                                                                *)
LEMMA EraseOwn ==
  ASSUME OInv, NEW s \in Spans, Erase(s[1], s[2])
  PROVE  OInv'
<1>0. IInv
  BY DEF OInv
<1> PICK x, A, M : x = Delete(s[1], s[2] - s[1]) /\ A = Ids(Slice(doc, s[1], s[2])) /\ M = mine
      \cup A
  OBVIOUS
<1>1. x \in Ops /\ Touches(doc, x, M)
  <2>1. Ids(Slice(doc, s[1], s[2])) \subseteq M
    OBVIOUS
  <2> QED BY <1>0, <2>1, SpanIsOwn
<1>2. Does(<<x>>, FALSE, A)
  BY DEF Erase
<1>3. IInv'
  BY <1>0, EraseKeeps
<1> QED BY <1>1, <1>2, <1>3, OneDone

(* A mark.                                                                 *)
LEMMA FormatOwn ==
  ASSUME OInv, NEW s \in Spans, NEW look \in Looks, Format(s[1], s[2], look)
  PROVE  OInv'
<1>0. IInv
  BY DEF OInv
<1>1. s[1] \in Nat /\ s[2] \in Nat /\ s[1] < s[2]
  BY <1>0, SpanFacts
<1> PICK x : x = Mark(s[1], s[2], look)
  OBVIOUS
<1> PICK A, M : A = {doc[k + 2].id : k \in Changed(doc, x)} /\ M = mine \cup A
  OBVIOUS
<1>2. x \in Ops /\ x.t = "mark"
  BY <1>1, OpsMade DEF Mark
<1>3. Touches(doc, x, M)
  BY <1>2 DEF Touches
<1>4. Does(<<x>>, FALSE, A)
  BY DEF Format
<1>5. IInv'
  BY <1>0, FormatKeeps
<1> QED BY <1>2, <1>3, <1>4, <1>5, OneDone

(* A restyle touches no text.                                              *)
LEMMA RestyleSettled ==
  ASSUME NEW at \in Nat, NEW look \in Looks, NEW M, NEW op, op = Restyle(at, look)
  PROVE  op \in Ops /\ op \in OtherOps /\ Settled(op, M)
<1>1. op \in Ops /\ op.t = "restyle"
  BY OpsMade DEF Restyle
<1>2. op \in OtherOps
  BY <1>1, OpsByKind DEF OtherOps
<1> QED BY <1>1, <1>2 DEF Settled, Touches

(* A style for the paragraphs of a span.                                   *)
LEMMA RestyleParagraphsOwn ==
  ASSUME OInv, NEW from \in Offsets(doc), NEW to \in Offsets(doc), NEW look \in Looks,
         RestyleParagraphs(from, to, look)
  PROVE  OInv'
<1>0. IInv
  BY DEF OInv
<1>a. IInv'
  BY <1>0, RestyleParagraphsKeeps
<1> DEFINE breaks == {i \in ParagraphOf(doc, from) .. (to + 1) : doc[i].brk /\ doc[i].look # look}
           order == InOrder(breaks)
           ops == [i \in DOMAIN order |-> Restyle(order[i] - 1, look)]
<1>1. from \in Nat /\ to \in Nat /\ from <= DocLen(doc) /\ doc \in Docs
  BY <1>0, OffsetFacts
<1>2. ParagraphOf(doc, from) \in Nat \ {0}
  <2>1. ParagraphOf(doc, from) \in DOMAIN doc
    BY <1>1, ParagraphFacts
  <2> QED BY <1>1, <2>1, DocFacts
<1>3. breaks \in SUBSET Nat /\ IsFiniteSet(breaks) /\ \A i \in breaks : i - 1 \in Nat
  <2>1. IsFiniteSet(ParagraphOf(doc, from) .. (to + 1))
    <3>1. ParagraphOf(doc, from) \in Int /\ to + 1 \in Int
      BY <1>1, <1>2
    <3> QED BY <3>1, FS_Interval
  <2>2. breaks \subseteq ParagraphOf(doc, from) .. (to + 1)
    OBVIOUS
  <2>3. IsFiniteSet(breaks)
    BY <2>1, <2>2, FS_Subset
  <2> QED BY <1>1, <1>2, <2>3
<1> PICK A, M : A = {doc[i].id : i \in breaks} /\ M = mine \cup A
  OBVIOUS
<1>4. Does(ops, FALSE, A)
  BY DEF RestyleParagraphs
<1> HIDE DEF breaks
<1> PICK n : n = Cardinality(breaks)
  OBVIOUS
<1>6. n \in Nat /\ order \in [1 .. n -> breaks]
  BY <1>3, InOrderFacts
<1> HIDE DEF order
<1>7. \A i \in 1 .. n : Restyle(order[i] - 1, look) \in Ops
        /\ Restyle(order[i] - 1, look) \in OtherOps
                        /\ Settled(Restyle(order[i] - 1, look), M)
  <2>1. \A i \in 1 .. n : order[i] - 1 \in Nat
    BY <1>3, <1>6
  <2> QED BY <2>1, RestyleSettled
<1>8. DOMAIN order = 1 .. n
  BY <1>6
<1>9. ops \in [1 .. n -> Ops] /\ ops \in [1 .. n -> OtherOps]
        /\ \A j \in 1 .. n : Settled(ops[j], M)
  BY <1>7, <1>8
<1> HIDE DEF ops
<1>10. ops \in Seq(Ops) /\ Pure(ops) /\ Len(ops) = n
  BY <1>6, <1>9 DEF Pure
<1>11. TouchesAll(doc, ops, M)
  BY <1>9, <1>10 DEF TouchesAll, Settled
<1> QED BY <1>4, <1>10, <1>11, <1>a, DoesOwn

(* An edit of a paragraph's text and style at once.                        *)
LEMMA RewriteOwn ==
  ASSUME OInv, NEW at \in Offsets(doc), NEW look \in Looks, Rewrite(at, look)
  PROVE  OInv'
<1>0. IInv
  BY DEF OInv
<1>1. at \in Nat /\ doc \in Docs /\ at + 1 < Len(doc)
  BY <1>0, OffsetFacts DEF Rewrite
<1> PICK x, y, A, M : /\ x = Delete(at, 1) /\ y = Restyle(at, look)
                      /\ A = {doc[at + 1].id, doc[at + 1 + 1].id} /\ M = mine \cup A
  OBVIOUS
<1>2. x \in Ops /\ x.t = "delete" /\ x.at = at /\ x.len = 1
  BY <1>1, OpsMade DEF Delete
<1>3. x \in OtherOps
  BY <1>2, OpsByKind DEF OtherOps
<1>4. y \in OtherOps /\ Settled(y, M)
  BY <1>1, RestyleSettled
<1>5. Ids(Slice(doc, at, at + 1)) \subseteq M
  <2> PICK c, to : to = at + 1 /\ c = Slice(doc, at, to)
    OBVIOUS
  <2>1. to \in Nat /\ at <= to /\ to <= DocLen(doc) /\ to - at = 1
    BY <1>1, DocFacts
  <2>2. c \in Seq(Atoms) /\ Len(c) = to - at /\ \A i \in 1 .. to - at : c[i] = doc[at + 1 + i]
    BY <1>1, <2>1, PieceFacts
  <2>3. DOMAIN c = {1} /\ c[1] = doc[at + 1 + 1]
    <3> PICK n : n = to - at
      OBVIOUS
    <3>1. n = 1 /\ Len(c) = n /\ \A i \in 1 .. n : c[i] = doc[at + 1 + i]
      BY <2>1, <2>2
    <3>2. DOMAIN c = 1 .. Len(c)
      BY <2>2, SeqFacts
    <3>3. 1 .. 1 = {1} /\ 1 \in 1 .. 1
      OBVIOUS
    <3> QED BY <3>1, <3>2, <3>3
  <2>4. Ids(c) = {doc[at + 1 + 1].id}
    BY <2>3 DEF Ids
  <2> QED BY <2>4
<1>6. Touches(doc, x, M)
  BY <1>2, <1>5 DEF Touches
<1>7. Does(<<x, y>>, FALSE, A)
  BY DEF Rewrite
<1>8. IInv'
  BY <1>0, RewriteKeeps
<1> QED BY <1>3, <1>4, <1>6, <1>7, <1>8, TwoDone

-----------------------------------------------------------------------------
(* 21. Undo, redo, the imports, and the theorems                           *)

(* The top step of one stack taken back: it applies, its inverse leads back *)
(* again, and what is not in M stands.                                     *)
Taking(M, d, u, r, done) ==
  /\ done.ok /\ done.doc \in Docs
  /\ Chained(M, Front(u), done.doc) /\ Chained(M, Append(r, done.inverse), done.doc)
  /\ standing(Bare(done.doc), M) = standing(Bare(d), M)

(* It is so.                                                               *)
LEMMA TakenBack ==
  ASSUME NEW M, NEW d \in Docs, NEW u \in Stacks, u # <<>>, NEW r \in Stacks, Chained(M, u, d),
         Chained(M, r, d),
         NEW done, done = ApplyAll(d, Last(u))
  PROVE  Taking(M, d, u, r, done)
<1> PICK ops, f, b : ops = Last(u) /\ f = Front(u) /\ b = Bare(d)
  OBVIOUS
<1>1. ops \in Seq(Ops) /\ f \in Stacks
  BY FrontAndLast
<1>2. b \in Texts
  BY DocFacts, BareFacts
<1>3. PICK t : Leads(chain(M), u, t, b)
  BY DEF Chained
<1>4. PICK w \in Texts : Leads(chain(M), f, t, w) /\ Pure(ops) /\ Leads(own(M), ops, b, w)
  BY <1>2, <1>3, ChainPopped
<1>5. ApplyAll(d, ops).ok /\ Bare(ApplyAll(d, ops).doc) = w /\ Back(M, d, ops, ApplyAll(d, ops))
  BY <1>1, <1>4, ApplyAllOwn
<1>6. done.ok /\ Bare(done.doc) = w /\ Back(M, d, ops, done)
  BY <1>5
<1> PICK e, v : e = done.doc /\ v = done.inverse
  OBVIOUS
<1>7. e \in Docs /\ v \in Seq(Ops)
  <2>1. done \in Outcomes
    BY <1>1, ApplyAllFacts
  <2> QED BY <2>1, OutcomeFacts
<1>8. Keeps(ops, v) /\ Leads(own(M), v, w, b)
  BY <1>6 DEF Back
<1>9. Pure(v)
  BY <1>4, <1>8 DEF Pure, Keeps
<1>10. Chained(M, f, e)
  <2>1. Leads(chain(M), f, t, Bare(e))
    BY <1>4, <1>6
  <2> QED BY <2>1 DEF Chained
<1>11. Chained(M, Append(r, v), e)
  <2>1. PICK z : Leads(chain(M), r, z, b)
    BY DEF Chained
  <2>2. Leads(chain(M), Append(r, v), z, w)
    BY <1>2, <1>4, <1>7, <1>8, <1>9, <2>1, ChainPushed
  <2>3. Leads(chain(M), Append(r, v), z, Bare(e))
    BY <1>6, <2>2
  <2> QED BY <2>3 DEF Chained
<1>12. standing(w, M) = standing(b, M)
  BY <1>1, <1>2, <1>4, OpsStand
<1> QED BY <1>6, <1>7, <1>10, <1>11, <1>12 DEF Taking

(* Undo.                                                                   *)
LEMMA UndoOwn ==
  ASSUME OInv, Undo
  PROVE  OInv' /\ standing(Bare(doc'), mine) = standing(Bare(doc), mine)
<1>0. IInv /\ Chained(mine, undo, doc) /\ Chained(mine, redo, doc)
  BY DEF OInv
<1>1. doc \in Docs /\ undo \in Stacks /\ redo \in Stacks
  BY <1>0 DEF IInv, Apart
<1> PICK done : done = ApplyAll(doc, Last(undo))
  OBVIOUS
<1>2. undo # <<>>
  BY DEF Undo
<1>3. Taking(mine, doc, undo, redo, done)
  BY <1>0, <1>1, <1>2, TakenBack
<1>4. /\ undo' = Front(undo) /\ mine' = mine
      /\ done.ok => doc' = done.doc /\ redo' = Append(redo, done.inverse)
  BY DEF Undo
<1>5. Chained(mine', undo', doc') /\ Chained(mine', redo', doc')
  BY <1>3, <1>4 DEF Taking
<1>6. IInv'
  BY <1>0, UndoKeeps
<1>7. standing(Bare(doc'), mine) = standing(Bare(doc), mine)
  BY <1>3, <1>4 DEF Taking
<1>8. OInv'
  BY <1>5, <1>6 DEF OInv
<1> QED BY <1>7, <1>8

(* Redo: the same with the stacks swapped.                                 *)
LEMMA RedoOwn ==
  ASSUME OInv, Redo
  PROVE  OInv' /\ standing(Bare(doc'), mine) = standing(Bare(doc), mine)
<1>0. IInv /\ Chained(mine, undo, doc) /\ Chained(mine, redo, doc)
  BY DEF OInv
<1>1. doc \in Docs /\ undo \in Stacks /\ redo \in Stacks
  BY <1>0 DEF IInv, Apart
<1> PICK done : done = ApplyAll(doc, Last(redo))
  OBVIOUS
<1>2. redo # <<>>
  BY DEF Redo
<1>3. Taking(mine, doc, redo, undo, done)
  BY <1>0, <1>1, <1>2, TakenBack
<1>4. /\ redo' = Front(redo) /\ mine' = mine
      /\ done.ok => doc' = done.doc /\ undo' = Append(undo, done.inverse)
  BY DEF Redo
<1>5. Chained(mine', undo', doc') /\ Chained(mine', redo', doc')
  BY <1>3, <1>4 DEF Taking
<1>6. IInv'
  BY <1>0, RedoKeeps
<1>7. standing(Bare(doc'), mine) = standing(Bare(doc), mine)
  BY <1>3, <1>4 DEF Taking
<1>8. OInv'
  BY <1>5, <1>6 DEF OInv
<1> QED BY <1>7, <1>8

(* What a peer does is an insert or a delete.                              *)
LEMMA PeerOpsAreText ==
  ASSUME IInv, NEW n \in Nat, NEW op \in PeerOps(doc, n)
  PROVE  op \in TextOps
<1>1. op \in Ops
  BY PeerOpFacts
<1>2. \/ \E at \in Offsets(doc), look \in PeerLooks : op = PeerInsert(n, at, look)
      \/ \E at \in Offsets(doc), len \in 1 .. 2 : op = Delete(at, len)
  BY PeerOpsUnfolded
<1>3. op.t \in {"insert", "delete"}
  <2>1. ASSUME NEW at, NEW look, op = PeerInsert(n, at, look) PROVE op.t = "insert"
    BY <2>1 DEF PeerInsert, Insert
  <2>2. ASSUME NEW at, NEW len, op = Delete(at, len) PROVE op.t = "delete"
    BY <2>2 DEF Delete
  <2> QED BY <1>2, <2>1, <2>2
<1> QED BY <1>1, <1>3, OpsByKind DEF TextOps

(* So is all that an import brings.                                        *)
LEMMA ImportsAreText ==
  ASSUME IInv, NEW ops \in Imports
  PROVE  ops \in Seq(TextOps)
<1>0. heard \in Nat /\ heard + 1 \in Nat
  BY UndoBoundAssumption DEF IInv
<1>1. CASE \E e \in PeerOps(doc, heard) : ops = <<e>>
  <2>1. PICK e \in PeerOps(doc, heard) : ops = <<e>>
    BY <1>1
  <2>2. e \in TextOps
    BY <1>0, PeerOpsAreText
  <2> QED BY <2>1, <2>2
<1>2. CASE \E p \in PeerOps(doc, heard) \X PeerOps(doc, heard + 1) : ops = p
  <2>1. PICK x \in PeerOps(doc, heard), y \in PeerOps(doc, heard + 1) : ops = <<x, y>>
    BY <1>2
  <2>2. x \in TextOps /\ y \in TextOps
    BY <1>0, PeerOpsAreText
  <2> QED BY <2>1, <2>2
<1> QED BY <1>1, <1>2 DEF Imports

(* An import: both stacks fit the document it leaves.                      *)
LEMMA PeerEditsOwn ==
  ASSUME OInv, NEW ops \in Imports, PeerEdits(ops)
  PROVE  OInv'
<1>0. IInv /\ Chained(mine, undo, doc) /\ Chained(mine, redo, doc)
  BY DEF OInv
<1>1. doc \in Docs /\ undo \in Stacks /\ redo \in Stacks
  BY <1>0 DEF IInv, Apart
<1> PICK e, remote : e = ApplyAll(doc, ops).doc /\ remote = [i \in DOMAIN ops |-> TextOf(ops[i])]
  OBVIOUS
<1>2. /\ ApplyAll(doc, ops).ok /\ doc' = e /\ mine' = mine
      /\ undo' = Chain(undo, remote) /\ redo' = Chain(redo, remote)
  BY DEF PeerEdits
<1>3. ops \in Seq(TextOps)
  BY <1>0, ImportsAreText
<1>4. e \in Docs /\ remote \in Seq(Real) /\ Leads(Peers, remote, Bare(doc), Bare(e))
  BY <1>1, <1>2, <1>3, PeersLead
<1> PICK s, r : s = Bare(doc) /\ r = Bare(e)
  OBVIOUS
<1>5. s \in Texts /\ r \in Texts /\ Leads(Peers, remote, s, r)
  BY <1>1, <1>4, DocFacts, BareFacts
<1>6. ASSUME NEW steps \in Stacks, Chained(mine, steps, doc)
      PROVE  Chained(mine, Chain(steps, remote), e)
  <2>1. PICK t : Leads(chain(mine), steps, t, s)
    BY <1>6 DEF Chained
  <2>2. \E v \in Texts : Leads(chain(mine), Chain(steps, remote), v, r)
    BY <1>4, <1>5, <2>1, ChainMeets
  <2> QED BY <2>2 DEF Chained
<1>7. Chained(mine', undo', doc') /\ Chained(mine', redo', doc')
  BY <1>0, <1>1, <1>2, <1>6
<1>8. IInv'
  BY <1>0, PeerEditsKeeps
<1> QED BY <1>7, <1>8 DEF OInv

-----------------------------------------------------------------------------
(* Initially.                                                              *)

(* There are no steps at first.                                            *)
LEMMA InitOwn == Init => OInv
<1> SUFFICES ASSUME Init PROVE OInv
  OBVIOUS
<1>1. IInv
  BY InitIInv
<1>2. doc \in Docs
  BY <1>1 DEF IInv, Apart
<1>3. undo = <<>> /\ redo = <<>>
  BY DEF Init
<1>4. Chained(mine, undo, doc) /\ Chained(mine, redo, doc)
  BY <1>2, <1>3, ChainedNone
<1> QED BY <1>1, <1>4 DEF OInv

(* Every step.                                                             *)
LEMMA NextKeepsOwn == OInv /\ [Next]_vars => OInv'
<1> SUFFICES ASSUME OInv, [Next]_vars PROVE OInv'
  OBVIOUS
<1>1. ASSUME NEW at \in Offsets(doc), NEW look \in TypedLooks, NEW typing \in BOOLEAN,
             Type(at, look, typing)
      PROVE  OInv'
  BY <1>1, TypeOwn
<1>2. ASSUME NEW at \in Offsets(doc), Enter(at) PROVE OInv'
  BY <1>2, EnterOwn
<1>3. ASSUME NEW at \in Offsets(doc), NEW look \in Looks, Rewrite(at, look) PROVE OInv'
  BY <1>3, RewriteOwn
<1>4. ASSUME NEW s \in Spans, Replace(s[1], s[2]) PROVE OInv'
  BY <1>4, ReplaceOwn
<1>5. ASSUME NEW s \in Spans, Erase(s[1], s[2]) PROVE OInv'
  BY <1>5, EraseOwn
<1>6. ASSUME NEW s \in Spans, NEW look \in Looks, Format(s[1], s[2], look) PROVE OInv'
  BY <1>6, FormatOwn
<1>7. ASSUME NEW from \in Offsets(doc), NEW to \in Offsets(doc), NEW look \in Looks,
             RestyleParagraphs(from, to, look)
      PROVE  OInv'
  BY <1>7, RestyleParagraphsOwn
<1>8. CASE Undo
  BY <1>8, UndoOwn
<1>9. CASE Redo
  BY <1>9, RedoOwn
<1>10. ASSUME NEW ops \in Imports, PeerEdits(ops) PROVE OInv'
  BY <1>10, PeerEditsOwn
<1>11. CASE UNCHANGED vars
  <2>1. /\ doc' = doc /\ undo' = undo /\ redo' = redo /\ word' = word /\ made' = made
            /\ heard' = heard
        /\ mine' = mine
    BY <1>11 DEF vars
  <2>2. IInv'
    <3>1. IInv
      BY DEF OInv
    <3> QED BY <2>1, <3>1 DEF IInv
  <2>3. Chained(mine', undo', doc') /\ Chained(mine', redo', doc')
    BY <2>1 DEF OInv
  <2> QED BY <2>2, <2>3 DEF OInv
<1> QED
  BY <1>1, <1>2, <1>3, <1>4, <1>5, <1>6, <1>7, <1>8, <1>9, <1>10, <1>11 DEF Next

(* What stands in a document.                                              *)
LEMMA StandingIs ==
  ASSUME NEW d \in Seq(Atoms)
  PROVE  Standing(d) = standing(Bare(d), mine)
<1> PICK b : b = Bare(d)
  OBVIOUS
<1>1. DOMAIN d = 1 .. Len(d) /\ Len(b) = Len(d) /\ \A i \in 1 .. Len(d) : b[i].id = d[i].id
  BY SeqFacts, BareFacts
<1>2. Others(d) = Firm(b, mine)
  BY <1>1 DEF Others, Firm
<1>3. Standing(d) = {<<b[p[1]], b[p[2]]>> : p \in {q \in Others(d) \X Others(d) : q[1] <= q[2]}}
  BY DEF Standing
<1> QED BY <1>2, <1>3 DEF standing

(* An undo or a redo never fails ...                                       *)
THEOREM UndoSound == Spec => []OInv
BY InitOwn, NextKeepsOwn, PTL DEF Spec

(* ... and leaves what is not the user's.                                  *)
THEOREM TakesBackOwnHolds == Spec => TakesBackOwn
<1>1. OInv /\ [Next]_vars => [Undo \/ Redo => Standing(doc') = Standing(doc)]_vars
  <2> SUFFICES ASSUME OInv, Undo \/ Redo PROVE Standing(doc') = Standing(doc)
    OBVIOUS
  <2>1. OInv' /\ standing(Bare(doc'), mine) = standing(Bare(doc), mine)
    BY UndoOwn, RedoOwn
  <2>2. doc \in Seq(Atoms) /\ doc' \in Seq(Atoms)
    BY <2>1 DEF OInv, IInv, Apart, Docs
  <2> QED BY <2>1, <2>2, StandingIs
<1> QED BY <1>1, UndoSound, PTL DEF Spec, TakesBackOwn

=============================================================================
