--------------------------- MODULE Layout_proofs ---------------------------
(***************************************************************************)
(* Proofs about Layout: what the emitter writes, the loader reads back,    *)
(* each comment with the entry it was of, for every map; and no command    *)
(* loses or moves a comment of a file, whoever wrote it.                   *)
(***************************************************************************)
EXTENDS Layout, Lists_proofs

CommentType == {None} \cup Comments

(***************************************************************************)
(* The lines the emitter writes: f says R, a set of pairs of a place and   *)
(* its comment, if each has one line of its own from which, and from the   *)
(* comments right above it, the comment can be read.                       *)
(***************************************************************************)
IsPlain(l) == l.kind \in {"text", "blank"} /\ l.starts = <<>> /\ l.ends = <<>> /\ l.comment = None
IsRemark(l) == l.kind = "comment" /\ l.starts = <<>> /\ l.ends = <<>> /\ l.comment \in Trimmed
IsOf(l, a) == l.kind = "text" /\ l.starts = <<a>> /\ l.ends = <<a>>

RemarkAt(f, n) == n \in DOMAIN f /\ IsRemark(f[n])

ReadsAt(f, n, c) ==
    \/ c = None /\ f[n].comment = None /\ ~RemarkAt(f, n - 1)
    \/ c \in Comments /\ Len(c) = 1 /\ f[n].comment = c[1] /\ ~RemarkAt(f, n - 1)
    \/ /\ c \in Comments /\ Len(c) < n /\ f[n].comment = None /\ ~RemarkAt(f, n - Len(c) - 1)
       /\ \A i \in 1..Len(c) : IsRemark(f[n - Len(c) + i - 1]) /\ f[n - Len(c) + i - 1].comment = c[i]

Firsts(R) == {p[1] : p \in R}

LineSays(f, n, R) ==
    \/ IsPlain(f[n])
    \/ /\ IsRemark(f[n]) /\ n + 1 \in DOMAIN f
       /\ IsRemark(f[n + 1]) \/ \E p \in R : IsOf(f[n + 1], p[1])
    \/ \E p \in R : IsOf(f[n], p[1]) /\ ReadsAt(f, n, p[2])

Says(f, R) ==
    /\ f \in Seq(LineType(Firsts(R)))
    /\ \A n \in DOMAIN f : LineSays(f, n, R)
    /\ \A p \in R : \E n \in DOMAIN f : IsOf(f[n], p[1]) /\ ReadsAt(f, n, p[2])
    /\ \A m, n \in DOMAIN f : \A p \in R : IsOf(f[m], p[1]) /\ IsOf(f[n], p[1]) => m = n

LEMMA KindsApart ==
  \A l, a : /\ ~(IsPlain(l) /\ IsRemark(l)) /\ ~(IsOf(l, a) /\ IsRemark(l))
            /\ ~(IsOf(l, a) /\ IsPlain(l))
            /\ \A b : IsOf(l, a) /\ IsOf(l, b) => a = b
  <1>1. \A a : <<a>> # <<>>
    OBVIOUS
  <1> QED
    BY <1>1 DEF IsPlain, IsRemark, IsOf

LEMMA MoreAnchors ==
  ASSUME NEW A, NEW B, A \subseteq B
  PROVE  LineType(A) \subseteq LineType(B) /\ Seq(LineType(A)) \subseteq Seq(LineType(B))
  <1>1. SUBSET A \subseteq SUBSET B /\ Seq(A) \subseteq Seq(B)
    BY SeqMonotonic
  <1>2. LineType(A) \subseteq LineType(B)
    BY <1>1 DEF LineType
  <1> QED
    BY <1>2, SeqMonotonic

LEMMA Joined ==
  ASSUME NEW f, NEW g, NEW R, NEW Q, Says(f, R), Says(g, Q),
         \A p \in R, q \in Q : p[1] # q[1]
  PROVE  Says(f \o g, R \cup Q)
  <1> DEFINE h == f \o g
             L == LineType(Firsts(R \cup Q))
             k == Len(f)
             len == Len(g)
  <1>1. f \in Seq(L) /\ g \in Seq(L)
    <2>1. Firsts(R) \subseteq Firsts(R \cup Q) /\ Firsts(Q) \subseteq Firsts(R \cup Q)
      BY DEF Firsts
    <2> QED
      BY <2>1, MoreAnchors DEF Says
  <1>2. k \in Nat /\ len \in Nat /\ DOMAIN f = 1..k /\ DOMAIN g = 1..len
    BY <1>1, ListProperties
  <1>3. h \in Seq(L) /\ DOMAIN h = 1..(k + len)
    BY <1>1, ConcatProperties, ListProperties
  <1>4. \A n \in 1..k : h[n] = f[n]
    BY <1>1, <1>2, ConcatProperties
  <1>5. \A n \in 1..len : h[k + n] = g[n]
    BY <1>1, <1>2, ConcatProperties
  <1> HIDE DEF h, k, len
  <1>6. ~RemarkAt(f, k)
    BY <1>2, KindsApart DEF Says, LineSays, RemarkAt
  <1>7. \A n \in Int : n <= k => (RemarkAt(h, n) <=> RemarkAt(f, n))
    BY <1>2, <1>3, <1>4 DEF RemarkAt
  <1>8. \A n \in Int : n >= 0 => (RemarkAt(h, k + n) <=> RemarkAt(g, n))
    <2> SUFFICES ASSUME NEW n \in Int, n >= 0
                 PROVE  RemarkAt(h, k + n) <=> RemarkAt(g, n)
      OBVIOUS
    <2>1. CASE n = 0
      BY <1>2, <1>6, <1>7, <2>1 DEF RemarkAt
    <2>2. CASE n > 0
      BY <1>2, <1>3, <1>5, <2>2 DEF RemarkAt
    <2> QED
      BY <2>1, <2>2
  <1>9. ASSUME NEW n \in 1..k, NEW c, ReadsAt(f, n, c)
        PROVE  ReadsAt(h, n, c)
    <2>1. RemarkAt(h, n - 1) <=> RemarkAt(f, n - 1)
      BY <1>2, <1>7
    <2>2. c \in Comments => Len(c) \in Nat
      BY ListProperties DEF Comments
    <2>3. c \in Comments => (RemarkAt(h, n - Len(c) - 1) <=> RemarkAt(f, n - Len(c) - 1))
      BY <1>2, <1>7, <2>2
    <2>4. c \in Comments /\ Len(c) < n =>
            \A j \in 1..Len(c) : h[n - Len(c) + j - 1] = f[n - Len(c) + j - 1]
      BY <1>2, <1>4, <2>2
    <2> QED
      BY <1>4, <1>9, <2>1, <2>3, <2>4 DEF ReadsAt
  <1>10. ASSUME NEW n \in 1..len, NEW c, ReadsAt(g, n, c)
         PROVE  ReadsAt(h, k + n, c)
    <2>1. RemarkAt(h, k + n - 1) <=> RemarkAt(g, n - 1)
      <3>1. n - 1 \in Int /\ n - 1 >= 0 /\ k + n - 1 = k + (n - 1)
        BY <1>2
      <3> QED
        BY <1>8, <3>1
    <2>2. c \in Comments => Len(c) \in Nat
      BY ListProperties DEF Comments
    <2>3. ASSUME c \in Comments, Len(c) < n
          PROVE  /\ RemarkAt(h, k + n - Len(c) - 1) <=> RemarkAt(g, n - Len(c) - 1)
                 /\ \A j \in 1..Len(c) : h[k + n - Len(c) + j - 1] = g[n - Len(c) + j - 1]
      <3>1. n - Len(c) - 1 \in Int /\ n - Len(c) - 1 >= 0
              /\ k + n - Len(c) - 1 = k + (n - Len(c) - 1)
        BY <1>2, <2>2, <2>3
      <3>2. \A j \in 1..Len(c) : n - Len(c) + j - 1 \in 1..len
              /\ k + n - Len(c) + j - 1 = k + (n - Len(c) + j - 1)
        BY <1>2, <2>2, <2>3
      <3>3. RemarkAt(h, k + n - Len(c) - 1) <=> RemarkAt(g, n - Len(c) - 1)
        BY <1>8, <3>1
      <3>4. \A j \in 1..Len(c) : h[k + n - Len(c) + j - 1] = g[n - Len(c) + j - 1]
        BY <1>5, <3>2
      <3> QED
        BY <3>3, <3>4
    <2>4. c \in Comments /\ Len(c) < n => Len(c) < k + n
      BY <1>2, <2>2
    <2>5. h[k + n] = g[n]
      BY <1>5
    <2>6. CASE c = None /\ g[n].comment = None /\ ~RemarkAt(g, n - 1)
      BY <1>2, <2>1, <2>5, <2>6 DEF ReadsAt
    <2>7. CASE c \in Comments /\ Len(c) = 1 /\ g[n].comment = c[1] /\ ~RemarkAt(g, n - 1)
      BY <1>2, <2>1, <2>5, <2>7 DEF ReadsAt
    <2>8. CASE /\ c \in Comments /\ Len(c) < n /\ g[n].comment = None /\ ~RemarkAt(g, n - Len(c) - 1)
               /\ \A j \in 1..Len(c) :
                    IsRemark(g[n - Len(c) + j - 1]) /\ g[n - Len(c) + j - 1].comment = c[j]
      <3>1. c \in Comments /\ Len(c) < k + n /\ h[k + n].comment = None
        BY <2>4, <2>5, <2>8
      <3>2. ~RemarkAt(h, k + n - Len(c) - 1)
        BY <2>3, <2>8
      <3>3. \A j \in 1..Len(c) :
              IsRemark(h[k + n - Len(c) + j - 1]) /\ h[k + n - Len(c) + j - 1].comment = c[j]
        BY <2>3, <2>8
      <3> DEFINE i == k + n
      <3> HIDE DEF i
      <3>4. /\ c \in Comments /\ Len(c) < i /\ h[i].comment = None /\ ~RemarkAt(h, i - Len(c) - 1)
            /\ \A j \in 1..Len(c) : IsRemark(h[i - Len(c) + j - 1]) /\ h[i - Len(c) + j - 1].comment = c[j]
        <4>1. Len(c) \in Nat /\ i \in Nat
          BY <1>2, <2>2, <3>1 DEF i
        <4>2. k + n - Len(c) - 1 = i - Len(c) - 1
          BY <1>2, <4>1 DEF i
        <4>3. \A j \in 1..Len(c) : k + n - Len(c) + j - 1 = i - Len(c) + j - 1
          BY <1>2, <4>1 DEF i
        <4>4. Len(c) < i /\ h[i].comment = None
          BY <3>1 DEF i
        <4>5. ~RemarkAt(h, i - Len(c) - 1)
          BY <3>2, <4>2
        <4>6. \A j \in 1..Len(c) : IsRemark(h[i - Len(c) + j - 1]) /\ h[i - Len(c) + j - 1].comment = c[j]
          BY <3>3, <4>3
        <4> QED
          BY <3>1, <4>4, <4>5, <4>6
      <3>5. ReadsAt(h, i, c)
        BY <3>4 DEF ReadsAt
      <3> QED
        BY <3>5 DEF i
    <2> QED
      BY <1>10, <2>6, <2>7, <2>8 DEF ReadsAt
  <1>11. \A n \in 1..(k + len) : n \in 1..k \/ \E j \in 1..len : n = k + j
    <2> TAKE n \in 1..(k + len)
    <2>1. n \in 1..k \/ (n - k \in 1..len /\ n = k + (n - k))
      BY <1>2
    <2> QED
      BY <2>1
  <1>12. ASSUME NEW n \in DOMAIN h
         PROVE  LineSays(h, n, R \cup Q)
    <2>1. CASE n \in 1..k
      <3>1. IsRemark(f[n]) => n + 1 \in 1..k /\ n + 1 \in DOMAIN h
        BY <1>2, <1>3, <2>1, KindsApart DEF Says, LineSays
      <3>2. h[n] = f[n] /\ LineSays(f, n, R) /\ (n + 1 \in 1..k => h[n + 1] = f[n + 1])
        BY <1>2, <1>4, <2>1 DEF Says
      <3>3. \A p : ReadsAt(f, n, p[2]) => ReadsAt(h, n, p[2])
        BY <1>9, <2>1
      <3> QED
        BY <3>1, <3>2, <3>3, KindsApart DEF LineSays
    <2>2. ASSUME NEW j \in 1..len, n = k + j
          PROVE  LineSays(h, n, R \cup Q)
      <3>1. IsRemark(g[j]) => j + 1 \in 1..len /\ n + 1 \in DOMAIN h /\ n + 1 = k + (j + 1)
        BY <1>2, <1>3, <2>2, KindsApart DEF Says, LineSays
      <3>2. h[n] = g[j]
        BY <1>5, <2>2
      <3>3. LineSays(g, j, Q)
        BY <1>2 DEF Says
      <3>4. CASE IsPlain(g[j])
        BY <3>2, <3>4 DEF LineSays
      <3>5. CASE IsRemark(g[j]) /\ (IsRemark(g[j + 1]) \/ \E p \in Q : IsOf(g[j + 1], p[1]))
        <4>1. h[n + 1] = g[j + 1]
          BY <1>5, <3>1, <3>5
        <4> QED
          BY <3>1, <3>2, <3>5, <4>1 DEF LineSays
      <3>6. ASSUME NEW p \in Q, IsOf(g[j], p[1]), ReadsAt(g, j, p[2])
            PROVE  LineSays(h, n, R \cup Q)
        BY <1>10, <2>2, <3>2, <3>6 DEF LineSays
      <3> QED
        BY <3>3, <3>4, <3>5, <3>6 DEF LineSays
    <2> QED
      BY <1>3, <1>11, <2>1, <2>2
  <1>13. ASSUME NEW p \in R \cup Q
         PROVE  \E n \in DOMAIN h : IsOf(h[n], p[1]) /\ ReadsAt(h, n, p[2])
    <2>1. CASE p \in R
      BY <1>2, <1>3, <1>4, <1>9, <2>1 DEF Says
    <2>2. CASE p \in Q
      <3>1. PICK n \in 1..len : IsOf(g[n], p[1]) /\ ReadsAt(g, n, p[2])
        BY <1>2, <2>2 DEF Says
      <3>2. k + n \in DOMAIN h
        BY <1>2, <1>3
      <3> QED
        BY <1>5, <1>10, <3>1, <3>2
    <2> QED
      BY <2>1, <2>2
  <1>14. ASSUME NEW m \in DOMAIN h, NEW n \in DOMAIN h, NEW p \in R \cup Q,
                IsOf(h[m], p[1]), IsOf(h[n], p[1])
         PROVE  m = n
    <2>1. \A i \in 1..k : \A a : IsOf(f[i], a) => \E q \in R : q[1] = a
      BY <1>2, KindsApart DEF Says, LineSays
    <2>2. \A i \in 1..len : \A a : IsOf(g[i], a) => \E q \in Q : q[1] = a
      BY <1>2, KindsApart DEF Says, LineSays
    <2>3. CASE m \in 1..k /\ n \in 1..k
      BY <1>2, <1>4, <1>14, <2>1, <2>3 DEF Says
    <2>4. ASSUME NEW i \in 1..len, NEW j \in 1..len, m = k + i, n = k + j
          PROVE  m = n
      <3>1. IsOf(g[i], p[1]) /\ IsOf(g[j], p[1])
        BY <1>5, <1>14, <2>4
      <3>2. PICK q \in Q : q[1] = p[1]
        BY <2>2, <3>1
      <3>3. i = j
        BY <1>2, <3>1, <3>2 DEF Says
      <3> QED
        BY <2>4, <3>3
    <2>5. ASSUME NEW i \in 1..k, NEW j \in 1..len
          PROVE  ~(IsOf(h[i], p[1]) /\ IsOf(h[k + j], p[1]))
      BY <1>4, <1>5, <2>1, <2>2
    <2> QED
      BY <1>3, <1>11, <1>14, <2>3, <2>4, <2>5
  <1> QED
    BY <1>3, <1>12, <1>13, <1>14 DEF Says, h

(***************************************************************************)
(* The pieces the emitter puts together.                                   *)
(***************************************************************************)
LEMMA NoLines == Says(<<>>, {})
  BY EmptyList DEF Says

LEMMA OneLine ==
  ASSUME NEW l, NEW R, l \in LineType(Firsts(R)),
         \/ IsPlain(l) /\ R = {}
         \/ \E a, c : R = {<<a, c>>} /\ IsOf(l, a) /\ ReadsAt(<<l>>, 1, c)
  PROVE  Says(<<l>>, R)
  <1>1. <<l>> \in Seq(LineType(Firsts(R))) /\ DOMAIN <<l>> = {1} /\ <<l>>[1] = l
    OBVIOUS
  <1>2. CASE IsPlain(l) /\ R = {}
    BY <1>1, <1>2 DEF Says, LineSays
  <1>3. ASSUME NEW a, NEW c, R = {<<a, c>>}, IsOf(l, a), ReadsAt(<<l>>, 1, c)
        PROVE  Says(<<l>>, R)
    <2>1. \A p \in R : p[1] = a /\ p[2] = c
      BY <1>3
    <2>2. \E p \in R : p[1] = a /\ p[2] = c
      BY <1>3
    <2>3. LineSays(<<l>>, 1, R)
      BY <1>1, <1>3, <2>2 DEF LineSays
    <2> QED
      BY <1>1, <1>3, <2>1, <2>3 DEF Says
  <1> QED
    BY <1>2, <1>3

LEMMA PlainLines == Says(<<KeyLine>>, {}) /\ Says(<<BlankLine>>, {}) /\ IsPlain(KeyLine)
  <1>1. IsPlain(KeyLine) /\ IsPlain(BlankLine)
    BY DEF IsPlain, KeyLine, BlankLine, TextLine, Line
  <1>2. Range(<<>>) = {}
    BY EmptyList
  <1>3. KeyLine \in LineType(Firsts({})) /\ BlankLine \in LineType(Firsts({}))
    BY <1>2 DEF LineType, KeyLine, BlankLine, TextLine, Line
  <1> QED
    BY <1>1, <1>3, OneLine

LEMMA LinesOf ==
  ASSUME NEW a, NEW c \in {None} \cup Bodied
  PROVE  LET l == [AnchorLine(a) EXCEPT !.comment = c]
         IN  l \in LineType({a}) /\ IsOf(l, a) /\ l.comment = c /\ (c = None => l = AnchorLine(a))
  <1>1. Range(<<a>>) = {a}
    BY DEF Range
  <1>2. AnchorLine(a) = [kind |-> "text", of |-> {a}, starts |-> <<a>>, ends |-> <<a>>, comment |-> None]
    BY <1>1 DEF AnchorLine, TextLine, Line
  <1>3. <<a>> \in Seq({a})
    OBVIOUS
  <1> DEFINE l == [kind |-> "text", of |-> {a}, starts |-> <<a>>, ends |-> <<a>>, comment |-> c]
  <1>4. [AnchorLine(a) EXCEPT !.comment = c] = l /\ (c = None => l = AnchorLine(a))
    BY <1>2
  <1>5. l \in LineType({a})
    BY <1>3 DEF LineType
  <1>6. IsOf(l, a) /\ l.comment = c
    BY DEF IsOf
  <1> QED
    BY <1>4, <1>5, <1>6

LEMMA CommentParts ==
  ASSUME NEW c \in CommentType
  PROVE  /\ c = None \/ (c \in Comments /\ c # None)
         /\ c \in Comments => /\ Len(c) \in Nat /\ Len(c) >= 1 /\ DOMAIN c = 1..Len(c)
                              /\ \A n \in 1..Len(c) : c[n] \in Trimmed /\ c[n] \in Bodied
         /\ c # None => c \in Comments
  <1>1. \A d \in Seq(Trimmed) : d \in Seq(Bodied)
    BY SeqMonotonic DEF Trimmed
  <1>2. c # None => c \in Comments
    BY DEF CommentType
  <1>3. c \in Comments => c # None
    BY <1>1, NoneAssumption DEF Comments
  <1> QED
    BY <1>2, <1>3, ListProperties DEF Comments, Trimmed

LEMMA BlockLines ==
  ASSUME NEW c \in Comments, NEW A
  PROVE  /\ CommentBlock(c) \in Seq(LineType(A)) /\ Len(CommentBlock(c)) = Len(c)
         /\ \A n \in 1..Len(c) : CommentBlock(c)[n] = CommentLine(c[n]) /\ IsRemark(CommentLine(c[n]))
  <1>1. c \in CommentType
    BY DEF CommentType
  <1>2. CommentBlock(c) = [n \in 1..Len(c) |-> CommentLine(c[n])] /\ Len(c) \in Nat
    <2>1. DOMAIN c = 1..Len(c) /\ Len(c) \in Nat
      BY <1>1, CommentParts
    <2>2. c # None
      BY NoneAssumption, SeqMonotonic DEF Comments, Trimmed
    <2> QED
      BY <2>1, <2>2 DEF CommentBlock
  <1>3. \A n \in 1..Len(c) : CommentLine(c[n]) \in LineType(A) /\ IsRemark(CommentLine(c[n]))
    BY <1>1, CommentParts DEF LineType, IsRemark, CommentLine, Line
  <1> QED
    BY <1>2, <1>3

LEMMA HeadedLine ==
  ASSUME NEW a, NEW c \in CommentType
  PROVE  Says(Headed(a, c), {<<a, c>>})
  <1> DEFINE R == {<<a, c>>}
             l == AnchorLine(a)
  <1>1. Firsts(R) = {a} /\ (\E p \in R : p[1] = a /\ p[2] = c) /\ \A p \in R : p[1] = a /\ p[2] = c
    BY DEF Firsts
  <1>2. l \in LineType({a}) /\ IsOf(l, a) /\ l.comment = None
    BY LinesOf
  <1> HIDE DEF R, l
  <1>3. CASE c = None
    <2>1. Headed(a, c) = <<l>>
      BY <1>3 DEF Headed, CommentBlock, l
    <2>2. ReadsAt(<<l>>, 1, c)
      BY <1>2, <1>3 DEF ReadsAt, RemarkAt
    <2> QED
      BY <1>1, <1>2, <2>1, <2>2, OneLine DEF R
  <1>4. CASE c \in Comments
    <2> DEFINE f == Headed(a, c)
               len == Len(c)
    <2>1. len \in Nat /\ len >= 1
      BY <1>4, CommentParts
    <2>2. CommentBlock(c) \in Seq(LineType({a})) /\ Len(CommentBlock(c)) = len
      BY <1>4, BlockLines
    <2>3. f \in Seq(LineType({a})) /\ DOMAIN f = 1..(len + 1) /\ f[len + 1] = l
      BY <1>2, <2>2, AppendList DEF Headed, l
    <2>4. \A n \in 1..len : f[n] = CommentLine(c[n]) /\ IsRemark(f[n])
      <3>1. \A n \in 1..len : f[n] = CommentBlock(c)[n]
        BY <1>2, <2>2, AppendList DEF Headed, l
      <3> QED
        BY <1>4, <3>1, BlockLines
    <2> HIDE DEF f, len
    <2>5. ReadsAt(f, len + 1, c)
      <3>1. len + 1 - Len(c) - 1 = 0 /\ \A i \in 1..len : len + 1 - Len(c) + i - 1 = i
        BY <2>1 DEF len
      <3>2. ~RemarkAt(f, 0)
        BY <2>1, <2>3 DEF RemarkAt
      <3>3. \A i \in 1..len : f[i].comment = c[i]
        <4>1. \A body : CommentLine(body).comment = body
          BY DEF CommentLine, Line
        <4> QED
          BY <2>4, <4>1
      <3> QED
        BY <1>2, <1>4, <2>1, <2>3, <2>4, <3>1, <3>2, <3>3 DEF ReadsAt, len
    <2>6. \A n \in DOMAIN f : n = len + 1 \/ (n \in 1..len /\ n + 1 \in DOMAIN f)
      BY <2>1, <2>3
    <2>7. IsOf(f[len + 1], a) /\ len + 1 \in DOMAIN f
      BY <1>2, <2>1, <2>3
    <2>8. ASSUME NEW n \in DOMAIN f PROVE LineSays(f, n, R)
      <3>1. CASE n = len + 1
        BY <1>1, <2>5, <2>7, <3>1 DEF LineSays
      <3>2. CASE n \in 1..len /\ n + 1 \in DOMAIN f
        <4>1. n + 1 \in 1..len \/ n + 1 = len + 1
          BY <2>1, <3>2
        <4> QED
          BY <1>1, <2>4, <2>7, <3>2, <4>1 DEF LineSays
      <3> QED
        BY <2>6, <3>1, <3>2
    <2>9. \A n \in DOMAIN f : IsOf(f[n], a) => n = len + 1
      BY <2>4, <2>6, KindsApart
    <2> QED
      BY <1>1, <2>3, <2>5, <2>7, <2>8, <2>9 DEF Says, f, R
  <1> QED
    BY <1>3, <1>4, CommentParts DEF R

LEMMA EntryLine ==
  ASSUME NEW a, NEW c \in CommentType
  PROVE  Says(EntryLines(a, c), {<<a, c>>})
  <1>1. CASE c # None /\ Len(c) > 1
    BY <1>1, HeadedLine DEF EntryLines
  <1>2. CASE ~(c # None /\ Len(c) > 1)
    <2> DEFINE d == IF c = None THEN None ELSE c[1]
               l == [AnchorLine(a) EXCEPT !.comment = d]
    <2>1. c # None => c \in Comments /\ Len(c) = 1 /\ 1 \in 1..Len(c)
      <3>1. \A k \in Nat : k >= 1 /\ ~(k > 1) => k = 1 /\ 1 \in 1..k
        OBVIOUS
      <3>2. c # None => c \in Comments /\ Len(c) \in Nat /\ Len(c) >= 1
        BY CommentParts
      <3> HIDE DEF d, l
      <3> QED
        BY <1>2, <3>1, <3>2
    <2>2. d \in {None} \cup Bodied
      BY <2>1, CommentParts
    <2> HIDE DEF d
    <2>3. l \in LineType({a}) /\ IsOf(l, a) /\ l.comment = d
      BY <2>2, LinesOf
    <2>4. EntryLines(a, c) = <<l>>
      BY <1>2 DEF EntryLines, d
    <2> HIDE DEF l
    <2>5. ReadsAt(<<l>>, 1, c)
      <3>1. ~RemarkAt(<<l>>, 1 - 1) /\ <<l>>[1] = l
        BY DEF RemarkAt
      <3>2. CASE c = None
        BY <2>3, <3>1, <3>2 DEF ReadsAt, d
      <3>3. CASE c # None
        BY <2>1, <2>3, <3>1, <3>3 DEF ReadsAt, d
      <3> QED
        BY <3>2, <3>3
    <2>6. Firsts({<<a, c>>}) = {a}
      BY DEF Firsts
    <2> QED
      BY <2>3, <2>4, <2>5, <2>6, OneLine
  <1> QED
    BY <1>1, <1>2

LEMMA Parts ==
  ASSUME NEW len \in Nat, NEW ss, DOMAIN ss = 1..len, ss = [i \in 1..len |-> ss[i]],
         NEW R, \A i \in 1..len : Says(ss[i], R[i]),
         \A i, j \in 1..len : i # j => \A p \in R[i], q \in R[j] : p[1] # q[1]
  PROVE  Says(FlattenSeq(ss), UNION {R[i] : i \in 1..len})
  <1> DEFINE U == UNION {R[i] : i \in 1..len}
             UpTo(k) == UNION {R[i] : i \in 1..k}
             L == LineType(Firsts(U))
  <1>1. \A i \in 1..len : ss[i] \in Seq(L)
    <2> TAKE i \in 1..len
    <2>1. Firsts(R[i]) \subseteq Firsts(U)
      BY DEF Firsts
    <2> QED
      BY <2>1, MoreAnchors DEF Says
  <1> HIDE DEF L
  <1>2. ss \in Seq(Seq(L)) /\ Len(ss) = len
    <2>1. ss \in [1..len -> Seq(L)]
      BY <1>1
    <2> QED
      BY <2>1
  <1>3. PICK flat \in [0..len -> Seq(L)] : Concatenates(flat, ss, len) /\ flat[len] = FlattenSeq(ss)
    BY <1>2, Flattened
  <1> DEFINE T == {k \in Nat : k <= len => Says(flat[k], UpTo(k))}
  <1>4. 0 \in T
    <2>1. flat[0] = <<>> /\ UpTo(0) = {}
      BY <1>3 DEF Concatenates
    <2> QED
      BY <2>1, NoLines
  <1>5. ASSUME NEW k \in T PROVE k + 1 \in T
    <2>1. k \in Nat /\ (k <= len => Says(flat[k], UpTo(k)))
      OBVIOUS
    <2>2. SUFFICES ASSUME k + 1 <= len PROVE Says(flat[k + 1], UpTo(k + 1))
      BY <2>1
    <2> DEFINE i == k + 1
    <2>3. i \in 1..len /\ i - 1 = k /\ k <= len
      BY <2>1, <2>2
    <2>4. UpTo(i) = UpTo(k) \cup R[i]
      <3>1. 1..i = (1..k) \cup {i}
        BY <2>1
      <3> HIDE DEF i
      <3> QED
        BY <3>1
    <2>5. \A p \in UpTo(k), q \in R[i] : p[1] # q[1]
      <3> TAKE p \in UpTo(k), q \in R[i]
      <3>1. PICK j \in 1..k : p \in R[j]
        OBVIOUS
      <3>2. j \in 1..len /\ j # i
        BY <2>1, <2>2
      <3> HIDE DEF i
      <3> QED
        BY <2>3, <3>1, <3>2
    <2> HIDE DEF i, UpTo
    <2>6. flat[i] = flat[k] \o ss[i]
      BY <1>3, <2>3 DEF Concatenates
    <2>7. Says(flat[k], UpTo(k)) /\ Says(ss[i], R[i])
      BY <2>1, <2>3
    <2>8. Says(flat[i], UpTo(i))
      BY <2>4, <2>5, <2>6, <2>7, Joined
    <2> QED
      BY <2>8 DEF i
  <1>6. T = Nat
    <2>1. T \in SUBSET Nat
      OBVIOUS
    <2> HIDE DEF T
    <2> QED
      BY <1>4, <1>5, <2>1, Induction
  <1>7. len \in T
    BY <1>6
  <1>8. Says(flat[len], UpTo(len))
    BY <1>7
  <1> QED
    BY <1>3, <1>8

(***************************************************************************)
(* What a map says: its places, each with its comment.                     *)
(***************************************************************************)
TextsIn(type, id, s) == {<<Anchor(type, id, s[n].key), s[n].comment>> : n \in DOMAIN s}

SaidByBinding(b) ==
    {<<Anchor("binding", b.key, None), b.comment>>}
      \cup TextsIn("locator", b.key, b.locators)
      \cup TextsIn("field", b.key, OrEmpty(b.fields))
      \cup TextsIn("assertion", b.key, OrEmpty(b.asserted_by))

SaidByCoverage(c) ==
    {<<Anchor("coverage", None, None), c.comment>>} \cup TextsIn("curated", None, OrEmpty(c.curated))

Said(m) ==
    (UNION {SaidByBinding(m.bindings[n]) : n \in DOMAIN m.bindings})
      \cup (IF m.coverage = None THEN {} ELSE SaidByCoverage(m.coverage))

LEMMA ListSaid ==
  ASSUME NEW type, NEW id, NEW S, NEW s \in Seq(S), UniqueKeys(s),
         NEW ss, ss = [n \in DOMAIN s |-> ss[n]],
         \A n \in DOMAIN s : Says(ss[n], {<<Anchor(type, id, s[n].key), s[n].comment>>})
  PROVE  Says(FlattenSeq(ss), TextsIn(type, id, s))
  <1> DEFINE R == [n \in DOMAIN s |-> {<<Anchor(type, id, s[n].key), s[n].comment>>}]
             len == Len(s)
  <1>1. len \in Nat /\ DOMAIN s = 1..len
    BY ListProperties
  <1>2. DOMAIN ss = DOMAIN s
    OBVIOUS
  <1>3. ASSUME NEW i \in 1..len, NEW j \in 1..len, i # j, NEW p \in R[i], NEW q \in R[j]
        PROVE  p[1] # q[1]
    <2>1. p[1] = Anchor(type, id, s[i].key) /\ q[1] = Anchor(type, id, s[j].key)
      BY <1>1
    <2>2. s[i].key # s[j].key
      BY <1>1, <1>3 DEF UniqueKeys
    <2> QED
      BY <2>1, <2>2 DEF Anchor
  <1>4. \A i \in 1..len : Says(ss[i], R[i])
    BY <1>1
  <1>5. UNION {R[i] : i \in 1..len} = TextsIn(type, id, s)
    BY <1>1 DEF TextsIn
  <1> HIDE DEF R, len
  <1>6. Says(FlattenSeq(ss), UNION {R[i] : i \in 1..len})
    BY <1>1, <1>2, <1>3, <1>4, Parts
  <1> QED
    BY <1>5, <1>6

LEMMA EntriesSaid ==
  ASSUME NEW type, NEW id, NEW S, NEW s \in Seq(S), UniqueKeys(s),
         \A n \in DOMAIN s : s[n].comment \in CommentType
  PROVE  Says(Entries(type, id, s), TextsIn(type, id, s))
  <1> DEFINE ss == [n \in DOMAIN s |-> EntryLines(Anchor(type, id, s[n].key), s[n].comment)]
  <1>1. \A n \in DOMAIN s : Says(ss[n], {<<Anchor(type, id, s[n].key), s[n].comment>>})
    BY EntryLine
  <1>2. ss = [n \in DOMAIN s |-> ss[n]] /\ Entries(type, id, s) = FlattenSeq(ss)
    BY DEF Entries
  <1> HIDE DEF ss
  <1> QED
    BY <1>1, <1>2, ListSaid

LEMMA KeyedLines ==
  ASSUME NEW f, NEW R, Says(f, R)
  PROVE  Says(<<KeyLine>> \o f, R) /\ Says(<<BlankLine>> \o f, R)
  <1>1. {} \cup R = R
    OBVIOUS
  <1> QED
    BY <1>1, PlainLines, Joined

LEMMA SectionSaid ==
  ASSUME NEW type, NEW id, NEW S, None \notin Seq(S), NEW s \in {None} \cup Seq(S),
         UniqueKeys(OrEmpty(s)), \A n \in DOMAIN OrEmpty(s) : OrEmpty(s)[n].comment \in CommentType
  PROVE  Says(Section(type, id, s), TextsIn(type, id, OrEmpty(s)))
  <1>1. CASE s = None
    <2>1. Section(type, id, s) = <<>> /\ TextsIn(type, id, OrEmpty(s)) = {}
      BY <1>1, EmptyList DEF Section, TextsIn, OrEmpty
    <2> QED
      BY <2>1, NoLines
  <1>2. CASE s # None
    <2>1. s \in Seq(S) /\ OrEmpty(s) = s
      BY <1>2 DEF OrEmpty
    <2>2. Says(Entries(type, id, s), TextsIn(type, id, s))
      BY <2>1, EntriesSaid
    <2> QED
      BY <1>2, <2>1, <2>2, KeyedLines DEF Section
  <1> QED
    BY <1>1, <1>2

LEMMA CuratedSaid ==
  ASSUME NEW S, None \notin Seq(S), NEW s \in {None} \cup Seq(S),
         UniqueKeys(OrEmpty(s)), \A n \in DOMAIN OrEmpty(s) : OrEmpty(s)[n].comment \in CommentType
  PROVE  Says(CuratedLines(s), TextsIn("curated", None, OrEmpty(s)))
  <1>1. CASE s = None
    <2>1. CuratedLines(s) = <<>> /\ TextsIn("curated", None, OrEmpty(s)) = {}
      BY <1>1, EmptyList DEF CuratedLines, TextsIn, OrEmpty
    <2> QED
      BY <2>1, NoLines
  <1>2. CASE s # None
    <2> DEFINE ss == [n \in DOMAIN s |-> Headed(Anchor("curated", None, s[n].key), s[n].comment)]
    <2>1. s \in Seq(S) /\ OrEmpty(s) = s
      BY <1>2 DEF OrEmpty
    <2>2. \A n \in DOMAIN s : Says(ss[n], {<<Anchor("curated", None, s[n].key), s[n].comment>>})
      BY <2>1, HeadedLine
    <2>3. ss = [n \in DOMAIN s |-> ss[n]] /\ CuratedLines(s) = <<KeyLine>> \o FlattenSeq(ss)
      BY <1>2 DEF CuratedLines
    <2> HIDE DEF ss
    <2>4. Says(FlattenSeq(ss), TextsIn("curated", None, s))
      BY <2>1, <2>2, <2>3, ListSaid
    <2> QED
      BY <2>1, <2>3, <2>4, KeyedLines
  <1> QED
    BY <1>1, <1>2

(***************************************************************************)
(* Maps with comments in C, each thing in them once.                       *)
(***************************************************************************)
UniqueInBinding(b) ==
    UniqueKeys(b.locators) /\ UniqueKeys(OrEmpty(b.fields)) /\ UniqueKeys(OrEmpty(b.asserted_by))

Unique(m) ==
    /\ UniqueKeys(m.bindings)
    /\ \A n \in DOMAIN m.bindings : UniqueInBinding(m.bindings[n])
    /\ m.coverage # None =>
         IsInjective(OrEmpty(m.coverage.fully_bound)) /\ UniqueKeys(OrEmpty(m.coverage.curated))

LEMMA ValidIsUnique ==
  ASSUME NEW m, Dicts(m), MapOK(m)
  PROVE  Unique(m)
  BY DEF Dicts, MapOK, Unique, UniqueInBinding, BindingOK, CoverageOK

LEMMA UniqueIsDicts ==
  ASSUME NEW m, Unique(m)
  PROVE  Dicts(m)
  BY DEF Dicts, Unique, UniqueInBinding

LEMMA TypesGrow ==
  ASSUME NEW C, C \subseteq CommentType
  PROVE  /\ EntryType(C) \subseteq EntryType(CommentType)
         /\ Seq(EntryType(C)) \subseteq Seq(EntryType(CommentType))
         /\ Seq(ReasonType(C)) \subseteq Seq(ReasonType(CommentType))
         /\ None \notin Seq(EntryType(C)) /\ None \notin Seq(ReasonType(C)) /\ None \notin Seq(Kinds)
         /\ None \notin CoverageType(C)
  <1>1. EntryType(C) \subseteq EntryType(CommentType) /\ ReasonType(C) \subseteq ReasonType(CommentType)
    BY DEF EntryType, ReasonType
  <1>2. /\ Seq(EntryType(C)) \subseteq Seq(EntryType(CommentType))
        /\ Seq(ReasonType(C)) \subseteq Seq(ReasonType(CommentType))
    BY <1>1, SeqMonotonic
  <1>3. CoverageType(C) \subseteq CoverageType(CommentType)
    BY <1>2 DEF CoverageType
  <1> QED
    BY <1>1, <1>2, <1>3, NoneAssumption DEF CommentType

LEMMA BindingSaid ==
  ASSUME NEW b \in BindingType(CommentType), UniqueInBinding(b)
  PROVE  Says(BindingLines(b), SaidByBinding(b))
  <1> DEFINE S == Seq(EntryType(CommentType))
             head == {<<Anchor("binding", b.key, None), b.comment>>}
             locators == TextsIn("locator", b.key, b.locators)
             fields == TextsIn("field", b.key, OrEmpty(b.fields))
             asserted == TextsIn("assertion", b.key, OrEmpty(b.asserted_by))
  <1>1. /\ b.comment \in CommentType /\ b.locators \in S
        /\ b.fields \in {None} \cup S /\ b.asserted_by \in {None} \cup S
    BY DEF BindingType
  <1>2. None \notin S /\ \A s \in S : (\A n \in DOMAIN s : s[n].comment \in CommentType) /\ OrEmpty(s) = s
    <2>1. None \notin S
      BY TypesGrow
    <2>2. \A e \in EntryType(CommentType) : e.comment \in CommentType
      BY DEF EntryType
    <2> QED
      BY <2>1, <2>2, ListProperties DEF OrEmpty
  <1>3. \A s \in {None} \cup S : \A n \in DOMAIN OrEmpty(s) : OrEmpty(s)[n].comment \in CommentType
    BY <1>2, EmptyList DEF OrEmpty
  <1> HIDE DEF head
  <1>4. Says(Headed(Anchor("binding", b.key, None), b.comment), head)
    BY <1>1, HeadedLine DEF head
  <1>5. Says(Section("locator", b.key, b.locators), locators)
    BY <1>1, <1>2, <1>3, SectionSaid DEF UniqueInBinding
  <1>6. Says(Section("field", b.key, b.fields), fields)
    BY <1>1, <1>2, <1>3, SectionSaid DEF UniqueInBinding
  <1>7. Says(Section("assertion", b.key, b.asserted_by), asserted)
    BY <1>1, <1>2, <1>3, SectionSaid DEF UniqueInBinding
  <1>8. /\ \A p \in head : p[1][1] = "binding"
        /\ \A p \in locators : p[1][1] = "locator"
        /\ \A p \in fields : p[1][1] = "field"
        /\ \A p \in asserted : p[1][1] = "assertion"
    BY DEF head, TextsIn, Anchor
  <1> HIDE DEF locators, fields, asserted, S
  <1>9. Says(Headed(Anchor("binding", b.key, None), b.comment)
               \o Section("locator", b.key, b.locators), head \cup locators)
    BY <1>4, <1>5, <1>8, Joined
  <1>10. Says(Headed(Anchor("binding", b.key, None), b.comment)
               \o Section("locator", b.key, b.locators)
               \o Section("field", b.key, b.fields), head \cup locators \cup fields)
    <2>1. \A p \in head \cup locators, q \in fields : p[1][1] # q[1][1]
      BY <1>8
    <2> QED
      BY <1>6, <1>9, <2>1, Joined
  <1>11. Says(BindingLines(b), head \cup locators \cup fields \cup asserted)
    <2>1. \A p \in head \cup locators \cup fields, q \in asserted : p[1][1] # q[1][1]
      BY <1>8
    <2> QED
      BY <1>7, <1>10, <2>1, Joined DEF BindingLines
  <1> QED
    BY <1>11 DEF SaidByBinding, head, locators, fields, asserted

LEMMA BindingsSaid ==
  ASSUME NEW s \in Seq(BindingType(CommentType)), UniqueKeys(s),
         \A n \in DOMAIN s : UniqueInBinding(s[n])
  PROVE  Says(FlattenSeq([n \in DOMAIN s |-> <<BlankLine>> \o BindingLines(s[n])]),
              UNION {SaidByBinding(s[n]) : n \in DOMAIN s})
  <1> DEFINE len == Len(s)
             R == [n \in 1..len |-> SaidByBinding(s[n])]
             ss == [n \in DOMAIN s |-> <<BlankLine>> \o BindingLines(s[n])]
  <1>1. len \in Nat /\ DOMAIN s = 1..len /\ \A n \in 1..len : s[n] \in BindingType(CommentType)
    BY ListProperties
  <1>2. \A n \in 1..len : Says(ss[n], R[n])
    <2> TAKE n \in 1..len
    <2>1. Says(BindingLines(s[n]), SaidByBinding(s[n]))
      BY <1>1, BindingSaid
    <2> QED
      BY <1>1, <2>1, KeyedLines
  <1>3. ASSUME NEW i \in 1..len, NEW j \in 1..len, i # j, NEW p \in R[i], NEW q \in R[j]
        PROVE  p[1] # q[1]
    <2>1. \A b : \A r \in SaidByBinding(b) : r[1][2] = b.key
      BY DEF SaidByBinding, TextsIn, Anchor
    <2>2. p[1][2] = s[i].key /\ q[1][2] = s[j].key
      BY <2>1
    <2> QED
      BY <1>1, <1>3, <2>2 DEF UniqueKeys
  <1>4. DOMAIN ss = 1..len /\ ss = [n \in 1..len |-> ss[n]]
    BY <1>1
  <1>5. {R[n] : n \in 1..len} = {SaidByBinding(s[n]) : n \in DOMAIN s}
    BY <1>1
  <1> HIDE DEF ss, len, R
  <1>6. Says(FlattenSeq(ss), UNION {R[n] : n \in 1..len})
    BY <1>1, <1>2, <1>3, <1>4, Parts
  <1> QED
    BY <1>5, <1>6 DEF ss

LEMMA CoverageSaid ==
  ASSUME NEW c \in CoverageType(CommentType), UniqueKeys(OrEmpty(c.curated))
  PROVE  Says(CoverageLines(c), SaidByCoverage(c))
  <1> DEFINE S == Seq(ReasonType(CommentType))
             a == Anchor("coverage", None, None)
             head == {<<a, c.comment>>}
             curated == TextsIn("curated", None, OrEmpty(c.curated))
  <1>1. c.comment \in CommentType /\ c.curated \in {None} \cup S
    BY DEF CoverageType
  <1>2. None \notin S
    BY TypesGrow
  <1>3. \A n \in DOMAIN OrEmpty(c.curated) : OrEmpty(c.curated)[n].comment \in CommentType
    <2>1. \A e \in ReasonType(CommentType) : e.comment \in CommentType
      BY DEF ReasonType
    <2> QED
      BY <1>1, <1>2, <2>1, ListProperties, EmptyList DEF OrEmpty
  <1>4. Says(Headed(a, c.comment), head)
    BY <1>1, HeadedLine
  <1>5. Says(CuratedLines(c.curated), curated)
    BY <1>1, <1>2, <1>3, CuratedSaid
  <1>6. Says(IF c.fully_bound = None THEN <<>> ELSE <<KeyLine>>, {})
    BY NoLines, PlainLines
  <1>7. \A p \in head, q \in curated : p[1] # q[1]
    BY DEF TextsIn, Anchor
  <1>8. head \cup {} = head
    OBVIOUS
  <1> HIDE DEF head, curated, S
  <1>9. Says(Headed(a, c.comment) \o (IF c.fully_bound = None THEN <<>> ELSE <<KeyLine>>), head)
    BY <1>4, <1>6, <1>8, Joined
  <1>10. Says(CoverageLines(c), head \cup curated)
    BY <1>5, <1>7, <1>9, Joined DEF CoverageLines, a
  <1> QED
    BY <1>10 DEF SaidByCoverage, head, curated

(***************************************************************************)
(* All of the file but the header.                                         *)
(***************************************************************************)
BodyOf(m) ==
    <<KeyLine>> \o (<<BlankLine>> \o (<<KeyLine>>
      \o (FlattenSeq([n \in DOMAIN m.bindings |-> <<BlankLine>> \o BindingLines(m.bindings[n])])
            \o (IF m.coverage = None THEN <<>> ELSE <<BlankLine>> \o CoverageLines(m.coverage)))))

LEMMA BodySaid ==
  ASSUME NEW m \in MapType(CommentType), Unique(m)
  PROVE  Says(BodyOf(m), Said(m)) /\ BodyOf(m)[1] = KeyLine /\ Len(BodyOf(m)) >= 1
         /\ Emit(m) = CommentBlock(m.header) \o BodyOf(m)
  <1> DEFINE head == FlattenSeq([n \in DOMAIN m.bindings |-> <<BlankLine>> \o BindingLines(m.bindings[n])])
             tail == IF m.coverage = None THEN <<>> ELSE <<BlankLine>> \o CoverageLines(m.coverage)
             R == UNION {SaidByBinding(m.bindings[n]) : n \in DOMAIN m.bindings}
             Q == IF m.coverage = None THEN {} ELSE SaidByCoverage(m.coverage)
  <1>1. /\ m.bindings \in Seq(BindingType(CommentType)) /\ m.header \in CommentType
        /\ m.coverage # None => m.coverage \in CoverageType(CommentType)
    BY DEF MapType
  <1>2. Says(head, R)
    BY <1>1, BindingsSaid DEF Unique
  <1>3. Says(tail, Q)
    BY <1>1, NoLines, CoverageSaid, KeyedLines DEF Unique
  <1>4. \A p \in R, q \in Q : p[1] # q[1]
    <2>1. \A b : \A r \in SaidByBinding(b) : r[1][1] \in {"binding", "locator", "field", "assertion"}
      BY DEF SaidByBinding, TextsIn, Anchor
    <2>2. \A r \in SaidByCoverage(m.coverage) : r[1][1] \in {"coverage", "curated"}
      BY DEF SaidByCoverage, TextsIn, Anchor
    <2> QED
      BY <2>1, <2>2
  <1> HIDE DEF head, tail, R, Q
  <1>5. Says(head \o tail, R \cup Q)
    BY <1>2, <1>3, <1>4, Joined
  <1>6. Says(<<BlankLine>> \o (<<KeyLine>> \o (head \o tail)), R \cup Q)
    BY <1>5, KeyedLines
  <1>7. Says(BodyOf(m), Said(m))
    BY <1>6, KeyedLines DEF BodyOf, Said, head, tail, R, Q
  <1>8. \E L : CommentBlock(m.header) \in Seq(L) /\ head \in Seq(L) /\ tail \in Seq(L)
               /\ KeyLine \in L /\ BlankLine \in L
    <2> DEFINE A == Firsts(R \cup Q)
               L == LineType(A)
    <2>1. Firsts(R) \subseteq A /\ Firsts(Q) \subseteq A /\ Firsts({}) \subseteq A
      BY DEF Firsts
    <2>2. head \in Seq(L) /\ tail \in Seq(L) /\ <<KeyLine>> \in Seq(L) /\ <<BlankLine>> \in Seq(L)
      BY <1>2, <1>3, <2>1, PlainLines, MoreAnchors DEF Says
    <2>3. CommentBlock(m.header) \in Seq(L)
      BY <1>1, CommentParts, BlockLines, EmptyList DEF CommentBlock
    <2>4. KeyLine \in L /\ BlankLine \in L
      <3>1. \A s \in Seq(L) : Len(s) = 1 => s[1] \in L
        OBVIOUS
      <3> HIDE DEF L
      <3> QED
        BY <2>2, <3>1
    <2> QED
      BY <2>2, <2>3, <2>4
  <1>9. PICK L : CommentBlock(m.header) \in Seq(L) /\ head \in Seq(L) /\ tail \in Seq(L)
                 /\ KeyLine \in L /\ BlankLine \in L
    BY <1>8
  <1> DEFINE c == CommentBlock(m.header)
             k == <<KeyLine>>
             b == <<BlankLine>>
  <1>10. /\ c \in Seq(L) /\ k \in Seq(L) /\ b \in Seq(L)
         /\ <<KeyLine, BlankLine, KeyLine>> = k \o (b \o k)
         /\ Len(k) = 1 /\ k[1] = KeyLine
    BY <1>9
  <1>11. BodyOf(m) = k \o (b \o (k \o (head \o tail)))
    BY DEF BodyOf, head, tail
  <1>12. Emit(m) = ((c \o (k \o (b \o k))) \o head) \o tail
    BY <1>10 DEF Emit, head, tail
  <1> HIDE DEF c, k, b
  <1>13. \A s, t \in Seq(L) : s \o t \in Seq(L)
    BY ConcatProperties
  <1>14. \A s, t, u \in Seq(L) : (s \o t) \o u = s \o (t \o u)
    BY ConcatAssociative
  <1>15. Emit(m) = c \o BodyOf(m)
    <2> DEFINE x == b \o k
               y == k \o x
               z == head \o tail
    <2>1. x \in Seq(L) /\ y \in Seq(L) /\ z \in Seq(L) /\ head \in Seq(L) /\ tail \in Seq(L)
          /\ c \o y \in Seq(L)
      BY <1>9, <1>10, <1>13
    <2> HIDE DEF z
    <2>2. x \o z = b \o (k \o z)
      <3>1. b \in Seq(L) /\ k \in Seq(L) /\ z \in Seq(L)
        BY <1>10, <2>1
      <3> QED
        BY <1>14, <3>1
    <2> HIDE DEF x
    <2>3. y \o z = k \o (x \o z)
      <3>1. k \in Seq(L) /\ x \in Seq(L) /\ z \in Seq(L)
        BY <1>10, <2>1
      <3> QED
        BY <1>14, <3>1
    <2> HIDE DEF y
    <2>4. (c \o y) \o z = c \o (y \o z)
      <3>1. c \in Seq(L) /\ y \in Seq(L) /\ z \in Seq(L)
        BY <1>10, <2>1
      <3> QED
        BY <1>14, <3>1
    <2>5. ((c \o y) \o head) \o tail = (c \o y) \o z
      <3>1. c \o y \in Seq(L) /\ head \in Seq(L) /\ tail \in Seq(L)
        BY <2>1
      <3> QED
        BY <1>14, <3>1 DEF z
    <2> QED
      BY <1>11, <1>12, <2>2, <2>3, <2>4, <2>5 DEF x, y, z
  <1>16. BodyOf(m)[1] = KeyLine /\ Len(BodyOf(m)) >= 1
    <2>1. b \o (k \o (head \o tail)) \in Seq(L)
      BY <1>9, <1>10, <1>13
    <2> QED
      BY <1>10, <1>11, <2>1, ConcatProperties
  <1> QED
    BY <1>7, <1>15, <1>16 DEF c

(***************************************************************************)
(* Blocks of comment lines.                                                *)
(***************************************************************************)
LEMMA GreatestPlace ==
  ASSUME NEW P \in SUBSET Nat, IsFiniteSet(P), P # {}
  PROVE  Max(P) \in P /\ \A n \in P : n <= Max(P)
  BY Extremes DEF Max

LEMMA PlacesBetween ==
  ASSUME NEW a \in Nat, NEW b \in Nat, NEW P \in SUBSET (a..b)
  PROVE  IsFiniteSet(P) /\ P \in SUBSET Nat
  <1>1. IsFiniteSet(a..b) /\ a..b \subseteq Nat
    BY FS_Interval
  <1> QED
    BY <1>1, FS_Subset

LEMMA BlockStarts ==
  ASSUME NEW S, NEW f \in Seq(S), NEW e \in BlockEnds(f)
  PROVE  LET start == BlockStart(f, e)
         IN  /\ e \in 1..Len(f) /\ start \in 1..e /\ ~IsComment(f, start - 1)
             /\ \A n \in start..e : IsComment(f, n)
  <1> DEFINE P == {n \in 1..e : ~IsComment(f, n - 1)}
             start == Max(P)
  <1>1. e \in 1..Len(f) /\ Len(f) \in Nat /\ IsComment(f, e)
    BY ListProperties DEF BlockEnds
  <1>2. 1 \in P
    BY <1>1, ListProperties DEF IsComment
  <1>3. IsFiniteSet(P) /\ P \in SUBSET Nat
    <2>1. P \in SUBSET (1..e) /\ e \in Nat
      BY <1>1
    <2> HIDE DEF P
    <2> QED
      BY <2>1, PlacesBetween
  <1>4. start \in P /\ \A n \in P : n <= start
    BY <1>2, <1>3, GreatestPlace
  <1>5. ASSUME NEW n \in start..e, ~IsComment(f, n)
        PROVE  FALSE
    <2>1. n # e /\ n \in Nat /\ start \in Nat /\ e \in Nat /\ start <= n /\ n <= e
      BY <1>1, <1>4, <1>5
    <2>2. n + 1 \in 1..e /\ (n + 1) - 1 = n
      BY <2>1
    <2>3. n + 1 \in P
      BY <1>5, <2>2
    <2> HIDE DEF P, start
    <2> QED
      BY <1>4, <2>1, <2>3
  <1> HIDE DEF start
  <1> QED
    BY <1>1, <1>4, <1>5 DEF BlockStart, start

LEMMA BlockStartIs ==
  ASSUME NEW S, NEW f \in Seq(S), NEW e \in BlockEnds(f), NEW k \in 1..e, ~IsComment(f, k - 1),
         \A n \in k..e : IsComment(f, n)
  PROVE  BlockStart(f, e) = k
  <1> DEFINE start == BlockStart(f, e)
  <1>1. e \in 1..Len(f) /\ Len(f) \in Nat /\ start \in 1..e /\ ~IsComment(f, start - 1)
        /\ \A n \in start..e : IsComment(f, n)
    BY BlockStarts, ListProperties
  <1> HIDE DEF start
  <1>2. ~(start > k)
    <2> SUFFICES ASSUME start > k PROVE FALSE
      OBVIOUS
    <2>1. start - 1 \in k..e
      BY <1>1
    <2> QED
      BY <1>1, <2>1
  <1>3. ~(start < k)
    <2> SUFFICES ASSUME start < k PROVE FALSE
      OBVIOUS
    <2>1. k - 1 \in start..e
      BY <1>1
    <2> QED
      BY <1>1, <2>1
  <1>4. start = k
    BY <1>1, <1>2, <1>3
  <1> QED
    BY <1>4 DEF start

LEMMA LinesAfter ==
  ASSUME NEW S, NEW f \in Seq(S), NEW e \in 1..Len(f)
  PROVE  LET next == LineAfter(f, e)
         IN  /\ next \in (e + 1)..(Len(f) + 1) /\ (next \notin DOMAIN f \/ f[next].kind # "marker")
             /\ \A n \in (e + 1)..(next - 1) : n \in DOMAIN f /\ f[n].kind = "marker"
  <1> DEFINE P == {n \in (e + 1)..(Len(f) + 1) : n \notin DOMAIN f \/ f[n].kind # "marker"}
             next == Min(P)
  <1>1. Len(f) \in Nat /\ DOMAIN f = 1..Len(f)
    BY ListProperties
  <1>2. Len(f) + 1 \in P
    BY <1>1
  <1>3. IsFiniteSet(P) /\ P \in SUBSET Nat
    <2> DEFINE a == e + 1
               b == Len(f) + 1
    <2>1. P \in SUBSET (a..b) /\ a \in Nat /\ b \in Nat
      BY <1>1
    <2> HIDE DEF P, a, b
    <2> QED
      BY <2>1, PlacesBetween
  <1>4. next \in P /\ \A n \in P : next <= n
    BY <1>2, <1>3, LeastPlace
  <1>5. \A n \in (e + 1)..(next - 1) : n \in DOMAIN f /\ f[n].kind = "marker"
    <2> SUFFICES ASSUME NEW n \in (e + 1)..(next - 1) PROVE n \in DOMAIN f /\ f[n].kind = "marker"
      OBVIOUS
    <2>1. n \in (e + 1)..(Len(f) + 1) /\ ~(next <= n)
      BY <1>1, <1>4
    <2> HIDE DEF next
    <2> QED
      BY <1>4, <2>1
  <1> HIDE DEF next
  <1> QED
    BY <1>4, <1>5 DEF LineAfter, next

LEMMA FirstContents ==
  ASSUME NEW S, NEW f \in Seq(S), \E n \in DOMAIN f : f[n].kind = "text"
  PROVE  /\ FirstContent(f) \in DOMAIN f /\ f[FirstContent(f)].kind = "text"
         /\ \A n \in DOMAIN f : f[n].kind = "text" => FirstContent(f) <= n
  <1> DEFINE P == {n \in DOMAIN f : f[n].kind = "text"}
  <1>1. P # {} /\ P \in SUBSET DOMAIN f
    OBVIOUS
  <1>2. IsFiniteSet(P) /\ P \in SUBSET Nat
    BY <1>1, PlacesFinite
  <1>3. Min(P) \in P /\ \A n \in P : Min(P) <= n
    BY <1>1, <1>2, LeastPlace
  <1> QED
    BY <1>3 DEF FirstContent

(***************************************************************************)
(* A file written: the header and what a body says.  Each comment is one   *)
(* carrier's, and the carriers are read off the lines of the places.       *)
(***************************************************************************)
HeadLen(h) == IF h = None THEN 0 ELSE Len(h)

Heads(f, h, R) ==
    /\ f \in Seq(LineType(Firsts(R)))
    /\ HeadLen(h) + 1 \in DOMAIN f /\ f[HeadLen(h) + 1] = KeyLine
    /\ \A n \in 1..HeadLen(h) : f[n] = CommentLine(h[n])
    /\ \A n \in DOMAIN f : n > HeadLen(h) => LineSays(f, n, R)
    /\ \A p \in R : \E n \in DOMAIN f : IsOf(f[n], p[1]) /\ ReadsAt(f, n, p[2])
    /\ \A m, n \in DOMAIN f : \A p \in R : IsOf(f[m], p[1]) /\ IsOf(f[n], p[1]) => m = n

LEMMA HeadSaid ==
  ASSUME NEW h \in CommentType, NEW g, NEW R, Says(g, R), Len(g) >= 1, g[1] = KeyLine
  PROVE  Heads(CommentBlock(h) \o g, h, R)
  <1> DEFINE f == CommentBlock(h) \o g
             k == HeadLen(h)
             len == Len(g)
             L == LineType(Firsts(R))
  <1>1. k \in Nat /\ CommentBlock(h) \in Seq(L) /\ Len(CommentBlock(h)) = k
        /\ \A n \in 1..k : CommentBlock(h)[n] = CommentLine(h[n])
    <2>1. CASE h = None
      BY <2>1, EmptyList DEF HeadLen, CommentBlock
    <2>2. CASE h \in Comments
      <3>1. Len(h) \in Nat /\ k = Len(h)
        BY <2>2, CommentParts, NoneAssumption, SeqMonotonic DEF HeadLen, Comments, Trimmed
      <3> HIDE DEF k
      <3> QED
        BY <2>2, <3>1, BlockLines
    <2> QED
      BY <2>1, <2>2, CommentParts
  <1>2. g \in Seq(L) /\ len \in Nat /\ DOMAIN g = 1..len
    BY ListProperties DEF Says
  <1>3. /\ f \in Seq(L) /\ DOMAIN f = 1..(k + len)
        /\ \A n \in 1..k : f[n] = CommentLine(h[n])
        /\ \A n \in 1..len : f[k + n] = g[n]
    <2> DEFINE t == CommentBlock(h)
    <2>1. t \in Seq(L) /\ Len(t) = k /\ f = t \o g /\ \A n \in 1..k : t[n] = CommentLine(h[n])
      BY <1>1
    <2> HIDE DEF t, k, L, f
    <2>2. f \in Seq(L) /\ Len(f) = k + len
      BY <1>2, <2>1, ConcatProperties
    <2>3. \A n \in 1..k : f[n] = t[n]
      BY <1>1, <1>2, <2>1, ConcatProperties
    <2>4. \A n \in 1..len : f[k + n] = g[n]
      BY <1>1, <1>2, <2>1, ConcatProperties
    <2> QED
      BY <2>1, <2>2, <2>3, <2>4, ListProperties
  <1> HIDE DEF f, k, len, L
  <1>4. \A n \in Int : n >= 1 => (RemarkAt(f, k + n) <=> RemarkAt(g, n))
    BY <1>1, <1>2, <1>3 DEF RemarkAt
  <1>5. ~RemarkAt(g, 1)
    BY PlainLines, KindsApart DEF RemarkAt
  <1>6. \A n \in 1..len : \A a : IsOf(g[n], a) => n >= 2
    BY <1>2, PlainLines, KindsApart
  <1>7. ASSUME NEW n \in 1..len, n >= 2, NEW c, ReadsAt(g, n, c)
        PROVE  ReadsAt(f, k + n, c)
    <2>1. RemarkAt(f, k + n - 1) <=> RemarkAt(g, n - 1)
      <3>1. n - 1 \in Int /\ n - 1 >= 1 /\ k + n - 1 = k + (n - 1)
        BY <1>1, <1>2, <1>7
      <3> QED
        BY <1>4, <3>1
    <2>2. c \in Comments => Len(c) \in Nat /\ Len(c) >= 1
      BY CommentParts DEF CommentType
    <2>3. f[k + n] = g[n]
      BY <1>3
    <2>4. CASE c = None /\ g[n].comment = None /\ ~RemarkAt(g, n - 1)
      BY <1>1, <2>1, <2>3, <2>4 DEF ReadsAt
    <2>5. CASE c \in Comments /\ Len(c) = 1 /\ g[n].comment = c[1] /\ ~RemarkAt(g, n - 1)
      BY <1>1, <2>1, <2>3, <2>5 DEF ReadsAt
    <2>6. CASE /\ c \in Comments /\ Len(c) < n /\ g[n].comment = None /\ ~RemarkAt(g, n - Len(c) - 1)
               /\ \A i \in 1..Len(c) :
                    IsRemark(g[n - Len(c) + i - 1]) /\ g[n - Len(c) + i - 1].comment = c[i]
      <3>1. n - Len(c) + 1 - 1 # 1
        <4>1. IsRemark(g[n - Len(c) + 1 - 1])
          BY <2>2, <2>6
        <4> QED
          BY <4>1, PlainLines, KindsApart
      <3>2. n - Len(c) - 1 \in Int /\ n - Len(c) - 1 >= 1
              /\ k + n - Len(c) - 1 = k + (n - Len(c) - 1)
        BY <1>1, <1>2, <2>2, <2>6, <3>1
      <3>3. RemarkAt(f, k + n - Len(c) - 1) <=> RemarkAt(g, n - Len(c) - 1)
        BY <1>4, <3>2
      <3>4. \A i \in 1..Len(c) : n - Len(c) + i - 1 \in 1..len
              /\ k + n - Len(c) + i - 1 = k + (n - Len(c) + i - 1)
        BY <1>1, <1>2, <2>2, <2>6
      <3>5. \A i \in 1..Len(c) : f[k + n - Len(c) + i - 1] = g[n - Len(c) + i - 1]
        BY <1>3, <3>4
      <3>6. Len(c) < k + n
        BY <1>1, <1>2, <2>2, <2>6
      <3> QED
        BY <1>1, <2>3, <2>6, <3>3, <3>5, <3>6 DEF ReadsAt
    <2> QED
      BY <1>7, <2>4, <2>5, <2>6 DEF ReadsAt
  <1>8. \A n \in 1..(k + len) : n \in 1..k \/ \E j \in 1..len : n = k + j
    <2> TAKE n \in 1..(k + len)
    <2>1. n \in 1..k \/ (n - k \in 1..len /\ n = k + (n - k))
      BY <1>1, <1>2
    <2> QED
      BY <2>1
  <1>9. ASSUME NEW j \in 1..len
        PROVE  LineSays(f, k + j, R)
    <2>1. LineSays(g, j, R) /\ f[k + j] = g[j]
      BY <1>2, <1>3 DEF Says
    <2>2. CASE IsPlain(g[j])
      BY <2>1, <2>2 DEF LineSays
    <2>3. CASE IsRemark(g[j]) /\ j + 1 \in DOMAIN g /\ (IsRemark(g[j + 1]) \/ \E p \in R : IsOf(g[j + 1], p[1]))
      <3>1. k + j + 1 = k + (j + 1) /\ k + j + 1 \in DOMAIN f /\ j + 1 \in 1..len
        BY <1>1, <1>2, <1>3, <2>3
      <3>2. f[k + j + 1] = g[j + 1]
        BY <1>3, <3>1
      <3> QED
        BY <2>1, <2>3, <3>1, <3>2 DEF LineSays
    <2>4. ASSUME NEW p \in R, IsOf(g[j], p[1]), ReadsAt(g, j, p[2])
          PROVE  LineSays(f, k + j, R)
      BY <1>6, <1>7, <2>1, <2>4 DEF LineSays
    <2> QED
      BY <2>1, <2>2, <2>3, <2>4 DEF LineSays
  <1>10. \A n \in DOMAIN f : n > k => LineSays(f, n, R)
    BY <1>1, <1>3, <1>8, <1>9
  <1>11. ASSUME NEW p \in R
         PROVE  \E n \in DOMAIN f : IsOf(f[n], p[1]) /\ ReadsAt(f, n, p[2])
    <2>1. PICK j \in 1..len : IsOf(g[j], p[1]) /\ ReadsAt(g, j, p[2])
      BY <1>2 DEF Says
    <2>2. k + j \in DOMAIN f
      BY <1>1, <1>2, <1>3
    <2> QED
      BY <1>3, <1>6, <1>7, <2>1, <2>2
  <1>12. ASSUME NEW m \in DOMAIN f, NEW n \in DOMAIN f, NEW p \in R, IsOf(f[m], p[1]), IsOf(f[n], p[1])
         PROVE  m = n
    <2>1. \A i \in 1..k : ~IsOf(f[i], p[1])
      <3>1. \A body : ~IsOf(CommentLine(body), p[1])
        BY DEF IsOf, CommentLine, Line
      <3> QED
        BY <1>3, <3>1
    <2>2. PICK i \in 1..len, j \in 1..len : m = k + i /\ n = k + j
      BY <1>3, <1>8, <1>12, <2>1
    <2>3. IsOf(g[i], p[1]) /\ IsOf(g[j], p[1])
      BY <1>3, <1>12, <2>2
    <2>4. i = j
      BY <1>2, <2>3 DEF Says
    <2> QED
      BY <2>2, <2>4
  <1>13. k + 1 \in DOMAIN f /\ f[k + 1] = KeyLine
    BY <1>1, <1>2, <1>3 DEF len
  <1> QED
    BY <1>3, <1>10, <1>11, <1>12, <1>13 DEF Heads, f, k, L

Placed(R) ==
    /\ \A p \in R : p[1] # Header /\ p[1] # None /\ p[2] \in CommentType
    /\ \A p, q \in R : p[1] = q[1] => p[2] = q[2]

LEMMA WrittenLines ==
  ASSUME NEW h \in CommentType, NEW R, Placed(R), NEW f, Heads(f, h, R)
  PROVE  /\ Len(f) \in Nat /\ DOMAIN f = 1..Len(f) /\ HeadLen(h) \in Nat
         /\ FirstContent(f) = HeadLen(h) + 1
         /\ \A n \in Int : IsComment(f, n) <=> RemarkAt(f, n)
         /\ \A n \in DOMAIN f : n <= HeadLen(h) => IsComment(f, n)
         /\ \A p \in R : \E n \in DOMAIN f :
              /\ n > HeadLen(h) + 1 /\ IsOf(f[n], p[1]) /\ ReadsAt(f, n, p[2])
              /\ \A m \in DOMAIN f : IsOf(f[m], p[1]) <=> m = n
  <1> DEFINE k == HeadLen(h)
  <1>1. Len(f) \in Nat /\ DOMAIN f = 1..Len(f)
    BY ListProperties DEF Heads
  <1>2. k \in Nat /\ (k > 0 => h \in Comments /\ k = Len(h))
    <2>1. CASE h = None
      BY <2>1 DEF HeadLen
    <2>2. CASE h \in Comments /\ h # None
      <3>1. Len(h) \in Nat /\ k = Len(h)
        BY <2>2, CommentParts DEF HeadLen
      <3> QED
        BY <2>2, <3>1
    <2> QED
      BY <2>1, <2>2, CommentParts
  <1> HIDE DEF k
  <1>3. \A n \in 1..k : IsRemark(f[n]) /\ f[n].kind = "comment"
    <2>1. \A n \in 1..k : h[n] \in Trimmed
      BY <1>2, CommentParts
    <2>2. \A body \in Trimmed : IsRemark(CommentLine(body)) /\ CommentLine(body).kind = "comment"
      BY DEF IsRemark, CommentLine, Line
    <2> QED
      BY <2>1, <2>2 DEF Heads, k
  <1>4. \A n \in DOMAIN f : f[n].kind = "comment" <=> IsRemark(f[n])
    <2> TAKE n \in DOMAIN f
    <2>1. n \in 1..k \/ n > k
      BY <1>1, <1>2
    <2>2. n > k => LineSays(f, n, R)
      BY DEF Heads, k
    <2>3. \A l, a : (IsPlain(l) \/ IsOf(l, a)) => l.kind # "comment"
      BY DEF IsPlain, IsOf
    <2> QED
      BY <1>3, <2>1, <2>2, <2>3 DEF LineSays, IsRemark
  <1>5. \A n \in Int : IsComment(f, n) <=> RemarkAt(f, n)
    BY <1>4 DEF IsComment, RemarkAt
  <1>6. \A n \in DOMAIN f : n <= k => IsComment(f, n)
    BY <1>1, <1>2, <1>3 DEF IsComment
  <1>7. k + 1 \in DOMAIN f /\ f[k + 1].kind = "text" /\ f[k + 1] = KeyLine
    BY DEF Heads, k, KeyLine, TextLine, Line
  <1>8. FirstContent(f) = k + 1
    <2>1. FirstContent(f) \in DOMAIN f /\ f[FirstContent(f)].kind = "text" /\ FirstContent(f) <= k + 1
      BY <1>7, FirstContents DEF Heads
    <2>2. FirstContent(f) \notin 1..k
      BY <1>3, <2>1
    <2> QED
      BY <1>1, <1>2, <2>1, <2>2
  <1>9. ASSUME NEW p \in R
        PROVE  \E n \in DOMAIN f :
                 /\ n > k + 1 /\ IsOf(f[n], p[1]) /\ ReadsAt(f, n, p[2])
                 /\ \A m \in DOMAIN f : IsOf(f[m], p[1]) <=> m = n
    <2>1. PICK n \in DOMAIN f : IsOf(f[n], p[1]) /\ ReadsAt(f, n, p[2])
      BY DEF Heads
    <2>2. n # k + 1
      BY <1>7, <2>1, PlainLines, KindsApart
    <2>3. n \notin 1..k
      BY <1>3, <2>1, KindsApart
    <2>4. n > k + 1
      BY <1>1, <1>2, <2>2, <2>3
    <2>5. \A m \in DOMAIN f : IsOf(f[m], p[1]) <=> m = n
      BY <2>1 DEF Heads
    <2> QED
      BY <2>1, <2>4, <2>5
  <1> QED
    BY <1>1, <1>2, <1>5, <1>6, <1>8, <1>9 DEF k

LineOf(f, a) == CHOOSE n \in DOMAIN f : IsOf(f[n], a)

PlaceCarrier(f, p) ==
    LET n == LineOf(f, p[1])
    IN  IF f[n].comment # None THEN Carrier(p[1], "trailing", n, p[2], FALSE)
        ELSE Carrier(p[1], "block", n - Len(p[2]), p[2], FALSE)

HeaderCarrier(h) == Carrier(Header, "block", 1, h, FALSE)

LEMMA PlaceTrailing ==
  ASSUME NEW h \in CommentType, NEW R, Placed(R), NEW f, Heads(f, h, R),
         NEW p \in R, NEW n \in DOMAIN f, IsOf(f[n], p[1]), f[n].comment # None
  PROVE  TrailingCarrier(f, n) = PlaceCarrier(f, p) /\ p[2] # None /\ f[n].kind # "comment"
  <1>1. ReadsAt(f, n, p[2]) /\ LineOf(f, p[1]) = n
    BY WrittenLines DEF LineOf
  <1>2. p[2] \in Comments /\ Len(p[2]) = 1 /\ f[n].comment = p[2][1]
    BY <1>1 DEF ReadsAt
  <1>3. p[2] \in CommentType /\ p[2] # None /\ p[2][1] \in Trimmed
    <2>1. p[2] \in Seq(Trimmed) /\ p[2] \in CommentType
      BY <1>2 DEF Comments, CommentType
    <2>2. p[2] # None
      BY <2>1, NoneAssumption, SeqMonotonic DEF Trimmed
    <2> QED
      BY <1>2, <2>1, <2>2
  <1>4. p[2] = <<p[2][1]>>
    <2>1. p[2] \in Seq(Trimmed)
      BY <1>2 DEF Comments
    <2> QED
      BY <1>2, <2>1
  <1>5. Trim[f[n].comment] = f[n].comment
    BY <1>2, <1>3 DEF Trimmed
  <1>6. EndAt(f, n) = p[1]
    <2>1. \A a : <<a>> # <<>> /\ Last(<<a>>) = a
      BY DEF Last
    <2> QED
      BY <2>1 DEF EndAt, IsOf
  <1>7. TrailingCarrier(f, n) = Carrier(p[1], "trailing", n, p[2], FALSE)
    BY <1>2, <1>4, <1>5, <1>6 DEF TrailingCarrier, Untrimmed, UntrimmedRaw
  <1>8. PlaceCarrier(f, p) = Carrier(p[1], "trailing", n, p[2], FALSE)
    BY <1>1 DEF PlaceCarrier
  <1> QED
    BY <1>3, <1>7, <1>8 DEF IsOf

LEMMA PlaceBlock ==
  ASSUME NEW h \in CommentType, NEW R, Placed(R), NEW f, Heads(f, h, R),
         NEW p \in R, p[2] # None, NEW n \in DOMAIN f, IsOf(f[n], p[1]), f[n].comment = None
  PROVE  n - 1 \in BlockEnds(f) /\ BlockCarrier(f, n - 1) = PlaceCarrier(f, p)
  <1> DEFINE c == p[2]
             len == Len(c)
             k == n - len
             e == n - 1
  <1>1. /\ ReadsAt(f, n, c) /\ LineOf(f, p[1]) = n /\ n > FirstContent(f) /\ n \in 1..Len(f)
        /\ Len(f) \in Nat /\ DOMAIN f = 1..Len(f)
        /\ \A m \in Int : IsComment(f, m) <=> RemarkAt(f, m)
    BY WrittenLines DEF LineOf
  <1>2. c \in CommentType
    BY DEF Placed
  <1>3. c \in Comments /\ len \in Nat /\ len >= 1 /\ \A m \in 1..len : c[m] \in Trimmed
    BY <1>2, CommentParts
  <1>4. /\ len < n /\ ~RemarkAt(f, n - len - 1)
        /\ \A i \in 1..len : IsRemark(f[n - len + i - 1]) /\ f[n - len + i - 1].comment = c[i]
    <2>1. \A m \in 1..len : c[m] # None
      BY <1>3, NoneAssumption DEF Trimmed
    <2>2. ~(len = 1 /\ f[n].comment = c[1])
      BY <1>3, <2>1
    <2> QED
      BY <1>1, <1>3, <2>2 DEF ReadsAt
  <1> HIDE DEF c, len
  <1>5. k \in 1..e /\ k - 1 = n - len - 1 /\ e \in DOMAIN f /\ e + 1 = n
    BY <1>1, <1>3, <1>4
  <1>6. \A m \in k..e : IsComment(f, m)
    <2> TAKE m \in k..e
    <2>1. m - k + 1 \in 1..len /\ m = n - len + (m - k + 1) - 1 /\ m \in DOMAIN f
      BY <1>1, <1>3, <1>4
    <2>2. IsRemark(f[m])
      BY <1>4, <2>1
    <2> QED
      BY <2>1, <2>2 DEF IsComment, IsRemark
  <1>7. ~IsComment(f, k - 1)
    BY <1>1, <1>4, <1>5
  <1>8. e \in BlockEnds(f)
    <2>1. ~IsComment(f, n)
      BY DEF IsComment, IsOf
    <2>2. e \in k..e
      BY <1>1, <1>3, <1>4
    <2>3. IsComment(f, e)
      BY <1>6, <2>2
    <2> HIDE DEF e, k
    <2> QED
      BY <1>5, <2>1, <2>3 DEF BlockEnds
  <1>9. f \in Seq(LineType(Firsts(R)))
    BY DEF Heads
  <1>10. BlockStart(f, e) = k
    BY <1>5, <1>6, <1>7, <1>8, <1>9, BlockStartIs
  <1>11. LineAfter(f, e) = n
    <2> DEFINE next == LineAfter(f, e)
    <2>1. next \in (e + 1)..(Len(f) + 1) /\ \A m \in (e + 1)..(next - 1) : f[m].kind = "marker"
      BY <1>1, <1>5, <1>9, LinesAfter
    <2>2. f[n].kind # "marker"
      BY DEF IsOf
    <2> HIDE DEF next
    <2>3. ~(next > n)
      BY <1>1, <1>5, <2>1, <2>2
    <2>4. next = n
      BY <1>1, <1>5, <2>1, <2>3
    <2> QED
      BY <2>4 DEF next
  <1>12. \A i \in 1..len : f[k + i - 1].comment = c[i] /\ Trim[c[i]] = c[i]
    BY <1>3, <1>4 DEF Trimmed
  <1>13. [m \in 1..(e - k + 1) |-> Trim[f[k + m - 1].comment]] = c
    <2>1. e - k + 1 = len
      BY <1>1, <1>3
    <2>2. c = [m \in 1..len |-> c[m]]
      BY <1>3 DEF Comments, len
    <2> HIDE DEF e, k
    <2>3. [m \in 1..len |-> Trim[f[k + m - 1].comment]] = [m \in 1..len |-> c[m]]
      BY <1>12
    <2> QED
      BY <2>1, <2>2, <2>3
  <1>14. Untrimmed(f, e) = FALSE
    <2>1. e = k + len - 1 /\ len \in 1..len
      BY <1>1, <1>3
    <2> HIDE DEF e, k
    <2> QED
      BY <1>12, <2>1 DEF Untrimmed, UntrimmedRaw
  <1>15. StartAt(f, n) = p[1]
    <2>1. \A a : <<a>> # <<>> /\ Last(<<a>>) = a
      BY DEF Last
    <2> QED
      BY <2>1 DEF StartAt, IsOf
  <1>16. n # FirstContent(f)
    <2>1. FirstContent(f) \in Int
      BY WrittenLines
    <2> QED
      BY <1>1, <2>1
  <1>17. BlockCarrier(f, e) = Carrier(p[1], "block", k, c, FALSE)
    <2> HIDE DEF e, k
    <2>1. BlockCarrier(f, e) =
            Carrier(StartAt(f, n), "block", k, [m \in 1..(e - k + 1) |-> Trim[f[k + m - 1].comment]],
                    Untrimmed(f, e))
      BY <1>10, <1>11, <1>16 DEF BlockCarrier
    <2> QED
      BY <1>13, <1>14, <1>15, <2>1
  <1>18. PlaceCarrier(f, p) = Carrier(p[1], "block", k, c, FALSE)
    BY <1>1 DEF PlaceCarrier, c, len
  <1> QED
    BY <1>8, <1>17, <1>18

LEMMA HeaderBlock ==
  ASSUME NEW h \in Comments, NEW R, Placed(R), NEW f, Heads(f, h, R)
  PROVE  HeadLen(h) \in BlockEnds(f) /\ BlockCarrier(f, HeadLen(h)) = HeaderCarrier(h)
  <1> DEFINE e == HeadLen(h)
  <1>1. h \in CommentType
    BY DEF CommentType
  <1>2. h # None /\ Len(h) \in Nat /\ Len(h) >= 1 /\ \A n \in 1..Len(h) : h[n] \in Trimmed
    BY <1>1, CommentParts, NoneAssumption, SeqMonotonic DEF Comments, Trimmed
  <1>3. e = Len(h)
    BY <1>2 DEF HeadLen
  <1>4. /\ Len(f) \in Nat /\ DOMAIN f = 1..Len(f) /\ FirstContent(f) = e + 1
        /\ \A n \in DOMAIN f : n <= e => IsComment(f, n)
    BY <1>1, WrittenLines
  <1>5. e + 1 \in DOMAIN f /\ f[e + 1] = KeyLine /\ f \in Seq(LineType(Firsts(R)))
        /\ \A n \in 1..e : f[n] = CommentLine(h[n])
    BY DEF Heads
  <1> HIDE DEF e
  <1>6. e \in 1..Len(f) /\ e \in Nat
    BY <1>2, <1>3, <1>4, <1>5
  <1>7. f[e + 1].kind = "text"
    BY <1>5 DEF KeyLine, TextLine, Line
  <1>8. e \in BlockEnds(f)
    BY <1>4, <1>6, <1>7 DEF BlockEnds, IsComment
  <1>9. BlockStart(f, e) = 1
    <2>1. ~IsComment(f, 1 - 1) /\ 1 \in 1..e
      BY <1>4, <1>6 DEF IsComment
    <2>2. \A n \in 1..e : IsComment(f, n)
      BY <1>4, <1>6
    <2> QED
      BY <1>5, <1>8, <2>1, <2>2, BlockStartIs
  <1>10. LineAfter(f, e) = e + 1
    <2> DEFINE next == LineAfter(f, e)
    <2>1. next \in (e + 1)..(Len(f) + 1) /\ \A m \in (e + 1)..(next - 1) : f[m].kind = "marker"
      BY <1>5, <1>6, LinesAfter
    <2> HIDE DEF next
    <2>2. ~(next > e + 1)
      BY <1>4, <1>6, <1>7, <2>1
    <2>3. next = e + 1
      BY <1>4, <1>6, <2>1, <2>2
    <2> QED
      BY <2>3 DEF next
  <1>11. \A n \in 1..e : f[n].comment = h[n] /\ Trim[h[n]] = h[n]
    <2>1. \A body : CommentLine(body).comment = body
      BY DEF CommentLine, Line
    <2> QED
      BY <1>2, <1>3, <1>5, <2>1 DEF Trimmed
  <1>12. [n \in 1..(e - 1 + 1) |-> Trim[f[1 + n - 1].comment]] = h
    <2>1. e - 1 + 1 = e /\ \A n \in 1..e : 1 + n - 1 = n
      BY <1>6
    <2>2. [n \in 1..e |-> Trim[f[1 + n - 1].comment]] = [n \in 1..e |-> h[n]]
      BY <1>11, <2>1
    <2>3. h = [n \in 1..e |-> h[n]]
      BY <1>3 DEF Comments
    <2> QED
      BY <2>1, <2>2, <2>3
  <1>13. ~ \E n \in 1..e : UntrimmedRaw(f, n)
    BY <1>11 DEF UntrimmedRaw
  <1>14. BlockCarrier(f, e) = HeaderCarrier(h)
    BY <1>4, <1>9, <1>10, <1>12, <1>13 DEF BlockCarrier, HeaderCarrier
  <1> QED
    BY <1>8, <1>14 DEF e

LEMMA WrittenCarriers ==
  ASSUME NEW h \in CommentType, NEW R, Placed(R), NEW f, Heads(f, h, R)
  PROVE  Carriers(f) = {PlaceCarrier(f, p) : p \in {q \in R : q[2] # None}}
                         \cup (IF h = None THEN {} ELSE {HeaderCarrier(h)})
  <1> DEFINE k == HeadLen(h)
             places == {PlaceCarrier(f, p) : p \in {q \in R : q[2] # None}}
             heads == IF h = None THEN {} ELSE {HeaderCarrier(h)}
  <1>1. /\ Len(f) \in Nat /\ DOMAIN f = 1..Len(f) /\ k \in Nat
        /\ \A n \in Int : IsComment(f, n) <=> RemarkAt(f, n)
        /\ \A n \in DOMAIN f : n <= k => IsComment(f, n)
        /\ \A p \in R : \E n \in DOMAIN f :
             /\ n > k + 1 /\ IsOf(f[n], p[1]) /\ ReadsAt(f, n, p[2])
             /\ \A m \in DOMAIN f : IsOf(f[m], p[1]) <=> m = n
    BY WrittenLines
  <1> HIDE DEF k
  <1>2. ASSUME NEW n \in DOMAIN f, f[n].comment # None, f[n].kind # "comment"
        PROVE  TrailingCarrier(f, n) \in places
    <2>1. n > k
      BY <1>1, <1>2 DEF IsComment
    <2>2. LineSays(f, n, R)
      BY <2>1 DEF Heads, k
    <2>3. PICK p \in R : IsOf(f[n], p[1])
      BY <1>2, <2>2 DEF LineSays, IsPlain, IsRemark
    <2>4. TrailingCarrier(f, n) = PlaceCarrier(f, p) /\ p[2] # None
      BY <1>2, <2>3, PlaceTrailing
    <2> QED
      BY <2>4
  <1>3. ASSUME NEW e \in BlockEnds(f)
        PROVE  BlockCarrier(f, e) \in places \cup heads
    <2>1. e \in DOMAIN f /\ IsComment(f, e) /\ ~IsComment(f, e + 1)
      BY <1>3 DEF BlockEnds
    <2>2. CASE e <= k
      <3>1. e = k /\ k > 0
        <4>1. ~(e + 1 <= k)
          <5>1. k + 1 \in DOMAIN f
            BY DEF Heads, k
          <5> QED
            BY <1>1, <2>1, <5>1
        <4> QED
          BY <1>1, <2>1, <2>2, <4>1
      <3>2. h # None /\ h \in Comments
        BY <3>1, CommentParts DEF k, HeadLen
      <3>3. BlockCarrier(f, e) = HeaderCarrier(h)
        BY <3>1, <3>2, HeaderBlock DEF k
      <3> QED
        BY <3>2, <3>3
    <2>3. CASE e > k
      <3>1. LineSays(f, e, R) /\ IsRemark(f[e])
        BY <1>1, <2>1, <2>3 DEF Heads, k, RemarkAt
      <3>2. e + 1 \in DOMAIN f /\ (IsRemark(f[e + 1]) \/ \E p \in R : IsOf(f[e + 1], p[1]))
        BY <3>1, KindsApart DEF LineSays
      <3>3. PICK p \in R : IsOf(f[e + 1], p[1])
        BY <1>1, <2>1, <3>2 DEF RemarkAt
      <3> DEFINE n == e + 1
      <3>4. n \in DOMAIN f /\ IsOf(f[n], p[1]) /\ n - 1 = e /\ ReadsAt(f, n, p[2])
        <4>1. ReadsAt(f, e + 1, p[2])
          BY <1>1, <3>2, <3>3
        <4> QED
          BY <1>1, <2>1, <3>2, <3>3, <4>1
      <3> HIDE DEF n
      <3>5. f[n].comment = None /\ p[2] # None
        <4>1. RemarkAt(f, n - 1)
          BY <2>1, <3>1, <3>4 DEF RemarkAt
        <4>2. p[2] \in Comments /\ f[n].comment = None
          BY <3>4, <4>1 DEF ReadsAt
        <4> QED
          BY <4>2, NoneAssumption, SeqMonotonic DEF Comments, Trimmed
      <3>6. BlockCarrier(f, n - 1) = PlaceCarrier(f, p)
        BY <3>4, <3>5, PlaceBlock
      <3> QED
        BY <3>4, <3>5, <3>6
    <2> QED
      BY <1>1, <2>1, <2>2, <2>3
  <1>4. ASSUME NEW p \in R, p[2] # None
        PROVE  PlaceCarrier(f, p) \in Carriers(f)
    <2>1. PICK n \in DOMAIN f : IsOf(f[n], p[1])
      BY <1>1
    <2>2. CASE f[n].comment # None
      BY <2>1, <2>2, PlaceTrailing DEF Carriers
    <2>3. CASE f[n].comment = None
      BY <1>4, <2>1, <2>3, PlaceBlock DEF Carriers
    <2> QED
      BY <2>2, <2>3
  <1>5. h # None => HeaderCarrier(h) \in Carriers(f)
    BY CommentParts, HeaderBlock DEF Carriers
  <1>6. Carriers(f) \subseteq places \cup heads
    <2> HIDE DEF places, heads
    <2> QED
      BY <1>2, <1>3 DEF Carriers
  <1>7. places \cup heads \subseteq Carriers(f)
    BY <1>4, <1>5
  <1> QED
    BY <1>6, <1>7

LEMMA TextOfIs ==
  ASSUME NEW carriers, NEW c \in carriers, \A d \in carriers : d.at = c.at => d = c
  PROVE  TextOf(carriers, c.at) = c.text
  <1> DEFINE here == {d \in carriers : d.at = c.at}
             blocks == {d \in here : d.form = "block"}
             S == IF blocks = {} THEN here ELSE blocks
  <1>1. here = {c} /\ (blocks = {} \/ blocks = {c})
    OBVIOUS
  <1>2. S = {c} /\ here # {}
    BY <1>1
  <1>3. TextOf(carriers, c.at) = (CHOOSE d \in S : TRUE).text
    BY <1>2 DEF TextOf
  <1> HIDE DEF S
  <1> QED
    BY <1>2, <1>3

LEMMA TextOfNone ==
  ASSUME NEW carriers, NEW a, \A d \in carriers : d.at # a
  PROVE  TextOf(carriers, a) = None
  <1>1. {c \in carriers : c.at = a} = {}
    OBVIOUS
  <1> QED
    BY <1>1 DEF TextOf

LEMMA WrittenTexts ==
  ASSUME NEW h \in CommentType, NEW R, Placed(R), NEW f, Heads(f, h, R)
  PROVE  /\ TextAt(f, Header) = h
         /\ \A p \in R : TextAt(f, p[1]) = p[2]
         /\ \A a : a \notin Firsts(R) \cup {Header} => TextAt(f, a) = None
         /\ ~Unattachable(f) /\ ~Doubled(f)
         /\ \A c \in Carriers(f) : /\ ~c.warned
                                   /\ c.text = h \/ \E p \in R : c.text = p[2]
  <1> DEFINE places == {PlaceCarrier(f, p) : p \in {q \in R : q[2] # None}}
             heads == IF h = None THEN {} ELSE {HeaderCarrier(h)}
  <1>1. Carriers(f) = places \cup heads
    BY WrittenCarriers
  <1>2. \A p \in R : /\ PlaceCarrier(f, p).at = p[1] /\ PlaceCarrier(f, p).text = p[2]
                     /\ ~PlaceCarrier(f, p).warned
    BY DEF PlaceCarrier, Carrier
  <1>3. HeaderCarrier(h).at = Header /\ HeaderCarrier(h).text = h /\ ~HeaderCarrier(h).warned
    BY DEF HeaderCarrier, Carrier
  <1>4. \A p, q \in R : p[1] = q[1] => PlaceCarrier(f, p) = PlaceCarrier(f, q)
    BY DEF Placed, PlaceCarrier
  <1>5. \A p \in R : p[1] # Header /\ p[1] # None
    BY DEF Placed
  <1>6. \A c \in places : \E p \in R : c = PlaceCarrier(f, p) /\ c.at = p[1] /\ c.text = p[2]
    BY <1>2
  <1>7. \A c \in heads : c = HeaderCarrier(h) /\ h # None
    OBVIOUS
  <1>8. \A p \in R : p[2] # None => PlaceCarrier(f, p) \in places
    OBVIOUS
  <1>9. h # None => HeaderCarrier(h) \in heads
    OBVIOUS
  <1>10. \A p \in R, c \in places : c.at = p[1] => c = PlaceCarrier(f, p) /\ p[2] # None
    BY <1>2, <1>4 DEF Placed
  <1> HIDE DEF places, heads
  <1>11. \A c, d \in Carriers(f) : c.at = d.at => c = d
    <2> TAKE c, d \in Carriers(f)
    <2>1. CASE c \in places /\ d \in places
      BY <1>4, <1>6, <2>1
    <2>2. CASE c \in heads /\ d \in heads
      BY <1>7, <2>2
    <2>3. CASE c \in places /\ d \in heads
      BY <1>3, <1>5, <1>6, <1>7, <2>3
    <2>4. CASE c \in heads /\ d \in places
      BY <1>3, <1>5, <1>6, <1>7, <2>4
    <2> QED
      BY <1>1, <2>1, <2>2, <2>3, <2>4
  <1>12. TextAt(f, Header) = h
    <2>1. CASE h = None
      <3>1. \A c \in Carriers(f) : c.at # Header
        BY <1>1, <1>5, <1>6, <1>7, <2>1
      <3> QED
        BY <2>1, <3>1, TextOfNone DEF TextAt
    <2>2. CASE h # None
      BY <1>1, <1>3, <1>9, <1>11, <2>2, TextOfIs DEF TextAt
    <2> QED
      BY <2>1, <2>2
  <1>13. ASSUME NEW p \in R PROVE TextAt(f, p[1]) = p[2]
    <2>1. CASE p[2] = None
      <3>1. \A c \in Carriers(f) : c.at # p[1]
        BY <1>1, <1>3, <1>5, <1>7, <1>10, <2>1
      <3> QED
        BY <2>1, <3>1, TextOfNone DEF TextAt
    <2>2. CASE p[2] # None
      <3>1. PlaceCarrier(f, p) \in Carriers(f)
        BY <1>1, <1>8, <2>2
      <3> QED
        BY <1>2, <1>11, <3>1, TextOfIs DEF TextAt
    <2> QED
      BY <2>1, <2>2
  <1>14. ASSUME NEW a, a \notin Firsts(R) \cup {Header} PROVE TextAt(f, a) = None
    <2>1. \A c \in Carriers(f) : c.at # a
      BY <1>1, <1>3, <1>6, <1>7, <1>14 DEF Firsts
    <2> QED
      BY <2>1, TextOfNone DEF TextAt
  <1>15. Header # None
    BY NoneAssumption DEF Header, Anchor, CarrierTypes
  <1>16. ~Unattachable(f)
    BY <1>1, <1>3, <1>5, <1>6, <1>7, <1>15 DEF Unattachable
  <1>17. ~Doubled(f)
    BY <1>11 DEF Doubled
  <1>18. \A c \in Carriers(f) : ~c.warned /\ (c.text = h \/ \E p \in R : c.text = p[2])
    BY <1>1, <1>2, <1>3, <1>6, <1>7
  <1> QED
    BY <1>12, <1>13, <1>14, <1>16, <1>17, <1>18

(***************************************************************************)
(* The comments put into a map.                                            *)
(***************************************************************************)
Keyed(K, C) == [key : K, value : Scalars, comment : C]

LEMMA CommentedList ==
  ASSUME NEW K, NEW C, NEW D, None \notin Seq(Keyed(K, C)), None \notin Seq(Keyed(K, D)),
         NEW s \in {None} \cup Seq(Keyed(K, C)), NEW carriers, \A a : TextOf(carriers, a) \in D,
         NEW type, NEW id, NEW t, t = CommentedEntries(carriers, type, id, s)
  PROVE  /\ t \in {None} \cup Seq(Keyed(K, D)) /\ (t = None <=> s = None)
         /\ t = <<>> <=> s = <<>>
         /\ DOMAIN OrEmpty(t) = DOMAIN OrEmpty(s)
         /\ \A n \in DOMAIN OrEmpty(s) :
              OrEmpty(t)[n] = [key |-> OrEmpty(s)[n].key, value |-> OrEmpty(s)[n].value,
                comment |-> TextOf(carriers, Anchor(type, id, OrEmpty(s)[n].key))]
  <1>1. CASE s = None
    <2>1. t = None /\ OrEmpty(t) = <<>> /\ OrEmpty(s) = <<>>
      BY <1>1 DEF CommentedEntries, OrEmpty
    <2>2. None # <<>>
      BY EmptyList
    <2>3. t \in {None} \cup Seq(Keyed(K, D)) /\ (t = None <=> s = None) /\ (t = <<>> <=> s = <<>>)
      BY <1>1, <2>1
    <2> QED
      BY <2>1, <2>3, EmptyList
  <1>2. CASE s # None
    <2> DEFINE e(n) == [key |-> s[n].key, value |-> s[n].value,
                        comment |-> TextOf(carriers, Anchor(type, id, s[n].key))]
    <2>1. s \in Seq(Keyed(K, C)) /\ Len(s) \in Nat /\ DOMAIN s = 1..Len(s)
          /\ \A n \in DOMAIN s : s[n] \in Keyed(K, C)
      BY <1>2, ListProperties
    <2>2. \A n \in DOMAIN s : [s[n] EXCEPT !.comment = TextOf(carriers, Anchor(type, id, s[n].key))] = e(n)
      BY <2>1 DEF Keyed
    <2>3. \A n \in DOMAIN s : e(n) \in Keyed(K, D)
      BY <2>1 DEF Keyed
    <2>4. t = [n \in DOMAIN s |-> e(n)]
      BY <1>2, <2>2 DEF CommentedEntries
    <2> HIDE DEF e
    <2>5. t \in Seq(Keyed(K, D)) /\ DOMAIN t = DOMAIN s /\ Len(t) = Len(s)
      BY <2>1, <2>3, <2>4
    <2>6. t # None /\ OrEmpty(t) = t /\ OrEmpty(s) = s
      BY <1>2, <2>5 DEF OrEmpty
    <2>7. t = <<>> <=> s = <<>>
      BY <2>1, <2>5, ListProperties
    <2>8. \A n \in DOMAIN OrEmpty(s) : OrEmpty(t)[n] = e(n)
      BY <2>4, <2>6
    <2>9. /\ t \in {None} \cup Seq(Keyed(K, D)) /\ (t = None <=> s = None)
          /\ DOMAIN OrEmpty(t) = DOMAIN OrEmpty(s)
      BY <1>2, <2>5, <2>6
    <2> QED
      BY <2>6, <2>7, <2>8, <2>9 DEF e
  <1> QED
    BY <1>1, <1>2

(* The carriers have the comments of a list of entries.                    *)
ListAgrees(K, s, carriers, type, id) ==
    /\ None \notin Seq(Keyed(K, CommentType)) /\ None \notin Seq(Keyed(K, {None}))
    /\ s \in {None} \cup Seq(Keyed(K, CommentType))
    /\ \A p \in TextsIn(type, id, OrEmpty(s)) : TextOf(carriers, p[1]) = p[2]

LEMMA RecommentedList ==
  ASSUME NEW K, NEW s, NEW carriers, NEW type, NEW id, ListAgrees(K, s, carriers, type, id)
  PROVE  CommentedEntries(carriers, type, id, CommentedEntries({}, type, id, s)) = s
  <1> USE DEF ListAgrees
  <1> DEFINE t == CommentedEntries({}, type, id, s)
  <1>1. \A a : TextOf({}, a) \in {None}
    BY TextOfNone
  <1>2. /\ (t = None <=> s = None) /\ DOMAIN OrEmpty(t) = DOMAIN OrEmpty(s)
        /\ \A n \in DOMAIN OrEmpty(s) :
             OrEmpty(t)[n] = [key |-> OrEmpty(s)[n].key, value |-> OrEmpty(s)[n].value,
               comment |-> TextOf({}, Anchor(type, id, OrEmpty(s)[n].key))]
    <2>1. t = CommentedEntries({}, type, id, s)
      OBVIOUS
    <2> HIDE DEF t
    <2> QED
      BY <1>1, <2>1, CommentedList
  <1> HIDE DEF t
  <1>3. CASE s = None
    BY <1>2, <1>3 DEF CommentedEntries, t
  <1>4. CASE s # None
    <2>1. s \in Seq(Keyed(K, CommentType)) /\ OrEmpty(t) = t /\ OrEmpty(s) = s /\ t # None
          /\ s = [n \in DOMAIN s |-> s[n]]
      BY <1>2, <1>4 DEF OrEmpty
    <2>2. \A n \in DOMAIN s : /\ s[n] \in Keyed(K, CommentType)
                              /\ TextOf(carriers, Anchor(type, id, s[n].key)) = s[n].comment
      <3>1. \A n \in DOMAIN s : s[n] \in Keyed(K, CommentType)
        BY <2>1, ListProperties
      <3>2. ASSUME NEW n \in DOMAIN s
            PROVE  TextOf(carriers, Anchor(type, id, s[n].key)) = s[n].comment
        <4> DEFINE p == <<Anchor(type, id, s[n].key), s[n].comment>>
        <4>1. p \in TextsIn(type, id, s) /\ p[1] = Anchor(type, id, s[n].key) /\ p[2] = s[n].comment
          BY DEF TextsIn
        <4> HIDE DEF p
        <4> QED
          BY <2>1, <4>1
      <3> QED
        BY <3>1, <3>2
    <2>3. ASSUME NEW n \in DOMAIN s
          PROVE  [t[n] EXCEPT !.comment = TextOf(carriers, Anchor(type, id, t[n].key))] = s[n]
      <3>1. t[n] = [key |-> s[n].key, value |-> s[n].value,
                    comment |-> TextOf({}, Anchor(type, id, s[n].key))]
        BY <1>2, <2>1
      <3>2. t[n].key = s[n].key
        BY <3>1
      <3>3. [t[n] EXCEPT !.comment = s[n].comment] = [key |-> s[n].key, value |-> s[n].value, comment |-> s[n].comment]
        BY <3>1
      <3>4. s[n] = [key |-> s[n].key, value |-> s[n].value, comment |-> s[n].comment]
        BY <2>2 DEF Keyed
      <3> QED
        BY <2>2, <3>2, <3>3, <3>4
    <2>4. CommentedEntries(carriers, type, id, t)
            = [n \in DOMAIN t |-> [t[n] EXCEPT !.comment = TextOf(carriers, Anchor(type, id, t[n].key))]]
      BY <2>1 DEF CommentedEntries
    <2>5. DOMAIN t = DOMAIN s
      BY <1>2, <2>1
    <2> QED
      BY <2>1, <2>3, <2>4, <2>5 DEF t
  <1> QED
    BY <1>3, <1>4

Retold(carriers, R) == {<<p[1], TextOf(carriers, p[1])>> : p \in R}

LEMMA CommentedListFacts ==
  ASSUME NEW K, NEW C, NEW D, None \notin Seq(Keyed(K, C)), None \notin Seq(Keyed(K, D)),
         NEW s \in {None} \cup Seq(Keyed(K, C)), NEW carriers, \A a : TextOf(carriers, a) \in D,
         NEW type, NEW id, NEW u, u = CommentedEntries(carriers, type, id, s)
  PROVE  /\ UniqueKeys(OrEmpty(u)) <=> UniqueKeys(OrEmpty(s))
         /\ Keys(OrEmpty(u)) = Keys(OrEmpty(s))
         /\ TextsIn(type, id, OrEmpty(u)) = Retold(carriers, TextsIn(type, id, OrEmpty(s)))
         /\ (\A c \in D : CommentOK(c)) /\ EntriesOK(OrEmpty(s)) => EntriesOK(OrEmpty(u))
  <1> DEFINE t == OrEmpty(u)
             r == OrEmpty(s)
  <1>1. DOMAIN t = DOMAIN r
        /\ \A n \in DOMAIN r : t[n] = [key |-> r[n].key, value |-> r[n].value,
                                     comment |-> TextOf(carriers, Anchor(type, id, r[n].key))]
    BY CommentedList
  <1> HIDE DEF t, r
  <1>2. \A n \in DOMAIN r : /\ t[n].key = r[n].key /\ t[n].value = r[n].value
                            /\ t[n].comment = TextOf(carriers, Anchor(type, id, r[n].key))
    BY <1>1
  <1>3. (UniqueKeys(t) <=> UniqueKeys(r)) /\ Keys(t) = Keys(r)
    BY <1>1, <1>2 DEF UniqueKeys, Keys
  <1>4. TextsIn(type, id, t) = Retold(carriers, TextsIn(type, id, r))
    <2> DEFINE a(n) == Anchor(type, id, r[n].key)
    <2>1. TextsIn(type, id, t) = {<<a(n), TextOf(carriers, a(n))>> : n \in DOMAIN r}
      BY <1>1, <1>2 DEF TextsIn
    <2>2. TextsIn(type, id, r) = {<<a(n), r[n].comment>> : n \in DOMAIN r}
      BY DEF TextsIn
    <2>3. \A n \in DOMAIN r : <<a(n), r[n].comment>>[1] = a(n)
      OBVIOUS
    <2>3a. \A n \in DOMAIN r : <<a(n), r[n].comment>> \in TextsIn(type, id, r)
      BY <2>2
    <2>3b. \A p \in TextsIn(type, id, r) : \E n \in DOMAIN r : p[1] = a(n)
      BY <2>2, <2>3
    <2> HIDE DEF a
    <2>4. Retold(carriers, TextsIn(type, id, r)) = {<<a(n), TextOf(carriers, a(n))>> : n \in DOMAIN r}
      BY <2>3, <2>3a, <2>3b DEF Retold
    <2> QED
      BY <2>1, <2>4
  <1>5. ASSUME \A c \in D : CommentOK(c), EntriesOK(r)
        PROVE  EntriesOK(t)
    BY <1>1, <1>2, <1>5 DEF EntriesOK, EntryOK
  <1> QED
    BY <1>3, <1>4, <1>5 DEF t, r

LEMMA KeyedTypes ==
  ASSUME NEW C
  PROVE  EntryType(C) = Keyed(Scalars, C) /\ ReasonType(C) = Keyed(Kinds, C)
  BY DEF EntryType, ReasonType, Keyed

LEMMA CommentedBindingIs ==
  ASSUME NEW C, NEW D, C \subseteq CommentType, D \subseteq CommentType,
         NEW b \in BindingType(C), NEW carriers, \A a : TextOf(carriers, a) \in D
  PROVE  LET t == CommentedBinding(carriers, b)
         IN  /\ t \in BindingType(D) /\ t.key = b.key
             /\ UniqueInBinding(t) <=> UniqueInBinding(b)
             /\ SaidByBinding(t) = Retold(carriers, SaidByBinding(b))
             /\ (\A c \in D : CommentOK(c)) /\ BindingOK(b) => BindingOK(t)
  <1> DEFINE locators == CommentedEntries(carriers, "locator", b.key, b.locators)
             fields == CommentedEntries(carriers, "field", b.key, b.fields)
             asserted == CommentedEntries(carriers, "assertion", b.key, b.asserted_by)
             comment == TextOf(carriers, Anchor("binding", b.key, None))
             t == CommentedBinding(carriers, b)
             S == Seq(Keyed(Scalars, C))
             T == Seq(Keyed(Scalars, D))
  <1>1. /\ b.key \in IDs /\ b.value \in Scalars /\ b.locators \in S
        /\ b.fields \in {None} \cup S /\ b.asserted_by \in {None} \cup S
    BY KeyedTypes DEF BindingType
  <1>2. t = [key |-> b.key, value |-> b.value, comment |-> comment, locators |-> locators,
             fields |-> fields, asserted_by |-> asserted]
    BY DEF CommentedBinding, Binding
  <1>3. None \notin S /\ None \notin T
    BY TypesGrow, KeyedTypes
  <1>5. OrEmpty(b.locators) = b.locators
    BY <1>1, <1>3 DEF OrEmpty
  <1> DEFINE Drawn ==
               /\ locators = CommentedEntries(carriers, "locator", b.key, b.locators)
               /\ fields = CommentedEntries(carriers, "field", b.key, b.fields)
               /\ asserted = CommentedEntries(carriers, "assertion", b.key, b.asserted_by)
  <1>5a. Drawn /\ comment \in D
    OBVIOUS
  <1> HIDE DEF locators, fields, asserted, comment, t
  <1>6. /\ locators \in {None} \cup T /\ (locators = None <=> b.locators = None)
        /\ fields \in {None} \cup T /\ (fields = None <=> b.fields = None)
        /\ (fields = <<>> <=> b.fields = <<>>)
        /\ asserted \in {None} \cup T /\ (asserted = None <=> b.asserted_by = None)
        /\ (asserted = <<>> <=> b.asserted_by = <<>>)
    <2>1. locators \in {None} \cup T /\ (locators = None <=> b.locators = None)
      BY <1>1, <1>3, <1>5a, CommentedList
    <2>2. /\ fields \in {None} \cup T /\ (fields = None <=> b.fields = None)
          /\ (fields = <<>> <=> b.fields = <<>>)
      <3>1. fields = CommentedEntries(carriers, "field", b.key, b.fields)
        BY <1>5a
      <3> HIDE DEF Drawn
      <3> QED
        BY <1>1, <1>3, <3>1, CommentedList
    <2>3. /\ asserted \in {None} \cup T /\ (asserted = None <=> b.asserted_by = None)
          /\ (asserted = <<>> <=> b.asserted_by = <<>>)
      <3>1. asserted = CommentedEntries(carriers, "assertion", b.key, b.asserted_by)
        BY <1>5a
      <3> HIDE DEF Drawn
      <3> QED
        BY <1>1, <1>3, <3>1, CommentedList
    <2> QED
      BY <2>1, <2>2, <2>3
  <1>7. /\ UniqueKeys(OrEmpty(locators)) <=> UniqueKeys(b.locators)
        /\ TextsIn("locator", b.key, OrEmpty(locators))
             = Retold(carriers, TextsIn("locator", b.key, b.locators))
        /\ (\A c \in D : CommentOK(c)) /\ EntriesOK(b.locators) => EntriesOK(OrEmpty(locators))
    BY <1>1, <1>3, <1>5, <1>5a, CommentedListFacts
  <1>8. /\ UniqueKeys(OrEmpty(fields)) <=> UniqueKeys(OrEmpty(b.fields))
        /\ TextsIn("field", b.key, OrEmpty(fields))
             = Retold(carriers, TextsIn("field", b.key, OrEmpty(b.fields)))
        /\ (\A c \in D : CommentOK(c)) /\ EntriesOK(OrEmpty(b.fields)) => EntriesOK(OrEmpty(fields))
    BY <1>1, <1>3, <1>5a, CommentedListFacts
  <1>9. /\ UniqueKeys(OrEmpty(asserted)) <=> UniqueKeys(OrEmpty(b.asserted_by))
        /\ TextsIn("assertion", b.key, OrEmpty(asserted))
             = Retold(carriers, TextsIn("assertion", b.key, OrEmpty(b.asserted_by)))
        /\ (\A c \in D : CommentOK(c)) /\ EntriesOK(OrEmpty(b.asserted_by)) => EntriesOK(OrEmpty(asserted))
    BY <1>1, <1>3, <1>5a, CommentedListFacts
  <1>10. /\ t.key = b.key /\ t.value = b.value /\ t.comment = comment /\ t.locators = locators
         /\ t.fields = fields /\ t.asserted_by = asserted
    BY <1>2
  <1>11. locators \in T /\ OrEmpty(locators) = locators
    BY <1>1, <1>3, <1>6 DEF OrEmpty
  <1>12. comment \in D
    BY <1>5a
  <1>13. t \in BindingType(D)
    BY <1>1, <1>2, <1>6, <1>11, <1>12, KeyedTypes DEF BindingType
  <1>14. UniqueInBinding(t) <=> UniqueInBinding(b)
    BY <1>7, <1>8, <1>9, <1>10, <1>11 DEF UniqueInBinding
  <1>15. SaidByBinding(t) = Retold(carriers, SaidByBinding(b))
    <2> DEFINE a == Anchor("binding", b.key, None)
               R1 == {<<a, b.comment>>}
               R2 == TextsIn("locator", b.key, b.locators)
               R3 == TextsIn("field", b.key, OrEmpty(b.fields))
               R4 == TextsIn("assertion", b.key, OrEmpty(b.asserted_by))
    <2>1. Retold(carriers, R1) = {<<a, comment>>}
      BY DEF Retold, comment
    <2>3. SaidByBinding(b) = ((R1 \cup R2) \cup R3) \cup R4
      BY DEF SaidByBinding
    <2>4. SaidByBinding(t) = ((Retold(carriers, R1) \cup Retold(carriers, R2))
                                \cup Retold(carriers, R3)) \cup Retold(carriers, R4)
      <3>1. SaidByBinding(t) = (({<<a, comment>>} \cup TextsIn("locator", b.key, locators))
               \cup TextsIn("field", b.key, OrEmpty(fields))) \cup TextsIn("assertion", b.key, OrEmpty(asserted))
        BY <1>10 DEF SaidByBinding
      <3> HIDE DEF R1, R2, R3, R4, a
      <3> QED
        BY <1>7, <1>8, <1>9, <1>11, <2>1, <3>1 DEF R2, R3, R4
    <2> HIDE DEF R1, R2, R3, R4
    <2>5. Retold(carriers, ((R1 \cup R2) \cup R3) \cup R4)
            = ((Retold(carriers, R1) \cup Retold(carriers, R2))
                 \cup Retold(carriers, R3)) \cup Retold(carriers, R4)
      BY DEF Retold
    <2> QED
      BY <2>3, <2>4, <2>5
  <1>16. ASSUME \A c \in D : CommentOK(c), BindingOK(b)
         PROVE  BindingOK(t)
    <2>1. UniqueKeys(b.locators) /\ UniqueKeys(OrEmpty(b.asserted_by)) /\ EntriesOK(b.locators)
          /\ EntriesOK(OrEmpty(b.fields)) /\ EntriesOK(OrEmpty(b.asserted_by))
          /\ b.value \notin Malformed /\ b.fields # <<>> /\ b.asserted_by # <<>>
      BY <1>16 DEF BindingOK
    <2>2. CommentOK(comment)
      BY <1>12, <1>16
    <2> QED
      BY <1>6, <1>7, <1>8, <1>9, <1>10, <1>11, <1>16, <2>1, <2>2 DEF BindingOK
  <1> QED
    BY <1>10, <1>13, <1>14, <1>15, <1>16 DEF t

LEMMA RecommentedBinding ==
  ASSUME NEW b \in BindingType(CommentType), NEW carriers,
         \A p \in SaidByBinding(b) : TextOf(carriers, p[1]) = p[2]
  PROVE  CommentedBinding(carriers, CommentedBinding({}, b)) = b
  <1> DEFINE bare == CommentedBinding({}, b)
             S == Seq(Keyed(Scalars, CommentType))
  <1>1. /\ b.locators \in {None} \cup S
        /\ b.fields \in {None} \cup S /\ b.asserted_by \in {None} \cup S
    BY KeyedTypes DEF BindingType
  <1>2. None \notin S /\ None \notin Seq(Keyed(Scalars, {None}))
    <2>1. {None} \subseteq CommentType
      BY DEF CommentType
    <2> QED
      BY <2>1, KeyedTypes, TypesGrow
  <1>3. OrEmpty(b.locators) = b.locators
    BY <1>2, KeyedTypes DEF BindingType, OrEmpty
  <1>4. CommentedEntries(carriers, "locator", b.key, CommentedEntries({}, "locator", b.key, b.locators)) = b.locators
    <2>1. \A p \in TextsIn("locator", b.key, OrEmpty(b.locators)) : TextOf(carriers, p[1]) = p[2]
      BY <1>3 DEF SaidByBinding
    <2>2. ListAgrees(Scalars, b.locators, carriers, "locator", b.key)
      BY <1>1, <1>2, <2>1 DEF ListAgrees
    <2> QED
      BY <2>2, RecommentedList
  <1>5. CommentedEntries(carriers, "field", b.key, CommentedEntries({}, "field", b.key, b.fields)) = b.fields
    <2>1. \A p \in TextsIn("field", b.key, OrEmpty(b.fields)) : TextOf(carriers, p[1]) = p[2]
      BY DEF SaidByBinding
    <2>2. ListAgrees(Scalars, b.fields, carriers, "field", b.key)
      BY <1>1, <1>2, <2>1 DEF ListAgrees
    <2> QED
      BY <2>2, RecommentedList
  <1>6. CommentedEntries(carriers, "assertion", b.key, CommentedEntries({}, "assertion", b.key, b.asserted_by))
          = b.asserted_by
    <2>1. \A p \in TextsIn("assertion", b.key, OrEmpty(b.asserted_by)) : TextOf(carriers, p[1]) = p[2]
      BY DEF SaidByBinding
    <2>2. ListAgrees(Scalars, b.asserted_by, carriers, "assertion", b.key)
      BY <1>1, <1>2, <2>1 DEF ListAgrees
    <2> QED
      BY <2>2, RecommentedList
  <1>7. TextOf(carriers, Anchor("binding", b.key, None)) = b.comment
    <2> DEFINE p == <<Anchor("binding", b.key, None), b.comment>>
    <2>1. p \in SaidByBinding(b) /\ p[1] = Anchor("binding", b.key, None) /\ p[2] = b.comment
      BY DEF SaidByBinding
    <2> HIDE DEF p
    <2> QED
      BY <2>1
  <1>8. b = [key |-> b.key, value |-> b.value, comment |-> b.comment, locators |-> b.locators,
             fields |-> b.fields, asserted_by |-> b.asserted_by]
    BY DEF BindingType
  <1>9. bare = [key |-> b.key, value |-> b.value,
                comment |-> TextOf({}, Anchor("binding", b.key, None)),
                locators |-> CommentedEntries({}, "locator", b.key, b.locators),
                fields |-> CommentedEntries({}, "field", b.key, b.fields),
                asserted_by |-> CommentedEntries({}, "assertion", b.key, b.asserted_by)]
    BY DEF CommentedBinding, Binding
  <1> HIDE DEF bare
  <1>10. CommentedBinding(carriers, bare) =
           [key |-> b.key, value |-> b.value, comment |-> b.comment, locators |-> b.locators,
            fields |-> b.fields, asserted_by |-> b.asserted_by]
    BY <1>4, <1>5, <1>6, <1>7, <1>9 DEF CommentedBinding, Binding
  <1> QED
    BY <1>8, <1>10 DEF bare

LEMMA CommentedCoverageIs ==
  ASSUME NEW C, NEW D, C \subseteq CommentType, D \subseteq CommentType,
         NEW c \in CoverageType(C), NEW carriers, \A a : TextOf(carriers, a) \in D
  PROVE  LET t == CommentedCoverage(carriers, c)
         IN  /\ t \in CoverageType(D) /\ t.fully_bound = c.fully_bound
             /\ UniqueKeys(OrEmpty(t.curated)) <=> UniqueKeys(OrEmpty(c.curated))
             /\ SaidByCoverage(t) = Retold(carriers, SaidByCoverage(c))
             /\ (\A d \in D : CommentOK(d)) /\ CoverageOK(c) => CoverageOK(t)
  <1> DEFINE curated == CommentedEntries(carriers, "curated", None, c.curated)
             a == Anchor("coverage", None, None)
             comment == TextOf(carriers, a)
             t == CommentedCoverage(carriers, c)
             S == Seq(Keyed(Kinds, C))
             T == Seq(Keyed(Kinds, D))
  <1>1. c.curated \in {None} \cup S /\ c.fully_bound \in {None} \cup Seq(Kinds)
    BY KeyedTypes DEF CoverageType
  <1>2. t = [comment |-> comment, fully_bound |-> c.fully_bound, curated |-> curated]
    BY DEF CommentedCoverage
  <1>3. None \notin S /\ None \notin T
    BY TypesGrow, KeyedTypes
  <1>4a. curated = CommentedEntries(carriers, "curated", None, c.curated) /\ comment \in D
    OBVIOUS
  <1> HIDE DEF curated, comment, t
  <1>5. /\ curated \in {None} \cup T /\ (curated = None <=> c.curated = None)
        /\ (curated = <<>> <=> c.curated = <<>>)
    BY <1>1, <1>3, <1>4a, CommentedList
  <1>6. /\ UniqueKeys(OrEmpty(curated)) <=> UniqueKeys(OrEmpty(c.curated))
        /\ Keys(OrEmpty(curated)) = Keys(OrEmpty(c.curated))
        /\ TextsIn("curated", None, OrEmpty(curated))
             = Retold(carriers, TextsIn("curated", None, OrEmpty(c.curated)))
        /\ (\A d \in D : CommentOK(d)) /\ EntriesOK(OrEmpty(c.curated)) => EntriesOK(OrEmpty(curated))
    BY <1>1, <1>3, <1>4a, CommentedListFacts
  <1>7. t.comment = comment /\ t.fully_bound = c.fully_bound /\ t.curated = curated
    BY <1>2
  <1>8. comment \in D
    BY <1>4a
  <1>9. t \in CoverageType(D)
    BY <1>1, <1>2, <1>5, <1>8, KeyedTypes DEF CoverageType
  <1>10. SaidByCoverage(t) = Retold(carriers, SaidByCoverage(c))
    <2> DEFINE R == {<<a, c.comment>>}
               Q == TextsIn("curated", None, OrEmpty(c.curated))
    <2>1. Retold(carriers, R) = {<<a, comment>>}
      BY DEF Retold, comment
    <2>2. Retold(carriers, R \cup Q) = Retold(carriers, R) \cup Retold(carriers, Q)
      BY DEF Retold
    <2>3. SaidByCoverage(c) = R \cup Q
      BY DEF SaidByCoverage
    <2>4. SaidByCoverage(t) = {<<a, comment>>} \cup TextsIn("curated", None, OrEmpty(curated))
      BY <1>7 DEF SaidByCoverage
    <2> HIDE DEF R, a
    <2>5. TextsIn("curated", None, OrEmpty(curated)) = Retold(carriers, Q)
      BY <1>6
    <2> HIDE DEF Q
    <2> QED
      BY <2>1, <2>2, <2>3, <2>4, <2>5
  <1>11. ASSUME \A d \in D : CommentOK(d), CoverageOK(c)
         PROVE  CoverageOK(t)
    <2>1. CommentOK(comment)
      BY <1>8, <1>11
    <2> QED
      BY <1>5, <1>6, <1>7, <1>11, <2>1 DEF CoverageOK
  <1> QED
    BY <1>6, <1>7, <1>9, <1>10, <1>11 DEF t

LEMMA RecommentedCoverage ==
  ASSUME NEW c \in CoverageType(CommentType), NEW carriers,
         \A p \in SaidByCoverage(c) : TextOf(carriers, p[1]) = p[2]
  PROVE  CommentedCoverage(carriers, CommentedCoverage({}, c)) = c
  <1> DEFINE bare == CommentedCoverage({}, c)
             S == Seq(Keyed(Kinds, CommentType))
             a == Anchor("coverage", None, None)
  <1>1. c.curated \in {None} \cup S
    BY KeyedTypes DEF CoverageType
  <1>2. None \notin S /\ None \notin Seq(Keyed(Kinds, {None}))
    <2>1. {None} \subseteq CommentType
      BY DEF CommentType
    <2> QED
      BY <2>1, KeyedTypes, TypesGrow
  <1>3. CommentedEntries(carriers, "curated", None, CommentedEntries({}, "curated", None, c.curated)) = c.curated
    <2>1. \A p \in TextsIn("curated", None, OrEmpty(c.curated)) : TextOf(carriers, p[1]) = p[2]
      BY DEF SaidByCoverage
    <2>2. ListAgrees(Kinds, c.curated, carriers, "curated", None)
      BY <1>1, <1>2, <2>1 DEF ListAgrees
    <2> QED
      BY <2>2, RecommentedList
  <1>4. TextOf(carriers, a) = c.comment
    <2> DEFINE p == <<a, c.comment>>
    <2>1. p \in SaidByCoverage(c) /\ p[1] = a /\ p[2] = c.comment
      BY DEF SaidByCoverage
    <2> HIDE DEF p
    <2> QED
      BY <2>1
  <1>5. c = [comment |-> c.comment, fully_bound |-> c.fully_bound, curated |-> c.curated]
    BY DEF CoverageType
  <1>6. bare = [comment |-> TextOf({}, a), fully_bound |-> c.fully_bound,
                curated |-> CommentedEntries({}, "curated", None, c.curated)]
    BY DEF CommentedCoverage
  <1> HIDE DEF bare
  <1>7. CommentedCoverage(carriers, bare)
          = [comment |-> c.comment, fully_bound |-> c.fully_bound, curated |-> c.curated]
    BY <1>3, <1>4, <1>6 DEF CommentedCoverage
  <1> QED
    BY <1>5, <1>7 DEF bare

LEMMA CommentedIs ==
  ASSUME NEW C, NEW D, C \subseteq CommentType, D \subseteq CommentType,
         NEW m \in MapType(C), NEW carriers, \A a : TextOf(carriers, a) \in D
  PROVE  LET t == Commented(m, carriers)
         IN  /\ t \in MapType(D) /\ t.header = TextOf(carriers, Header)
             /\ Unique(m) => Unique(t)
             /\ Said(t) = Retold(carriers, Said(m))
             /\ (\A c \in D : CommentOK(c)) /\ MapOK(m) => MapOK(t)
  <1> DEFINE s == m.bindings
             u == [n \in DOMAIN s |-> CommentedBinding(carriers, s[n])]
             c == m.coverage
             d == IF c = None THEN None ELSE CommentedCoverage(carriers, c)
             t == Commented(m, carriers)
  <1>1. s \in Seq(BindingType(C)) /\ c \in {None} \cup CoverageType(C)
    BY DEF MapType
  <1>2. t = [header |-> TextOf(carriers, Header), bindings |-> u, coverage |-> d]
    BY DEF Commented
  <1>3. Len(s) \in Nat /\ DOMAIN s = 1..Len(s) /\ DOMAIN u = DOMAIN s
        /\ \A n \in DOMAIN s : s[n] \in BindingType(C) /\ u[n] = CommentedBinding(carriers, s[n])
    BY <1>1, ListProperties
  <1>4. \A n \in DOMAIN s :
          /\ u[n] \in BindingType(D) /\ u[n].key = s[n].key
          /\ UniqueInBinding(u[n]) <=> UniqueInBinding(s[n])
          /\ SaidByBinding(u[n]) = Retold(carriers, SaidByBinding(s[n]))
          /\ (\A e \in D : CommentOK(e)) /\ BindingOK(s[n]) => BindingOK(u[n])
    <2> TAKE n \in DOMAIN s
    <2> DEFINE b == s[n]
    <2>1. b \in BindingType(C) /\ u[n] = CommentedBinding(carriers, b)
      BY <1>3
    <2> HIDE DEF u, b
    <2> QED
      BY <2>1, CommentedBindingIs DEF b
  <1>5. c # None =>
          /\ d \in CoverageType(D) /\ d.fully_bound = c.fully_bound
          /\ UniqueKeys(OrEmpty(d.curated)) <=> UniqueKeys(OrEmpty(c.curated))
          /\ SaidByCoverage(d) = Retold(carriers, SaidByCoverage(c))
          /\ (\A e \in D : CommentOK(e)) /\ CoverageOK(c) => CoverageOK(d)
    <2> SUFFICES ASSUME c # None PROVE <1>5!2
      OBVIOUS
    <2>1. c \in CoverageType(C) /\ d = CommentedCoverage(carriers, c)
      BY <1>1
    <2> HIDE DEF c, d
    <2> QED
      BY <2>1, CommentedCoverageIs
  <1>6. None \notin CoverageType(D)
    BY TypesGrow
  <1>7. c = None <=> d = None
    BY <1>5, <1>6
  <1>8. TextOf(carriers, Header) \in D
    OBVIOUS
  <1> HIDE DEF u, d, t
  <1>9. t.header = TextOf(carriers, Header) /\ t.bindings = u /\ t.coverage = d
    BY <1>2
  <1>10. t \in MapType(D)
    <2>1. u \in [1..Len(s) -> BindingType(D)]
      BY <1>3, <1>4 DEF u
    <2>2. u \in Seq(BindingType(D))
      BY <1>3, <2>1
    <2>3. d \in {None} \cup CoverageType(D)
      BY <1>5, <1>7
    <2> QED
      BY <1>2, <1>8, <2>2, <2>3 DEF MapType
  <1>11. Unique(m) => Unique(t)
    BY <1>3, <1>4, <1>5, <1>7, <1>9 DEF Unique, UniqueKeys
  <1>12. Said(t) = Retold(carriers, Said(m))
    <2> DEFINE R == UNION {SaidByBinding(s[n]) : n \in DOMAIN s}
               Q == IF c = None THEN {} ELSE SaidByCoverage(c)
    <2>1. UNION {SaidByBinding(u[n]) : n \in DOMAIN u} = Retold(carriers, R)
      <3> DEFINE V == UNION {SaidByBinding(u[n]) : n \in DOMAIN u}
                 x(p) == <<p[1], TextOf(carriers, p[1])>>
      <3>1. \A P, y : y \in Retold(carriers, P) <=> \E p \in P : y = x(p)
        BY DEF Retold
      <3>2. \A y : y \in R <=> \E n \in DOMAIN s : y \in SaidByBinding(s[n])
        OBVIOUS
      <3>3. \A y : y \in V <=> \E n \in DOMAIN s : y \in Retold(carriers, SaidByBinding(s[n]))
        BY <1>3, <1>4
      <3> HIDE DEF x, R, V
      <3>4. \A y : y \in V <=> y \in Retold(carriers, R)
        BY <3>1, <3>2, <3>3
      <3> HIDE DEF s
      <3>5. V = Retold(carriers, R)
        BY <3>4
      <3> QED
        BY <3>5 DEF V
    <2>2. (IF d = None THEN {} ELSE SaidByCoverage(d)) = Retold(carriers, Q)
      BY <1>5, <1>7 DEF Retold
    <2>3. Said(m) = R \cup Q
      BY DEF Said
    <2> HIDE DEF R, Q
    <2>4. Said(t) = Retold(carriers, R) \cup Retold(carriers, Q)
      BY <1>9, <2>1, <2>2 DEF Said
    <2> QED
      BY <2>3, <2>4 DEF Retold
  <1>13. ASSUME \A e \in D : CommentOK(e), MapOK(m)
         PROVE  MapOK(t)
    BY <1>3, <1>4, <1>5, <1>7, <1>8, <1>9, <1>13 DEF MapOK
  <1> QED
    BY <1>9, <1>10, <1>11, <1>12, <1>13 DEF t

LEMMA RecommentedMap ==
  ASSUME NEW m \in MapType(CommentType), NEW carriers, TextOf(carriers, Header) = m.header,
         \A p \in Said(m) : TextOf(carriers, p[1]) = p[2]
  PROVE  Commented(Bare(m), carriers) = m
  <1> DEFINE s == m.bindings
             u == [n \in DOMAIN s |-> CommentedBinding({}, s[n])]
             c == m.coverage
             d == IF c = None THEN None ELSE CommentedCoverage({}, c)
  <1>1. s \in Seq(BindingType(CommentType)) /\ c \in {None} \cup CoverageType(CommentType)
    BY DEF MapType
  <1>2. /\ Bare(m) = [header |-> TextOf({}, Header), bindings |-> u, coverage |-> d]
        /\ Bare(m).bindings = u /\ Bare(m).coverage = d
    BY DEF Bare, Commented
  <1>3. \A n \in DOMAIN s : CommentedBinding(carriers, u[n]) = s[n]
    <2> TAKE n \in DOMAIN s
    <2> DEFINE b == s[n]
    <2>1. b \in BindingType(CommentType) /\ u[n] = CommentedBinding({}, b)
      BY <1>1, ListProperties
    <2>2. \A p \in SaidByBinding(b) : TextOf(carriers, p[1]) = p[2]
      BY DEF Said
    <2> HIDE DEF u, b
    <2>3. CommentedBinding(carriers, u[n]) = b
      BY <2>1, <2>2, RecommentedBinding
    <2> QED
      BY <2>3 DEF b
  <1>4. c = None <=> d = None
    <2>1. {None} \subseteq CommentType /\ \A a : TextOf({}, a) \in {None}
      BY TextOfNone DEF CommentType
    <2>2. None \notin CoverageType({None})
      BY <2>1, TypesGrow
    <2>3. c # None => CommentedCoverage({}, c) \in CoverageType({None})
      <3> HIDE DEF c
      <3> QED
        BY <1>1, <2>1, CommentedCoverageIs
    <2> QED
      BY <2>2, <2>3
  <1>5. c # None => CommentedCoverage(carriers, d) = c
    <2> SUFFICES ASSUME c # None PROVE CommentedCoverage(carriers, d) = c
      OBVIOUS
    <2>1. c \in CoverageType(CommentType) /\ d = CommentedCoverage({}, c)
      BY <1>1
    <2>2. \A p \in SaidByCoverage(c) : TextOf(carriers, p[1]) = p[2]
      BY DEF Said
    <2> HIDE DEF c, d
    <2> QED
      BY <2>1, <2>2, RecommentedCoverage
  <1>6. [n \in DOMAIN u |-> CommentedBinding(carriers, u[n])] = s
    <2>1. DOMAIN u = DOMAIN s /\ s = [n \in DOMAIN s |-> s[n]]
      BY <1>1
    <2> HIDE DEF u, s
    <2> QED
      BY <1>3, <2>1
  <1>7. m = [header |-> m.header, bindings |-> s, coverage |-> c]
    BY DEF MapType
  <1> HIDE DEF u, d
  <1>8. Commented(Bare(m), carriers) = [header |-> m.header, bindings |-> s, coverage |-> c]
    BY <1>2, <1>4, <1>5, <1>6 DEF Commented
  <1> QED
    BY <1>7, <1>8

LEMMA ListAnchors ==
  ASSUME NEW type, NEW id, NEW s
  PROVE  /\ Firsts(TextsIn(type, id, s)) = {x.anchor : x \in FactsIn(type, id, s)}
         /\ \A p \in TextsIn(type, id, s) : p = <<p[1], p[2]>> /\ p[1][1] = type
  <1> DEFINE a(n) == Anchor(type, id, s[n].key)
             t(n) == <<a(n), s[n].comment>>
             x(n) == Fact(a(n), s[n].value, s[n].comment)
  <1>1. \A n : t(n)[1] = a(n) /\ t(n)[2] = s[n].comment /\ x(n).anchor = a(n) /\ a(n)[1] = type
    BY DEF Fact, Anchor
  <1>2. TextsIn(type, id, s) = {t(n) : n \in DOMAIN s} /\ FactsIn(type, id, s) = {x(n) : n \in DOMAIN s}
    BY DEF TextsIn, FactsIn
  <1>3. \A n : t(n) = <<t(n)[1], t(n)[2]>>
    OBVIOUS
  <1> HIDE DEF t, x, a
  <1>4. Firsts(TextsIn(type, id, s)) = {a(n) : n \in DOMAIN s}
    BY <1>1, <1>2 DEF Firsts
  <1>5. {y.anchor : y \in FactsIn(type, id, s)} = {a(n) : n \in DOMAIN s}
    BY <1>1, <1>2
  <1> QED
    BY <1>1, <1>2, <1>3, <1>4, <1>5

AnchorsIn(F) == {x.anchor : x \in F}
Lined(a) == a[1] \in CarrierTypes \ {"header"}
Pairs(R) == \A p \in R : p = <<p[1], p[2]>> /\ Lined(p[1])

LEMMA AnchorsSaid ==
  ASSUME NEW m
  PROVE  /\ Firsts(Said(m)) = LineAnchors(m)
         /\ \A p \in Said(m) : p = <<p[1], p[2]>> /\ p[1][1] \in CarrierTypes \ {"header"}
  <1>1. \A R, Q : /\ Firsts(R \cup Q) = Firsts(R) \cup Firsts(Q) /\ AnchorsIn(R \cup Q) = AnchorsIn(R) \cup AnchorsIn(Q)
                  /\ Pairs(R) /\ Pairs(Q) => Pairs(R \cup Q)
    BY DEF Firsts, AnchorsIn, Pairs
  <1>2. \A p, x : /\ Firsts({p}) = {p[1]} /\ AnchorsIn({x}) = {x.anchor}
                  /\ p = <<p[1], p[2]>> /\ Lined(p[1]) => Pairs({p})
    BY DEF Firsts, AnchorsIn, Pairs
  <1>3. \A type, id, s : /\ Firsts(TextsIn(type, id, s)) = AnchorsIn(FactsIn(type, id, s))
                         /\ type \in CarrierTypes \ {"header"} => Pairs(TextsIn(type, id, s))
    BY ListAnchors DEF AnchorsIn, Lined, Pairs
  <1>4. \A type, id, key : Lined(Anchor(type, id, key)) <=> type \in CarrierTypes \ {"header"}
    BY DEF Anchor, Lined
  <1>6. \A R, a : Pairs(R) /\ a \in Firsts(R) => Lined(a)
    BY DEF Firsts, Pairs
  <1>7. ASSUME NEW b
        PROVE  Firsts(SaidByBinding(b)) = AnchorsIn(FactsOfBinding(b)) /\ Pairs(SaidByBinding(b))
    <2> DEFINE a == Anchor("binding", b.key, None)
               p == <<a, b.comment>>
               x == Fact(a, b.value, b.comment)
               R1 == {p}
               F1 == {x}
               R2 == TextsIn("locator", b.key, b.locators)
               F2 == FactsIn("locator", b.key, b.locators)
               R3 == TextsIn("field", b.key, OrEmpty(b.fields))
               F3 == FactsIn("field", b.key, OrEmpty(b.fields))
               R4 == TextsIn("assertion", b.key, OrEmpty(b.asserted_by))
               F4 == FactsIn("assertion", b.key, OrEmpty(b.asserted_by))
    <2>1. Firsts(R1) = AnchorsIn(F1) /\ Pairs(R1)
      <3>1. p[1] = a /\ p = <<p[1], p[2]>> /\ x.anchor = a
        BY DEF Fact
      <3>2. Lined(a)
        BY <1>4 DEF CarrierTypes
      <3> HIDE DEF p, x
      <3> QED
        BY <1>2, <3>1, <3>2
    <2>2. Firsts(R2) = AnchorsIn(F2) /\ Pairs(R2) /\ Firsts(R3) = AnchorsIn(F3) /\ Pairs(R3)
          /\ Firsts(R4) = AnchorsIn(F4) /\ Pairs(R4)
      BY <1>3 DEF CarrierTypes
    <2>3. /\ SaidByBinding(b) = ((R1 \cup R2) \cup R3) \cup R4
          /\ FactsOfBinding(b) = ((F1 \cup F2) \cup F3) \cup F4
      BY DEF SaidByBinding, FactsOfBinding
    <2> HIDE DEF R1, R2, R3, R4, F1, F2, F3, F4
    <2>4. /\ Firsts(((R1 \cup R2) \cup R3) \cup R4)
                = ((Firsts(R1) \cup Firsts(R2)) \cup Firsts(R3)) \cup Firsts(R4)
          /\ AnchorsIn(((F1 \cup F2) \cup F3) \cup F4)
                = ((AnchorsIn(F1) \cup AnchorsIn(F2)) \cup AnchorsIn(F3)) \cup AnchorsIn(F4)
      BY DEF Firsts, AnchorsIn
    <2>5. Pairs(((R1 \cup R2) \cup R3) \cup R4)
      BY <2>1, <2>2 DEF Pairs
    <2>6. Firsts(SaidByBinding(b)) = AnchorsIn(FactsOfBinding(b))
      BY <2>1, <2>2, <2>3, <2>4
    <2> QED
      BY <2>3, <2>5, <2>6
  <1>8. ASSUME NEW c
        PROVE  LET F == {Fact(Anchor("coverage", None, None), None, c.comment)}
                          \cup FactsIn("curated", None, OrEmpty(c.curated))
               IN  Firsts(SaidByCoverage(c)) = AnchorsIn(F) /\ Pairs(SaidByCoverage(c))
    <2> DEFINE a == Anchor("coverage", None, None)
               p == <<a, c.comment>>
               x == Fact(a, None, c.comment)
               R1 == {p}
               F1 == {x}
               R2 == TextsIn("curated", None, OrEmpty(c.curated))
               F2 == FactsIn("curated", None, OrEmpty(c.curated))
    <2>1. Firsts(R1) = AnchorsIn(F1) /\ Pairs(R1)
      <3>1. p[1] = a /\ p = <<p[1], p[2]>> /\ x.anchor = a
        BY DEF Fact
      <3>2. Lined(a)
        BY <1>4 DEF CarrierTypes
      <3> HIDE DEF p, x
      <3> QED
        BY <1>2, <3>1, <3>2
    <2>2. Firsts(R2) = AnchorsIn(F2) /\ Pairs(R2)
      BY <1>3 DEF CarrierTypes
    <2>3. SaidByCoverage(c) = R1 \cup R2
      BY DEF SaidByCoverage
    <2> HIDE DEF R1, R2
    <2>4. Firsts(R1 \cup R2) = AnchorsIn(F1 \cup F2) /\ Pairs(R1 \cup R2)
      <3> HIDE DEF F1, F2
      <3> QED
        BY <1>1, <2>1, <2>2
    <2> QED
      BY <2>3, <2>4
  <1> DEFINE H == {Fact(Header, None, m.header)}
             T == UNION {FactsOfBinding(m.bindings[n]) : n \in DOMAIN m.bindings}
             R == UNION {SaidByBinding(m.bindings[n]) : n \in DOMAIN m.bindings}
             K == {Fact(Anchor("fully_bound", None, k), None, None) :
                     k \in Range(OrEmpty(m.coverage.fully_bound))}
             V == {Fact(Anchor("coverage", None, None), None, m.coverage.comment)}
                    \cup FactsIn("curated", None, OrEmpty(m.coverage.curated))
             Q == SaidByCoverage(m.coverage)
  <1>9. Firsts(R) = AnchorsIn(T) /\ Pairs(R)
    <2>1. \A x : x \in Firsts(R) <=> \E n \in DOMAIN m.bindings : x \in Firsts(SaidByBinding(m.bindings[n]))
      BY DEF Firsts
    <2>2. \A x : x \in AnchorsIn(T) <=> \E n \in DOMAIN m.bindings : x \in AnchorsIn(FactsOfBinding(m.bindings[n]))
      BY DEF AnchorsIn
    <2>3. Pairs(R)
      BY <1>7 DEF Pairs
    <2> HIDE DEF R, T
    <2> QED
      BY <1>7, <2>1, <2>2, <2>3
  <1>10. Firsts(Q) = AnchorsIn(V) /\ Pairs(Q)
    BY <1>8
  <1>11. \A a \in AnchorsIn(H) : ~Lined(a)
    <2> DEFINE x == Fact(Header, None, m.header)
    <2>1. x.anchor = Header /\ ~Lined(Header)
      BY <1>4 DEF Fact, Header
    <2>2. H = {x}
      BY DEF Header
    <2> HIDE DEF x, H
    <2> QED
      BY <1>2, <2>1, <2>2
  <1>12. \A a \in AnchorsIn(K) : ~Lined(a)
    BY <1>4 DEF AnchorsIn, Fact, CarrierTypes
  <1>13. Facts(m) = (H \cup T) \cup (IF m.coverage = None THEN {} ELSE V \cup K)
    BY DEF Facts, Header
  <1>14. Said(m) = R \cup (IF m.coverage = None THEN {} ELSE Q)
    BY DEF Said
  <1>15. LineAnchors(m) = {a \in AnchorsIn(Facts(m)) : Lined(a)}
    BY DEF LineAnchors, Anchors, AnchorsIn, Lined
  <1> HIDE DEF H, T, R, K, V, Q
  <1>16. CASE m.coverage = None
    <2>1. Facts(m) = H \cup T /\ Said(m) = R
      BY <1>13, <1>14, <1>16
    <2>2. AnchorsIn(Facts(m)) = AnchorsIn(H) \cup Firsts(R)
      BY <1>1, <1>9, <2>1
    <2>3. LineAnchors(m) = Firsts(R)
      BY <1>6, <1>9, <1>11, <1>15, <2>2
    <2> QED
      BY <1>9, <2>1, <2>3 DEF Pairs, Lined
  <1>17. CASE m.coverage # None
    <2>1. Facts(m) = (H \cup T) \cup (V \cup K) /\ Said(m) = R \cup Q
      BY <1>13, <1>14, <1>17
    <2>2. AnchorsIn(Facts(m)) = (AnchorsIn(H) \cup Firsts(R)) \cup (Firsts(Q) \cup AnchorsIn(K))
      <3>1. /\ AnchorsIn(Facts(m)) = AnchorsIn(H \cup T) \cup AnchorsIn(V \cup K)
            /\ AnchorsIn(H \cup T) = AnchorsIn(H) \cup AnchorsIn(T) /\ AnchorsIn(V \cup K) = AnchorsIn(V) \cup AnchorsIn(K)
        BY <1>1, <2>1
      <3> QED
        BY <1>9, <1>10, <3>1
    <2>3. LineAnchors(m) = Firsts(R) \cup Firsts(Q)
      BY <1>6, <1>9, <1>10, <1>11, <1>12, <1>15, <2>2
    <2>4. Firsts(Said(m)) = Firsts(R) \cup Firsts(Q) /\ Pairs(Said(m))
      BY <1>1, <1>9, <1>10, <2>1
    <2> QED
      BY <2>3, <2>4 DEF Pairs, Lined
  <1> QED
    BY <1>16, <1>17

Places == (CarrierTypes \ {"header"}) \X ({None} \cup IDs) \X ({None} \cup Scalars \cup Kinds)

AtPlaces(R) == \A p \in R : p[1] \in Places /\ p[2] \in CommentType
Functional(R) == \A p, q \in R : p[1] = q[1] => p[2] = q[2]

LEMMA TextsPlaced ==
  ASSUME NEW K \in {Scalars, Kinds}, NEW s, s \in Seq(Keyed(K, CommentType)), UniqueKeys(s),
         NEW type \in CarrierTypes \ {"header"}, NEW id \in {None} \cup IDs
  PROVE  /\ AtPlaces(TextsIn(type, id, s)) /\ Functional(TextsIn(type, id, s))
         /\ \A p \in TextsIn(type, id, s) : p[1][1] = type /\ p[1][2] = id
  <1> DEFINE a(n) == Anchor(type, id, s[n].key)
             t(n) == <<a(n), s[n].comment>>
  <1>1. \A n \in DOMAIN s : s[n] \in Keyed(K, CommentType)
    BY ListProperties
  <1>2. \A n : t(n)[1] = a(n) /\ t(n)[2] = s[n].comment
               /\ a(n)[1] = type /\ a(n)[2] = id /\ a(n)[3] = s[n].key
    BY DEF Anchor
  <1>3. \A n \in DOMAIN s : a(n) \in Places /\ s[n].comment \in CommentType
    <2>1. \A n \in DOMAIN s : s[n].key \in {None} \cup Scalars \cup Kinds /\ s[n].comment \in CommentType
      BY <1>1 DEF Keyed
    <2> QED
      BY <2>1 DEF Places, Anchor
  <1>4. TextsIn(type, id, s) = {t(n) : n \in DOMAIN s}
    BY DEF TextsIn
  <1>5. \A m, n \in DOMAIN s : a(m) = a(n) => m = n
    <2>1. \A m, n \in DOMAIN s : s[m].key = s[n].key => m = n
      BY DEF UniqueKeys
    <2> HIDE DEF a
    <2> QED
      BY <1>2, <2>1
  <1> HIDE DEF t, a
  <1> QED
    BY <1>2, <1>3, <1>4, <1>5 DEF AtPlaces, Functional

LEMMA ListPlaced ==
  ASSUME NEW K \in {Scalars, Kinds}, NEW s \in {None} \cup Seq(Keyed(K, CommentType)),
         None \notin Seq(Keyed(K, CommentType)), UniqueKeys(OrEmpty(s)),
         NEW type \in CarrierTypes \ {"header"}, NEW id \in {None} \cup IDs
  PROVE  /\ AtPlaces(TextsIn(type, id, OrEmpty(s))) /\ Functional(TextsIn(type, id, OrEmpty(s)))
         /\ \A p \in TextsIn(type, id, OrEmpty(s)) : p[1][1] = type /\ p[1][2] = id
  <1>1. OrEmpty(s) \in Seq(Keyed(K, CommentType))
    BY EmptyList DEF OrEmpty
  <1> QED
    BY <1>1, TextsPlaced

LEMMA BindingPlaced ==
  ASSUME NEW b \in BindingType(CommentType), UniqueInBinding(b)
  PROVE  /\ AtPlaces(SaidByBinding(b)) /\ Functional(SaidByBinding(b))
         /\ \A p \in SaidByBinding(b) : p[1][2] = b.key /\ p[1][1] \notin {"coverage", "curated"}
  <1> DEFINE p == <<Anchor("binding", b.key, None), b.comment>>
             R1 == {p}
             R2 == TextsIn("locator", b.key, OrEmpty(b.locators))
             R3 == TextsIn("field", b.key, OrEmpty(b.fields))
             R4 == TextsIn("assertion", b.key, OrEmpty(b.asserted_by))
             S == Seq(Keyed(Scalars, CommentType))
  <1>1. /\ b.key \in IDs /\ b.comment \in CommentType /\ b.locators \in S
        /\ b.fields \in {None} \cup S /\ b.asserted_by \in {None} \cup S
    BY KeyedTypes DEF BindingType
  <1>2. None \notin S
    BY TypesGrow, KeyedTypes
  <1>3. OrEmpty(b.locators) = b.locators
    BY <1>1, <1>2 DEF OrEmpty
  <1>4. AtPlaces(R1) /\ Functional(R1) /\ \A q \in R1 : q[1][1] = "binding" /\ q[1][2] = b.key
    <2>1. p[1] \in Places /\ p[2] \in CommentType /\ p[1][1] = "binding" /\ p[1][2] = b.key
      BY <1>1 DEF Places, Anchor, CarrierTypes
    <2> HIDE DEF p
    <2> QED
      BY <2>1 DEF AtPlaces, Functional
  <1> HIDE DEF p
  <1>5. AtPlaces(R2) /\ Functional(R2) /\ \A q \in R2 : q[1][1] = "locator" /\ q[1][2] = b.key
    BY <1>1, <1>2, <1>3, ListPlaced DEF UniqueInBinding, CarrierTypes
  <1>6. AtPlaces(R3) /\ Functional(R3) /\ \A q \in R3 : q[1][1] = "field" /\ q[1][2] = b.key
    BY <1>1, <1>2, ListPlaced DEF UniqueInBinding, CarrierTypes
  <1>7. AtPlaces(R4) /\ Functional(R4) /\ \A q \in R4 : q[1][1] = "assertion" /\ q[1][2] = b.key
    BY <1>1, <1>2, ListPlaced DEF UniqueInBinding, CarrierTypes
  <1>8. SaidByBinding(b) = ((R1 \cup R2) \cup R3) \cup R4
    BY <1>3 DEF SaidByBinding, p
  <1> HIDE DEF R1, R2, R3, R4
  <1>9. \A q \in SaidByBinding(b) : q[1][2] = b.key /\ q[1][1] \notin {"coverage", "curated"}
    BY <1>4, <1>5, <1>6, <1>7, <1>8
  <1>10. Functional(SaidByBinding(b))
    BY <1>4, <1>5, <1>6, <1>7, <1>8 DEF Functional
  <1>11. AtPlaces(SaidByBinding(b))
    BY <1>4, <1>5, <1>6, <1>7, <1>8 DEF AtPlaces
  <1> QED
    BY <1>9, <1>10, <1>11

LEMMA CoveragePlaced ==
  ASSUME NEW c \in CoverageType(CommentType), UniqueKeys(OrEmpty(c.curated))
  PROVE  /\ AtPlaces(SaidByCoverage(c)) /\ Functional(SaidByCoverage(c))
         /\ \A p \in SaidByCoverage(c) : p[1][1] \in {"coverage", "curated"}
  <1> DEFINE p == <<Anchor("coverage", None, None), c.comment>>
             R1 == {p}
             R2 == TextsIn("curated", None, OrEmpty(c.curated))
             S == Seq(Keyed(Kinds, CommentType))
  <1>1. c.comment \in CommentType /\ c.curated \in {None} \cup S
    BY KeyedTypes DEF CoverageType
  <1>2. None \notin S
    BY TypesGrow, KeyedTypes
  <1>3. AtPlaces(R1) /\ Functional(R1) /\ \A q \in R1 : q[1][1] = "coverage"
    <2>1. p[1] \in Places /\ p[2] \in CommentType /\ p[1][1] = "coverage"
      BY <1>1 DEF Places, Anchor, CarrierTypes
    <2> HIDE DEF p
    <2> QED
      BY <2>1 DEF AtPlaces, Functional
  <1> HIDE DEF p
  <1>4. AtPlaces(R2) /\ Functional(R2) /\ \A q \in R2 : q[1][1] = "curated"
    BY <1>1, <1>2, ListPlaced DEF CarrierTypes
  <1>5. SaidByCoverage(c) = R1 \cup R2
    BY DEF SaidByCoverage, p
  <1> HIDE DEF R1, R2
  <1>6. Functional(SaidByCoverage(c))
    BY <1>3, <1>4, <1>5 DEF Functional
  <1>7. AtPlaces(SaidByCoverage(c))
    BY <1>3, <1>4, <1>5 DEF AtPlaces
  <1> QED
    BY <1>3, <1>4, <1>5, <1>6, <1>7

LEMMA SaidPlaced ==
  ASSUME NEW m \in MapType(CommentType), Unique(m)
  PROVE  Placed(Said(m)) /\ AtPlaces(Said(m))
  <1> DEFINE s == m.bindings
             R == UNION {SaidByBinding(s[n]) : n \in DOMAIN s}
             Q == IF m.coverage = None THEN {} ELSE SaidByCoverage(m.coverage)
  <1>1. /\ \A n \in DOMAIN s : s[n] \in BindingType(CommentType) /\ UniqueInBinding(s[n])
        /\ m.coverage # None => m.coverage \in CoverageType(CommentType)
                                /\ UniqueKeys(OrEmpty(m.coverage.curated))
        /\ \A i, j \in DOMAIN s : s[i].key = s[j].key => i = j
    <2>1. s \in Seq(BindingType(CommentType)) /\ m.coverage \in {None} \cup CoverageType(CommentType)
      BY DEF MapType
    <2> QED
      BY <2>1, ListProperties DEF Unique, UniqueKeys
  <1>2. \A n \in DOMAIN s :
          /\ AtPlaces(SaidByBinding(s[n])) /\ Functional(SaidByBinding(s[n]))
          /\ \A p \in SaidByBinding(s[n]) : p[1][2] = s[n].key /\ p[1][1] \notin {"coverage", "curated"}
    BY <1>1, BindingPlaced
  <1>3. AtPlaces(Q) /\ Functional(Q) /\ \A p \in Q : p[1][1] \in {"coverage", "curated"}
    BY <1>1, CoveragePlaced DEF AtPlaces, Functional
  <1>4. \A p \in R : \E n \in DOMAIN s : p \in SaidByBinding(s[n])
    OBVIOUS
  <1>5. Said(m) = R \cup Q
    BY DEF Said
  <1> HIDE DEF R, Q
  <1>6. \A p, q \in R : p[1] = q[1] => p[2] = q[2]
    BY <1>1, <1>2, <1>4 DEF Functional
  <1>7. \A p \in R : p[1][1] \notin {"coverage", "curated"}
    BY <1>2, <1>4
  <1>8. Functional(Said(m))
    BY <1>3, <1>5, <1>6, <1>7 DEF Functional
  <1>9. AtPlaces(Said(m))
    BY <1>2, <1>3, <1>4, <1>5 DEF AtPlaces
  <1>10. \A a \in Places : a # None /\ a # Header
    <2>1. Places \subseteq CarrierTypes \X ({None} \cup IDs) \X ({None} \cup Scalars \cup Kinds)
      BY DEF Places
    <2>2. \A a \in Places : a[1] # "header"
      BY DEF Places
    <2>3. Header[1] = "header"
      BY DEF Header, Anchor
    <2> QED
      BY <2>1, <2>2, <2>3, NoneAssumption
  <1> QED
    BY <1>8, <1>9, <1>10 DEF Placed, AtPlaces, Functional

(***************************************************************************)
(* The file the emitter writes for a map.                                  *)
(***************************************************************************)
LEMMA RetoldFirsts ==
  ASSUME NEW carriers, NEW R
  PROVE  Firsts(Retold(carriers, R)) = Firsts(R)
  <1> DEFINE x(p) == <<p[1], TextOf(carriers, p[1])>>
  <1>1. \A p : x(p)[1] = p[1]
    OBVIOUS
  <1>2. Retold(carriers, R) = {x(p) : p \in R}
    BY DEF Retold
  <1> HIDE DEF x
  <1>3. \A y : y \in Firsts(Retold(carriers, R)) <=> \E p \in R : y = p[1]
    BY <1>1, <1>2 DEF Firsts
  <1> QED
    BY <1>3 DEF Firsts

LEMMA CommentsOK ==
  ASSUME NEW m, MapOK(m)
  PROVE  \A p \in Said(m) : CommentOK(p[2])
  <1>1. ASSUME NEW type, NEW id, NEW s, EntriesOK(s)
        PROVE  \A p \in TextsIn(type, id, s) : CommentOK(p[2])
    <2> DEFINE t(n) == <<Anchor(type, id, s[n].key), s[n].comment>>
    <2>1. \A n : t(n)[2] = s[n].comment
      OBVIOUS
    <2>2. TextsIn(type, id, s) = {t(n) : n \in DOMAIN s}
      BY DEF TextsIn
    <2> HIDE DEF t
    <2> QED
      BY <1>1, <2>1, <2>2 DEF EntriesOK, EntryOK
  <1>2. ASSUME NEW b, BindingOK(b)
        PROVE  \A p \in SaidByBinding(b) : CommentOK(p[2])
    <2> DEFINE p == <<Anchor("binding", b.key, None), b.comment>>
    <2>1. CommentOK(p[2])
      BY <1>2 DEF BindingOK
    <2>2. SaidByBinding(b) = {p} \cup TextsIn("locator", b.key, b.locators)
            \cup TextsIn("field", b.key, OrEmpty(b.fields))
            \cup TextsIn("assertion", b.key, OrEmpty(b.asserted_by))
      BY DEF SaidByBinding
    <2> HIDE DEF p
    <2> QED
      BY <1>1, <1>2, <2>1, <2>2 DEF BindingOK
  <1>3. ASSUME NEW c, CoverageOK(c)
        PROVE  \A p \in SaidByCoverage(c) : CommentOK(p[2])
    <2> DEFINE p == <<Anchor("coverage", None, None), c.comment>>
    <2>1. CommentOK(p[2])
      BY <1>3 DEF CoverageOK
    <2>2. SaidByCoverage(c) = {p} \cup TextsIn("curated", None, OrEmpty(c.curated))
      BY DEF SaidByCoverage
    <2> HIDE DEF p
    <2> QED
      BY <1>1, <1>3, <2>1, <2>2 DEF CoverageOK
  <1> QED
    BY <1>2, <1>3 DEF Said, MapOK

LEMMA EmittedHeads ==
  ASSUME NEW m \in MapType(CommentType), Unique(m)
  PROVE  Heads(Emit(m), m.header, Said(m)) /\ Placed(Said(m)) /\ m.header \in CommentType
  <1>1. m.header \in CommentType
    BY DEF MapType
  <1>2. /\ Says(BodyOf(m), Said(m)) /\ BodyOf(m)[1] = KeyLine /\ Len(BodyOf(m)) >= 1
        /\ Emit(m) = CommentBlock(m.header) \o BodyOf(m)
    BY BodySaid
  <1>3. Heads(CommentBlock(m.header) \o BodyOf(m), m.header, Said(m))
    BY <1>1, <1>2, HeadSaid
  <1> QED
    BY <1>1, <1>2, <1>3, SaidPlaced

LEMMA BareIs ==
  ASSUME NEW m \in MapType(CommentType), Unique(m)
  PROVE  /\ Bare(m) \in MapType({None}) /\ Unique(Bare(m)) /\ Dicts(Bare(m))
         /\ MapOK(m) => MapOK(Bare(m))
         /\ LineAnchors(Bare(m)) = LineAnchors(m)
  <1>1. \A a : TextOf({}, a) \in {None}
    BY TextOfNone
  <1>2. {None} \subseteq CommentType /\ \A c \in {None} : CommentOK(c)
    BY NoneAssumption DEF CommentType, CommentOK
  <1>3. /\ Bare(m) \in MapType({None}) /\ Unique(Bare(m)) /\ Said(Bare(m)) = Retold({}, Said(m))
        /\ MapOK(m) => MapOK(Bare(m))
    BY <1>1, <1>2, CommentedIs DEF Bare
  <1>4. LineAnchors(Bare(m)) = LineAnchors(m)
    BY <1>3, AnchorsSaid, RetoldFirsts
  <1> QED
    BY <1>3, <1>4, UniqueIsDicts

LEMMA EmittedTexts ==
  ASSUME NEW m \in MapType(CommentType), Unique(m), MapOK(m), NEW f, f = Emit(m)
  PROVE  /\ TextAt(f, Header) = m.header /\ \A p \in Said(m) : TextAt(f, p[1]) = p[2]
         /\ \A a : a \notin CarrierAnchors(m) => TextAt(f, a) = None
         /\ ~Unattachable(f) /\ ~HasErrors(f)
         /\ \A c \in Carriers(f) : ~c.warned
         /\ Loaded(Bare(m), f) = m
  <1>1. Heads(f, m.header, Said(m)) /\ Placed(Said(m)) /\ m.header \in CommentType
    BY EmittedHeads
  <1>2. /\ TextAt(f, Header) = m.header
        /\ \A p \in Said(m) : TextAt(f, p[1]) = p[2]
        /\ \A a : a \notin Firsts(Said(m)) \cup {Header} => TextAt(f, a) = None
        /\ ~Unattachable(f) /\ ~Doubled(f)
        /\ \A c \in Carriers(f) : ~c.warned /\ (c.text = m.header \/ \E p \in Said(m) : c.text = p[2])
    BY <1>1, WrittenTexts
  <1>3. Firsts(Said(m)) \cup {Header} = CarrierAnchors(m)
    BY AnchorsSaid DEF CarrierAnchors
  <1>4. ~HasErrors(f)
    <2>1. CommentOK(m.header) /\ \A p \in Said(m) : CommentOK(p[2])
      BY CommentsOK DEF MapOK
    <2> QED
      BY <1>2, <2>1 DEF HasErrors
  <1>5. Loaded(Bare(m), f) = m
    BY <1>2, RecommentedMap DEF Loaded, TextAt
  <1> QED
    BY <1>2, <1>3, <1>4, <1>5

LEMMA EmittedFits ==
  ASSUME NEW m \in MapType(CommentType), Unique(m), NEW f, f = Emit(m)
  PROVE  Fits(Bare(m), f)
  <1> DEFINE A == LineAnchors(Bare(m))
             R == Said(m)
             h == m.header
  <1>1. Heads(f, h, R) /\ Placed(R) /\ h \in CommentType
    BY EmittedHeads
  <1>2. A = Firsts(R)
    BY BareIs, AnchorsSaid
  <1> HIDE DEF A, R, h
  <1>3. f \in Seq(LineType(A))
    BY <1>1, <1>2 DEF Heads
  <1>4. \E n \in DOMAIN f : f[n].kind = "text"
    BY <1>1 DEF Heads, KeyLine, TextLine, Line
  <1>5. /\ Len(f) \in Nat /\ DOMAIN f = 1..Len(f) /\ HeadLen(h) \in Nat
        /\ \A p \in R : \E n \in DOMAIN f : \A m_1 \in DOMAIN f : IsOf(f[m_1], p[1]) <=> m_1 = n
    BY <1>1, WrittenLines
  <1>6. \A n \in DOMAIN f : \/ f[n].starts = <<>> /\ f[n].ends = <<>>
                           \/ \E a : f[n].starts = <<a>> /\ f[n].ends = <<a>> /\ IsOf(f[n], a)
    <2> TAKE n \in DOMAIN f
    <2>1. CASE n > HeadLen(h)
      BY <1>1, <2>1 DEF Heads, LineSays, IsPlain, IsRemark, IsOf
    <2>2. CASE n \in 1..HeadLen(h)
      <3>1. f[n] = CommentLine(h[n])
        BY <1>1, <2>2 DEF Heads
      <3> QED
        BY <3>1 DEF CommentLine, Line
    <2> QED
      BY <1>5, <2>1, <2>2
  <1>7. \A a : Range(<<a>>) = {a}
    BY DEF Range
  <1>8. ASSUME NEW n \in DOMAIN f, NEW a
        PROVE  /\ a \in Range(f[n].starts) <=> IsOf(f[n], a)
               /\ a \in Range(f[n].ends) <=> IsOf(f[n], a)
    <2>1. CASE f[n].starts = <<>> /\ f[n].ends = <<>>
      <3>1. Range(<<>>) = {} /\ <<a>> # <<>>
        BY EmptyList
      <3> QED
        BY <2>1, <3>1 DEF IsOf
    <2>2. ASSUME NEW b, f[n].starts = <<b>>, f[n].ends = <<b>>, IsOf(f[n], b)
          PROVE  /\ a \in Range(f[n].starts) <=> IsOf(f[n], a)
                 /\ a \in Range(f[n].ends) <=> IsOf(f[n], a)
      <3>1. IsOf(f[n], a) => a = b
        BY <2>2, KindsApart
      <3> QED
        BY <1>7, <2>2, <3>1
    <2> QED
      BY <1>6, <2>1, <2>2
  <1>9. ASSUME NEW a \in A
        PROVE  \E first, last \in DOMAIN f :
                 /\ first <= last
                 /\ {n \in DOMAIN f : a \in Range(f[n].starts)} = {first}
                 /\ {n \in DOMAIN f : a \in Range(f[n].ends)} = {last}
    <2>1. PICK n \in DOMAIN f : \A i \in DOMAIN f : IsOf(f[i], a) <=> i = n
      BY <1>2, <1>5 DEF Firsts
    <2>2. n <= n
      BY <1>5
    <2>3. \A i \in DOMAIN f : a \in Range(f[i].starts) <=> i = n
      BY <1>8, <2>1
    <2>4. \A i \in DOMAIN f : a \in Range(f[i].ends) <=> i = n
      BY <1>8, <2>1
    <2>5. {i \in DOMAIN f : a \in Range(f[i].starts)} = {n}
      BY <2>3
    <2>6. {i \in DOMAIN f : a \in Range(f[i].ends)} = {n}
      BY <2>4
    <2> QED
      BY <2>2, <2>5, <2>6
  <1> QED
    BY <1>3, <1>4, <1>9 DEF Fits, A

(***************************************************************************)
(* format: the same things in another order.                               *)
(***************************************************************************)
LEMMA TextsInRange ==
  ASSUME NEW type, NEW id, NEW s, NEW t, Range(s) = Range(t)
  PROVE  TextsIn(type, id, s) = TextsIn(type, id, t)
  <1> DEFINE x(e) == <<Anchor(type, id, e.key), e.comment>>
  <1>1. \A r : TextsIn(type, id, r) = {x(e) : e \in Range(r)}
    BY DEF TextsIn, Range
  <1> HIDE DEF x
  <1> QED
    BY <1>1

LEMMA CanonicalCoverageIs ==
  ASSUME NEW c \in CoverageType(CommentType), IsInjective(OrEmpty(c.fully_bound)),
         UniqueKeys(OrEmpty(c.curated))
  PROVE  LET d == CanonicalCoverage(c)
         IN  /\ d \in CoverageType(CommentType) /\ IsInjective(OrEmpty(d.fully_bound))
             /\ UniqueKeys(OrEmpty(d.curated)) /\ SaidByCoverage(d) = SaidByCoverage(c)
  <1> DEFINE kinds == IF c.fully_bound = None THEN None ELSE SortKinds(c.fully_bound)
             reasons == IF c.curated = None THEN None ELSE SortEntries(c.curated)
             d == CanonicalCoverage(c)
  <1>1. /\ c.fully_bound \in {None} \cup Seq(Kinds)
        /\ c.curated \in {None} \cup Seq(ReasonType(CommentType))
    BY DEF CoverageType
  <1>2. None \notin Seq(Kinds) /\ None \notin Seq(ReasonType(CommentType))
    BY TypesGrow
  <1>3. kinds \in {None} \cup Seq(Kinds) /\ IsInjective(OrEmpty(kinds))
    <2>1. CASE c.fully_bound = None
      BY <2>1 DEF OrEmpty
    <2>2. CASE c.fully_bound # None
      <3> DEFINE s == c.fully_bound
                 t == SortKinds(s)
      <3>1. s \in Seq(Kinds) /\ IsInjective(s)
        BY <1>1, <2>2 DEF OrEmpty
      <3>2. \A k, l \in Kinds : Rank[k] \in Nat /\ (Rank[k] = Rank[l] => k = l)
        BY RankAssumption
      <3> HIDE DEF s
      <3>3. t \in Seq(Kinds) /\ IsInjective(t)
        BY <3>1, <3>2, SortedKinds
      <3> HIDE DEF t
      <3>4. kinds = t /\ t # None
        BY <1>2, <2>2, <3>3 DEF s, t
      <3> HIDE DEF kinds
      <3> QED
        BY <3>3, <3>4 DEF OrEmpty
    <2> QED
      BY <2>1, <2>2
  <1>4. /\ reasons \in {None} \cup Seq(ReasonType(CommentType)) /\ UniqueKeys(OrEmpty(reasons))
        /\ Range(OrEmpty(reasons)) = Range(OrEmpty(c.curated))
    <2>1. CASE c.curated = None
      BY <2>1, EmptyList DEF OrEmpty
    <2>2. CASE c.curated # None
      <3> DEFINE s == c.curated
                 t == SortEntries(s)
                 S == ReasonType(CommentType)
      <3>1. s \in Seq(S) /\ UniqueKeys(s)
        BY <1>1, <2>2 DEF OrEmpty
      <3>2. \A e, x \in S : Rank[e.key] \in Nat /\ (Rank[e.key] = Rank[x.key] => e.key = x.key)
        BY RankAssumption DEF ReasonType
      <3> HIDE DEF s, S
      <3>3. t \in Seq(S) /\ UniqueKeys(t) /\ Range(t) = Range(s)
        BY <3>1, <3>2, SortedEntries
      <3> HIDE DEF t
      <3>4. reasons = t /\ t # None
        BY <1>2, <2>2, <3>3 DEF s, t, S
      <3>5. OrEmpty(reasons) = t /\ OrEmpty(c.curated) = s
        BY <2>2, <3>4 DEF OrEmpty, s
      <3> HIDE DEF reasons
      <3> QED
        BY <3>3, <3>4, <3>5 DEF S
    <2> QED
      BY <2>1, <2>2
  <1>5. d = [c EXCEPT !.fully_bound = kinds, !.curated = reasons]
    BY DEF CanonicalCoverage
  <1> HIDE DEF kinds, reasons, d
  <1>6. d \in CoverageType(CommentType) /\ d.comment = c.comment /\ d.fully_bound = kinds /\ d.curated = reasons
    BY <1>3, <1>4, <1>5 DEF CoverageType
  <1>7. TextsIn("curated", None, OrEmpty(reasons)) = TextsIn("curated", None, OrEmpty(c.curated))
    BY <1>4, TextsInRange
  <1>8. SaidByCoverage(d) = SaidByCoverage(c)
    BY <1>6, <1>7 DEF SaidByCoverage
  <1> QED
    BY <1>3, <1>4, <1>6, <1>8 DEF d

LEMMA CanonicaliseIs ==
  ASSUME NEW m \in MapType(CommentType), Unique(m)
  PROVE  LET n == Canonicalise(m)
         IN  n \in MapType(CommentType) /\ Unique(n) /\ n.header = m.header /\ Said(n) = Said(m)
  <1> DEFINE s == m.bindings
             t == SortEntries(s)
             c == IF m.coverage = None THEN None ELSE CanonicalCoverage(m.coverage)
             n == Canonicalise(m)
             B == BindingType(CommentType)
  <1>1. /\ s \in Seq(B) /\ UniqueKeys(s) /\ \A b \in Range(s) : UniqueInBinding(b)
        /\ m.coverage \in {None} \cup CoverageType(CommentType)
    BY DEF MapType, Unique, Range
  <1>2. \A b, d \in B : Rank[b.key] \in Nat /\ (Rank[b.key] = Rank[d.key] => b.key = d.key)
    BY RankAssumption DEF BindingType
  <1> HIDE DEF s, B
  <1>3. t \in Seq(B) /\ UniqueKeys(t) /\ Range(t) = Range(s)
    BY <1>1, <1>2, SortedEntries
  <1> HIDE DEF t
  <1>4. /\ c \in {None} \cup CoverageType(CommentType) /\ (c = None <=> m.coverage = None)
        /\ c # None => /\ IsInjective(OrEmpty(c.fully_bound)) /\ UniqueKeys(OrEmpty(c.curated))
                       /\ SaidByCoverage(c) = SaidByCoverage(m.coverage)
    <2>1. CASE m.coverage = None
      BY <2>1
    <2>2. CASE m.coverage # None
      <3> DEFINE d == CanonicalCoverage(m.coverage)
      <3>1. /\ d \in CoverageType(CommentType) /\ IsInjective(OrEmpty(d.fully_bound))
            /\ UniqueKeys(OrEmpty(d.curated)) /\ SaidByCoverage(d) = SaidByCoverage(m.coverage)
        BY <1>1, <2>2, CanonicalCoverageIs DEF Unique
      <3>2. None \notin CoverageType(CommentType)
        BY TypesGrow
      <3>3. c = d
        BY <2>2
      <3> HIDE DEF c, d
      <3> QED
        BY <2>2, <3>1, <3>2, <3>3
    <2> QED
      BY <2>1, <2>2
  <1>5. n = [m EXCEPT !.bindings = t, !.coverage = c]
    BY DEF Canonicalise, t, s
  <1> HIDE DEF c, n
  <1>6. n \in MapType(CommentType) /\ n.header = m.header /\ n.bindings = t /\ n.coverage = c
    BY <1>3, <1>4, <1>5 DEF MapType, B
  <1>7. \A i \in DOMAIN t : t[i] \in Range(s)
    BY <1>3 DEF Range
  <1>8. Unique(n)
    BY <1>1, <1>3, <1>4, <1>6, <1>7 DEF Unique
  <1>9. UNION {SaidByBinding(t[i]) : i \in DOMAIN t} = UNION {SaidByBinding(s[i]) : i \in DOMAIN s}
    <2>1. \A r : {SaidByBinding(r[i]) : i \in DOMAIN r} = {SaidByBinding(b) : b \in Range(r)}
      BY DEF Range
    <2>2. {SaidByBinding(t[i]) : i \in DOMAIN t} = {SaidByBinding(s[i]) : i \in DOMAIN s}
      BY <1>3, <2>1
    <2> QED
      BY <2>2
  <1>10. Said(n) = Said(m)
    BY <1>4, <1>6, <1>9 DEF Said, s
  <1> QED
    BY <1>6, <1>8, <1>10 DEF n

(***************************************************************************)
(* comment set and comment unset: the comment of one thing.                *)
(***************************************************************************)
Reset(R, at, text) == {<<p[1], IF p[1] = at THEN text ELSE p[2]>> : p \in R}

LEMMA ResetParts ==
  ASSUME NEW R, NEW Q, NEW at, NEW text
  PROVE  /\ Reset(R \cup Q, at, text) = Reset(R, at, text) \cup Reset(Q, at, text)
         /\ (\A p \in R : p = <<p[1], p[2]>>) /\ at \notin Firsts(R) => Reset(R, at, text) = R
         /\ Firsts(Reset(R, at, text)) = Firsts(R)
         /\ \A p \in Reset(R, at, text) :
              \/ p[1] = at /\ p[2] = text
              \/ p[1] # at /\ \E q \in R : q[1] = p[1] /\ q[2] = p[2]
  <1> DEFINE x(p) == <<p[1], IF p[1] = at THEN text ELSE p[2]>>
  <1>1. \A p : x(p)[1] = p[1] /\ x(p)[2] = IF p[1] = at THEN text ELSE p[2]
    OBVIOUS
  <1>2. \A P : Reset(P, at, text) = {x(p) : p \in P}
    BY DEF Reset
  <1>3. \A p : p[1] # at /\ p = <<p[1], p[2]>> => x(p) = p
    OBVIOUS
  <1> HIDE DEF x
  <1>4. Reset(R \cup Q, at, text) = Reset(R, at, text) \cup Reset(Q, at, text)
    BY <1>2
  <1>5. ASSUME \A p \in R : p = <<p[1], p[2]>>, at \notin Firsts(R)
        PROVE  Reset(R, at, text) = R
    <2>1. \A p \in R : x(p) = p
      BY <1>3, <1>5 DEF Firsts
    <2> QED
      BY <1>2, <2>1
  <1>6. Firsts(Reset(R, at, text)) = Firsts(R)
    BY <1>1, <1>2 DEF Firsts
  <1>7. ASSUME NEW p \in Reset(R, at, text)
        PROVE  \/ p[1] = at /\ p[2] = text
               \/ p[1] # at /\ \E q \in R : q[1] = p[1] /\ q[2] = p[2]
    BY <1>1, <1>2
  <1> QED
    BY <1>4, <1>5, <1>6, <1>7

LEMMA ListReset ==
  ASSUME NEW K, NEW s \in Seq(Keyed(K, CommentType)), UniqueKeys(s),
         NEW key \in Keys(s), NEW text \in CommentType, NEW type, NEW id,
         NEW t, t = WithComment(s, key, text)
  PROVE  /\ t \in Seq(Keyed(K, CommentType)) /\ UniqueKeys(t)
         /\ TextsIn(type, id, t) = Reset(TextsIn(type, id, s), Anchor(type, id, key), text)
  <1> DEFINE k == IndexOf(s, key)
             E == Keyed(K, CommentType)
  <1>1. k \in DOMAIN s /\ s[k].key = key /\ \A n \in DOMAIN s : s[n].key = key <=> n = k
    BY DEF UniqueKeys, IndexOf, Keys
  <1>2. t = [s EXCEPT ![k] = [s[k] EXCEPT !.comment = text]]
    BY DEF WithComment
  <1> HIDE DEF k
  <1>3. \A e \in E : /\ [e EXCEPT !.comment = text] \in E
                     /\ [e EXCEPT !.comment = text].key = e.key
                     /\ [e EXCEPT !.comment = text].comment = text
    BY DEF Keyed
  <1>4. \A n \in DOMAIN s : s[n] \in E
    OBVIOUS
  <1> HIDE DEF E
  <1>5. s \in Seq(E) /\ DOMAIN s = 1..Len(s)
    BY DEF E
  <1>6. /\ t \in Seq(E) /\ DOMAIN t = DOMAIN s
        /\ \A n \in DOMAIN s : t[n] = IF n = k THEN [s[n] EXCEPT !.comment = text] ELSE s[n]
    BY <1>1, <1>2, <1>3, <1>4, <1>5
  <1>7. \A n \in DOMAIN s : t[n].key = s[n].key /\ t[n].comment = IF n = k THEN text ELSE s[n].comment
    BY <1>3, <1>4, <1>6
  <1>8. UniqueKeys(t)
    BY <1>6, <1>7 DEF UniqueKeys
  <1> DEFINE x(n) == <<Anchor(type, id, s[n].key), s[n].comment>>
             y(n) == <<Anchor(type, id, t[n].key), t[n].comment>>
             a == Anchor(type, id, key)
             r(p) == <<p[1], IF p[1] = a THEN text ELSE p[2]>>
  <1>9. \A n \in DOMAIN s : Anchor(type, id, s[n].key) = a <=> n = k
    BY <1>1 DEF Anchor
  <1>10. \A n \in DOMAIN s : y(n) = r(x(n))
    BY <1>7, <1>9
  <1>11. TextsIn(type, id, t) = {y(n) : n \in DOMAIN s}
    BY <1>6 DEF TextsIn
  <1>12. TextsIn(type, id, s) = {x(n) : n \in DOMAIN s}
    BY DEF TextsIn
  <1>13. Reset(TextsIn(type, id, s), a, text) = {r(p) : p \in TextsIn(type, id, s)}
    BY DEF Reset
  <1> HIDE DEF x, y, r
  <1>14. TextsIn(type, id, t) = Reset(TextsIn(type, id, s), a, text)
    BY <1>10, <1>11, <1>12, <1>13
  <1> QED
    BY <1>6, <1>8, <1>14 DEF E

(* Assigning to a key that a sequence has replaces what it has there.      *)
LEMMA PutPlace ==
  ASSUME NEW S, NEW s \in Seq(S), UniqueKeys(s), NEW k \in DOMAIN s, NEW e \in S, e.key = s[k].key
  PROVE  LET t == Put(s, e)
         IN  /\ t \in Seq(S) /\ UniqueKeys(t) /\ DOMAIN t = DOMAIN s
             /\ \A n \in DOMAIN s : t[n] = IF n = k THEN e ELSE s[n]
             /\ At(s, e.key) = s[k]
  <1>1. e.key \in Keys(s)
    BY DEF Keys
  <1>2. IndexOf(s, e.key) = k
    BY DEF IndexOf, UniqueKeys
  <1> DEFINE t == Put(s, e)
  <1>3. t = [s EXCEPT ![k] = e]
    BY <1>1, <1>2 DEF Put
  <1> HIDE DEF t
  <1>4. /\ t \in Seq(S) /\ DOMAIN t = DOMAIN s
        /\ \A n \in DOMAIN s : t[n] = IF n = k THEN e ELSE s[n]
    BY <1>3
  <1>5. UniqueKeys(t)
    BY <1>4 DEF UniqueKeys
  <1> QED
    BY <1>2, <1>4, <1>5 DEF t, At

LEMMA OptionalReset ==
  ASSUME NEW K, None \notin Seq(Keyed(K, CommentType)), NEW s \in {None} \cup Seq(Keyed(K, CommentType)),
         UniqueKeys(OrEmpty(s)), NEW type, NEW id, NEW at \in Firsts(TextsIn(type, id, OrEmpty(s))),
         NEW text \in CommentType, NEW t, t = WithComment(s, at[3], text)
  PROVE  /\ t \in {None} \cup Seq(Keyed(K, CommentType)) /\ UniqueKeys(OrEmpty(t))
         /\ TextsIn(type, id, OrEmpty(t)) = Reset(TextsIn(type, id, OrEmpty(s)), at, text)
         /\ at[1] = type /\ at[2] = id
  <1>1. PICK p \in TextsIn(type, id, OrEmpty(s)) : at = p[1]
    BY DEF Firsts
  <1>2. PICK n \in DOMAIN OrEmpty(s) : p = <<Anchor(type, id, OrEmpty(s)[n].key), OrEmpty(s)[n].comment>>
    BY <1>1 DEF TextsIn
  <1>3. at = Anchor(type, id, OrEmpty(s)[n].key)
    BY <1>1, <1>2
  <1>4. at[1] = type /\ at[2] = id /\ at[3] = OrEmpty(s)[n].key /\ at = Anchor(type, id, at[3])
    BY <1>3 DEF Anchor
  <1>5. OrEmpty(s) = s /\ s \in Seq(Keyed(K, CommentType)) /\ at[3] \in Keys(s)
    BY <1>4 DEF OrEmpty, Keys
  <1>6. /\ t \in Seq(Keyed(K, CommentType)) /\ UniqueKeys(t)
        /\ TextsIn(type, id, t) = Reset(TextsIn(type, id, s), at, text)
    BY <1>4, <1>5, ListReset
  <1>7. OrEmpty(t) = t
    BY <1>6 DEF OrEmpty
  <1> QED
    BY <1>4, <1>5, <1>6, <1>7

(* What is not at an anchor stays when the comment there is set.           *)
LEMMA ListStays ==
  ASSUME NEW type, NEW id, NEW s, NEW at, NEW text, at[1] # type \/ at[2] # id
  PROVE  Reset(TextsIn(type, id, s), at, text) = TextsIn(type, id, s)
  <1>1. \A p \in TextsIn(type, id, s) : p = <<p[1], p[2]>> /\ p[1][1] = type
    BY ListAnchors
  <1>2. at \notin Firsts(TextsIn(type, id, s))
    BY <1>1 DEF Firsts, TextsIn, Anchor
  <1> DEFINE R == TextsIn(type, id, s)
  <1>3. \A p \in R : p = <<p[1], p[2]>>
    BY <1>1
  <1>4. at \notin Firsts(R)
    BY <1>2
  <1> HIDE DEF R
  <1>5. Reset(R, at, text) = R
    BY <1>3, <1>4, ResetParts
  <1> QED
    BY <1>5 DEF R

LEMMA OneReset ==
  ASSUME NEW a, NEW c, NEW at, NEW text
  PROVE  Reset({<<a, c>>}, at, text) = {<<a, IF a = at THEN text ELSE c>>}
  <1> DEFINE p == <<a, c>>
  <1>1. p[1] = a /\ p[2] = c
    OBVIOUS
  <1> HIDE DEF p
  <1>2. Reset({p}, at, text) = {<<p[1], IF p[1] = at THEN text ELSE p[2]>>}
    BY DEF Reset
  <1> QED
    BY <1>1, <1>2 DEF p

ResetBinding(b, at, text) ==
    CASE at[1] = "binding" -> [b EXCEPT !.comment = text]
      [] at[1] = "locator" -> [b EXCEPT !.locators = WithComment(@, at[3], text)]
      [] at[1] = "field" -> [b EXCEPT !.fields = WithComment(@, at[3], text)]
      [] at[1] = "assertion" -> [b EXCEPT !.asserted_by = WithComment(@, at[3], text)]

LEMMA ResetFour ==
  ASSUME NEW H, NEW L, NEW F, NEW A, NEW at, NEW text
  PROVE  Reset(H \cup L \cup F \cup A, at, text)
           = Reset(H, at, text) \cup Reset(L, at, text) \cup Reset(F, at, text) \cup Reset(A, at, text)
  <1>1. Reset(H \cup L \cup F \cup A, at, text) = Reset(H \cup L \cup F, at, text) \cup Reset(A, at, text)
    BY ResetParts
  <1>2. Reset(H \cup L \cup F, at, text) = Reset(H \cup L, at, text) \cup Reset(F, at, text)
    BY ResetParts
  <1>3. Reset(H \cup L, at, text) = Reset(H, at, text) \cup Reset(L, at, text)
    BY ResetParts
  <1> QED
    BY <1>1, <1>2, <1>3

LEMMA BindingReset ==
  ASSUME NEW b \in BindingType(CommentType), UniqueInBinding(b), NEW at \in Firsts(SaidByBinding(b)),
         NEW text \in CommentType, NEW d, d = ResetBinding(b, at, text)
  PROVE  /\ d \in BindingType(CommentType) /\ UniqueInBinding(d) /\ d.key = b.key
         /\ SaidByBinding(d) = Reset(SaidByBinding(b), at, text)
         /\ at[2] = b.key /\ at[1] \in {"binding", "locator", "field", "assertion"}
  <1> DEFINE E == Keyed(Scalars, CommentType)
             a == Anchor("binding", b.key, None)
             H == {<<a, b.comment>>}
             L == TextsIn("locator", b.key, b.locators)
             F == TextsIn("field", b.key, OrEmpty(b.fields))
             A == TextsIn("assertion", b.key, OrEmpty(b.asserted_by))
  <1>1. /\ b.locators \in Seq(E) /\ b.fields \in {None} \cup Seq(E)
        /\ b.asserted_by \in {None} \cup Seq(E) /\ None \notin Seq(E)
        /\ OrEmpty(b.locators) = b.locators
    BY KeyedTypes, TypesGrow DEF BindingType, OrEmpty
  <1>2. /\ UniqueKeys(b.locators) /\ UniqueKeys(OrEmpty(b.fields))
        /\ UniqueKeys(OrEmpty(b.asserted_by))
    BY DEF UniqueInBinding
  <1>3. SaidByBinding(b) = H \cup L \cup F \cup A
    BY DEF SaidByBinding
  <1>4. a[1] = "binding" /\ a[2] = b.key
    BY DEF Anchor
  <1>5. at = a \/ at \in Firsts(L) \/ at \in Firsts(F) \/ at \in Firsts(A)
    <2>1. PICK p \in SaidByBinding(b) : at = p[1]
      BY DEF Firsts
    <2>2. CASE p \in H
      BY <2>1, <2>2
    <2> HIDE DEF H, L, F, A
    <2> QED
      BY <1>3, <2>1, <2>2 DEF Firsts
  <1>6. at[1] # "locator" => Reset(L, at, text) = L
    BY ListStays
  <1>7. at[1] # "field" => Reset(F, at, text) = F
    BY ListStays
  <1>8. at[1] # "assertion" => Reset(A, at, text) = A
    BY ListStays
  <1>9. Reset(H, at, text) = {<<a, IF a = at THEN text ELSE b.comment>>}
    <2> HIDE DEF a
    <2> QED
      BY OneReset
  <1>10. at[1] # "binding" => Reset(H, at, text) = H
    <2> HIDE DEF a
    <2> QED
      BY <1>4, <1>9
  <1>11. Reset(SaidByBinding(b), at, text)
           = Reset(H, at, text) \cup Reset(L, at, text) \cup Reset(F, at, text) \cup Reset(A, at, text)
    <2> HIDE DEF H, L, F, A
    <2> QED
      BY <1>3, ResetFour
  <1>12. CASE at = a
    <2>1. d = [b EXCEPT !.comment = text]
      BY <1>4, <1>12 DEF ResetBinding
    <2>2. d \in BindingType(CommentType) /\ d.key = b.key /\ UniqueInBinding(d) /\ d.comment = text
          /\ d.locators = b.locators /\ d.fields = b.fields /\ d.asserted_by = b.asserted_by
      BY <2>1 DEF BindingType, UniqueInBinding
    <2>3. SaidByBinding(d) = {<<a, text>>} \cup L \cup F \cup A
      BY <2>2 DEF SaidByBinding
    <2>4. Reset(H, at, text) = {<<a, text>>}
      BY <1>9, <1>12
    <2> HIDE DEF H, L, F, A, a
    <2>5. SaidByBinding(d) = Reset(SaidByBinding(b), at, text)
      BY <1>4, <1>6, <1>7, <1>8, <1>11, <1>12, <2>3, <2>4
    <2> QED
      BY <1>4, <1>12, <2>2, <2>5
  <1>13. CASE at \in Firsts(L)
    <2> DEFINE t == WithComment(b.locators, at[3], text)
               T == TextsIn("locator", b.key, t)
    <2>1. PICK n \in DOMAIN b.locators : at = Anchor("locator", b.key, b.locators[n].key)
      BY <1>13 DEF Firsts, TextsIn
    <2>2. at[1] = "locator" /\ at[2] = b.key /\ at[3] \in Keys(b.locators)
          /\ at = Anchor("locator", b.key, at[3])
      BY <2>1 DEF Anchor, Keys
    <2>3. t \in Seq(E) /\ UniqueKeys(t) /\ T = Reset(L, at, text)
      BY <1>1, <1>2, <2>2, ListReset
    <2>4. d = [b EXCEPT !.locators = t]
      BY <2>2 DEF ResetBinding
    <2> HIDE DEF t
    <2>5. d \in BindingType(CommentType) /\ d.key = b.key /\ d.comment = b.comment
          /\ d.locators = t /\ d.fields = b.fields /\ d.asserted_by = b.asserted_by
      BY <2>4, <2>3, KeyedTypes DEF BindingType
    <2>6. UniqueInBinding(d)
      BY <2>3, <2>5, <1>2 DEF UniqueInBinding
    <2>7. SaidByBinding(d) = H \cup T \cup F \cup A
      BY <2>5 DEF SaidByBinding
    <2> HIDE DEF H, L, F, A, T, a
    <2>8. SaidByBinding(d) = Reset(SaidByBinding(b), at, text)
      BY <1>7, <1>8, <1>10, <1>11, <2>2, <2>3, <2>7
    <2> QED
      BY <2>2, <2>5, <2>6, <2>8
  <1>14. CASE at \in Firsts(F)
    <2> DEFINE t == WithComment(b.fields, at[3], text)
               T == TextsIn("field", b.key, OrEmpty(t))
    <2>1. /\ t \in {None} \cup Seq(E) /\ UniqueKeys(OrEmpty(t)) /\ T = Reset(F, at, text)
          /\ at[1] = "field" /\ at[2] = b.key
      BY <1>1, <1>2, <1>14, OptionalReset
    <2>2. d = [b EXCEPT !.fields = t]
      BY <2>1 DEF ResetBinding
    <2> HIDE DEF t
    <2>3. d \in BindingType(CommentType) /\ d.key = b.key /\ d.comment = b.comment
          /\ d.locators = b.locators /\ d.fields = t /\ d.asserted_by = b.asserted_by
      BY <2>1, <2>2, KeyedTypes DEF BindingType
    <2>4. UniqueInBinding(d)
      BY <2>1, <2>3, <1>2 DEF UniqueInBinding
    <2>5. SaidByBinding(d) = H \cup L \cup T \cup A
      BY <2>3 DEF SaidByBinding
    <2> HIDE DEF H, L, F, A, T, a
    <2>6. SaidByBinding(d) = Reset(SaidByBinding(b), at, text)
      BY <1>6, <1>8, <1>10, <1>11, <2>1, <2>5
    <2> QED
      BY <2>1, <2>3, <2>4, <2>6
  <1>15. CASE at \in Firsts(A)
    <2> DEFINE t == WithComment(b.asserted_by, at[3], text)
               T == TextsIn("assertion", b.key, OrEmpty(t))
    <2>1. /\ t \in {None} \cup Seq(E) /\ UniqueKeys(OrEmpty(t)) /\ T = Reset(A, at, text)
          /\ at[1] = "assertion" /\ at[2] = b.key
      BY <1>1, <1>2, <1>15, OptionalReset
    <2>2. d = [b EXCEPT !.asserted_by = t]
      BY <2>1 DEF ResetBinding
    <2> HIDE DEF t
    <2>3. d \in BindingType(CommentType) /\ d.key = b.key /\ d.comment = b.comment
          /\ d.locators = b.locators /\ d.fields = b.fields /\ d.asserted_by = t
      BY <2>1, <2>2, KeyedTypes DEF BindingType
    <2>4. UniqueInBinding(d)
      BY <2>1, <2>3, <1>2 DEF UniqueInBinding
    <2>5. SaidByBinding(d) = H \cup L \cup F \cup T
      BY <2>3 DEF SaidByBinding
    <2> HIDE DEF H, L, F, A, T, a
    <2>6. SaidByBinding(d) = Reset(SaidByBinding(b), at, text)
      BY <1>6, <1>7, <1>10, <1>11, <2>1, <2>5
    <2> QED
      BY <2>1, <2>3, <2>4, <2>6
  <1> QED
    BY <1>5, <1>12, <1>13, <1>14, <1>15

ResetCoverage(c, at, text) ==
    IF at[1] = "coverage" THEN [c EXCEPT !.comment = text]
    ELSE [c EXCEPT !.curated = WithComment(@, at[3], text)]

LEMMA CoverageReset ==
  ASSUME NEW c \in CoverageType(CommentType), UniqueKeys(OrEmpty(c.curated)),
         NEW at \in Firsts(SaidByCoverage(c)), NEW text \in CommentType,
         NEW d, d = ResetCoverage(c, at, text)
  PROVE  /\ d \in CoverageType(CommentType) /\ d.fully_bound = c.fully_bound
         /\ UniqueKeys(OrEmpty(d.curated)) /\ SaidByCoverage(d) = Reset(SaidByCoverage(c), at, text)
         /\ at[1] \in {"coverage", "curated"}
  <1> DEFINE E == Keyed(Kinds, CommentType)
             a == Anchor("coverage", None, None)
             H == {<<a, c.comment>>}
             L == TextsIn("curated", None, OrEmpty(c.curated))
  <1>1. c.curated \in {None} \cup Seq(E) /\ None \notin Seq(E)
    BY KeyedTypes, TypesGrow DEF CoverageType
  <1>2. SaidByCoverage(c) = H \cup L
    BY DEF SaidByCoverage
  <1>3. a[1] = "coverage"
    BY DEF Anchor
  <1>4. at = a \/ at \in Firsts(L)
    <2>1. PICK p \in SaidByCoverage(c) : at = p[1]
      BY DEF Firsts
    <2>2. CASE p \in H
      BY <2>1, <2>2
    <2> HIDE DEF H, L
    <2> QED
      BY <1>2, <2>1, <2>2 DEF Firsts
  <1>5. at[1] # "curated" => Reset(L, at, text) = L
    BY ListStays
  <1>6. Reset(H, at, text) = {<<a, IF a = at THEN text ELSE c.comment>>}
    <2> HIDE DEF a
    <2> QED
      BY OneReset
  <1>7. at[1] # "coverage" => Reset(H, at, text) = H
    <2> HIDE DEF a
    <2> QED
      BY <1>3, <1>6
  <1>8. Reset(SaidByCoverage(c), at, text) = Reset(H, at, text) \cup Reset(L, at, text)
    <2> HIDE DEF H, L
    <2> QED
      BY <1>2, ResetParts
  <1>9. CASE at = a
    <2>1. d = [c EXCEPT !.comment = text]
      BY <1>3, <1>9 DEF ResetCoverage
    <2>2. d \in CoverageType(CommentType) /\ d.comment = text
          /\ d.fully_bound = c.fully_bound /\ d.curated = c.curated
      BY <2>1 DEF CoverageType
    <2>3. SaidByCoverage(d) = {<<a, text>>} \cup L
      BY <2>2 DEF SaidByCoverage
    <2>4. Reset(H, at, text) = {<<a, text>>}
      BY <1>6, <1>9
    <2> HIDE DEF H, L, a
    <2>5. SaidByCoverage(d) = Reset(SaidByCoverage(c), at, text)
      BY <1>3, <1>5, <1>8, <1>9, <2>3, <2>4
    <2> QED
      BY <1>3, <1>9, <2>2, <2>5
  <1>10. CASE at \in Firsts(L)
    <2> DEFINE t == WithComment(c.curated, at[3], text)
               T == TextsIn("curated", None, OrEmpty(t))
    <2>1. /\ t \in {None} \cup Seq(E) /\ UniqueKeys(OrEmpty(t)) /\ T = Reset(L, at, text)
          /\ at[1] = "curated"
      BY <1>1, <1>10, OptionalReset
    <2>2. d = [c EXCEPT !.curated = t]
      BY <2>1 DEF ResetCoverage
    <2> HIDE DEF t
    <2>3. d \in CoverageType(CommentType) /\ d.comment = c.comment
          /\ d.fully_bound = c.fully_bound /\ d.curated = t
      BY <2>1, <2>2, KeyedTypes DEF CoverageType
    <2>4. SaidByCoverage(d) = H \cup T
      BY <2>3 DEF SaidByCoverage
    <2> HIDE DEF H, L, T, a
    <2>5. SaidByCoverage(d) = Reset(SaidByCoverage(c), at, text)
      BY <1>7, <1>8, <2>1, <2>4
    <2> QED
      BY <2>1, <2>3, <2>5
  <1> QED
    BY <1>4, <1>9, <1>10

LEMMA ResetUnion ==
  ASSUME NEW I, NEW S, NEW at, NEW text
  PROVE  Reset(UNION {S[i] : i \in I}, at, text) = UNION {Reset(S[i], at, text) : i \in I}
  <1> DEFINE x(p) == <<p[1], IF p[1] = at THEN text ELSE p[2]>>
  <1>1. \A P : Reset(P, at, text) = {x(p) : p \in P}
    BY DEF Reset
  <1> HIDE DEF x
  <1> QED
    BY <1>1

LEMMA StaysWithout ==
  ASSUME NEW R, NEW at, NEW text, \A p \in R : p = <<p[1], p[2]>> /\ p[1] # at
  PROVE  Reset(R, at, text) = R
  <1> DEFINE x(p) == <<p[1], IF p[1] = at THEN text ELSE p[2]>>
  <1>1. \A p \in R : x(p) = p
    OBVIOUS
  <1>2. Reset(R, at, text) = {x(p) : p \in R}
    BY DEF Reset
  <1> HIDE DEF x
  <1> QED
    BY <1>1, <1>2

LEMMA SetBindingComment ==
  ASSUME NEW m \in MapType(CommentType), Unique(m), NEW text \in CommentType,
         NEW k \in DOMAIN m.bindings, NEW at \in Firsts(SaidByBinding(m.bindings[k])),
         NEW n, n = SetComment(m, at, text)
  PROVE  /\ n \in MapType(CommentType) /\ Unique(n) /\ n.header = m.header
         /\ Said(n) = Reset(Said(m), at, text)
  <1> DEFINE B == BindingType(CommentType)
             s == m.bindings
             b == s[k]
             d == ResetBinding(b, at, text)
             t == Put(s, d)
             C == IF m.coverage = None THEN {} ELSE SaidByCoverage(m.coverage)
  <1>1. s \in Seq(B) /\ UniqueKeys(s) /\ b \in B /\ UniqueInBinding(b)
    BY DEF MapType, Unique
  <1>2. /\ d \in B /\ UniqueInBinding(d) /\ d.key = b.key
        /\ SaidByBinding(d) = Reset(SaidByBinding(b), at, text)
        /\ at[2] = b.key /\ at[1] \in {"binding", "locator", "field", "assertion"}
    <2> HIDE DEF b, d
    <2>1. d = ResetBinding(b, at, text) /\ at \in Firsts(SaidByBinding(b))
      BY DEF d, b
    <2> QED
      BY <1>1, <2>1, BindingReset
  <1>3. /\ t \in Seq(B) /\ UniqueKeys(t) /\ DOMAIN t = DOMAIN s
        /\ \A i \in DOMAIN s : t[i] = IF i = k THEN d ELSE s[i]
        /\ At(s, at[2]) = b
    <2>1. k \in DOMAIN s /\ d.key = s[k].key /\ b = s[k] /\ at[2] = d.key
      BY <1>2
    <2> HIDE DEF d, b, s, B
    <2> QED
      BY <1>1, <1>2, <2>1, PutPlace
  <1>4. n = [m EXCEPT !.bindings = t]
    <2>1. BindingOf(m, at[2]) = b
      BY <1>3 DEF BindingOf, s
    <2> HIDE DEF b, t, s
    <2>2. n = WithBinding(m, d)
      BY <1>2, <2>1 DEF SetComment, ResetBinding
    <2> QED
      BY <2>2 DEF WithBinding, t, s
  <1>5. /\ n \in MapType(CommentType) /\ n.header = m.header
        /\ n.bindings = t /\ n.coverage = m.coverage
    BY <1>3, <1>4 DEF MapType
  <1>6. Unique(n)
    <2>1. \A i \in DOMAIN t : UniqueInBinding(t[i])
      BY <1>2, <1>3 DEF Unique
    <2> QED
      BY <1>3, <1>5, <2>1 DEF Unique
  <1>7. Said(m) = (UNION {SaidByBinding(s[i]) : i \in DOMAIN s}) \cup C
    BY DEF Said
  <1>8. Said(n) = (UNION {SaidByBinding(t[i]) : i \in DOMAIN s}) \cup C
    BY <1>3, <1>5 DEF Said
  <1>9. Reset(C, at, text) = C
    <2>1. ASSUME NEW p \in C
          PROVE  p = <<p[1], p[2]>> /\ p[1] # at
      <3>1. p \in Said(m) /\ m.coverage # None /\ p \in SaidByCoverage(m.coverage)
        BY <1>7, <2>1
      <3>2. p = <<p[1], p[2]>>
        BY <3>1, AnchorsSaid
      <3>3. m.coverage \in CoverageType(CommentType) /\ UniqueKeys(OrEmpty(m.coverage.curated))
        BY <3>1 DEF MapType, Unique
      <3>4. p[1][1] \in {"coverage", "curated"}
        BY <3>1, <3>3, CoveragePlaced
      <3> QED
        BY <1>2, <3>2, <3>4
    <2> HIDE DEF C
    <2> QED
      BY <2>1, StaysWithout
  <1>10. \A i \in DOMAIN s : SaidByBinding(t[i]) = Reset(SaidByBinding(s[i]), at, text)
    <2> TAKE i \in DOMAIN s
    <2>1. CASE i = k
      BY <1>2, <1>3, <2>1
    <2>2. CASE i # k
      <3>1. s[i] \in B /\ UniqueInBinding(s[i]) /\ s[i].key # b.key
        BY <1>1, <2>2 DEF UniqueKeys, Unique
      <3>2. ASSUME NEW p \in SaidByBinding(s[i])
            PROVE  p = <<p[1], p[2]>> /\ p[1] # at
        <4>1. p \in Said(m)
          BY <1>7, <3>2
        <4>2. p = <<p[1], p[2]>>
          BY <4>1, AnchorsSaid
        <4>3. p[1][2] = s[i].key
          BY <3>1, <3>2, BindingPlaced
        <4> QED
          BY <1>2, <3>1, <4>2, <4>3
      <3>3. Reset(SaidByBinding(s[i]), at, text) = SaidByBinding(s[i])
        <4> DEFINE R == SaidByBinding(s[i])
        <4>1. \A p \in R : p = <<p[1], p[2]>> /\ p[1] # at
          BY <3>2
        <4> HIDE DEF R
        <4>2. Reset(R, at, text) = R
          BY <4>1, StaysWithout
        <4> QED
          BY <4>2 DEF R
      <3> QED
        BY <1>3, <2>2, <3>3
    <2> QED
      BY <2>1, <2>2
  <1> DEFINE S == [i \in DOMAIN s |-> SaidByBinding(s[i])]
             U == UNION {S[i] : i \in DOMAIN s}
  <1>11. UNION {SaidByBinding(t[i]) : i \in DOMAIN s} = UNION {Reset(S[i], at, text) : i \in DOMAIN s}
    BY <1>10
  <1>12. UNION {SaidByBinding(s[i]) : i \in DOMAIN s} = U
    OBVIOUS
  <1>13. Reset(U, at, text) = UNION {Reset(S[i], at, text) : i \in DOMAIN s}
    <2> HIDE DEF S
    <2> QED
      BY ResetUnion
  <1> HIDE DEF U, C, S, t, s
  <1>14. Reset(U \cup C, at, text) = Reset(U, at, text) \cup Reset(C, at, text)
    BY ResetParts
  <1>15. Said(n) = Reset(Said(m), at, text)
    BY <1>7, <1>8, <1>9, <1>11, <1>12, <1>13, <1>14
  <1> QED
    BY <1>5, <1>6, <1>15

LEMMA SetCoverageComment ==
  ASSUME NEW m \in MapType(CommentType), Unique(m), NEW text \in CommentType,
         m.coverage # None, NEW at \in Firsts(SaidByCoverage(m.coverage)),
         NEW n, n = SetComment(m, at, text)
  PROVE  /\ n \in MapType(CommentType) /\ Unique(n) /\ n.header = m.header
         /\ Said(n) = Reset(Said(m), at, text)
  <1> DEFINE c == m.coverage
             d == ResetCoverage(c, at, text)
             U == UNION {SaidByBinding(m.bindings[i]) : i \in DOMAIN m.bindings}
  <1>1. c \in CoverageType(CommentType) /\ UniqueKeys(OrEmpty(c.curated))
    BY DEF MapType, Unique
  <1>2. /\ d \in CoverageType(CommentType) /\ d.fully_bound = c.fully_bound
        /\ UniqueKeys(OrEmpty(d.curated)) /\ SaidByCoverage(d) = Reset(SaidByCoverage(c), at, text)
        /\ at[1] \in {"coverage", "curated"}
    <2> HIDE DEF c, d
    <2>1. d = ResetCoverage(c, at, text) /\ at \in Firsts(SaidByCoverage(c))
      BY DEF d, c
    <2> QED
      BY <1>1, <2>1, CoverageReset
  <1>3. n = [m EXCEPT !.coverage = d]
    <2>1. CASE at[1] = "coverage"
      <3>1. n = [m EXCEPT !.coverage.comment = text]
        BY <2>1 DEF SetComment
      <3> QED
        BY <2>1, <3>1 DEF ResetCoverage
    <2>2. CASE at[1] = "curated"
      <3>1. n = [m EXCEPT !.coverage.curated = WithComment(@, at[3], text)]
        BY <2>2 DEF SetComment
      <3> QED
        BY <2>2, <3>1 DEF ResetCoverage
    <2> QED
      BY <1>2, <2>1, <2>2
  <1>4. d # None
    <2>1. None \notin CoverageType(CommentType)
      BY TypesGrow
    <2> QED
      BY <1>2, <2>1
  <1> HIDE DEF d
  <1>5. /\ n \in MapType(CommentType) /\ n.header = m.header
        /\ n.bindings = m.bindings /\ n.coverage = d
    BY <1>2, <1>3 DEF MapType
  <1>6. Unique(n)
    BY <1>2, <1>5 DEF Unique
  <1>7. Said(m) = U \cup SaidByCoverage(c)
    BY DEF Said
  <1>8. Said(n) = U \cup SaidByCoverage(d)
    BY <1>4, <1>5 DEF Said
  <1>9. Reset(U, at, text) = U
    <2>1. ASSUME NEW p \in U
          PROVE  p = <<p[1], p[2]>> /\ p[1] # at
      <3>1. p \in Said(m)
        BY <1>7, <2>1
      <3>2. p = <<p[1], p[2]>>
        BY <3>1, AnchorsSaid
      <3>3. PICK i \in DOMAIN m.bindings : p \in SaidByBinding(m.bindings[i])
        BY <2>1
      <3>4. m.bindings[i] \in BindingType(CommentType) /\ UniqueInBinding(m.bindings[i])
        BY DEF MapType, Unique
      <3>5. p[1][1] \notin {"coverage", "curated"}
        BY <3>3, <3>4, BindingPlaced
      <3> QED
        BY <1>2, <3>2, <3>5
    <2> HIDE DEF U
    <2> QED
      BY <2>1, StaysWithout
  <1>10. Said(n) = Reset(Said(m), at, text)
    <2> DEFINE C == SaidByCoverage(c)
    <2> HIDE DEF U, C
    <2>1. Reset(U \cup C, at, text) = Reset(U, at, text) \cup Reset(C, at, text)
      BY ResetParts
    <2> QED
      BY <1>2, <1>7, <1>8, <1>9, <2>1 DEF C
  <1> QED
    BY <1>5, <1>6, <1>10

LEMMA SetCommentIs ==
  ASSUME NEW m \in MapType(CommentType), Unique(m), NEW at \in CarrierAnchors(m),
         NEW text \in CommentType, NEW n, n = SetComment(m, at, text)
  PROVE  /\ n \in MapType(CommentType) /\ Unique(n)
         /\ n.header = IF at = Header THEN text ELSE m.header
         /\ Said(n) = Reset(Said(m), at, text)
  <1>1. CASE at = Header
    <2>1. at[1] = "header"
      BY <1>1 DEF Header, Anchor
    <2>2. n = [m EXCEPT !.header = text]
      BY <2>1 DEF SetComment
    <2>3. /\ n \in MapType(CommentType) /\ n.header = text
          /\ n.bindings = m.bindings /\ n.coverage = m.coverage
      BY <2>2 DEF MapType
    <2>4. Unique(n) /\ Said(n) = Said(m)
      BY <2>3 DEF Unique, Said
    <2>5. \A p \in Said(m) : p = <<p[1], p[2]>> /\ p[1] # at
      BY <2>1, AnchorsSaid
    <2>6. Reset(Said(m), at, text) = Said(m)
      BY <2>5, StaysWithout
    <2> QED
      BY <1>1, <2>3, <2>4, <2>6
  <1>2. CASE at # Header
    <2>1. at \in Firsts(Said(m))
      BY <1>2, AnchorsSaid DEF CarrierAnchors
    <2>2. PICK p \in Said(m) : at = p[1]
      BY <2>1 DEF Firsts
    <2>3. CASE \E k \in DOMAIN m.bindings : p \in SaidByBinding(m.bindings[k])
      <3>1. PICK k \in DOMAIN m.bindings : p \in SaidByBinding(m.bindings[k])
        BY <2>3
      <3>2. at \in Firsts(SaidByBinding(m.bindings[k]))
        BY <2>2, <3>1 DEF Firsts
      <3> QED
        BY <1>2, <3>2, SetBindingComment
    <2>4. CASE m.coverage # None /\ p \in SaidByCoverage(m.coverage)
      <3>1. at \in Firsts(SaidByCoverage(m.coverage))
        BY <2>2, <2>4 DEF Firsts
      <3> QED
        BY <1>2, <2>4, <3>1, SetCoverageComment
    <2> QED
      BY <2>2, <2>3, <2>4 DEF Said
  <1> QED
    BY <1>1, <1>2

LEMMA LineParts ==
  ASSUME NEW A, NEW l \in LineType(A)
  PROVE  /\ l.comment \in {None} \cup Bodied /\ l.kind \in {"text", "marker", "blank", "comment"}
         /\ l.kind = "comment" => l.comment \in Bodied /\ l.starts = <<>> /\ l.ends = <<>> /\ l.of = {}
         /\ l.starts \in Seq(A) /\ l.ends \in Seq(A)
         /\ l.kind = "blank" => l.comment = None
  <1>1. CASE \E body \in Bodied : l = CommentLine(body)
    BY <1>1 DEF CommentLine, Line
  <1>2. CASE l = BlankLine
    BY <1>2 DEF BlankLine, Line
  <1>3. CASE l \in [kind : {"text"}, of : SUBSET A, starts : Seq(A), ends : Seq(A),
                    comment : {None} \cup Bodied]
    BY <1>3
  <1>4. CASE l \in [kind : {"marker"}, of : {{}}, starts : {<<>>}, ends : {<<>>},
                    comment : {None} \cup Bodied]
    <2>1. l.starts = <<>> /\ l.ends = <<>> /\ l.kind = "marker" /\ l.comment \in {None} \cup Bodied
      BY <1>4
    <2>2. l.starts \in Seq(A) /\ l.ends \in Seq(A)
      BY <2>1
    <2> QED
      BY <2>1, <2>2
  <1> QED
    BY <1>1, <1>2, <1>3, <1>4 DEF LineType

LEMMA TrimmedLine ==
  ASSUME NEW body \in Bodied
  PROVE  Trim[body] \in Trimmed /\ <<Trim[body]>> \in Comments
  BY TrimAssumption DEF Bodied, Trimmed, Comments

LEMMA TrailingText ==
  ASSUME NEW A, NEW f \in Seq(LineType(A)), NEW n \in DOMAIN f, f[n].comment # None
  PROVE  TrailingCarrier(f, n).text \in Comments
  <1>1. f[n].comment \in Bodied
    BY LineParts
  <1>2. TrailingCarrier(f, n).text = <<Trim[f[n].comment]>>
    BY DEF TrailingCarrier, Carrier
  <1> QED
    BY <1>1, <1>2, TrimmedLine

LEMMA BlockText ==
  ASSUME NEW A, NEW f \in Seq(LineType(A)), NEW e \in BlockEnds(f)
  PROVE  LET start == BlockStart(f, e)
             text == BlockCarrier(f, e).text
         IN  /\ text = [n \in 1..(e - start + 1) |-> Trim[f[start + n - 1].comment]]
             /\ text \in Comments /\ Len(text) = e - start + 1
             /\ BlockCarrier(f, e).line = start /\ BlockCarrier(f, e).form = "block"
  <1> DEFINE start == BlockStart(f, e)
             t == [n \in 1..(e - start + 1) |-> Trim[f[start + n - 1].comment]]
  <1>1. e \in 1..Len(f) /\ start \in 1..e /\ \A n \in start..e : IsComment(f, n)
    BY BlockStarts
  <1>2. BlockCarrier(f, e).text = t /\ BlockCarrier(f, e).line = start
        /\ BlockCarrier(f, e).form = "block"
    BY DEF BlockCarrier, Carrier
  <1> HIDE DEF start
  <1>3. e - start + 1 \in Nat /\ e - start + 1 >= 1
    BY <1>1
  <1>4. \A n \in 1..(e - start + 1) : t[n] \in Trimmed
    <2> TAKE n \in 1..(e - start + 1)
    <2>1. start + n - 1 \in start..e
      BY <1>1
    <2>2. f[start + n - 1] \in LineType(A) /\ f[start + n - 1].kind = "comment"
      BY <1>1, <2>1 DEF IsComment
    <2> QED
      BY <2>2, LineParts, TrimmedLine
  <1>5. t \in Seq(Trimmed) /\ Len(t) = e - start + 1
    BY <1>3, <1>4
  <1>6. t \in Comments
    BY <1>3, <1>5 DEF Comments
  <1> QED
    BY <1>2, <1>5, <1>6 DEF start

LEMMA CarriersSay ==
  ASSUME NEW A, NEW f \in Seq(LineType(A))
  PROVE  \A c \in Carriers(f) : c.text \in Comments
  <1> TAKE c \in Carriers(f)
  <1>1. CASE \E n \in {k \in DOMAIN f : f[k].comment # None /\ f[k].kind # "comment"} :
               c = TrailingCarrier(f, n)
    BY <1>1, TrailingText
  <1>2. CASE \E e \in BlockEnds(f) : c = BlockCarrier(f, e)
    BY <1>2, BlockText
  <1> QED
    BY <1>1, <1>2 DEF Carriers

LEMMA TextOfSays ==
  ASSUME NEW carriers, \A c \in carriers : c.text \in Comments
  PROVE  \A a : TextOf(carriers, a) \in CommentType
  <1> TAKE a
  <1> DEFINE here == {c \in carriers : c.at = a}
             blocks == {c \in here : c.form = "block"}
             chosen == CHOOSE c \in (IF blocks = {} THEN here ELSE blocks) : TRUE
  <1>1. CASE here = {}
    BY <1>1 DEF TextOf, CommentType
  <1>2. CASE here # {}
    <2>1. chosen \in carriers
      BY <1>2
    <2>2. TextOf(carriers, a) = chosen.text
      BY <1>2 DEF TextOf
    <2> HIDE DEF chosen
    <2> QED
      BY <2>1, <2>2 DEF CommentType
  <1> QED
    BY <1>1, <1>2

LEMMA LoadedIs ==
  ASSUME NEW m \in MapType({None}), Dicts(m), MapOK(m), NEW f, Fits(m, f),
         NEW l, l = Loaded(m, f)
  PROVE  /\ l \in MapType(CommentType) /\ Unique(l) /\ l.header = TextAt(f, Header)
         /\ Said(l) = Retold(Carriers(f), Said(m)) /\ CarrierAnchors(l) = CarrierAnchors(m)
         /\ \A p \in Said(l) : p[2] = TextAt(f, p[1])
  <1> DEFINE carriers == Carriers(f)
  <1>1. \A c \in carriers : c.text \in Comments
    BY CarriersSay DEF Fits
  <1>2. \A a : TextOf(carriers, a) \in CommentType
    BY <1>1, TextOfSays
  <1>3. l = Commented(m, carriers)
    BY DEF Loaded
  <1>4. {None} \subseteq CommentType
    BY DEF CommentType
  <1>5. Unique(m)
    BY ValidIsUnique
  <1>6. /\ l \in MapType(CommentType) /\ l.header = TextOf(carriers, Header) /\ Unique(l)
        /\ Said(l) = Retold(carriers, Said(m))
    BY <1>2, <1>3, <1>4, <1>5, CommentedIs
  <1>7. Firsts(Said(l)) = Firsts(Said(m))
    BY <1>6, RetoldFirsts
  <1>8. CarrierAnchors(l) = CarrierAnchors(m)
    BY <1>7, AnchorsSaid DEF CarrierAnchors
  <1>9. \A p \in Said(l) : p[2] = TextOf(carriers, p[1])
    BY <1>6 DEF Retold
  <1> QED
    BY <1>6, <1>8, <1>9 DEF TextAt

(***************************************************************************)
(* What a write puts into the map l that was loaded: one comment, or none. *)
(***************************************************************************)
Recommented(l, n, at, comment) ==
    /\ n \in MapType(CommentType) /\ Unique(n)
    /\ n.header = IF at = Header THEN comment ELSE l.header
    /\ Said(n) = Reset(Said(l), at, comment)

Addressed(m, at, comment) ==
    \/ at = FileAnchor /\ comment = None
    \/ at \in CarrierAnchors(m) /\ comment \in CommentType

LEMMA FileApart == \A m : FileAnchor \notin CarrierAnchors(m) /\ FileAnchor # Header
  BY DEF FileAnchor, CarrierAnchors, LineAnchors, CarrierTypes, Header, Anchor

LEMMA FormatRecomments ==
  ASSUME NEW l \in MapType(CommentType), Unique(l)
  PROVE  Recommented(l, Canonicalise(l), FileAnchor, None)
  <1>1. /\ Canonicalise(l) \in MapType(CommentType) /\ Unique(Canonicalise(l))
        /\ Canonicalise(l).header = l.header /\ Said(Canonicalise(l)) = Said(l)
    BY CanonicaliseIs
  <1>2. \A p \in Said(l) : p = <<p[1], p[2]>> /\ p[1] # FileAnchor
    BY AnchorsSaid DEF FileAnchor, Anchor, CarrierTypes
  <1>3. Reset(Said(l), FileAnchor, None) = Said(l)
    BY <1>2, StaysWithout
  <1> QED
    BY <1>1, <1>3, FileApart DEF Recommented

LEMMA SetRecomments ==
  ASSUME NEW l \in MapType(CommentType), Unique(l), NEW at \in CarrierAnchors(l),
         NEW comment \in CommentType
  PROVE  Recommented(l, SetComment(l, at, comment), at, comment)
  BY SetCommentIs DEF Recommented

(* A write makes a file that reads as the map it was given: with the same  *)
(* comments as the file it replaces, but for one.                          *)
LEMMA Writes ==
  ASSUME NEW m \in MapType({None}), Dicts(m), MapOK(m), NEW f, Fits(m, f),
         NEW l, l = Loaded(m, f), NEW at, NEW comment, Addressed(m, at, comment),
         NEW n, Recommented(l, n, at, comment), MapOK(n), NEW g, g = Emit(n), NEW k, k = Bare(n)
  PROVE  /\ k \in MapType({None}) /\ Dicts(k) /\ MapOK(k) /\ Fits(k, g)
         /\ ~Unattachable(g) /\ ~HasErrors(g) /\ \A c \in Carriers(g) : ~c.warned
         /\ Emit(Loaded(k, g)) = g /\ CarrierAnchors(k) = CarrierAnchors(m)
         /\ TextAt(g, at) = comment
         /\ \A a \in CarrierAnchors(m) \ {at} : TextAt(g, a) = TextAt(f, a)
         /\ \A a : a \notin CarrierAnchors(m) => TextAt(g, a) = None
  <1>1. n \in MapType(CommentType) /\ Unique(n)
    BY DEF Recommented
  <1>2. /\ k \in MapType({None}) /\ Unique(k) /\ Dicts(k) /\ MapOK(k)
        /\ LineAnchors(k) = LineAnchors(n)
    BY <1>1, BareIs
  <1>3. Fits(k, g)
    BY <1>1, EmittedFits
  <1>4. /\ TextAt(g, Header) = n.header /\ \A p \in Said(n) : TextAt(g, p[1]) = p[2]
        /\ \A a : a \notin CarrierAnchors(n) => TextAt(g, a) = None
        /\ ~Unattachable(g) /\ ~HasErrors(g)
        /\ \A c \in Carriers(g) : ~c.warned
        /\ Loaded(Bare(n), g) = n
    BY <1>1, EmittedTexts
  <1>5. /\ l.header = TextAt(f, Header) /\ CarrierAnchors(l) = CarrierAnchors(m)
        /\ \A p \in Said(l) : p[2] = TextAt(f, p[1])
    BY LoadedIs
  <1>6. Firsts(Said(n)) = Firsts(Said(l))
    BY ResetParts DEF Recommented
  <1>7. LineAnchors(n) = LineAnchors(l) /\ CarrierAnchors(n) = CarrierAnchors(m)
        /\ CarrierAnchors(k) = CarrierAnchors(m)
    BY <1>2, <1>5, <1>6, AnchorsSaid DEF CarrierAnchors
  <1>8. \A p \in Said(n) : \/ p[1] = at /\ p[2] = comment
                           \/ p[1] # at /\ p[2] = TextAt(f, p[1])
    <2>1. Said(n) = Reset(Said(l), at, comment)
      BY DEF Recommented
    <2>2. \A p \in Said(n) : \/ p[1] = at /\ p[2] = comment
                             \/ p[1] # at /\ \E q \in Said(l) : q[1] = p[1] /\ q[2] = p[2]
      BY <2>1, ResetParts
    <2> QED
      BY <1>5, <2>2
  <1>9. \A a \in LineAnchors(m) : \E p \in Said(n) : p[1] = a
    <2>1. \A a \in LineAnchors(m) : a \in LineAnchors(n)
      <3>1. Header \notin LineAnchors(m) /\ Header \notin LineAnchors(n)
        BY DEF LineAnchors, Header, Anchor
      <3> QED
        BY <1>7, <3>1 DEF CarrierAnchors
    <2> QED
      BY <2>1, AnchorsSaid DEF Firsts
  <1>10. n.header = IF at = Header THEN comment ELSE TextAt(f, Header)
    BY <1>5 DEF Recommented
  <1>11. \A a \in CarrierAnchors(m) : TextAt(g, a) = IF a = at THEN comment ELSE TextAt(f, a)
    <2> TAKE a \in CarrierAnchors(m)
    <2>1. CASE a = Header
      BY <1>4, <1>10, <2>1
    <2>2. CASE a \in LineAnchors(m)
      BY <1>4, <1>8, <1>9, <2>2
    <2> QED
      BY <2>1, <2>2 DEF CarrierAnchors
  <1>12. TextAt(g, at) = comment
    BY <1>4, <1>7, <1>11, FileApart DEF Addressed
  <1> QED
    BY <1>2, <1>3, <1>4, <1>7, <1>11, <1>12

(***************************************************************************)
(* What people do by hand.                                                 *)
(***************************************************************************)
Shifted(n, i) == IF i < n THEN i ELSE i + 1

LEMMA Inserted ==
  ASSUME NEW S, NEW f \in Seq(S), NEW n \in 1..(Len(f) + 1), NEW l \in S, NEW g, g = InsertAt(f, n, l)
  PROVE  /\ g \in Seq(S) /\ DOMAIN g = 1..(Len(f) + 1) /\ g[n] = l
         /\ \A i \in DOMAIN f : Shifted(n, i) \in DOMAIN g /\ Shifted(n, i) # n /\ g[Shifted(n, i)] = f[i]
         /\ \A k \in DOMAIN g : k # n => \E i \in DOMAIN f : k = Shifted(n, i)
         /\ \A i, j \in DOMAIN f : i <= j => Shifted(n, i) <= Shifted(n, j)
  <1> DEFINE x == SubSeq(f, 1, n - 1)
             y == SubSeq(f, n, Len(f))
  <1>1. Len(f) \in Nat /\ DOMAIN f = 1..Len(f) /\ n \in Nat
    OBVIOUS
  <1>2. x \in Seq(S) /\ Len(x) = n - 1 /\ \A i \in 1..(n - 1) : x[i] = f[i]
    BY <1>1
  <1>3. y \in Seq(S) /\ Len(y) = Len(f) - n + 1 /\ \A i \in 1..(Len(f) - n + 1) : y[i] = f[i + n - 1]
    BY <1>1
  <1> DEFINE z == x \o <<l>>
  <1>4. g = z \o y
    BY DEF InsertAt
  <1> HIDE DEF x, y
  <1>5. z \in Seq(S) /\ Len(z) = n /\ z[n] = l /\ \A i \in 1..(n - 1) : z[i] = x[i]
    <2>1. <<l>> \in Seq(S) /\ Len(<<l>>) = 1 /\ <<l>>[1] = l
      OBVIOUS
    <2> DEFINE o == <<l>>
    <2> HIDE DEF o
    <2>2. o \in Seq(S) /\ Len(o) = 1 /\ o[1] = l /\ z = x \o o
      BY <2>1 DEF o
    <2> HIDE DEF z
    <2>3. /\ z \in Seq(S) /\ Len(z) = Len(x) + Len(o)
          /\ \A i \in 1..(Len(x) + Len(o)) : z[i] = IF i <= Len(x) THEN x[i] ELSE o[i - Len(x)]
      <3>1. x \in Seq(S) /\ o \in Seq(S)
        BY <1>2, <2>2
      <3> QED
        BY <2>2, <3>1, ConcatProperties
    <2>4. Len(x) + Len(o) = n
      BY <1>1, <1>2, <2>2
    <2>5. Len(x) = n - 1 /\ Len(o) = 1 /\ n >= 1
      BY <1>1, <1>2, <2>2
    <2>6. z[n] = o[n - (n - 1)] /\ n - (n - 1) = 1
      BY <1>1, <2>3, <2>5
    <2>7. \A i \in 1..(n - 1) : z[i] = x[i]
      BY <1>1, <2>3, <2>5
    <2> QED
      BY <2>2, <2>3, <2>4, <2>6, <2>7
  <1> HIDE DEF z
  <1>6. g \in Seq(S) /\ Len(g) = Len(f) + 1
        /\ \A i \in 1..(Len(f) + 1) : g[i] = IF i <= n THEN z[i] ELSE y[i - n]
    <2>1. z \in Seq(S) /\ y \in Seq(S)
      BY <1>3, <1>5
    <2>2. /\ g \in Seq(S) /\ Len(g) = Len(z) + Len(y)
          /\ \A i \in 1..(Len(z) + Len(y)) : g[i] = IF i <= Len(z) THEN z[i] ELSE y[i - Len(z)]
      BY <1>4, <2>1, ConcatProperties
    <2>3. Len(z) = n /\ Len(z) + Len(y) = Len(f) + 1
      BY <1>1, <1>3, <1>5
    <2> QED
      BY <2>2, <2>3
  <1>7. g[n] = l
    BY <1>1, <1>5, <1>6
  <1>8. \A i \in DOMAIN f : g[Shifted(n, i)] = f[i]
    <2> TAKE i \in DOMAIN f
    <2>1. CASE i < n
      BY <1>1, <1>2, <1>5, <1>6, <2>1 DEF Shifted
    <2>2. CASE i >= n
      <3>1. i + 1 \in 1..(Len(f) + 1) /\ ~(i + 1 <= n) /\ i + 1 - n \in 1..(Len(f) - n + 1)
        BY <1>1, <2>2
      <3>2. g[i + 1] = y[i + 1 - n]
        BY <1>6, <3>1
      <3>3. y[i + 1 - n] = f[i + 1 - n + n - 1]
        BY <1>3, <3>1
      <3>4. i + 1 - n + n - 1 = i
        BY <1>1
      <3> QED
        BY <1>1, <2>2, <3>2, <3>3, <3>4 DEF Shifted
    <2> QED
      BY <1>1, <2>1, <2>2
  <1>9. \A i \in DOMAIN f : Shifted(n, i) \in 1..(Len(f) + 1) /\ Shifted(n, i) # n
    BY <1>1 DEF Shifted
  <1>10. \A k \in 1..(Len(f) + 1) : k # n => \E i \in DOMAIN f : k = Shifted(n, i)
    <2> TAKE k \in 1..(Len(f) + 1)
    <2>1. CASE k < n
      BY <1>1, <2>1 DEF Shifted
    <2>2. CASE k > n
      <3>1. k - 1 \in DOMAIN f /\ k = Shifted(n, k - 1)
        BY <1>1, <2>2 DEF Shifted
      <3> QED
        BY <3>1
    <2> QED
      BY <1>1, <2>1, <2>2
  <1>11. \A i, j \in DOMAIN f : i <= j => Shifted(n, i) <= Shifted(n, j)
    BY <1>1 DEF Shifted
  <1> QED
    BY <1>6, <1>7, <1>8, <1>9, <1>10, <1>11

LEMMA InsertFits ==
  ASSUME NEW m, NEW f, Fits(m, f), NEW n \in 1..(Len(f) + 1), NEW l \in LineType(LineAnchors(m)),
         l.starts = <<>>, l.ends = <<>>, NEW g, g = InsertAt(f, n, l)
  PROVE  Fits(m, g)
  <1> DEFINE A == LineAnchors(m)
  <1>1. f \in Seq(LineType(A))
    BY DEF Fits
  <1>2. /\ g \in Seq(LineType(A)) /\ DOMAIN g = 1..(Len(f) + 1) /\ g[n] = l
        /\ \A i \in DOMAIN f : Shifted(n, i) \in DOMAIN g /\ Shifted(n, i) # n /\ g[Shifted(n, i)] = f[i]
        /\ \A k \in DOMAIN g : k # n => \E i \in DOMAIN f : k = Shifted(n, i)
        /\ \A i, j \in DOMAIN f : i <= j => Shifted(n, i) <= Shifted(n, j)
    <2> HIDE DEF A
    <2>1. l \in LineType(A)
      BY DEF A
    <2> QED
      BY <1>1, <2>1, Inserted
  <1>3. \E k \in DOMAIN g : g[k].kind = "text"
    BY <1>2 DEF Fits
  <1>4. \A a : a \notin Range(g[n].starts) /\ a \notin Range(g[n].ends)
    BY <1>2 DEF Range
  <1>5. ASSUME NEW a \in A
        PROVE  \E first, last \in DOMAIN g :
                 /\ first <= last
                 /\ {k \in DOMAIN g : a \in Range(g[k].starts)} = {first}
                 /\ {k \in DOMAIN g : a \in Range(g[k].ends)} = {last}
    <2>1. PICK first, last \in DOMAIN f :
            /\ first <= last
            /\ {k \in DOMAIN f : a \in Range(f[k].starts)} = {first}
            /\ {k \in DOMAIN f : a \in Range(f[k].ends)} = {last}
      BY <1>5 DEF Fits
    <2> DEFINE S == {k \in DOMAIN g : a \in Range(g[k].starts)}
               E == {k \in DOMAIN g : a \in Range(g[k].ends)}
    <2>2. \A k : k \in S <=> k = Shifted(n, first)
      BY <1>2, <1>4, <2>1
    <2>3. \A k : k \in E <=> k = Shifted(n, last)
      BY <1>2, <1>4, <2>1
    <2>4. S = {Shifted(n, first)} /\ E = {Shifted(n, last)}
      BY <2>2, <2>3
    <2> QED
      BY <1>2, <2>1, <2>4
  <1> QED
    BY <1>2, <1>3, <1>5 DEF Fits

LEMMA CommentFits ==
  ASSUME NEW m, NEW f, Fits(m, f), NEW n \in DOMAIN f, f[n].kind \in {"text", "marker"},
         NEW body \in Bodied, NEW g, g = [f EXCEPT ![n].comment = body]
  PROVE  Fits(m, g)
  <1> DEFINE A == LineAnchors(m)
             l == [f[n] EXCEPT !.comment = body]
  <1>1. f \in Seq(LineType(A)) /\ f[n] \in LineType(A)
    BY DEF Fits
  <1>2. l \in LineType(A) /\ l.starts = f[n].starts /\ l.ends = f[n].ends /\ l.kind = f[n].kind
    <2>1. f[n] # BlankLine /\ \A b : f[n] # CommentLine(b)
      BY DEF BlankLine, CommentLine, Line
    <2>2. CASE f[n] \in [kind : {"text"}, of : SUBSET A, starts : Seq(A), ends : Seq(A),
                         comment : {None} \cup Bodied]
      <3>1. l \in [kind : {"text"}, of : SUBSET A, starts : Seq(A), ends : Seq(A),
                   comment : {None} \cup Bodied]
        BY <2>2
      <3> QED
        BY <2>2, <3>1 DEF LineType
    <2>3. CASE f[n] \in [kind : {"marker"}, of : {{}}, starts : {<<>>}, ends : {<<>>},
                         comment : {None} \cup Bodied]
      <3>1. l \in [kind : {"marker"}, of : {{}}, starts : {<<>>}, ends : {<<>>},
                   comment : {None} \cup Bodied]
        BY <2>3
      <3> QED
        BY <2>3, <3>1 DEF LineType
    <2> QED
      BY <1>1, <2>1, <2>2, <2>3 DEF LineType
  <1>3. g = [f EXCEPT ![n] = l]
    OBVIOUS
  <1> HIDE DEF l
  <1>4. /\ g \in Seq(LineType(A)) /\ DOMAIN g = DOMAIN f
        /\ \A k \in DOMAIN f : g[k] = IF k = n THEN l ELSE f[k]
    BY <1>1, <1>2, <1>3
  <1>5. \A k \in DOMAIN f : g[k].starts = f[k].starts /\ g[k].ends = f[k].ends /\ g[k].kind = f[k].kind
    BY <1>2, <1>4
  <1>6. \A a : /\ {k \in DOMAIN g : a \in Range(g[k].starts)} = {k \in DOMAIN f : a \in Range(f[k].starts)}
               /\ {k \in DOMAIN g : a \in Range(g[k].ends)} = {k \in DOMAIN f : a \in Range(f[k].ends)}
    BY <1>4, <1>5
  <1> QED
    BY <1>4, <1>5, <1>6 DEF Fits

(***************************************************************************)
(* A step writes, refuses or is one by hand.                               *)
(***************************************************************************)
Wrote ==
    /\ Accepted /\ edits' \in 0..MaxEdits /\ Addressed(map, done'.at, done'.comment)
    /\ \E n : /\ Recommented(Loaded(map, file), n, done'.at, done'.comment)
              /\ MapOK(n) /\ file' = Emit(n) /\ map' = Bare(n)

Refused == UNCHANGED <<map, file, edits>> /\ done'.code # "ok"

Edited == UNCHANGED map /\ Fits(map, file') /\ edits' \in 0..MaxEdits /\ done'.op = "by hand"

LEMMA WriteWrites ==
  ASSUME TypeOK, Accepted, NEW op, NEW at, NEW comment, NEW n, Write(op, at, comment, n),
         op = "format" \/ edits < MaxEdits, Addressed(map, at, comment),
         Recommented(Loaded(map, file), n, at, comment)
  PROVE  Wrote \/ Refused
  <1>1. CASE MapOK(n)
    <2>1. done' = [op |-> op, at |-> at, comment |-> comment, code |-> "ok"]
          /\ file' = Emit(n) /\ map' = Bare(n)
      BY <1>1 DEF Write, Reply
    <2>2. edits' \in 0..MaxEdits
      BY <1>1, BoundAssumption DEF Write, TypeOK
    <2> QED
      BY <1>1, <2>1, <2>2 DEF Wrote
  <1>2. CASE ~MapOK(n)
    BY <1>2 DEF Write, Refuse, Reply, Refused
  <1> QED
    BY <1>1, <1>2

LEMMA LoadsRefuses ==
  ASSUME NEW op, NEW at, NEW comment, Loads(op, at, comment)
  PROVE  Refused
  BY DEF Loads, Refuse, Reply, Refused

LEMMA Loading ==
  ASSUME TypeOK
  PROVE  LET l == Loaded(map, file)
         IN  l \in MapType(CommentType) /\ Unique(l) /\ CarrierAnchors(l) = CarrierAnchors(map)
  BY LoadedIs DEF TypeOK

LEMMA ByHandEdits ==
  ASSUME TypeOK, NEW lines, ByHand(lines), Fits(map, lines)
  PROVE  Edited
  <1>1. edits \in 0..MaxEdits
    BY DEF TypeOK
  <1>2. edits < MaxEdits /\ edits' = edits + 1
    BY DEF ByHand
  <1>3. edits' \in 0..MaxEdits
    BY <1>1, <1>2, BoundAssumption
  <1> QED
    BY <1>3 DEF ByHand, Reply, Edited

LEMMA Steps ==
  ASSUME TypeOK, Next
  PROVE  Wrote \/ Refused \/ Edited
  <1> DEFINE l == Loaded(map, file)
             A == LineAnchors(map)
  <1>1. l \in MapType(CommentType) /\ Unique(l) /\ CarrierAnchors(l) = CarrierAnchors(map)
    BY Loading
  <1>2. None \in CommentType
    BY DEF CommentType
  <1>3. file \in Seq(LineType(A)) /\ (\E n \in DOMAIN file : file[n].kind = "text") /\ Fits(map, file)
    BY DEF TypeOK, Fits
  <1>4. CASE Format
    <2>1. CASE Loads("format", FileAnchor, None)
      BY <2>1, LoadsRefuses
    <2>2. CASE Accepted /\ Write("format", FileAnchor, None, Canonicalise(l))
      <3>1. Recommented(l, Canonicalise(l), FileAnchor, None)
        BY <1>1, FormatRecomments
      <3>2. Addressed(map, FileAnchor, None)
        BY DEF Addressed
      <3> QED
        BY <2>2, <3>1, <3>2, WriteWrites
    <2> QED
      BY <1>4, <2>1, <2>2 DEF Format
  <1>5. ASSUME NEW at \in CarrierAnchors(map), edits < MaxEdits, CommentUnset(at)
        PROVE  Wrote \/ Refused
    <2>1. CASE Loads("comment unset", at, None)
      BY <2>1, LoadsRefuses
    <2>2. CASE Refuse("comment unset", at, None, "ERR-NOT-FOUND")
      BY <2>2 DEF Refuse, Reply, Refused
    <2>3. CASE Accepted /\ Write("comment unset", at, None, SetComment(l, at, None))
      <3>1. Recommented(l, SetComment(l, at, None), at, None)
        BY <1>1, <1>2, <1>5, SetRecomments
      <3>2. Addressed(map, at, None)
        BY <1>2, <1>5 DEF Addressed
      <3> QED
        BY <1>5, <2>3, <3>1, <3>2, WriteWrites
    <2> QED
      BY <1>5, <2>1, <2>2, <2>3 DEF CommentUnset
  <1>6. ASSUME NEW at \in CarrierAnchors(map), edits < MaxEdits, NEW text \in Texts, CommentSet(at, text)
        PROVE  Wrote \/ Refused
    <2>1. CASE Loads("comment set", at, text)
      BY <2>1, LoadsRefuses
    <2>2. CASE Refuse("comment set", at, text, "ERR-INPUT-INVALID")
      BY <2>2 DEF Refuse, Reply, Refused
    <2>3. CASE /\ Accepted /\ text \notin Unwritable \cup Unclean
               /\ Write("comment set", at, text, SetComment(l, at, text))
      <3>1. text \in CommentType
        BY <2>3, TextAssumption DEF CommentType
      <3>2. Recommented(l, SetComment(l, at, text), at, text)
        BY <1>1, <1>6, <3>1, SetRecomments
      <3>3. Addressed(map, at, text)
        BY <1>6, <3>1 DEF Addressed
      <3> QED
        BY <1>6, <2>3, <3>2, <3>3, WriteWrites
    <2> QED
      BY <1>6, <2>1, <2>2, <2>3 DEF CommentSet
  <1>7. ASSUME NEW n \in 1..(Len(file) + 1), NEW line \in LineType(A), line.starts = <<>>, line.ends = <<>>,
               InsertLine(n, line)
        PROVE  Edited
    <2> DEFINE g == InsertAt(file, n, line)
    <2>1. Fits(map, g)
      <3> HIDE DEF g
      <3>1. g = InsertAt(file, n, line)
        BY DEF g
      <3> QED
        BY <1>3, <1>7, <3>1, InsertFits
    <2>2. ByHand(g)
      BY <1>7 DEF InsertLine
    <2> HIDE DEF g
    <2> QED
      BY <2>1, <2>2, ByHandEdits
  <1>8. \A body \in Bodies : body \in Bodied
    BY TrimAssumption DEF Bodied
  <1>9. /\ \A body \in Bodied : /\ CommentLine(body) \in LineType(A)
                                /\ CommentLine(body).starts = <<>> /\ CommentLine(body).ends = <<>>
        /\ BlankLine \in LineType(A) /\ BlankLine.starts = <<>> /\ BlankLine.ends = <<>>
        /\ Marker \in LineType(A) /\ Marker.starts = <<>> /\ Marker.ends = <<>>
    <2>1. Marker \in [kind : {"marker"}, of : {{}}, starts : {<<>>}, ends : {<<>>},
                      comment : {None} \cup Bodied]
      BY DEF Marker, Line
    <2>2. Marker.starts = <<>> /\ Marker.ends = <<>>
      BY DEF Marker, Line
    <2>3. BlankLine.starts = <<>> /\ BlankLine.ends = <<>>
      BY DEF BlankLine, Line
    <2>4. \A body : CommentLine(body).starts = <<>> /\ CommentLine(body).ends = <<>>
      BY DEF CommentLine, Line
    <2> QED
      BY <2>1, <2>2, <2>3, <2>4 DEF LineType
  <1>10. \A n \in 1..FirstContent(file) : n \in 1..(Len(file) + 1)
    <2>1. FirstContent(file) \in DOMAIN file
      BY <1>3, FirstContents
    <2>2. Len(file) \in Nat /\ DOMAIN file = 1..Len(file)
      BY <1>3
    <2> QED
      BY <2>1, <2>2
  <1>11. ASSUME NEW n \in DOMAIN file, NEW body \in Bodies, CommentOnLine(n, body)
         PROVE  Edited
    <2> DEFINE g == [file EXCEPT ![n].comment = body]
    <2>1. Fits(map, g)
      <3> HIDE DEF g
      <3>1. g = [file EXCEPT ![n].comment = body] /\ file[n].kind \in {"text", "marker"}
        BY <1>11 DEF g, CommentOnLine
      <3> QED
        BY <1>3, <1>8, <1>11, <3>1, CommentFits
    <2>2. ByHand(g)
      BY <1>11 DEF CommentOnLine
    <2> HIDE DEF g
    <2> QED
      BY <2>1, <2>2, ByHandEdits
  <1>12. CASE \E n \in 1..(Len(file) + 1) : \E body \in Bodies : InsertLine(n, CommentLine(body))
    BY <1>7, <1>8, <1>9, <1>12
  <1>13. CASE \E n \in 1..(Len(file) + 1) : InsertLine(n, BlankLine)
    BY <1>7, <1>9, <1>13
  <1>14. CASE \E n \in 1..FirstContent(file) : InsertLine(n, Marker)
    BY <1>7, <1>9, <1>10, <1>14
  <1> QED
    BY <1>4, <1>5, <1>6, <1>11, <1>12, <1>13, <1>14 DEF Next

(***************************************************************************)
(* Every line of comment of a file is a line of one carrier's comment.     *)
(***************************************************************************)
TrailsOn(f, c, n) ==
    /\ n \in DOMAIN f /\ f[n].comment # None /\ f[n].kind # "comment"
    /\ c = TrailingCarrier(f, n) /\ c.line = n /\ Len(c.text) = 1
    /\ c.text[1] = Trim[f[n].comment]

BlocksTo(f, c, e) ==
    /\ e \in BlockEnds(f) /\ c = BlockCarrier(f, e) /\ c.line \in 1..e
    /\ Len(c.text) = e - c.line + 1
    /\ \A n \in c.line..e : IsComment(f, n)
    /\ \A k \in 1..Len(c.text) : c.text[k] = Trim[f[c.line + k - 1].comment]

LEMMA CarrierKinds ==
  ASSUME NEW A, NEW f \in Seq(LineType(A)), NEW c \in Carriers(f)
  PROVE  (\E n : TrailsOn(f, c, n)) \/ (\E e : BlocksTo(f, c, e))
  <1>1. CASE \E n \in {k \in DOMAIN f : f[k].comment # None /\ f[k].kind # "comment"} :
               c = TrailingCarrier(f, n)
    <2>1. PICK n \in DOMAIN f : f[n].comment # None /\ f[n].kind # "comment" /\ c = TrailingCarrier(f, n)
      BY <1>1
    <2>2. c.line = n /\ c.text = <<Trim[f[n].comment]>>
      BY <2>1 DEF TrailingCarrier, Carrier
    <2>3. Len(c.text) = 1 /\ c.text[1] = Trim[f[n].comment]
      BY <2>2
    <2> QED
      BY <2>1, <2>2, <2>3 DEF TrailsOn
  <1>2. CASE \E e \in BlockEnds(f) : c = BlockCarrier(f, e)
    <2>1. PICK e \in BlockEnds(f) : c = BlockCarrier(f, e)
      BY <1>2
    <2>2. /\ e \in 1..Len(f) /\ BlockStart(f, e) \in 1..e
          /\ \A n \in BlockStart(f, e)..e : IsComment(f, n)
      BY <2>1, BlockStarts
    <2>3. /\ c.text = [n \in 1..(e - BlockStart(f, e) + 1) |-> Trim[f[BlockStart(f, e) + n - 1].comment]]
          /\ Len(c.text) = e - BlockStart(f, e) + 1 /\ c.line = BlockStart(f, e)
      BY <2>1, BlockText
    <2>4. \A k \in 1..Len(c.text) : c.text[k] = Trim[f[c.line + k - 1].comment]
      BY <2>3
    <2> QED
      BY <2>1, <2>2, <2>3, <2>4 DEF BlocksTo
  <1> QED
    BY <1>1, <1>2 DEF Carriers

LEMMA CarrierLines ==
  ASSUME NEW A, NEW f \in Seq(LineType(A)), NEW c \in Carriers(f)
  PROVE  /\ c.line \in Nat /\ Len(c.text) \in Nat /\ DOMAIN c.text = 1..Len(c.text) /\ c.text # None
         /\ \A k \in 1..Len(c.text) :
              /\ c.line + k - 1 \in DOMAIN f /\ f[c.line + k - 1].comment # None
              /\ Trim[f[c.line + k - 1].comment] = c.text[k]
  <1>1. DOMAIN f = 1..Len(f) /\ Len(f) \in Nat
    BY ListProperties
  <1>2. c.text \in Comments
    BY CarriersSay
  <1>3. Len(c.text) \in Nat /\ DOMAIN c.text = 1..Len(c.text) /\ c.text # None
    <2>1. c.text \in CommentType
      BY <1>2 DEF CommentType
    <2>2. None \notin Comments
      BY NoneAssumption DEF Comments, Trimmed
    <2> QED
      BY <1>2, <2>1, <2>2, CommentParts
  <1>4. CASE \E n : TrailsOn(f, c, n)
    <2>1. PICK n : TrailsOn(f, c, n)
      BY <1>4
    <2>2. \A k \in 1..Len(c.text) : k = 1 /\ c.line + k - 1 = n
      BY <1>1, <2>1 DEF TrailsOn
    <2> QED
      BY <1>1, <1>3, <2>1, <2>2 DEF TrailsOn
  <1>5. CASE \E e : BlocksTo(f, c, e)
    <2>1. PICK e : BlocksTo(f, c, e)
      BY <1>5
    <2>2. e \in 1..Len(f) /\ c.line \in 1..e
      BY <1>1, <2>1 DEF BlocksTo, BlockEnds
    <2>3. \A k \in 1..Len(c.text) : c.line + k - 1 \in c.line..e
      BY <1>1, <2>1, <2>2 DEF BlocksTo
    <2>4. \A n \in c.line..e : n \in DOMAIN f /\ f[n].comment # None
      <3> TAKE n \in c.line..e
      <3>1. n \in DOMAIN f /\ f[n].kind = "comment" /\ f[n] \in LineType(A)
        BY <2>1 DEF BlocksTo, IsComment
      <3>2. f[n].comment \in Bodied
        BY <3>1, LineParts
      <3> QED
        BY <3>1, <3>2, NoneAssumption
    <2>5. \A k \in 1..Len(c.text) :
            c.line + k - 1 \in DOMAIN f /\ f[c.line + k - 1].comment # None
      BY <2>3, <2>4
    <2>6. \A k \in 1..Len(c.text) : c.text[k] = Trim[f[c.line + k - 1].comment]
      BY <2>1 DEF BlocksTo
    <2>7. c.line \in Nat
      BY <2>2
    <2> QED
      BY <1>3, <2>5, <2>6, <2>7
  <1> QED
    BY <1>4, <1>5, CarrierKinds

LEMMA CarriersApart ==
  ASSUME NEW A, NEW f \in Seq(LineType(A)), NEW c \in Carriers(f), NEW d \in Carriers(f),
         NEW k \in 1..Len(c.text), NEW j \in 1..Len(d.text), c.line + k - 1 = d.line + j - 1
  PROVE  c = d /\ k = j
  <1> DEFINE n == c.line + k - 1
  <1>1. DOMAIN f = 1..Len(f) /\ Len(f) \in Nat
    BY ListProperties
  <1>2. c.line \in Nat /\ d.line \in Nat /\ Len(c.text) \in Nat /\ Len(d.text) \in Nat
    BY CarrierLines
  <1>3. \A i : TrailsOn(f, c, i) => i = n /\ f[n].kind # "comment" /\ c = TrailingCarrier(f, n)
    <2> TAKE i
    <2>1. TrailsOn(f, c, i) => k = 1 /\ c.line = i /\ f[i].kind # "comment" /\ c = TrailingCarrier(f, i)
      BY <1>2 DEF TrailsOn
    <2> QED
      BY <1>2, <2>1
  <1>4. \A i : TrailsOn(f, d, i) => i = n /\ f[n].kind # "comment" /\ d = TrailingCarrier(f, n)
    <2> TAKE i
    <2>1. TrailsOn(f, d, i) => j = 1 /\ d.line = i /\ f[i].kind # "comment" /\ d = TrailingCarrier(f, i)
      BY <1>2 DEF TrailsOn
    <2> QED
      BY <1>2, <2>1
  <1>5. \A e : BlocksTo(f, c, e) => n \in 1..e /\ e \in Nat /\ c = BlockCarrier(f, e) /\ IsComment(f, n)
                                   /\ (\A i \in n..e : IsComment(f, i)) /\ ~IsComment(f, e + 1)
    <2> TAKE e
    <2>1. SUFFICES ASSUME BlocksTo(f, c, e)
                   PROVE  n \in 1..e /\ e \in Nat /\ c = BlockCarrier(f, e) /\ IsComment(f, n)
                          /\ (\A i \in n..e : IsComment(f, i)) /\ ~IsComment(f, e + 1)
      OBVIOUS
    <2>2. /\ e \in 1..Len(f) /\ c = BlockCarrier(f, e) /\ ~IsComment(f, e + 1)
          /\ c.line \in 1..e /\ Len(c.text) = e - c.line + 1
          /\ \A i \in c.line..e : IsComment(f, i)
      BY <1>1, <2>1 DEF BlocksTo, BlockEnds
    <2>3. n = c.line + k - 1 /\ n \in c.line..e /\ e \in Nat
      BY <1>1, <1>2, <2>2
    <2>4. \A i \in n..e : i \in c.line..e
      BY <1>2, <2>3
    <2> HIDE DEF n
    <2> QED
      BY <1>2, <2>2, <2>3, <2>4
  <1>6. \A e : BlocksTo(f, d, e) => n \in 1..e /\ e \in Nat /\ d = BlockCarrier(f, e) /\ IsComment(f, n)
                                   /\ (\A i \in n..e : IsComment(f, i)) /\ ~IsComment(f, e + 1)
    <2> TAKE e
    <2>1. SUFFICES ASSUME BlocksTo(f, d, e)
                   PROVE  n \in 1..e /\ e \in Nat /\ d = BlockCarrier(f, e) /\ IsComment(f, n)
                          /\ (\A i \in n..e : IsComment(f, i)) /\ ~IsComment(f, e + 1)
      OBVIOUS
    <2>2. /\ e \in 1..Len(f) /\ d = BlockCarrier(f, e) /\ ~IsComment(f, e + 1)
          /\ d.line \in 1..e /\ Len(d.text) = e - d.line + 1
          /\ \A i \in d.line..e : IsComment(f, i)
      BY <1>1, <2>1 DEF BlocksTo, BlockEnds
    <2>3. n = d.line + j - 1 /\ n \in d.line..e /\ e \in Nat
      BY <1>1, <1>2, <2>2
    <2>4. \A i \in n..e : i \in d.line..e
      BY <1>2, <2>3
    <2> HIDE DEF n
    <2> QED
      BY <1>2, <2>2, <2>3, <2>4
  <1> HIDE DEF n
  <1>7. c = d
    <2>1. ASSUME NEW e, BlocksTo(f, c, e), NEW x, BlocksTo(f, d, x)
          PROVE  c = d
      <3>1. /\ e \in Nat /\ x \in Nat /\ n \in Nat /\ n <= e /\ n <= x
            /\ (\A i \in n..e : IsComment(f, i)) /\ ~IsComment(f, e + 1)
            /\ (\A i \in n..x : IsComment(f, i)) /\ ~IsComment(f, x + 1)
        BY <1>5, <1>6, <2>1
      <3>2. ~(e < x) /\ ~(x < e)
        BY <3>1
      <3>3. e = x
        BY <3>1, <3>2
      <3> QED
        BY <1>5, <1>6, <2>1, <3>3
    <2> QED
      BY <1>3, <1>4, <1>5, <1>6, <2>1, CarrierKinds DEF IsComment
  <1> QED
    BY <1>2, <1>7

LEMMA CarriersCover ==
  ASSUME NEW A, NEW f \in Seq(LineType(A)), NEW n \in DOMAIN f, f[n].comment # None
  PROVE  \E c \in Carriers(f) : \E k \in 1..Len(c.text) : n = c.line + k - 1
  <1>1. DOMAIN f = 1..Len(f) /\ Len(f) \in Nat /\ n \in Nat
    BY ListProperties
  <1>2. CASE f[n].kind # "comment"
    <2> DEFINE c == TrailingCarrier(f, n)
    <2>1. c \in Carriers(f)
      BY <1>2 DEF Carriers
    <2>2. c.line = n /\ Len(c.text) = 1
      BY DEF TrailingCarrier, Carrier
    <2> HIDE DEF c
    <2>3. 1 \in 1..Len(c.text) /\ n = c.line + 1 - 1
      BY <1>1, <2>2
    <2> QED
      BY <2>1, <2>3
  <1>3. CASE f[n].kind = "comment"
    <2> DEFINE P == {e \in n..Len(f) : ~IsComment(f, e + 1)}
               e == Min(P)
    <2>1. Len(f) \in P
      BY <1>1 DEF IsComment
    <2>2. P \in SUBSET (n..Len(f))
      OBVIOUS
    <2>3. IsFiniteSet(P) /\ P \in SUBSET Nat
      <3> HIDE DEF P
      <3> QED
        BY <1>1, <2>2, PlacesBetween
    <2>4. e \in P /\ \A i \in P : e <= i
      BY <2>1, <2>3, LeastPlace
    <2> HIDE DEF e
    <2>5. e \in n..Len(f) /\ ~IsComment(f, e + 1)
      BY <2>4
    <2>6. \A i \in n..e : IsComment(f, i)
      <3> SUFFICES ASSUME NEW i \in n..e, ~IsComment(f, i) PROVE FALSE
        OBVIOUS
      <3>1. i # n
        BY <1>3 DEF IsComment
      <3>2. i - 1 \in n..Len(f) /\ (i - 1) + 1 = i /\ ~(e <= i - 1)
        BY <1>1, <2>5, <3>1
      <3>3. i - 1 \in P
        BY <3>2
      <3> QED
        BY <2>4, <3>2, <3>3
    <2>7. e \in BlockEnds(f)
      BY <1>1, <2>5, <2>6 DEF BlockEnds
    <2> DEFINE c == BlockCarrier(f, e)
               start == BlockStart(f, e)
    <2>8. start \in 1..e /\ ~IsComment(f, start - 1)
      BY <2>7, BlockStarts
    <2>9. ~(start > n)
      <3> SUFFICES ASSUME start > n PROVE FALSE
        OBVIOUS
      <3> HIDE DEF start
      <3>1. start - 1 \in n..e
        BY <1>1, <2>5, <2>8
      <3> QED
        BY <2>6, <2>8, <3>1
    <2>10. c.line = start /\ Len(c.text) = e - start + 1
      BY <2>7, BlockText
    <2>11. c \in Carriers(f)
      BY <2>7 DEF Carriers
    <2> HIDE DEF c, start
    <2>12. n - start + 1 \in 1..Len(c.text) /\ n = c.line + (n - start + 1) - 1
      BY <1>1, <2>5, <2>8, <2>9, <2>10
    <2> QED
      BY <2>11, <2>12
  <1> QED
    BY <1>2, <1>3

LEMMA CarriersAt ==
  ASSUME NEW m, NEW f, Fits(m, f), ~Unattachable(f)
  PROVE  \A c \in Carriers(f) : c.at \in CarrierAnchors(m)
  <1> DEFINE A == LineAnchors(m)
  <1>1. f \in Seq(LineType(A))
    BY DEF Fits
  <1> SUFFICES ASSUME NEW c \in Carriers(f)
               PROVE  c.at \in CarrierAnchors(m)
    OBVIOUS
  <1>2. c.at # None
    BY DEF Unattachable
  <1>3. \A n \in DOMAIN f : f[n].starts \in Seq(A) /\ f[n].ends \in Seq(A)
    BY <1>1, LineParts
  <1>4. \A s \in Seq(A) : s # <<>> => Last(s) \in A
    BY DEF Last
  <1>5. \A n \in DOMAIN f : EndAt(f, n) \in {None} \cup A
    BY <1>3, <1>4 DEF EndAt
  <1>6. \A n : StartAt(f, n) \in {None} \cup A
    BY <1>3, <1>4 DEF StartAt
  <1>7. CASE \E n : TrailsOn(f, c, n)
    <2>1. PICK n : TrailsOn(f, c, n)
      BY <1>7
    <2>2. n \in DOMAIN f /\ c.at = EndAt(f, n)
      BY <2>1 DEF TrailsOn, TrailingCarrier, Carrier
    <2> QED
      BY <1>2, <1>5, <2>2 DEF CarrierAnchors
  <1>8. CASE \E e : BlocksTo(f, c, e)
    <2>1. PICK e : BlocksTo(f, c, e)
      BY <1>8
    <2>2. c = BlockCarrier(f, e)
      BY <2>1 DEF BlocksTo
    <2>3. c.at = Header \/ c.at = StartAt(f, LineAfter(f, e))
      BY <2>2 DEF BlockCarrier, Carrier
    <2> QED
      BY <1>2, <1>6, <2>3 DEF CarrierAnchors
  <1> QED
    BY <1>1, <1>7, <1>8, CarrierKinds

LEMMA AttachedTexts ==
  ASSUME NEW f, ~Doubled(f)
  PROVE  /\ \A c \in Carriers(f) : TextAt(f, c.at) = c.text
         /\ \A a : TextAt(f, a) # None => \E c \in Carriers(f) : c.at = a
  <1>1. \A c, d \in Carriers(f) : c.at = d.at => c = d
    BY DEF Doubled
  <1>2. \A c \in Carriers(f) : TextOf(Carriers(f), c.at) = c.text
    BY <1>1, TextOfIs
  <1>3. \A a : (\A c \in Carriers(f) : c.at # a) => TextOf(Carriers(f), a) = None
    BY TextOfNone
  <1> QED
    BY <1>2, <1>3 DEF TextAt

PlacesIn(c, body) == IF c = None THEN {} ELSE {n \in DOMAIN c : c[n] = body}

LEMMA LinesCounted ==
  ASSUME NEW c \in CommentType, NEW body
  PROVE  /\ IsFiniteSet(PlacesIn(c, body)) /\ PlacesIn(c, body) \in SUBSET Nat
         /\ LinesIn(c, body) = Cardinality(PlacesIn(c, body))
  <1>1. CASE c = None
    <2>1. PlacesIn(c, body) = {} /\ LinesIn(c, body) = 0
      BY <1>1 DEF PlacesIn, LinesIn
    <2>2. IsFiniteSet({}) /\ Cardinality({}) = 0 /\ {} \in SUBSET Nat
      BY FS_EmptySet
    <2> QED
      BY <2>1, <2>2
  <1>2. CASE c # None
    <2>1. c \in Comments /\ DOMAIN c = 1..Len(c) /\ Len(c) \in Nat
      BY <1>2, CommentParts
    <2> DEFINE L == {n \in DOMAIN c : c[n] = body}
    <2>2. L \in SUBSET (1..Len(c))
      BY <2>1
    <2> HIDE DEF L
    <2>3. IsFiniteSet(L) /\ L \in SUBSET Nat
      BY <2>1, <2>2, PlacesBetween
    <2>4. PlacesIn(c, body) = L /\ LinesIn(c, body) = Cardinality(L)
      BY <1>2 DEF PlacesIn, LinesIn, L
    <2> QED
      BY <2>3, <2>4
  <1> QED
    BY <1>1, <1>2

(* The places in the comments of a file where a line of comment is.        *)
Told(f, anchors, body) == {x \in anchors \X Nat : x[2] \in PlacesIn(TextAt(f, x[1]), body)}

LEMMA CopiesAre ==
  ASSUME NEW m, NEW f, Fits(m, f), ~Unattachable(f), ~Doubled(f), NEW body
  PROVE  LET P == Told(f, CarrierAnchors(m), body)
         IN  IsFiniteSet(P) /\ Copies(f, body) = Cardinality(P)
  <1> DEFINE A == LineAnchors(m)
             P == Told(f, CarrierAnchors(m), body)
             L == {n \in DOMAIN f : f[n].comment # None /\ Trim[f[n].comment] = body}
             of(a) == CHOOSE c \in Carriers(f) : c.at = a
             h == [x \in P |-> of(x[1]).line + x[2] - 1]
  <1>1. f \in Seq(LineType(A)) /\ Len(f) \in Nat /\ DOMAIN f = 1..Len(f)
    BY DEF Fits
  <1>2. IsFiniteSet(L)
    <2>1. L \in SUBSET DOMAIN f
      OBVIOUS
    <2> HIDE DEF L
    <2> QED
      BY <1>1, <2>1, PlacesFinite
  <1>3. \A c \in Carriers(f) : of(c.at) = c
    BY DEF Doubled
  <1>4. ASSUME NEW x \in P
        PROVE  /\ x[1] \in CarrierAnchors(m) /\ x[2] \in Nat /\ x = <<x[1], x[2]>>
               /\ of(x[1]) \in Carriers(f) /\ of(x[1]).at = x[1]
               /\ x[2] \in 1..Len(of(x[1]).text) /\ of(x[1]).text[x[2]] = body
    <2>1. x \in CarrierAnchors(m) \X Nat /\ x[2] \in PlacesIn(TextAt(f, x[1]), body)
      BY DEF Told
    <2>2. TextAt(f, x[1]) # None
      BY <2>1 DEF PlacesIn
    <2>3. PICK c \in Carriers(f) : c.at = x[1]
      BY <2>2, AttachedTexts
    <2>4. of(x[1]) = c /\ TextAt(f, x[1]) = c.text
      BY <1>3, <2>3, AttachedTexts
    <2>5. DOMAIN c.text = 1..Len(c.text)
      BY <1>1, CarrierLines
    <2>6. x[2] \in DOMAIN c.text /\ c.text[x[2]] = body
      BY <2>1, <2>2, <2>4 DEF PlacesIn
    <2> HIDE DEF of
    <2> QED
      BY <2>1, <2>3, <2>4, <2>5, <2>6
  <1> HIDE DEF of, P
  <1>5. ASSUME NEW x \in P
        PROVE  h[x] \in L
    <2> DEFINE c == of(x[1])
    <2>1. c \in Carriers(f) /\ x[2] \in 1..Len(c.text) /\ c.text[x[2]] = body
      BY <1>4
    <2>2. h[x] = c.line + x[2] - 1
      OBVIOUS
    <2> HIDE DEF c, h
    <2>3. c.line + x[2] - 1 \in DOMAIN f /\ f[c.line + x[2] - 1].comment # None
          /\ Trim[f[c.line + x[2] - 1].comment] = c.text[x[2]]
      BY <1>1, <2>1, CarrierLines
    <2> QED
      BY <2>1, <2>2, <2>3
  <1>6. ASSUME NEW x \in P, NEW y \in P, h[x] = h[y]
        PROVE  x = y
    <2> DEFINE c == of(x[1])
               d == of(y[1])
    <2>1. /\ c \in Carriers(f) /\ d \in Carriers(f) /\ c.at = x[1] /\ d.at = y[1]
          /\ x[2] \in 1..Len(c.text) /\ y[2] \in 1..Len(d.text)
          /\ x = <<x[1], x[2]>> /\ y = <<y[1], y[2]>>
      BY <1>4
    <2>2. c.line + x[2] - 1 = d.line + y[2] - 1
      BY <1>6
    <2> HIDE DEF c, d, h
    <2>3. c = d /\ x[2] = y[2]
      BY <1>1, <2>1, <2>2, CarriersApart
    <2> QED
      BY <2>1, <2>3
  <1>7. ASSUME NEW n \in L
        PROVE  \E x \in P : h[x] = n
    <2>1. PICK c \in Carriers(f) : \E k \in 1..Len(c.text) : n = c.line + k - 1
      BY <1>1, CarriersCover
    <2>2. PICK k \in 1..Len(c.text) : n = c.line + k - 1
      BY <2>1
    <2>3. c.text[k] = body /\ DOMAIN c.text = 1..Len(c.text) /\ c.text # None /\ Len(c.text) \in Nat
      BY <1>1, <2>2, CarrierLines
    <2>4. c.at \in CarrierAnchors(m) /\ TextAt(f, c.at) = c.text
      BY CarriersAt, AttachedTexts
    <2> DEFINE x == <<c.at, k>>
    <2>5. x[1] = c.at /\ x[2] = k /\ x \in CarrierAnchors(m) \X Nat
      BY <2>3, <2>4
    <2> HIDE DEF x
    <2>6. x \in P
      BY <2>3, <2>4, <2>5 DEF P, Told, PlacesIn
    <2>7. h[x] = c.line + k - 1
      BY <1>3, <2>5, <2>6
    <2> HIDE DEF h
    <2> QED
      BY <2>2, <2>6, <2>7
  <1>8. h \in [P -> L]
    BY <1>5
  <1> HIDE DEF h, L
  <1>9. h \in Bijection(P, L)
    BY <1>6, <1>7, <1>8, Fun_IsBij
  <1>10. ExistsBijection(L, P)
    BY <1>9, Fun_ExistsBijSymmetric DEF ExistsBijection
  <1>11. IsFiniteSet(P) /\ Cardinality(P) = Cardinality(L)
    BY <1>2, <1>10, FS_Bijection
  <1> QED
    BY <1>11 DEF Copies, L, P

LEMMA WroteIs ==
  ASSUME TypeOK, Wrote
  PROVE  /\ TypeOK' /\ CanonicalFixpoint'
         /\ ~Unattachable(file') /\ ~HasErrors(file') /\ CarrierAnchors(map') = CarrierAnchors(map)
         /\ TextAt(file', done'.at) = done'.comment
         /\ \A a \in CarrierAnchors(map) \ {done'.at} : TextAt(file', a) = TextAt(file, a)
         /\ \A a : a \notin CarrierAnchors(map) => TextAt(file', a) = None
  <1> DEFINE l == Loaded(map, file)
             at == done'.at
             comment == done'.comment
             k == map'
             g == file'
  <1>1. PICK n : Recommented(l, n, at, comment) /\ MapOK(n) /\ g = Emit(n) /\ k = Bare(n)
    BY DEF Wrote
  <1>2. map \in MapType({None}) /\ Dicts(map) /\ MapOK(map) /\ Fits(map, file)
        /\ Addressed(map, at, comment) /\ edits' \in 0..MaxEdits
    BY DEF TypeOK, Wrote
  <1> HIDE DEF k, g, at, comment
  <1>3. /\ k \in MapType({None}) /\ Dicts(k) /\ MapOK(k) /\ Fits(k, g)
        /\ ~Unattachable(g) /\ ~HasErrors(g) /\ \A c \in Carriers(g) : ~c.warned
        /\ Emit(Loaded(k, g)) = g /\ CarrierAnchors(k) = CarrierAnchors(map)
        /\ TextAt(g, at) = comment
        /\ \A a \in CarrierAnchors(map) \ {at} : TextAt(g, a) = TextAt(file, a)
        /\ \A a : a \notin CarrierAnchors(map) => TextAt(g, a) = None
    BY <1>1, <1>2, Writes
  <1>4. TypeOK'
    BY <1>2, <1>3 DEF TypeOK, k, g
  <1>5. CanonicalFixpoint'
    BY <1>3 DEF CanonicalFixpoint, Accepted, k, g
  <1> QED
    BY <1>3, <1>4, <1>5 DEF k, g, at, comment

LEMMA TypeInit == Init => TypeOK /\ CanonicalFixpoint
  <1> SUFFICES ASSUME Init
               PROVE  TypeOK /\ CanonicalFixpoint
    OBVIOUS
  <1>1. PICK s \in Starts : map = s.map /\ file = s.file
    BY DEF Init
  <1>2. map \in MapType({None}) /\ Dicts(map) /\ MapOK(map) /\ Fits(map, file)
    BY <1>1, StartAssumption
  <1>3. edits \in 0..MaxEdits
    <2>1. edits = 0
      BY DEF Init
    <2> QED
      BY <2>1, BoundAssumption
  <1>4. ~Written
    BY DEF Init, Written
  <1> QED
    BY <1>2, <1>3, <1>4 DEF TypeOK, CanonicalFixpoint

LEMMA TypeStep ==
  ASSUME TypeOK, CanonicalFixpoint, [Next]_vars
  PROVE  TypeOK' /\ CanonicalFixpoint'
  <1>1. CASE Wrote
    BY <1>1, WroteIs
  <1>2. CASE Refused
    BY <1>2 DEF Refused, TypeOK, CanonicalFixpoint, Written
  <1>3. CASE Edited
    BY <1>3 DEF Edited, TypeOK, CanonicalFixpoint, Written
  <1>4. CASE UNCHANGED vars
    BY <1>4 DEF vars, TypeOK, CanonicalFixpoint, Written, Accepted
  <1> QED
    BY <1>1, <1>2, <1>3, <1>4, Steps

(* The map stays a valid one and the file has a line for all of it,        *)
(* whatever people do to the comments and the tool writes.                 *)
THEOREM LayoutTypes == Spec => []TypeOK
  <1>1. Init => TypeOK /\ CanonicalFixpoint
    BY TypeInit
  <1>2. TypeOK /\ CanonicalFixpoint /\ [Next]_vars => (TypeOK /\ CanonicalFixpoint)'
    BY TypeStep
  <1> QED
    BY <1>1, <1>2, PTL DEF Spec

(* A file that emitter.emit has written loads without a finding, and the   *)
(* map it loads as is written as the same file.                            *)
THEOREM WrittenIsCanonical == Spec => []CanonicalFixpoint
  <1>1. Init => TypeOK /\ CanonicalFixpoint
    BY TypeInit
  <1>2. TypeOK /\ CanonicalFixpoint /\ [Next]_vars => (TypeOK /\ CanonicalFixpoint)'
    BY TypeStep
  <1> QED
    BY <1>1, <1>2, PTL DEF Spec

(* A write leaves every comment but the one it was given with what it      *)
(* belonged to, and puts that one where it was told to.                    *)
THEOREM CommentsStayInPlace == Spec => CommentsStay
  <1>1. ASSUME TypeOK, Next, Written'
        PROVE  LET before == Carriers(file)
                   after == Carriers(file')
               IN  /\ TextOf(after, done'.at) = done'.comment
                   /\ \A a \in CarrierAnchors(map) \ {done'.at} : TextOf(after, a) = TextOf(before, a)
    <2>1. Wrote
      BY <1>1, Steps DEF Refused, Edited, Written
    <2> QED
      BY <1>1, <2>1, WroteIs DEF TextAt
  <1>2. TypeOK /\ [Next]_vars =>
          [Written' => LET before == Carriers(file)
                           after == Carriers(file')
                       IN  /\ TextOf(after, done'.at) = done'.comment
                           /\ \A a \in CarrierAnchors(map) \ {done'.at} :
                                TextOf(after, a) = TextOf(before, a)]_vars
    BY <1>1
  <1> QED
    BY <1>2, LayoutTypes, PTL DEF Spec, CommentsStay

LEMMA ToldApart ==
  ASSUME NEW f, NEW anchors, NEW body, NEW P, P = Told(f, anchors, body), IsFiniteSet(P),
         NEW at, NEW text \in CommentType, text = TextAt(f, at), at \in anchors \/ text = None
  PROVE  LET rest == {x \in P : x[1] # at}
         IN  /\ IsFiniteSet(rest) /\ Cardinality(rest) \in Nat
             /\ Cardinality(P) = Cardinality(rest) + LinesIn(text, body)
  <1> DEFINE L == PlacesIn(text, body)
             part == {x \in P : x[1] = at}
             rest == {x \in P : x[1] # at}
             h == [k \in L |-> <<at, k>>]
  <1>1. IsFiniteSet(L) /\ L \in SUBSET Nat /\ LinesIn(text, body) = Cardinality(L)
    BY LinesCounted
  <1>2. L # {} => at \in anchors
    BY DEF PlacesIn
  <1>3. \A x : x \in part <=> x \in anchors \X Nat /\ x[1] = at /\ x[2] \in L
    BY DEF Told
  <1> HIDE DEF L, part
  <1>4. \A k \in L : h[k] \in part
    <2> SUFFICES ASSUME NEW k \in L
                 PROVE  <<at, k>> \in part
      OBVIOUS
    <2> DEFINE x == <<at, k>>
    <2>1. x[1] = at /\ x[2] = k /\ x \in anchors \X Nat
      BY <1>1, <1>2
    <2> HIDE DEF x
    <2>2. x \in part
      BY <1>3, <2>1
    <2> QED
      BY <2>2 DEF x
  <1>5. \A k, j \in L : h[k] = h[j] => k = j
    OBVIOUS
  <1>6. \A x \in part : \E k \in L : h[k] = x
    <2> SUFFICES ASSUME NEW x \in part
                 PROVE  \E k \in L : h[k] = x
      OBVIOUS
    <2>1. x \in anchors \X Nat /\ x[1] = at /\ x[2] \in L
      BY <1>3
    <2>2. x = <<at, x[2]>>
      BY <2>1
    <2> QED
      BY <2>1, <2>2
  <1>7. h \in [L -> part]
    BY <1>4
  <1> HIDE DEF h
  <1>8. h \in Bijection(L, part)
    BY <1>5, <1>6, <1>7, Fun_IsBij
  <1>9. ExistsBijection(L, part)
    BY <1>8 DEF ExistsBijection
  <1>10. IsFiniteSet(part) /\ Cardinality(part) = LinesIn(text, body)
    BY <1>1, <1>9, FS_Bijection
  <1>11. rest = P \ part /\ P \cap part = part
    BY DEF part
  <1> HIDE DEF rest
  <1>12. IsFiniteSet(rest) /\ Cardinality(rest) = Cardinality(P) - Cardinality(part)
    BY <1>11, FS_Difference
  <1>13. Cardinality(rest) \in Nat /\ Cardinality(P) \in Nat /\ Cardinality(part) \in Nat
    BY <1>10, <1>12, FS_CardinalityType
  <1>14. Cardinality(P) = Cardinality(rest) + LinesIn(text, body)
    BY <1>10, <1>12, <1>13
  <1> QED
    BY <1>12, <1>13, <1>14 DEF rest

LEMMA TextTyped ==
  ASSUME NEW m, NEW f, Fits(m, f), NEW a
  PROVE  TextAt(f, a) \in CommentType
  <1>1. \A c \in Carriers(f) : c.text \in Comments
    BY CarriersSay DEF Fits
  <1> QED
    BY <1>1, TextOfSays DEF TextAt

LEMMA NoneAstray ==
  ASSUME NEW m, NEW f, Fits(m, f), ~Unattachable(f), ~Doubled(f), NEW a, a \notin CarrierAnchors(m)
  PROVE  TextAt(f, a) = None
  BY CarriersAt, AttachedTexts

LEMMA NoneLost ==
  ASSUME TypeOK, Wrote, NEW body
  PROVE  Copies(file', body) + LinesIn(TextAt(file, done'.at), body)
           = Copies(file, body) + LinesIn(done'.comment, body)
  <1> DEFINE A == CarrierAnchors(map)
             at == done'.at
             g == file'
             k == map'
             before == TextAt(file, at)
             after == TextAt(g, at)
             P == Told(file, A, body)
             Q == Told(g, A, body)
             left == {x \in P : x[1] # at}
             right == {x \in Q : x[1] # at}
  <1>1. Fits(map, file) /\ ~Unattachable(file) /\ ~Doubled(file)
    BY DEF TypeOK, Wrote, Accepted, HasErrors
  <1>2. /\ Fits(k, g) /\ ~Unattachable(g) /\ ~Doubled(g) /\ CarrierAnchors(k) = A
        /\ after = done'.comment
        /\ \A a \in A \ {at} : TextAt(g, a) = TextAt(file, a)
    <2>1. TypeOK'
      BY WroteIs
    <2>2. /\ ~Unattachable(file') /\ ~HasErrors(file') /\ CarrierAnchors(map') = CarrierAnchors(map)
          /\ TextAt(file', done'.at) = done'.comment
          /\ \A a \in CarrierAnchors(map) \ {done'.at} : TextAt(file', a) = TextAt(file, a)
      BY WroteIs
    <2>3. Fits(map', file')
      BY <2>1 DEF TypeOK
    <2>4. ~Doubled(file')
      BY <2>2 DEF HasErrors
    <2> QED
      BY <2>2, <2>3, <2>4
  <1> HIDE DEF at, g, k
  <1>3. before \in CommentType /\ after \in CommentType
    BY <1>1, <1>2, TextTyped
  <1>4. (at \in A \/ before = None) /\ (at \in A \/ after = None)
    BY <1>1, <1>2, NoneAstray
  <1>5. IsFiniteSet(P) /\ Copies(file, body) = Cardinality(P)
    BY <1>1, CopiesAre
  <1>6. IsFiniteSet(Q) /\ Copies(g, body) = Cardinality(Q)
    <2>1. LET R == Told(g, CarrierAnchors(k), body)
          IN  IsFiniteSet(R) /\ Copies(g, body) = Cardinality(R)
      BY <1>2, CopiesAre
    <2> QED
      BY <1>2, <2>1
  <1>7. left = right
    BY <1>2 DEF Told
  <1>8. Cardinality(left) \in Nat /\ Cardinality(P) = Cardinality(left) + LinesIn(before, body)
    <2> HIDE DEF before, P, A
    <2>1. P = Told(file, A, body) /\ before = TextAt(file, at)
      BY DEF P, before
    <2> QED
      BY <1>3, <1>4, <1>5, <2>1, ToldApart
  <1>9. Cardinality(right) \in Nat /\ Cardinality(Q) = Cardinality(right) + LinesIn(after, body)
    <2> HIDE DEF after, Q, A
    <2>1. Q = Told(g, A, body) /\ after = TextAt(g, at)
      BY DEF Q, after
    <2> QED
      BY <1>3, <1>4, <1>6, <2>1, ToldApart
  <1>10. LinesIn(before, body) \in Nat /\ LinesIn(after, body) \in Nat
    BY <1>3, LinesCounted, FS_CardinalityType
  <1> HIDE DEF before, after, P, Q, left, right, A
  <1>11. Copies(g, body) + LinesIn(before, body) = Copies(file, body) + LinesIn(after, body)
    BY <1>5, <1>6, <1>7, <1>8, <1>9, <1>10
  <1>12. after = done'.comment
    BY <1>2
  <1> QED
    BY <1>11, <1>12 DEF before, at, g

(* A write loses no line of comment of the file and adds none, but for the *)
(* comment it was given: what emitter.emit writes has all that the         *)
(* loader's attach_comments found.                                         *)
THEOREM NoCommentIsLost == Spec => NoCommentLost
  <1>1. ASSUME TypeOK, Next, Written'
        PROVE  LET replaced == TextAt(file, done'.at)
               IN  \A body \in Range(Trim) :
                     Copies(file', body) + LinesIn(replaced, body)
                       = Copies(file, body) + LinesIn(done'.comment, body)
    <2>1. Wrote
      BY <1>1, Steps DEF Refused, Edited, Written
    <2> QED
      BY <1>1, <2>1, NoneLost
  <1>2. TypeOK /\ [Next]_vars =>
          [Written' => LET replaced == TextAt(file, done'.at)
                       IN  \A body \in Range(Trim) :
                             Copies(file', body) + LinesIn(replaced, body)
                               = Copies(file, body) + LinesIn(done'.comment, body)]_vars
    BY <1>1
  <1> QED
    BY <1>2, LayoutTypes, PTL DEF Spec, NoCommentLost
=============================================================================
