----------------------------- MODULE Answers_proofs -----------------------------
(***************************************************************************)
(* Exchange: `get` and `list` show what the file says about a binding,     *)
(* what an accepted document says is what the answer of `set` and the file *)
(* say then, and `remove` and `comment` reach what their line describes.   *)
(*                                                                         *)
(* Of a binding there is one thing to be said, BindingSaid: its strings    *)
(* and comments, each at the keys and positions that lead to it.  A value  *)
(* tells a binding if its pairs are those of the binding, null and the     *)
(* headings aside, and the leaves of a value that tells a binding are what *)
(* there is to be said of it.  The binding in the file tells it, the       *)
(* answer tells it, and an accepted document tells the binding that it is  *)
(* made into; so what they say is the same.                                *)
(*                                                                         *)
(* Of a map there is MapSaid, which is all that a file of it says; a       *)
(* command that changes the map is looked at as a change of that set.      *)
(***************************************************************************)
EXTENDS Content_proofs

(***************************************************************************)
(* Leaves, as many levels down as one likes.                               *)
(***************************************************************************)
Deeper(n, A) ==
    CASE n = 0 -> A
      [] n = 1 -> OneDown(A)
      [] n = 2 -> OneDown(OneDown(A))
      [] n = 3 -> OneDown(OneDown(OneDown(A)))
      [] n = 4 -> OneDown(OneDown(OneDown(OneDown(A))))
      [] n = 5 -> OneDown(OneDown(OneDown(OneDown(OneDown(A)))))

Deep(n, path, v) == Deeper(n, {<<path, v>>})

LEMMA DeeperIs ==
  /\ \A A : Deeper(0, A) = A
  /\ \A n \in 0..4 : \A A : Deeper(n + 1, A) = Deeper(n, OneDown(A))
  <1>1. \A A : /\ Deeper(0, A) = A /\ Deeper(1, A) = OneDown(A)
               /\ Deeper(2, A) = OneDown(OneDown(A)) /\ Deeper(3, A) = OneDown(OneDown(OneDown(A)))
               /\ Deeper(4, A) = OneDown(OneDown(OneDown(OneDown(A))))
               /\ Deeper(5, A) = OneDown(OneDown(OneDown(OneDown(OneDown(A)))))
    BY DEF Deeper
  <1>2. \A n \in 0..4 : n = 0 \/ n = 1 \/ n = 2 \/ n = 3 \/ n = 4
    OBVIOUS
  <1>3. 0 + 1 = 1 /\ 1 + 1 = 2 /\ 2 + 1 = 3 /\ 3 + 1 = 4 /\ 4 + 1 = 5
    OBVIOUS
  <1> SUFFICES ASSUME NEW n \in 0..4, NEW A
               PROVE  Deeper(n + 1, A) = Deeper(n, OneDown(A))
    BY <1>1
  <1>4. CASE n = 0
    BY <1>1, <1>3, <1>4
  <1>5. CASE n = 1
    BY <1>1, <1>3, <1>5
  <1>6. CASE n = 2
    BY <1>1, <1>3, <1>6
  <1>7. CASE n = 3
    BY <1>1, <1>3, <1>7
  <1>8. CASE n = 4
    BY <1>1, <1>3, <1>8
  <1> QED
    BY <1>2, <1>4, <1>5, <1>6, <1>7, <1>8

LEMMA DownFrom ==
  \A A, x : x \in OneDown(A) <=> \E a \in A : x \in Below(a[1], a[2])
  BY DEF OneDown

LEMMA DownFromOne ==
  \A path, v, x : x \in OneDown({<<path, v>>}) <=> x \in Below(path, v)
  <1> SUFFICES ASSUME NEW path, NEW v, NEW x
               PROVE  x \in OneDown({<<path, v>>}) <=> x \in Below(path, v)
    OBVIOUS
  <1> DEFINE a == <<path, v>>
  <1>1. a[1] = path /\ a[2] = v
    OBVIOUS
  <1> HIDE DEF a
  <1>2. x \in OneDown({a}) <=> x \in Below(a[1], a[2])
    BY DownFrom
  <1> QED
    BY <1>1, <1>2 DEF a

Separate(n) == \A A, x : x \in Deeper(n, A) <=> \E a \in A : x \in Deeper(n, {a})

LEMMA SeparateNext ==
  ASSUME NEW n \in 0..4, Separate(n)
  PROVE  Separate(n + 1)
  <1> SUFFICES ASSUME NEW A, NEW x
               PROVE  x \in Deeper(n + 1, A) <=> \E a \in A : x \in Deeper(n + 1, {a})
    BY DEF Separate
  <1>1. \A B : x \in Deeper(n + 1, B) <=> \E b \in OneDown(B) : x \in Deeper(n, {b})
    BY DeeperIs DEF Separate
  <1>2. \A a : \A b : b \in OneDown({a}) <=> b \in Below(a[1], a[2])
    BY DownFrom
  <1>3. \A b : b \in OneDown(A) <=> \E a \in A : b \in OneDown({a})
    BY <1>2, DownFrom
  <1> QED
    BY <1>1, <1>3

LEMMA EachSeparate == \A n \in 0..5 : Separate(n)
  <1>1. Separate(0)
    <2>1. SUFFICES ASSUME NEW A, NEW x
                   PROVE  x \in Deeper(0, A) <=> \E a \in A : x \in Deeper(0, {a})
      BY DEF Separate
    <2>2. Deeper(0, A) = A /\ \A a : Deeper(0, {a}) = {a}
      BY DeeperIs
    <2> QED
      BY <2>2
  <1>2. Separate(0 + 1)
    BY <1>1, SeparateNext
  <1>3. Separate(1 + 1)
    BY <1>2, SeparateNext
  <1>4. Separate(2 + 1)
    BY <1>3, SeparateNext
  <1>5. Separate(3 + 1)
    BY <1>4, SeparateNext
  <1>6. Separate(4 + 1)
    BY <1>5, SeparateNext
  <1>7. \A n \in 0..5 : n = 0 \/ n = 0 + 1 \/ n = 1 + 1 \/ n = 2 + 1 \/ n = 3 + 1 \/ n = 4 + 1
    OBVIOUS
  <1> QED
    BY <1>1, <1>2, <1>3, <1>4, <1>5, <1>6, <1>7

LEMMA BelowArePairs ==
  \A path, v : \A z \in Below(path, v) : z = <<z[1], z[2]>>
  <1> SUFFICES ASSUME NEW path, NEW v, NEW z \in Below(path, v)
               PROVE  z = <<z[1], z[2]>>
    OBVIOUS
  <1>1. z \in OneDown({<<path, v>>})
    BY DownFrom
  <1> QED
    BY <1>1, LeavesArePairs

LEMMA DeepStep ==
  ASSUME NEW n \in 0..4, NEW path, NEW v, NEW x
  PROVE  x \in Deep(n + 1, path, v) <=> \E y \in Below(path, v) : x \in Deep(n, y[1], y[2])
  <1>1. x \in Deep(n + 1, path, v) <=> \E b \in OneDown({<<path, v>>}) : x \in Deeper(n, {b})
    <2>1. Deep(n + 1, path, v) = Deeper(n, OneDown({<<path, v>>}))
      BY DeeperIs DEF Deep
    <2>2. Separate(n)
      BY EachSeparate
    <2> DEFINE B == OneDown({<<path, v>>})
    <2>3. x \in Deeper(n, B) <=> \E b \in B : x \in Deeper(n, {b})
      <3> HIDE DEF B
      <3> QED
        BY <2>2 DEF Separate
    <2> QED
      BY <2>1, <2>3
  <1>2. \A b : b \in OneDown({<<path, v>>}) <=> b \in Below(path, v)
    BY DownFromOne
  <1>3. \A b \in Below(path, v) : Deeper(n, {b}) = Deep(n, b[1], b[2])
    BY BelowArePairs DEF Deep
  <1> QED
    BY <1>1, <1>2, <1>3

LEMMA DeepLeaf ==
  ASSUME NEW n \in 0..5, NEW path, NEW v, ~Branching(v)
  PROVE  Deep(n, path, v) = {<<path, v>>}
  <1> DEFINE A == {<<path, v>>}
  <1>1. OneDown(A) = A
    <2>1. \A x : x \in OneDown(A) <=> x \in Below(path, v)
      BY DownFromOne
    <2> QED
      BY <2>1, BelowLeaf
  <1> HIDE DEF A
  <1>2. Deeper(0, A) = A
    BY DeeperIs
  <1>3. Deeper(0 + 1, A) = A
    BY <1>1, <1>2, DeeperIs
  <1>4. Deeper(1 + 1, A) = A
    BY <1>1, <1>3, DeeperIs
  <1>5. Deeper(2 + 1, A) = A
    BY <1>1, <1>4, DeeperIs
  <1>6. Deeper(3 + 1, A) = A
    BY <1>1, <1>5, DeeperIs
  <1>7. Deeper(4 + 1, A) = A
    BY <1>1, <1>6, DeeperIs
  <1>8. n = 0 \/ n = 0 + 1 \/ n = 1 + 1 \/ n = 2 + 1 \/ n = 3 + 1 \/ n = 4 + 1
    OBVIOUS
  <1> QED
    BY <1>2, <1>3, <1>4, <1>5, <1>6, <1>7, <1>8 DEF A, Deep

LEMMA LeavesDeep ==
  ASSUME NEW v
  PROVE  Leaves(v) = Deep(5, <<>>, v)
  BY LeavesAre DEF Deep, Deeper, AtRoot

LEMMA NotedStays ==
  \A n \in 0..5 : \A path, note : \A y \in Noted(path, note) : Deep(n, y[1], y[2]) = {y}
  <1> SUFFICES ASSUME NEW n \in 0..5, NEW path, NEW note, NEW y \in Noted(path, note)
               PROVE  Deep(n, y[1], y[2]) = {y}
    OBVIOUS
  <1>1. y = <<Append(path, AtKey("comment")), String(note)>>
    BY DEF Noted
  <1>2. ~Branching(String(note))
    BY DEF Branching, String, Scalar
  <1> QED
    BY <1>1, <1>2, DeepLeaf

(* What is in a list, and what is in a mapping, one level less down.       *)
LEMMA DeepItems ==
  ASSUME NEW n \in 0..4, NEW path, NEW v, v.type = "list", v.items # <<>>,
         NEW x
  PROVE  x \in Deep(n + 1, path, v) <=> \E m \in DOMAIN v.items :
           LET at == Append(path, AtItem(m))
           IN  x \in Deep(n, at, v.items[m].value) \/ x \in Noted(at, v.items[m].note)
  <1> DEFINE at(m) == Append(path, AtItem(m))
  <1>1. x \in Deep(n + 1, path, v) <=> \E y \in Below(path, v) : x \in Deep(n, y[1], y[2])
    BY DeepStep
  <1>2. \A y : y \in Below(path, v) <=> \E m \in DOMAIN v.items :
           y = <<at(m), v.items[m].value>> \/ y \in Noted(at(m), v.items[m].note)
    BY BelowItems
  <1>3. \A p, note : \A y \in Noted(p, note) : Deep(n, y[1], y[2]) = {y}
    <2>1. n \in 0..5
      OBVIOUS
    <2> QED
      BY <2>1, NotedStays
  <1> HIDE DEF at
  <1>4. \A m : Deep(n, <<at(m), v.items[m].value>>[1], <<at(m), v.items[m].value>>[2]) =
                 Deep(n, at(m), v.items[m].value)
    OBVIOUS
  <1>5. x \in Deep(n + 1, path, v) <=> \E m \in DOMAIN v.items :
          x \in Deep(n, at(m), v.items[m].value) \/ x \in Noted(at(m), v.items[m].note)
    <2>1. ASSUME NEW y \in Below(path, v), x \in Deep(n, y[1], y[2])
          PROVE  \E m \in DOMAIN v.items :
                   x \in Deep(n, at(m), v.items[m].value) \/ x \in Noted(at(m), v.items[m].note)
      <3>1. CASE \E m \in DOMAIN v.items : y = <<at(m), v.items[m].value>>
        BY <1>4, <2>1, <3>1
      <3>2. CASE \E m \in DOMAIN v.items : y \in Noted(at(m), v.items[m].note)
        <4>1. PICK m \in DOMAIN v.items : y \in Noted(at(m), v.items[m].note)
          BY <3>2
        <4>2. Deep(n, y[1], y[2]) = {y}
          BY <1>3, <4>1
        <4>3. x = y
          BY <2>1, <4>2
        <4> QED
          BY <4>1, <4>3
      <3> QED
        BY <1>2, <3>1, <3>2
    <2>2. ASSUME \E m \in DOMAIN v.items :
                   x \in Deep(n, at(m), v.items[m].value) \/ x \in Noted(at(m), v.items[m].note)
          PROVE  \E y \in Below(path, v) : x \in Deep(n, y[1], y[2])
      <3>1. PICK m \in DOMAIN v.items :
              x \in Deep(n, at(m), v.items[m].value) \/ x \in Noted(at(m), v.items[m].note)
        BY <2>2
      <3>2. CASE x \in Deep(n, at(m), v.items[m].value)
        <4>1. <<at(m), v.items[m].value>> \in Below(path, v)
          BY <1>2
        <4> QED
          BY <1>4, <3>2, <4>1
      <3>3. CASE x \in Noted(at(m), v.items[m].note)
        <4>1. x \in Below(path, v) /\ Deep(n, x[1], x[2]) = {x}
          BY <1>2, <1>3, <3>3
        <4> QED
          BY <4>1
      <3> QED
        BY <3>1, <3>2, <3>3
    <2> QED
      BY <1>1, <2>1, <2>2
  <1> QED
    BY <1>5 DEF at

LEMMA DeepPairs ==
  ASSUME NEW n \in 0..4, NEW path, NEW v, v.type = "mapping", v.pairs # <<>>,
         NEW x
  PROVE  x \in Deep(n + 1, path, v) <=> \E q \in Range(v.pairs) :
           LET at == Append(path, AtKey(q.key.text))
           IN  x \in Deep(n, at, q.value) \/ x \in Noted(at, q.note)
  <1> DEFINE at(q) == Append(path, AtKey(q.key.text))
  <1>1. x \in Deep(n + 1, path, v) <=> \E y \in Below(path, v) : x \in Deep(n, y[1], y[2])
    BY DeepStep
  <1>2. \A y : y \in Below(path, v) <=> \E q \in Range(v.pairs) :
           y = <<at(q), q.value>> \/ y \in Noted(at(q), q.note)
    BY BelowPairs
  <1>3. \A p, note : \A y \in Noted(p, note) : Deep(n, y[1], y[2]) = {y}
    <2>1. n \in 0..5
      OBVIOUS
    <2> QED
      BY <2>1, NotedStays
  <1> HIDE DEF at
  <1>4. \A q : Deep(n, <<at(q), q.value>>[1], <<at(q), q.value>>[2]) =
                 Deep(n, at(q), q.value)
    OBVIOUS
  <1>5. x \in Deep(n + 1, path, v) <=> \E q \in Range(v.pairs) :
          x \in Deep(n, at(q), q.value) \/ x \in Noted(at(q), q.note)
    <2>1. ASSUME NEW y \in Below(path, v), x \in Deep(n, y[1], y[2])
          PROVE  \E q \in Range(v.pairs) :
                   x \in Deep(n, at(q), q.value) \/ x \in Noted(at(q), q.note)
      <3>1. CASE \E q \in Range(v.pairs) : y = <<at(q), q.value>>
        BY <1>4, <2>1, <3>1
      <3>2. CASE \E q \in Range(v.pairs) : y \in Noted(at(q), q.note)
        <4>1. PICK q \in Range(v.pairs) : y \in Noted(at(q), q.note)
          BY <3>2
        <4>2. Deep(n, y[1], y[2]) = {y}
          BY <1>3, <4>1
        <4>3. x = y
          BY <2>1, <4>2
        <4> QED
          BY <4>1, <4>3
      <3> QED
        BY <1>2, <3>1, <3>2
    <2>2. ASSUME \E q \in Range(v.pairs) :
                   x \in Deep(n, at(q), q.value) \/ x \in Noted(at(q), q.note)
          PROVE  \E y \in Below(path, v) : x \in Deep(n, y[1], y[2])
      <3>1. PICK q \in Range(v.pairs) :
              x \in Deep(n, at(q), q.value) \/ x \in Noted(at(q), q.note)
        BY <2>2
      <3>2. CASE x \in Deep(n, at(q), q.value)
        <4>1. <<at(q), q.value>> \in Below(path, v)
          BY <1>2
        <4> QED
          BY <1>4, <3>2, <4>1
      <3>3. CASE x \in Noted(at(q), q.note)
        <4>1. x \in Below(path, v) /\ Deep(n, x[1], x[2]) = {x}
          BY <1>2, <1>3, <3>3
        <4> QED
          BY <4>1
      <3> QED
        BY <3>1, <3>2, <3>3
    <2> QED
      BY <1>1, <2>1, <2>2
  <1> QED
    BY <1>5 DEF at

(***************************************************************************)
(* Paths, and what is left of one after another.                           *)
(***************************************************************************)
IsPath(p) == p \in Seq(Range(p))
OfPath(p, r) == IsPath(p) /\ IsPath(r) /\ Len(p) <= Len(r) /\ \A n \in 1..Len(p) : r[n] = p[n]
Rest(p, r) == SubSeq(r, Len(p) + 1, Len(r))

LEMMA PathOf ==
  ASSUME NEW S, NEW s \in Seq(S)
  PROVE  IsPath(s)
  <1>1. s \in [1..Len(s) -> S] /\ Len(s) \in Nat /\ DOMAIN s = 1..Len(s)
    BY LenProperties
  <1>2. s \in [1..Len(s) -> Range(s)]
    BY <1>1 DEF Range
  <1> QED
    BY <1>1, <1>2 DEF IsPath

LEMMA PathAppend ==
  ASSUME NEW p, IsPath(p), NEW e
  PROVE  /\ IsPath(Append(p, e)) /\ Append(p, e) # p
         /\ Len(p) \in Nat /\ Len(Append(p, e)) = Len(p) + 1 /\ Append(p, e)[Len(p) + 1] = e
         /\ \A n \in 1..Len(p) : Append(p, e)[n] = p[n]
  <1> DEFINE S == Range(p) \cup {e}
  <1>1. p \in Seq(S) /\ Len(p) \in Nat
    <2>1. p \in [1..Len(p) -> Range(p)] /\ Len(p) \in Nat
      BY LenProperties DEF IsPath
    <2>2. p \in [1..Len(p) -> S]
      BY <2>1
    <2> QED
      BY <2>1, <2>2
  <1> HIDE DEF S
  <1>2. e \in S
    BY DEF S
  <1>3. /\ Append(p, e) \in Seq(S) /\ Len(Append(p, e)) = Len(p) + 1
        /\ Append(p, e)[Len(p) + 1] = e /\ \A n \in 1..Len(p) : Append(p, e)[n] = p[n]
    BY <1>1, <1>2, AppendProperties
  <1>4. IsPath(Append(p, e))
    BY <1>3, PathOf
  <1>5. Append(p, e) # p
    <2>1. Len(p) + 1 # Len(p)
      BY <1>1
    <2> QED
      BY <1>3, <2>1
  <1> QED
    BY <1>1, <1>3, <1>4, <1>5

LEMMA EmptyPath == IsPath(<<>>) /\ Len(<<>>) = 0
  BY DEF IsPath

LEMMA OfItself ==
  ASSUME NEW p, IsPath(p)
  PROVE  OfPath(p, p)
  BY LenProperties DEF OfPath, IsPath

LEMMA OfAppend ==
  ASSUME NEW p, NEW r, OfPath(p, r), NEW e
  PROVE  OfPath(p, Append(r, e))
  <1>1. Len(p) \in Nat /\ Len(r) \in Nat
    BY LenProperties DEF OfPath, IsPath
  <1> QED
    BY <1>1, PathAppend DEF OfPath

LEMMA OfTransitive ==
  ASSUME NEW p, NEW q, NEW r, OfPath(p, q), OfPath(q, r)
  PROVE  OfPath(p, r)
  <1>1. Len(p) \in Nat /\ Len(q) \in Nat /\ Len(r) \in Nat
    BY LenProperties DEF OfPath, IsPath
  <1> QED
    BY <1>1 DEF OfPath

LEMMA RestOf ==
  ASSUME NEW p, NEW r, OfPath(p, r)
  PROVE  /\ IsPath(Rest(p, r)) /\ Len(Rest(p, r)) = Len(r) - Len(p)
         /\ \A n \in 1..Len(r) - Len(p) : Rest(p, r)[n] = r[Len(p) + n]
  <1>1. Len(p) \in Nat /\ Len(r) \in Nat /\ Len(p) <= Len(r) /\ r \in Seq(Range(r))
    BY LenProperties DEF OfPath, IsPath
  <1>2. \A n \in (Len(p) + 1)..Len(r) : r[n] \in Range(r)
    BY <1>1, ElementOfSeq
  <1>3. /\ Rest(p, r) \in Seq(Range(r))
        /\ Len(Rest(p, r)) = IF Len(p) + 1 <= Len(r) THEN Len(r) - (Len(p) + 1) + 1 ELSE 0
        /\ \A n \in 1..Len(r) - (Len(p) + 1) + 1 : Rest(p, r)[n] = r[(Len(p) + 1) + n - 1]
    BY <1>1, <1>2, SubSeqProperties DEF Rest
  <1> QED
    BY <1>1, <1>3, PathOf

LEMMA SamePath ==
  ASSUME NEW p, NEW r, IsPath(p), IsPath(r), Len(p) = Len(r), \A n \in 1..Len(p) : p[n] = r[n]
  PROVE  p = r
  <1> DEFINE S == Range(p) \cup Range(r)
  <1>1. /\ Len(p) \in Nat /\ p \in [1..Len(p) -> Range(p)]
        /\ Len(r) \in Nat /\ r \in [1..Len(r) -> Range(r)]
    BY LenProperties DEF IsPath
  <1> QED
    BY <1>1

LEMMA RestAppend ==
  ASSUME NEW p, NEW r, OfPath(p, r), NEW e
  PROVE  Rest(p, Append(r, e)) = Append(Rest(p, r), e)
  <1> DEFINE a == Rest(p, Append(r, e))
             b == Append(Rest(p, r), e)
  <1>1. Len(p) \in Nat /\ Len(r) \in Nat /\ Len(p) <= Len(r)
    BY LenProperties DEF OfPath, IsPath
  <1>2. /\ IsPath(a) /\ Len(a) = Len(r) + 1 - Len(p)
        /\ \A n \in 1..Len(r) + 1 - Len(p) : a[n] = Append(r, e)[Len(p) + n]
    <2> DEFINE c == Append(r, e)
    <2>1. OfPath(p, c) /\ Len(c) = Len(r) + 1
      BY OfAppend, PathAppend DEF OfPath
    <2> HIDE DEF c
    <2>2. /\ IsPath(Rest(p, c)) /\ Len(Rest(p, c)) = Len(c) - Len(p)
          /\ \A n \in 1..Len(c) - Len(p) : Rest(p, c)[n] = c[Len(p) + n]
      BY <2>1, RestOf
    <2>3. /\ IsPath(Rest(p, c)) /\ Len(Rest(p, c)) = Len(r) + 1 - Len(p)
          /\ \A n \in 1..Len(r) + 1 - Len(p) : Rest(p, c)[n] = c[Len(p) + n]
      BY <2>1, <2>2
    <2> QED
      BY <2>3 DEF c
  <1>3. /\ IsPath(Rest(p, r)) /\ Len(Rest(p, r)) = Len(r) - Len(p)
        /\ \A n \in 1..Len(r) - Len(p) : Rest(p, r)[n] = r[Len(p) + n]
    BY RestOf
  <1>4. /\ IsPath(b) /\ Len(b) = Len(r) - Len(p) + 1 /\ b[Len(r) - Len(p) + 1] = e
        /\ \A n \in 1..Len(r) - Len(p) : b[n] = Rest(p, r)[n]
    BY <1>3, PathAppend
  <1>5. /\ Append(r, e)[Len(r) + 1] = e /\ \A n \in 1..Len(r) : Append(r, e)[n] = r[n]
    BY PathAppend DEF OfPath
  <1> HIDE DEF a, b
  <1>6. \A n \in 1..Len(a) : a[n] = b[n]
    <2> SUFFICES ASSUME NEW n \in 1..Len(a)
                 PROVE  a[n] = b[n]
      OBVIOUS
    <2>1. a[n] = Append(r, e)[Len(p) + n]
      BY <1>2
    <2>2. CASE n = Len(r) + 1 - Len(p)
      <3>1. Len(p) + n = Len(r) + 1 /\ n = Len(r) - Len(p) + 1
        BY <1>1, <2>2
      <3> QED
        BY <1>4, <1>5, <2>1, <3>1
    <2>3. CASE n # Len(r) + 1 - Len(p)
      <3>1. n \in 1..Len(r) - Len(p) /\ Len(p) + n \in 1..Len(r)
        <4>1. n \in 1..Len(r) + 1 - Len(p) /\ n # Len(r) + 1 - Len(p)
          BY <1>2, <2>3
        <4> QED
          BY <1>1, <4>1
      <3> QED
        BY <1>3, <1>4, <1>5, <2>1, <3>1
    <2> QED
      BY <2>2, <2>3
  <1>7. Len(a) = Len(b)
    BY <1>1, <1>2, <1>4
  <1> QED
    BY <1>2, <1>4, <1>6, <1>7, SamePath DEF a, b

LEMMA RestOfItself ==
  ASSUME NEW p, IsPath(p)
  PROVE  Rest(p, p) = <<>>
  <1>1. Len(p) \in Nat
    BY LenProperties DEF IsPath
  <1> QED
    BY <1>1, SubSeqEmpty DEF Rest

(***************************************************************************)
(* The leaves of a part of a value are those of the value that have the    *)
(* path of the part in front.                                              *)
(***************************************************************************)
Moved(base, A) == {<<Rest(base, z[1]), z[2]>> : z \in A}

LEMMA NotedMoved ==
  ASSUME NEW base, NEW p, OfPath(base, p), NEW note
  PROVE  /\ \A z \in Noted(p, note) : OfPath(base, z[1])
         /\ Moved(base, Noted(p, note)) = Noted(Rest(base, p), note)
  <1>1. CASE note = None
    BY <1>1 DEF Noted, Moved
  <1>2. CASE note # None
    <2> DEFINE k == AtKey("comment")
               c == <<Append(p, k), String(note)>>
    <2>1. Noted(p, note) = {c} /\ Noted(Rest(base, p), note) = {<<Append(Rest(base, p), k), String(note)>>}
      BY <1>2 DEF Noted
    <2>2. c[1] = Append(p, k) /\ c[2] = String(note)
      OBVIOUS
    <2> HIDE DEF c, k
    <2>3. OfPath(base, c[1]) /\ Rest(base, c[1]) = Append(Rest(base, p), k)
      BY <2>2, OfAppend, RestAppend
    <2>4. Moved(base, {c}) = {<<Rest(base, c[1]), c[2]>>}
      BY DEF Moved
    <2> QED
      BY <2>1, <2>2, <2>3, <2>4
  <1> QED
    BY <1>1, <1>2

LEMMA BelowMoved ==
  ASSUME NEW base, NEW p, OfPath(base, p), NEW v
  PROVE  /\ \A z \in Below(p, v) : OfPath(base, z[1])
         /\ Moved(base, Below(p, v)) = Below(Rest(base, p), v)
  <1> DEFINE r == Rest(base, p)
  <1>1. \A e : OfPath(base, Append(p, e)) /\ Rest(base, Append(p, e)) = Append(r, e)
    BY OfAppend, RestAppend
  <1>2. \A e, note : /\ \A z \in Noted(Append(p, e), note) : OfPath(base, z[1])
                     /\ Moved(base, Noted(Append(p, e), note)) = Noted(Append(r, e), note)
    <2> SUFFICES ASSUME NEW e, NEW note
                 PROVE  /\ \A z \in Noted(Append(p, e), note) : OfPath(base, z[1])
                        /\ Moved(base, Noted(Append(p, e), note)) = Noted(Append(r, e), note)
      OBVIOUS
    <2> DEFINE q == Append(p, e)
    <2>1. OfPath(base, q) /\ Rest(base, q) = Append(r, e)
      BY <1>1
    <2> HIDE DEF q
    <2>2. /\ \A z \in Noted(q, note) : OfPath(base, z[1])
          /\ Moved(base, Noted(q, note)) = Noted(Rest(base, q), note)
      BY <2>1, NotedMoved
    <2> QED
      BY <2>1, <2>2 DEF q
  <1> HIDE DEF r
  <1>3. \A x, A : x \in Moved(base, A) <=> \E z \in A : x = <<Rest(base, z[1]), z[2]>>
    BY DEF Moved
  (* One place below, which has a value and perhaps a note.                *)
  <1>4. ASSUME NEW I, NEW at, NEW value, NEW note,
               \A z : z \in Below(p, v) <=> \E n \in I :
                 z = <<Append(p, at[n]), value[n]>> \/ z \in Noted(Append(p, at[n]), note[n]),
               \A z : z \in Below(r, v) <=> \E n \in I :
                 z = <<Append(r, at[n]), value[n]>> \/ z \in Noted(Append(r, at[n]), note[n])
        PROVE  /\ \A z \in Below(p, v) : OfPath(base, z[1])
               /\ Moved(base, Below(p, v)) = Below(r, v)
    <2>1. ASSUME NEW n \in I
          PROVE  LET z == <<Append(p, at[n]), value[n]>>
                 IN  OfPath(base, z[1]) /\ <<Rest(base, z[1]), z[2]>> = <<Append(r, at[n]), value[n]>>
      BY <1>1
    <2>2. ASSUME NEW z \in Below(p, v)
          PROVE  OfPath(base, z[1]) /\ <<Rest(base, z[1]), z[2]>> \in Below(r, v)
      <3>1. PICK n \in I : z = <<Append(p, at[n]), value[n]>> \/ z \in Noted(Append(p, at[n]), note[n])
        BY <1>4
      <3>2. CASE z = <<Append(p, at[n]), value[n]>>
        BY <1>4, <2>1, <3>2
      <3>3. CASE z \in Noted(Append(p, at[n]), note[n])
        <4>1. OfPath(base, z[1]) /\ <<Rest(base, z[1]), z[2]>> \in Noted(Append(r, at[n]), note[n])
          BY <1>2, <1>3, <3>3
        <4> QED
          BY <1>4, <4>1
      <3> QED
        BY <3>1, <3>2, <3>3
    <2>3. ASSUME NEW x \in Below(r, v)
          PROVE  \E z \in Below(p, v) : x = <<Rest(base, z[1]), z[2]>>
      <3>1. PICK n \in I : x = <<Append(r, at[n]), value[n]>> \/ x \in Noted(Append(r, at[n]), note[n])
        BY <1>4
      <3>2. CASE x = <<Append(r, at[n]), value[n]>>
        <4>1. <<Append(p, at[n]), value[n]>> \in Below(p, v)
          BY <1>4
        <4> QED
          BY <2>1, <3>2, <4>1
      <3>3. CASE x \in Noted(Append(r, at[n]), note[n])
        <4>1. PICK z \in Noted(Append(p, at[n]), note[n]) : x = <<Rest(base, z[1]), z[2]>>
          BY <1>2, <1>3, <3>3
        <4> QED
          BY <1>4, <4>1
      <3> QED
        BY <3>1, <3>2, <3>3
    <2> DEFINE A == Below(p, v)
               B == Below(r, v)
               C == Moved(base, A)
    <2>4. \A x : x \in C <=> \E z \in A : x = <<Rest(base, z[1]), z[2]>>
      BY <1>3
    <2>5. /\ \A z \in A : <<Rest(base, z[1]), z[2]>> \in B
          /\ \A x \in B : \E z \in A : x = <<Rest(base, z[1]), z[2]>>
      BY <2>2, <2>3
    <2> HIDE DEF A, B, C
    <2>6. \A x : x \in C <=> x \in B
      BY <2>4, <2>5
    <2>7. C = B
      BY <2>6
    <2> QED
      BY <2>2, <2>7 DEF A, B, C
  <1>5. CASE v.type = "list" /\ v.items # <<>>
    <2> DEFINE at == [n \in DOMAIN v.items |-> AtItem(n)]
               value == [n \in DOMAIN v.items |-> v.items[n].value]
               note == [n \in DOMAIN v.items |-> v.items[n].note]
    <2>1. \A z : z \in Below(p, v) <=> \E n \in DOMAIN v.items :
            z = <<Append(p, at[n]), value[n]>> \/ z \in Noted(Append(p, at[n]), note[n])
      BY <1>5, BelowItems
    <2>2. \A z : z \in Below(r, v) <=> \E n \in DOMAIN v.items :
            z = <<Append(r, at[n]), value[n]>> \/ z \in Noted(Append(r, at[n]), note[n])
      BY <1>5, BelowItems
    <2> HIDE DEF at, value, note
    <2> QED
      BY <1>4, <2>1, <2>2 DEF r
  <1>6. CASE v.type = "mapping" /\ v.pairs # <<>>
    <2> DEFINE at == [q \in Range(v.pairs) |-> AtKey(q.key.text)]
               value == [q \in Range(v.pairs) |-> q.value]
               note == [q \in Range(v.pairs) |-> q.note]
    <2>1. \A z : z \in Below(p, v) <=> \E q \in Range(v.pairs) :
            z = <<Append(p, at[q]), value[q]>> \/ z \in Noted(Append(p, at[q]), note[q])
      BY <1>6, BelowPairs
    <2>2. \A z : z \in Below(r, v) <=> \E q \in Range(v.pairs) :
            z = <<Append(r, at[q]), value[q]>> \/ z \in Noted(Append(r, at[q]), note[q])
      BY <1>6, BelowPairs
    <2> HIDE DEF at, value, note
    <2> QED
      BY <1>4, <2>1, <2>2 DEF r
  <1>7. CASE ~Branching(v)
    <2> DEFINE z == <<p, v>>
    <2>1. Below(p, v) = {z} /\ Below(r, v) = {<<r, v>>} /\ z[1] = p /\ z[2] = v
      BY <1>7, BelowLeaf
    <2> HIDE DEF z
    <2>2. Moved(base, {z}) = {<<Rest(base, z[1]), z[2]>>}
      BY DEF Moved
    <2> QED
      BY <2>1, <2>2 DEF r
  <1> QED
    BY <1>5, <1>6, <1>7 DEF Branching

Moves(n) ==
    \A base, p, v : OfPath(base, p) =>
      /\ \A z \in Deep(n, p, v) : OfPath(base, z[1])
      /\ Moved(base, Deep(n, p, v)) = Deep(n, Rest(base, p), v)

LEMMA MovesNext ==
  ASSUME NEW n \in 0..4, Moves(n)
  PROVE  Moves(n + 1)
  <1> SUFFICES ASSUME NEW base, NEW p, NEW v, OfPath(base, p)
               PROVE  /\ \A z \in Deep(n + 1, p, v) : OfPath(base, z[1])
                      /\ Moved(base, Deep(n + 1, p, v)) = Deep(n + 1, Rest(base, p), v)
    BY DEF Moves
  <1> DEFINE r == Rest(base, p)
             To(z) == <<Rest(base, z[1]), z[2]>>
  <1>1. /\ \A z : z \in Deep(n + 1, p, v) <=> \E y \in Below(p, v) : z \in Deep(n, y[1], y[2])
        /\ \A z : z \in Deep(n + 1, r, v) <=> \E y \in Below(r, v) : z \in Deep(n, y[1], y[2])
    BY DeepStep
  <1>2. /\ \A z \in Below(p, v) : OfPath(base, z[1])
        /\ Moved(base, Below(p, v)) = Below(r, v)
    BY BelowMoved
  <1>3. \A x, A : x \in Moved(base, A) <=> \E z \in A : x = To(z)
    BY DEF Moved
  <1>4. \A y \in Below(p, v) :
          /\ \A z \in Deep(n, y[1], y[2]) : OfPath(base, z[1])
          /\ Moved(base, Deep(n, y[1], y[2])) = Deep(n, Rest(base, y[1]), y[2])
    BY <1>2 DEF Moves
  <1>5. \A y : To(y)[1] = Rest(base, y[1]) /\ To(y)[2] = y[2]
    OBVIOUS
  <1> HIDE DEF r, To
  <1>6. ASSUME NEW z \in Deep(n + 1, p, v)
        PROVE  OfPath(base, z[1]) /\ To(z) \in Deep(n + 1, r, v)
    <2>1. PICK y \in Below(p, v) : z \in Deep(n, y[1], y[2])
      BY <1>1
    <2>2. OfPath(base, z[1]) /\ To(z) \in Deep(n, To(y)[1], To(y)[2])
      BY <1>3, <1>4, <1>5, <2>1
    <2>3. To(y) \in Below(r, v)
      BY <1>2, <1>3
    <2> QED
      BY <1>1, <2>2, <2>3
  <1>7. ASSUME NEW x \in Deep(n + 1, r, v)
        PROVE  \E z \in Deep(n + 1, p, v) : x = To(z)
    <2>1. PICK w \in Below(r, v) : x \in Deep(n, w[1], w[2])
      BY <1>1
    <2>2. PICK y \in Below(p, v) : w = To(y)
      BY <1>2, <1>3
    <2>3. PICK z \in Deep(n, y[1], y[2]) : x = To(z)
      BY <1>3, <1>4, <1>5, <2>1, <2>2
    <2> QED
      BY <1>1, <2>3
  <1>8. Moved(base, Deep(n + 1, p, v)) = Deep(n + 1, r, v)
    <2> DEFINE A == Deep(n + 1, p, v)
               B == Deep(n + 1, r, v)
               C == Moved(base, A)
    <2>1. \A x : x \in C <=> \E z \in A : x = To(z)
      BY <1>3
    <2>2. /\ \A z \in A : To(z) \in B
          /\ \A x \in B : \E z \in A : x = To(z)
      BY <1>6, <1>7
    <2> HIDE DEF A, B, C
    <2>3. \A x : x \in C <=> x \in B
      BY <2>1, <2>2
    <2>4. C = B
      BY <2>3
    <2> QED
      BY <2>4 DEF A, B, C
  <1> QED
    BY <1>6, <1>8 DEF r

LEMMA EachMoves == \A n \in 0..5 : Moves(n)
  <1>1. Moves(0)
    <2> SUFFICES ASSUME NEW base, NEW p, NEW v, OfPath(base, p)
                 PROVE  /\ \A z \in Deep(0, p, v) : OfPath(base, z[1])
                        /\ Moved(base, Deep(0, p, v)) = Deep(0, Rest(base, p), v)
      BY DEF Moves
    <2> DEFINE z == <<p, v>>
    <2>1. Deep(0, p, v) = {z} /\ Deep(0, Rest(base, p), v) = {<<Rest(base, p), v>>}
            /\ z[1] = p /\ z[2] = v
      BY DeeperIs DEF Deep
    <2> HIDE DEF z
    <2>2. Moved(base, {z}) = {<<Rest(base, z[1]), z[2]>>}
      BY DEF Moved
    <2> QED
      BY <2>1, <2>2
  <1>2. \A n \in 0..4 : Moves(n) => Moves(n + 1)
    BY MovesNext
  <1>3. /\ 0 \in 0..4 /\ 1 \in 0..4 /\ 2 \in 0..4 /\ 3 \in 0..4 /\ 4 \in 0..4
        /\ 0 + 1 = 1 /\ 1 + 1 = 2 /\ 2 + 1 = 3 /\ 3 + 1 = 4 /\ 4 + 1 = 5
    OBVIOUS
  <1>4. Moves(1) /\ Moves(2)
    BY <1>1, <1>2, <1>3
  <1>5. Moves(3) /\ Moves(4)
    BY <1>2, <1>3, <1>4
  <1>6. Moves(5)
    BY <1>2, <1>3, <1>5
  <1>7. \A n \in 0..5 : n = 0 \/ n = 1 \/ n = 2 \/ n = 3 \/ n = 4 \/ n = 5
    OBVIOUS
  <1> QED
    BY <1>1, <1>4, <1>5, <1>6, <1>7

(***************************************************************************)
(* What there is to say about an object, beginning with this path: its     *)
(* strings and its comment, each at its key.                               *)
(***************************************************************************)
K(p, k) == Append(p, AtKey(k))
NoteRow(c) == IF c = None THEN {} ELSE {<<"comment", String(c)>>}
EntryRows(x) == {<<k, String(x.strings[k])>> : k \in DOMAIN x.strings} \cup NoteRow(x.comment)
Placed(p, rows) == {<<K(p, r[1]), r[2]>> : r \in rows}

EntrySaid(p, x) == Placed(p, EntryRows(x))
ListSaid(p, s) ==
    IF s = <<>> THEN {<<p, List(<<>>)>>}
    ELSE UNION {EntrySaid(Append(p, AtItem(n)), s[n]) : n \in DOMAIN s}
FieldsSaid(p, d) == UNION {EntrySaid(K(p, d[n].key), d[n].value) : n \in DOMAIN d}

(* A value with a note says just that, the values of D aside.              *)
Rows(v, note) == {<<q.key.text, q.value>> : q \in Range(v.pairs)} \cup NoteRow(note)

TellsEntry(D, v, note, x) ==
    /\ v.type = "mapping" /\ v.pairs # <<>>
    /\ \A q \in Range(v.pairs) : ~Branching(q.value) /\ q.note = None
    /\ {r \in Rows(v, note) : r[2] \notin D} = EntryRows(x)

TellsList(D, w, s) ==
    /\ w.type = "list" /\ w = List(w.items) /\ (w.items = <<>> <=> s = <<>>)
    /\ DOMAIN w.items = DOMAIN s
    /\ \A n \in DOMAIN s : TellsEntry(D, w.items[n].value, w.items[n].note, s[n])

TellsFields(D, w, d) ==
    /\ w.type = "mapping" /\ w.pairs # <<>> /\ DOMAIN w.pairs = DOMAIN d
    /\ \A n \in DOMAIN d : /\ w.pairs[n].key.text = d[n].key
                           /\ TellsEntry(D, w.pairs[n].value, w.pairs[n].note, d[n].value)

LEMMA NotedPlaced ==
  \A p, note : Noted(p, note) = Placed(p, NoteRow(note))
  <1> SUFFICES ASSUME NEW p, NEW note
               PROVE  Noted(p, note) = Placed(p, NoteRow(note))
    OBVIOUS
  <1>1. CASE note = None
    BY <1>1 DEF Noted, Placed, NoteRow
  <1>2. CASE note # None
    <2> DEFINE r == <<"comment", String(note)>>
    <2>1. r[1] = "comment" /\ r[2] = String(note) /\ NoteRow(note) = {r}
      BY <1>2 DEF NoteRow
    <2>2. Noted(p, note) = {<<K(p, "comment"), String(note)>>}
      BY <1>2 DEF Noted, K
    <2> HIDE DEF r
    <2> QED
      BY <2>1, <2>2 DEF Placed
  <1> QED
    BY <1>1, <1>2

LEMMA LevelBefore ==
  \A n \in 1..5 : n - 1 \in 0..4 /\ (n - 1) + 1 = n
  OBVIOUS

LEMMA EntryDeep ==
  ASSUME NEW D, NEW n \in 1..5, NEW v, NEW note, NEW e, TellsEntry(D, v, note, e), NEW p, NEW x
  PROVE  (x \in Deep(n, p, v) \/ x \in Noted(p, note)) /\ x[2] \notin D <=> x \in EntrySaid(p, e)
  <1>1. x \in Deep(n, p, v) <=> \E q \in Range(v.pairs) :
          x \in Deep(n - 1, K(p, q.key.text), q.value) \/ x \in Noted(K(p, q.key.text), q.note)
    BY LevelBefore, DeepPairs DEF TellsEntry, K
  <1>2. \A q \in Range(v.pairs) :
          /\ Deep(n - 1, K(p, q.key.text), q.value) = {<<K(p, q.key.text), q.value>>}
          /\ Noted(K(p, q.key.text), q.note) = {}
    <2>1. n - 1 \in 0..5
      OBVIOUS
    <2> QED
      BY <2>1, DeepLeaf DEF TellsEntry, Noted
  <1>3. x \in Deep(n, p, v) <=> \E q \in Range(v.pairs) : x = <<K(p, q.key.text), q.value>>
    BY <1>1, <1>2
  <1>4. x \in Noted(p, note) <=> \E r \in NoteRow(note) : x = <<K(p, r[1]), r[2]>>
    BY NotedPlaced DEF Placed
  <1>5. x \in Deep(n, p, v) \/ x \in Noted(p, note) <=>
          \E r \in Rows(v, note) : x = <<K(p, r[1]), r[2]>>
    <2>1. \A q : <<q.key.text, q.value>>[1] = q.key.text /\ <<q.key.text, q.value>>[2] = q.value
      OBVIOUS
    <2>2. \A r : r \in Rows(v, note) <=>
            (\E q \in Range(v.pairs) : r = <<q.key.text, q.value>>) \/ r \in NoteRow(note)
      BY DEF Rows
    <2>3. (\E q \in Range(v.pairs) : x = <<K(p, q.key.text), q.value>>) <=>
            \E r : (\E q \in Range(v.pairs) : r = <<q.key.text, q.value>>) /\ x = <<K(p, r[1]), r[2]>>
      BY <2>1
    <2> QED
      BY <1>3, <1>4, <2>2, <2>3
  <1>6. \A r : x = <<K(p, r[1]), r[2]>> => x[2] = r[2]
    OBVIOUS
  <1>7. \A r : r \in EntryRows(e) <=> r \in Rows(v, note) /\ r[2] \notin D
    BY DEF TellsEntry
  <1>8. x \in EntrySaid(p, e) <=> \E r \in EntryRows(e) : x = <<K(p, r[1]), r[2]>>
    BY DEF EntrySaid, Placed
  <1> QED
    BY <1>5, <1>6, <1>7, <1>8

LEMMA ListDeep ==
  ASSUME NEW D, List(<<>>) \notin D, NEW n \in 2..5, NEW w, NEW s, TellsList(D, w, s), NEW p, NEW x
  PROVE  x \in Deep(n, p, w) /\ x[2] \notin D <=> x \in ListSaid(p, s)
  <1>1. n \in 1..5 /\ n \in 0..5 /\ n - 1 \in 1..5
    OBVIOUS
  <1>2. CASE s = <<>>
    <2>1. w = List(<<>>) /\ w.items = <<>> /\ w.type = "list"
      BY <1>2 DEF TellsList
    <2>2. ~Branching(w)
      BY <2>1 DEF Branching
    <2>3. Deep(n, p, w) = {<<p, List(<<>>)>>} /\ ListSaid(p, s) = {<<p, List(<<>>)>>}
      BY <1>1, <1>2, <2>1, <2>2, DeepLeaf DEF ListSaid
    <2>4. x = <<p, List(<<>>)>> => x[2] = List(<<>>)
      OBVIOUS
    <2> QED
      BY <2>3, <2>4
  <1>3. CASE s # <<>>
    <2> DEFINE at(m) == Append(p, AtItem(m))
    <2>1. x \in Deep(n, p, w) <=> \E m \in DOMAIN s :
            x \in Deep(n - 1, at(m), w.items[m].value) \/ x \in Noted(at(m), w.items[m].note)
      BY <1>1, <1>3, LevelBefore, DeepItems DEF TellsList
    <2>2. x \in ListSaid(p, s) <=> \E m \in DOMAIN s : x \in EntrySaid(at(m), s[m])
      BY <1>3 DEF ListSaid
    <2> HIDE DEF at
    <2>3. \A m \in DOMAIN s :
            (x \in Deep(n - 1, at(m), w.items[m].value) \/ x \in Noted(at(m), w.items[m].note))
              /\ x[2] \notin D <=> x \in EntrySaid(at(m), s[m])
      BY <1>1, EntryDeep DEF TellsList
    <2> QED
      BY <2>1, <2>2, <2>3
  <1> QED
    BY <1>2, <1>3

LEMMA FieldsDeep ==
  ASSUME NEW D, NEW n \in 2..5, NEW w, NEW d, TellsFields(D, w, d), NEW p, NEW x
  PROVE  x \in Deep(n, p, w) /\ x[2] \notin D <=> x \in FieldsSaid(p, d)
  <1>1. n \in 1..5 /\ n - 1 \in 1..5
    OBVIOUS
  <1>2. x \in Deep(n, p, w) <=> \E q \in Range(w.pairs) :
          x \in Deep(n - 1, K(p, q.key.text), q.value) \/ x \in Noted(K(p, q.key.text), q.note)
    BY <1>1, LevelBefore, DeepPairs DEF TellsFields, K
  <1>3. \A q : q \in Range(w.pairs) <=> \E m \in DOMAIN d : q = w.pairs[m]
    BY DEF TellsFields, Range
  <1>4. \A m \in DOMAIN d : w.pairs[m].key.text = d[m].key
    BY DEF TellsFields
  <1>5. \A m \in DOMAIN d :
          (x \in Deep(n - 1, K(p, d[m].key), w.pairs[m].value)
             \/ x \in Noted(K(p, d[m].key), w.pairs[m].note))
            /\ x[2] \notin D <=> x \in EntrySaid(K(p, d[m].key), d[m].value)
    BY <1>1, EntryDeep DEF TellsFields
  <1>6. x \in FieldsSaid(p, d) <=> \E m \in DOMAIN d : x \in EntrySaid(K(p, d[m].key), d[m].value)
    BY DEF FieldsSaid
  <1>7. x \in Deep(n, p, w) <=> \E m \in DOMAIN d :
          x \in Deep(n - 1, K(p, d[m].key), w.pairs[m].value)
            \/ x \in Noted(K(p, d[m].key), w.pairs[m].note)
    BY <1>2, <1>3, <1>4
  <1> QED
    BY <1>5, <1>6, <1>7

SectionSaid(p, k, b) ==
    CASE k = "locators" -> ListSaid(p, b.locators)
      [] k = "compare_via" -> IF b.compare_via = None THEN {} ELSE {<<p, String(b.compare_via)>>}
      [] k = "fields" -> IF b.fields = None THEN {} ELSE FieldsSaid(p, b.fields)
      [] k = "wire" -> IF b.wire = None THEN {} ELSE EntrySaid(p, b.wire)
      [] k = "asserted_by" -> IF b.asserted_by = None THEN {} ELSE ListSaid(p, b.asserted_by)

BindingSaid(p, b) ==
    Noted(p, b.comment) \cup UNION {SectionSaid(K(p, k), k, b) : k \in SectionKeys}

TellsSection(D, k, w, b) ==
    /\ k = "locators" => TellsList(D, w, b.locators)
    /\ k = "compare_via" => b.compare_via # None /\ w = String(b.compare_via)
    /\ k = "fields" => b.fields # None /\ TellsFields(D, w, b.fields)
    /\ k = "wire" => b.wire # None /\ TellsEntry(D, w, None, b.wire)
    /\ k = "asserted_by" => b.asserted_by # None /\ TellsList(D, w, b.asserted_by)

HasSection(b, k) ==
    /\ k = "compare_via" => b.compare_via # None
    /\ k = "fields" => b.fields # None
    /\ k = "wire" => b.wire # None
    /\ k = "asserted_by" => b.asserted_by # None

(* A comment is the note of the value or its pair "comment", and two keys  *)
(* say nothing about the object.                                           *)
Headings == {"id", "kind"}

TellsBinding(D, v, note, b) ==
    /\ v.type = "mapping" /\ v.pairs # <<>>
    /\ \A q \in Range(v.pairs) :
         /\ q.note = None
         /\ \/ q.value \in D
            \/ q.key.text \in Headings /\ ~Branching(q.value)
            \/ q.key.text = "comment" /\ b.comment # None /\ q.value = String(b.comment)
            \/ q.key.text \in SectionKeys /\ TellsSection(D, q.key.text, q.value, b)
    /\ \A k \in SectionKeys : HasSection(b, k) =>
         \E q \in Range(v.pairs) : q.key.text = k /\ TellsSection(D, k, q.value, b)
    /\ b.comment # None =>
         note = b.comment \/ \E q \in Range(v.pairs) : q.key.text = "comment" /\ q.value = String(b.comment)
    /\ note # None => note = b.comment

LEMMA LeavesSaid ==
  ASSUME NEW D \in SUBSET {Null}
  PROVE  List(<<>>) \notin D /\ \A t : String(t) \notin D
  BY DEF Null, List, String, Scalar

LEMMA SectionDeep ==
  ASSUME NEW D \in SUBSET {Null}, NEW n \in 2..5, NEW k \in SectionKeys, NEW w, NEW b,
         TellsSection(D, k, w, b), NEW p, NEW x
  PROVE  x \in Deep(n, p, w) /\ x[2] \notin D <=> x \in SectionSaid(p, k, b)
  <1>1. n \in 1..5 /\ n \in 0..5
    OBVIOUS
  <1>2. CASE k = "locators"
    BY <1>2, LeavesSaid, ListDeep DEF TellsSection, SectionSaid
  <1>3. CASE k = "compare_via"
    <2>1. w = String(b.compare_via) /\ ~Branching(w) /\ w \notin D
      <3>1. w = String(b.compare_via) /\ w.type = "string"
        BY <1>3 DEF TellsSection, String, Scalar
      <3> QED
        BY <3>1, LeavesSaid DEF Branching
    <2>2. Deep(n, p, w) = {<<p, w>>} /\ SectionSaid(p, k, b) = {<<p, w>>}
      BY <1>1, <1>3, <2>1, DeepLeaf DEF TellsSection, SectionSaid
    <2>3. x = <<p, w>> => x[2] = w
      OBVIOUS
    <2> QED
      BY <2>1, <2>2, <2>3
  <1>4. CASE k = "fields"
    <2>1. TellsFields(D, w, b.fields) /\ SectionSaid(p, k, b) = FieldsSaid(p, b.fields)
      BY <1>4 DEF TellsSection, SectionSaid
    <2> QED
      BY <2>1, FieldsDeep
  <1>5. CASE k = "wire"
    <2>1. TellsEntry(D, w, None, b.wire) /\ SectionSaid(p, k, b) = EntrySaid(p, b.wire)
      BY <1>5 DEF TellsSection, SectionSaid
    <2>2. x \notin Noted(p, None)
      BY DEF Noted
    <2> QED
      BY <1>1, <2>1, <2>2, EntryDeep
  <1>6. CASE k = "asserted_by"
    <2>1. TellsList(D, w, b.asserted_by) /\ SectionSaid(p, k, b) = ListSaid(p, b.asserted_by)
      BY <1>6 DEF TellsSection, SectionSaid
    <2> DEFINE s == b.asserted_by
    <2>2. TellsList(D, w, s) /\ SectionSaid(p, k, b) = ListSaid(p, s) /\ List(<<>>) \notin D
      BY <2>1, LeavesSaid
    <2> HIDE DEF s
    <2>3. x \in Deep(n, p, w) /\ x[2] \notin D <=> x \in ListSaid(p, s)
      BY <2>2, ListDeep
    <2> QED
      BY <2>2, <2>3
  <1> QED
    BY <1>2, <1>3, <1>4, <1>5, <1>6 DEF SectionKeys

LEMMA SectionThere ==
  ASSUME NEW b, NEW k \in SectionKeys, NEW p, SectionSaid(p, k, b) # {}
  PROVE  HasSection(b, k)
  BY DEF HasSection, SectionSaid, SectionKeys

LEMMA KeysApart ==
  /\ \A j, k : AtKey(j) = AtKey(k) => j = k
  /\ \A k \in SectionKeys : k \notin Headings /\ k # "comment"
  /\ "comment" \notin Headings
  BY DEF AtKey, SectionKeys, Headings

LEMMA PathKey ==
  ASSUME NEW p, IsPath(p), NEW k
  PROVE  /\ IsPath(K(p, k)) /\ OfPath(p, K(p, k)) /\ Len(p) \in Nat /\ Len(K(p, k)) = Len(p) + 1
         /\ K(p, k)[Len(p) + 1] = AtKey(k)
         /\ \A r : OfPath(K(p, k), r) => Len(r) \in Nat /\ Len(r) >= Len(p) + 1
                                          /\ r[Len(p) + 1] = AtKey(k) /\ OfPath(p, r)
  <1>1. /\ IsPath(K(p, k)) /\ Len(p) \in Nat /\ Len(K(p, k)) = Len(p) + 1
        /\ K(p, k)[Len(p) + 1] = AtKey(k)
    BY PathAppend DEF K
  <1>2. OfPath(p, K(p, k))
    BY OfItself, OfAppend DEF K
  <1>3. ASSUME NEW r, OfPath(K(p, k), r)
        PROVE  Len(r) \in Nat /\ Len(r) >= Len(p) + 1 /\ r[Len(p) + 1] = AtKey(k) /\ OfPath(p, r)
    <2>1. Len(r) \in Nat /\ Len(r) >= Len(p) + 1
      BY <1>1, <1>3, LenProperties DEF OfPath, IsPath
    <2>2. r[Len(p) + 1] = K(p, k)[Len(p) + 1]
      BY <1>1, <1>3 DEF OfPath
    <2> QED
      BY <1>1, <1>2, <1>3, <2>1, <2>2, OfTransitive
  <1> QED
    BY <1>1, <1>2, <1>3

LEMMA BindingDeep ==
  ASSUME NEW D \in SUBSET {Null}, NEW n \in 3..5, NEW v, NEW note, NEW b, TellsBinding(D, v, note, b),
         NEW p, IsPath(p), NEW x
  PROVE  /\ x \in Deep(n, p, v) \/ x \in Noted(p, note)
         /\ x[2] \notin D /\ x[1] \notin {K(p, k) : k \in Headings}
         <=> x \in BindingSaid(p, b)
  <1>1. n \in 1..5 /\ n - 1 \in 2..5 /\ n - 1 \in 0..5
    OBVIOUS
  <1>2. x \in Deep(n, p, v) <=> \E q \in Range(v.pairs) : x \in Deep(n - 1, K(p, q.key.text), q.value)
    <2>1. x \in Deep(n, p, v) <=> \E q \in Range(v.pairs) :
            x \in Deep(n - 1, K(p, q.key.text), q.value) \/ x \in Noted(K(p, q.key.text), q.note)
      BY <1>1, LevelBefore, DeepPairs DEF TellsBinding, K
    <2>2. \A q \in Range(v.pairs) : Noted(K(p, q.key.text), q.note) = {}
      BY DEF TellsBinding, Noted
    <2> QED
      BY <2>1, <2>2
  <1>3. x \in BindingSaid(p, b) <=>
          x \in Noted(p, b.comment) \/ \E k \in SectionKeys : x \in SectionSaid(K(p, k), k, b)
    BY DEF BindingSaid
  <1>4. \A c : x \in Noted(p, c) => c # None /\ x[1] = K(p, "comment") /\ x[2] = String(c)
    BY DEF Noted, K
  <1>5. \A j, k : K(p, j) = K(p, k) => j = k
    BY PathKey, KeysApart
  <1>6. \A k \in SectionKeys : \A w : TellsSection(D, k, w, b) =>
          (x \in Deep(n - 1, K(p, k), w) /\ x[2] \notin D <=> x \in SectionSaid(K(p, k), k, b))
    BY <1>1, SectionDeep
  <1>7. ASSUME NEW q \in Range(v.pairs), x \in Deep(n - 1, K(p, q.key.text), q.value),
               x[2] \notin D, x[1] \notin {K(p, k) : k \in Headings}
        PROVE  x \in BindingSaid(p, b)
    <2>1. ~Branching(q.value) => x = <<K(p, q.key.text), q.value>>
      BY <1>1, <1>7, DeepLeaf
    <2>2. ~Branching(q.value) => x[1] = K(p, q.key.text) /\ x[2] = q.value
      BY <2>1
    <2>3. CASE q.value \in D
      <3>1. ~Branching(q.value)
        BY <2>3 DEF Branching, Null, Scalar
      <3> QED
        BY <1>7, <2>2, <2>3, <3>1
    <2>4. CASE q.key.text \in Headings /\ ~Branching(q.value)
      BY <1>7, <2>2, <2>4
    <2>5. CASE q.key.text = "comment" /\ b.comment # None /\ q.value = String(b.comment)
      <3>1. ~Branching(q.value)
        BY <2>5 DEF Branching, String, Scalar
      <3>2. x = <<K(p, "comment"), String(b.comment)>>
        BY <2>1, <2>5, <3>1
      <3>3. x \in Noted(p, b.comment)
        BY <2>5, <3>2 DEF Noted, K
      <3> QED
        BY <1>3, <3>3
    <2>6. CASE q.key.text \in SectionKeys /\ TellsSection(D, q.key.text, q.value, b)
      BY <1>3, <1>6, <1>7, <2>6
    <2> QED
      BY <2>3, <2>4, <2>5, <2>6 DEF TellsBinding
  <1>8. ASSUME x \in Noted(p, note)
        PROVE  x \in BindingSaid(p, b)
    BY <1>3, <1>4, <1>8 DEF TellsBinding
  <1>9. ASSUME x \in Noted(p, b.comment)
        PROVE  /\ x \in Deep(n, p, v) \/ x \in Noted(p, note)
               /\ x[2] \notin D /\ x[1] \notin {K(p, k) : k \in Headings}
    <2>1. b.comment # None /\ x[1] = K(p, "comment") /\ x[2] = String(b.comment)
      BY <1>4, <1>9
    <2>2. x[2] \notin D /\ x[1] \notin {K(p, k) : k \in Headings}
      BY <1>5, <2>1, LeavesSaid, KeysApart
    <2>3. CASE note = b.comment
      BY <1>9, <2>2, <2>3
    <2>4. CASE \E q \in Range(v.pairs) : q.key.text = "comment" /\ q.value = String(b.comment)
      <3>1. PICK q \in Range(v.pairs) : q.key.text = "comment" /\ q.value = String(b.comment)
        BY <2>4
      <3>2. ~Branching(q.value)
        BY <3>1 DEF Branching, String, Scalar
      <3>3. Deep(n - 1, K(p, q.key.text), q.value) = {<<K(p, "comment"), String(b.comment)>>}
        BY <1>1, <3>1, <3>2, DeepLeaf
      <3>4. x = <<K(p, "comment"), String(b.comment)>>
        BY <1>9 DEF Noted, K
      <3> QED
        BY <1>2, <2>2, <3>3, <3>4
    <2> QED
      BY <2>1, <2>3, <2>4 DEF TellsBinding
  <1>10. ASSUME NEW k \in SectionKeys, x \in SectionSaid(K(p, k), k, b)
         PROVE  /\ x \in Deep(n, p, v)
                /\ x[2] \notin D /\ x[1] \notin {K(p, j) : j \in Headings}
    <2>1. HasSection(b, k)
      BY <1>10, SectionThere
    <2>2. PICK q \in Range(v.pairs) : q.key.text = k /\ TellsSection(D, k, q.value, b)
      BY <2>1 DEF TellsBinding
    <2>3. x \in Deep(n - 1, K(p, k), q.value) /\ x[2] \notin D
      BY <1>6, <1>10, <2>2
    <2>4. OfPath(K(p, k), x[1])
      <3>1. OfPath(K(p, k), K(p, k))
        BY PathKey, OfItself
      <3> QED
        BY <1>1, <2>3, <3>1, EachMoves DEF Moves
    <2>5. x[1][Len(p) + 1] = AtKey(k)
      BY <2>4, PathKey
    <2>6. \A j \in Headings : K(p, j)[Len(p) + 1] = AtKey(j) /\ AtKey(j) # AtKey(k)
      BY PathKey, KeysApart
    <2> QED
      BY <1>2, <2>2, <2>3, <2>5, <2>6
  <1> QED
    BY <1>2, <1>3, <1>7, <1>8, <1>9, <1>10

(***************************************************************************)
(* What is spelled in a file says just that.                               *)
(***************************************************************************)
Telling(s) == \A x \in Range(s) : DOMAIN x.strings # {}

LEMMA PathTelling ==
  ASSUME NEW node \in {"locator", "field_locator"}, NEW C, NEW x \in EntryType(node, C)
  PROVE  DOMAIN x.strings # {}
  <1>1. Shape[node].required \subseteq DOMAIN x.strings
    BY DEF EntryType
  <1>2. "path" \in Shape[node].required
    BY DEF Shape
  <1> QED
    BY <1>1, <1>2

LEMMA BindingTelling ==
  ASSUME NEW b, GoodBinding(b)
  PROVE  /\ Telling(b.locators)
         /\ b.fields # None => b.fields # <<>> /\ \A n \in DOMAIN b.fields : DOMAIN b.fields[n].value.strings # {}
         /\ b.wire # None => DOMAIN b.wire.strings # {} /\ b.wire.comment = None
         /\ b.asserted_by # None => b.asserted_by # <<>> /\ Telling(b.asserted_by)
  <1>1. /\ b.locators \in Seq(EntryType("locator", Note))
        /\ b.fields # None => b.fields \in DictsOf(Texts, EntryType("field_locator", Note))
        /\ b.wire # None => b.wire \in EntryType("wire", {None})
        /\ b.asserted_by # None => b.asserted_by \in Seq(EntryType("assertion", Note))
    BY DEF GoodBinding, BindingType
  <1>2. Telling(b.locators)
    BY <1>1, ListProperties, PathTelling DEF Telling
  <1>3. ASSUME b.fields # None
        PROVE  b.fields # <<>> /\ \A n \in DOMAIN b.fields : DOMAIN b.fields[n].value.strings # {}
    <2>1. b.fields # <<>>
      BY <1>3 DEF GoodBinding, BindingRules
    <2>2. b.fields \in Seq([key : Texts, value : EntryType("field_locator", Note)])
      BY <1>1, <1>3 DEF DictsOf
    <2>3. \A n \in DOMAIN b.fields : b.fields[n].value \in EntryType("field_locator", Note)
      <3> DEFINE E == [key : Texts, value : EntryType("field_locator", Note)]
      <3>1. \A e \in E : e.value \in EntryType("field_locator", Note)
        OBVIOUS
      <3>2. b.fields \in Seq(E)
        BY <2>2
      <3> HIDE DEF E
      <3> QED
        BY <3>1, <3>2, ListProperties
    <2> QED
      BY <2>1, <2>3, PathTelling
  <1>4. b.wire # None => DOMAIN b.wire.strings # {} /\ b.wire.comment = None
    BY <1>1 DEF GoodBinding, BindingRules, WireRules, EntryType
  <1>5. b.asserted_by # None => b.asserted_by # <<>> /\ Telling(b.asserted_by)
    <2>1. \A x : AssertionRules(x) => DOMAIN x.strings # {}
      BY DEF AssertionRules
    <2> QED
      BY <2>1 DEF GoodBinding, BindingRules, AssertedRules, Telling
  <1> QED
    BY <1>2, <1>3, <1>4, <1>5

LEMMA StringLeaf ==
  \A t : String(t).text = t /\ String(t).type = "string" /\ ~Branching(String(t))
  BY DEF String, Scalar, Branching

LEMMA SpelledTells ==
  ASSUME NEW v, NEW x, Spells(v, x), DOMAIN x.strings # {}
  PROVE  TellsEntry({}, v, x.comment, x)
  <1>1. v.type = "mapping" /\ v.pairs # <<>>
    <2>1. Range(v.pairs) # {}
      BY DEF Spells
    <2> QED
      BY <2>1, EmptyList DEF Spells
  <1>2. \A q \in Range(v.pairs) : \E k \in DOMAIN x.strings :
          q.key.text = k /\ q.value = String(x.strings[k]) /\ q.note = None
    BY DEF Spells, Pair, String, Scalar
  <1>3. \A k \in DOMAIN x.strings : \E q \in Range(v.pairs) :
          q.key.text = k /\ q.value = String(x.strings[k])
    <2> SUFFICES ASSUME NEW k \in DOMAIN x.strings
                 PROVE  \E q \in Range(v.pairs) : q.key.text = k /\ q.value = String(x.strings[k])
      OBVIOUS
    <2> DEFINE q == Pair(String(k), String(x.strings[k]), None)
    <2>1. q \in Range(v.pairs)
      BY DEF Spells
    <2>2. q.key.text = k /\ q.value = String(x.strings[k])
      BY PairIs, StringLeaf
    <2> QED
      BY <2>1, <2>2
  <1>4. \A q \in Range(v.pairs) : ~Branching(q.value) /\ q.note = None
    BY <1>2, StringLeaf
  <1>5. {<<q.key.text, q.value>> : q \in Range(v.pairs)} = {<<k, String(x.strings[k])>> : k \in DOMAIN x.strings}
    BY <1>2, <1>3
  <1>6. {r \in Rows(v, x.comment) : r[2] \notin {}} = EntryRows(x)
    BY <1>5 DEF Rows, EntryRows
  <1> QED
    BY <1>1, <1>4, <1>6 DEF TellsEntry

LEMMA EntriesTell ==
  ASSUME NEW w \in OnceSections, NEW C, NEW s \in Seq(C), SpellsEntries(w, s), Telling(s)
  PROVE  TellsList({}, w, s)
  <1>1. w.type = "list" /\ DOMAIN w.items = DOMAIN s
    BY DEF SpellsEntries
  <1>2. w = List(w.items) /\ w.items \in Seq(ItemsOf(OnceBindings))
    BY <1>1, BlockParts, OnceMonotonic
  <1>3. w.items = <<>> <=> s = <<>>
    BY <1>1, <1>2, SameDomain
  <1>4. \A n \in DOMAIN s : TellsEntry({}, w.items[n].value, w.items[n].note, s[n])
    <2> SUFFICES ASSUME NEW n \in DOMAIN s
                 PROVE  TellsEntry({}, w.items[n].value, w.items[n].note, s[n])
      OBVIOUS
    <2> DEFINE v == w.items[n].value
               x == s[n]
    <2>1. Spells(v, x) /\ w.items[n].note = x.comment
      BY DEF SpellsEntries
    <2>2. DOMAIN x.strings # {}
      <3>1. x \in Range(s)
        BY ListProperties
      <3> QED
        BY <3>1 DEF Telling
    <2> HIDE DEF v, x
    <2>3. TellsEntry({}, v, x.comment, x)
      BY <2>1, <2>2, SpelledTells
    <2> QED
      BY <2>1, <2>3 DEF v, x
  <1> QED
    BY <1>1, <1>2, <1>3, <1>4 DEF TellsList

LEMMA FieldsTell ==
  ASSUME NEW w \in OnceSections, NEW C, NEW d \in Seq(C), SpellsFields(w, d), d # <<>>,
         \A n \in DOMAIN d : DOMAIN d[n].value.strings # {}
  PROVE  TellsFields({}, w, d)
  <1>1. w.type = "mapping" /\ DOMAIN w.pairs = DOMAIN d
    BY DEF SpellsFields
  <1>2. w.pairs \in Seq(PairsOf(OnceBindings))
    BY <1>1, BlockParts, OnceMonotonic
  <1>3. w.pairs # <<>>
    BY <1>1, <1>2, SameDomain
  <1>4. \A n \in DOMAIN d : /\ w.pairs[n].key.text = d[n].key
                            /\ TellsEntry({}, w.pairs[n].value, w.pairs[n].note, d[n].value)
    <2> SUFFICES ASSUME NEW n \in DOMAIN d
                 PROVE  /\ w.pairs[n].key.text = d[n].key
                        /\ TellsEntry({}, w.pairs[n].value, w.pairs[n].note, d[n].value)
      OBVIOUS
    <2> DEFINE v == w.pairs[n].value
               x == d[n].value
    <2>1. Spells(v, x) /\ w.pairs[n].note = x.comment /\ w.pairs[n].key.text = d[n].key
      BY DEF SpellsFields
    <2>2. DOMAIN x.strings # {}
      OBVIOUS
    <2> HIDE DEF v, x
    <2>3. TellsEntry({}, v, x.comment, x)
      BY <2>1, <2>2, SpelledTells
    <2> QED
      BY <2>1, <2>3 DEF v, x
  <1> QED
    BY <1>1, <1>3, <1>4 DEF TellsFields

LEMMA HadIsPair ==
  ASSUME NEW v, NEW k, Has(v, k)
  PROVE  PairAt(v, k) \in Range(v.pairs) /\ PairAt(v, k).key = String(k) /\ At(v, k) = PairAt(v, k).value
  <1>1. \E p \in Range(v.pairs) : p.key = String(k)
    BY DEF Has, KeysOf
  <1> QED
    BY <1>1 DEF PairAt, At

LEMMA PairIsHad ==
  ASSUME NEW v, NEW S, v.pairs \in Seq(S), UniqueKeys(v.pairs), NEW q \in Range(v.pairs), NEW keys,
         KeysOf(v) \subseteq {String(k) : k \in keys}
  PROVE  q.key.text \in keys /\ q.key = String(q.key.text) /\ Has(v, q.key.text)
           /\ q = PairAt(v, q.key.text) /\ q.value = At(v, q.key.text)
  <1>1. PICK k \in keys : q.key = String(k)
    BY DEF KeysOf
  <1>2. q.key.text = k
    BY <1>1 DEF String, Scalar
  <1> QED
    BY <1>1, <1>2, OnePairAt

LEMMA BindingTells ==
  ASSUME NEW v \in OnceBindings, NEW b, GoodBinding(b), SpellsBinding(v, b)
  PROVE  TellsBinding({}, v, b.comment, b)
  <1>1. /\ v.type = "mapping" /\ UniqueKeys(v.pairs) /\ KeysOf(v) \subseteq {String(k) : k \in SectionKeys}
        /\ Unnoted(v)
    BY DEF SpellsBinding
  <1>2. v.pairs \in Seq(PairsOf(OnceBindings))
    BY <1>1, BlockParts, OnceMonotonic
  <1>3. \A k : Has(v, k) => At(v, k) \in OnceSections
    BY <1>1, OnceParts DEF OnceBindings
  <1>4. \A k \in SectionKeys : Has(v, k) <=> HasSection(b, k)
    BY DEF SpellsBinding, SectionKeys, HasSection
  <1>5. ASSUME NEW k \in SectionKeys, Has(v, k)
        PROVE  TellsSection({}, k, At(v, k), b)
    <2> DEFINE w == At(v, k)
    <2>1. w \in OnceSections /\ HasSection(b, k)
      BY <1>3, <1>4, <1>5
    <2>2. CASE k = "locators"
      <3>1. b.locators \in Seq(EntryType("locator", Note)) /\ Telling(b.locators)
        BY BindingTelling DEF GoodBinding, BindingType
      <3>2. SpellsEntries(w, b.locators)
        BY <2>2 DEF SpellsBinding
      <3> HIDE DEF w
      <3>3. TellsList({}, w, b.locators)
        BY <2>1, <3>1, <3>2, EntriesTell
      <3> QED
        BY <2>2, <3>3 DEF TellsSection, w
    <2>3. CASE k = "compare_via"
      BY <2>1, <2>3 DEF TellsSection, SpellsBinding, HasSection
    <2>4. CASE k = "fields"
      <3>1. b.fields # None
        BY <2>1, <2>4 DEF HasSection
      <3>2. b.fields \in DictsOf(Texts, EntryType("field_locator", Note))
        BY <3>1 DEF GoodBinding, BindingType
      <3>3. /\ b.fields \in Seq([key : Texts, value : EntryType("field_locator", Note)])
            /\ b.fields # <<>> /\ \A n \in DOMAIN b.fields : DOMAIN b.fields[n].value.strings # {}
        BY <3>1, <3>2, BindingTelling DEF DictsOf
      <3>4. SpellsFields(w, b.fields)
        BY <2>4, <3>1 DEF SpellsBinding
      <3> HIDE DEF w
      <3>5. TellsFields({}, w, b.fields)
        BY <2>1, <3>3, <3>4, FieldsTell
      <3> QED
        BY <2>4, <3>1, <3>5 DEF TellsSection, w
    <2>5. CASE k = "wire"
      <3>1. b.wire # None
        BY <2>1, <2>5 DEF HasSection
      <3>2. DOMAIN b.wire.strings # {} /\ b.wire.comment = None /\ Spells(w, b.wire)
        BY <2>5, <3>1, BindingTelling DEF SpellsBinding
      <3> HIDE DEF w
      <3>3. TellsEntry({}, w, None, b.wire)
        BY <3>2, SpelledTells
      <3> QED
        BY <2>5, <3>1, <3>3 DEF TellsSection, w
    <2>6. CASE k = "asserted_by"
      <3>1. b.asserted_by # None
        BY <2>1, <2>6 DEF HasSection
      <3>2. b.asserted_by \in Seq(EntryType("assertion", Note)) /\ Telling(b.asserted_by)
        BY <3>1, BindingTelling DEF GoodBinding, BindingType
      <3>3. SpellsEntries(w, b.asserted_by)
        BY <2>6, <3>1 DEF SpellsBinding
      <3> HIDE DEF w
      <3>4. TellsList({}, w, b.asserted_by)
        BY <2>1, <3>2, <3>3, EntriesTell
      <3> QED
        BY <2>6, <3>1, <3>4 DEF TellsSection, w
    <2> QED
      BY <2>2, <2>3, <2>4, <2>5, <2>6 DEF SectionKeys
  <1>6. v.pairs # <<>>
    <2>1. Has(v, "locators")
      BY DEF SpellsBinding
    <2> QED
      BY <2>1, HadIsPair, EmptyList
  <1>7. ASSUME NEW q \in Range(v.pairs)
        PROVE  q.note = None /\ q.key.text \in SectionKeys /\ TellsSection({}, q.key.text, q.value, b)
    <2>1. q.key.text \in SectionKeys /\ Has(v, q.key.text) /\ q.value = At(v, q.key.text)
      BY <1>1, <1>2, PairIsHad
    <2>2. q.note = None
      BY <1>1 DEF Unnoted, Parts
    <2> QED
      BY <1>5, <2>1, <2>2
  <1>8. ASSUME NEW k \in SectionKeys, HasSection(b, k)
        PROVE  \E q \in Range(v.pairs) : q.key.text = k /\ TellsSection({}, k, q.value, b)
    <2>1. Has(v, k)
      BY <1>4, <1>8
    <2>2. PairAt(v, k) \in Range(v.pairs) /\ PairAt(v, k).key.text = k /\ PairAt(v, k).value = At(v, k)
      BY <2>1, HadIsPair, StringLeaf
    <2> QED
      BY <1>5, <2>1, <2>2
  <1> QED
    BY <1>1, <1>6, <1>7, <1>8 DEF TellsBinding

(***************************************************************************)
(* The documents of `set`: what is left of one when null and the comments  *)
(* are taken out of it spells the objects that are made of it.             *)
(***************************************************************************)
LEMMA ChosenUnique ==
  ASSUME NEW S, NEW s \in Seq(S), UniqueKeys(s), NEW P \in SUBSET DOMAIN s
  PROVE  UniqueKeys(Chosen(s, P))
  <1>1. P \in SUBSET Nat /\ IsFiniteSet(P) /\ \A n \in P : s[n] \in S
    BY PlacesFinite, ListProperties
  <1>a. Picks(Chosen(s, P), s, P)
    BY <1>1, ChosenPicks
  <1>0. PICK c \in Nat : \E at \in [1..c -> P] :
          /\ \A i, j \in 1..c : i < j => at[i] < at[j]
          /\ \A n \in P : \E i \in 1..c : at[i] = n
          /\ Chosen(s, P) = [i \in 1..c |-> s[at[i]]]
    BY <1>a DEF Picks
  <1>2. PICK at \in [1..c -> P] :
          /\ \A i, j \in 1..c : i < j => at[i] < at[j]
          /\ Chosen(s, P) = [i \in 1..c |-> s[at[i]]]
    BY <1>0
  <1>3. ASSUME NEW i \in 1..c, NEW j \in 1..c, s[at[i]].key = s[at[j]].key
        PROVE  i = j
    <2>1. at[i] \in DOMAIN s /\ at[j] \in DOMAIN s /\ at[i] \in Nat /\ at[j] \in Nat
      BY <1>1
    <2>2. at[i] = at[j]
      BY <1>3, <2>1 DEF UniqueKeys
    <2> QED
      BY <1>2, <2>1, <2>2
  <1> QED
    BY <1>2, <1>3 DEF UniqueKeys

LEMMA OneByOne ==
  \A S : \A v \in Once(S) :
    v.type = "mapping" =>
      \A P \in SUBSET DOMAIN v.pairs :
        /\ UniqueKeys(Chosen(v.pairs, P)) /\ NoMerge(Chosen(v.pairs, P))
        /\ Mapping(Chosen(v.pairs, P)) \in Once(S)
        /\ Mapping(Chosen(v.pairs, P)).type = "mapping"
        /\ Mapping(Chosen(v.pairs, P)).pairs = Chosen(v.pairs, P)
        /\ Chosen(v.pairs, P) \in Seq(PairsOf(S))
        /\ Range(Chosen(v.pairs, P)) \subseteq Range(v.pairs)
  <1> TAKE S
  <1> TAKE v \in Once(S)
  <1> HAVE v.type = "mapping"
  <1> TAKE P \in SUBSET DOMAIN v.pairs
  <1>1. /\ v.pairs \in Seq(PairsOf(S)) /\ UniqueKeys(v.pairs) /\ NoMerge(v.pairs)
        /\ \A n \in DOMAIN v.pairs : v.pairs[n] \in Range(v.pairs)
    BY OnceParts
  <1>2. UniqueKeys(Chosen(v.pairs, P))
    BY <1>1, ChosenUnique
  <1>3. /\ Mapping(Chosen(v.pairs, P)).type = "mapping"
        /\ Mapping(Chosen(v.pairs, P)).pairs = Chosen(v.pairs, P)
        /\ Chosen(v.pairs, P) \in Seq(PairsOf(S)) /\ Range(Chosen(v.pairs, P)) = {v.pairs[n] : n \in P}
    BY <1>1, ChosenPairs
  <1>4. Range(Chosen(v.pairs, P)) \subseteq Range(v.pairs)
    BY <1>1, <1>3
  <1>5. NoMerge(Chosen(v.pairs, P))
    BY <1>1, <1>4 DEF NoMerge
  <1>6. Mapping(Chosen(v.pairs, P)) \in Once(S)
    BY <1>2, <1>3, <1>5, OnceContainers
  <1> QED
    BY <1>2, <1>3, <1>4, <1>5, <1>6

LEMMA PlainOnce ==
  ASSUME NEW S, NEW v \in Once(S)
  PROVE  /\ Plain(v) \in Once(S) /\ Without(v, IsNull) \in Once(S)
         /\ Unnoted(v) => Unnoted(Plain(v)) /\ Unnoted(Without(v, IsNull))
  <1>1. v \in Values(S)
    BY OnceParts
  <1>2. CASE v.type # "mapping"
    BY <1>1, <1>2, PlainIs, WithoutNulls
  <1>3. CASE v.type = "mapping"
    <2> DEFINE P == {n \in DOMAIN v.pairs : ~NullOrComment(v.pairs[n])}
               Q == {n \in DOMAIN v.pairs : ~IsNull(v.pairs[n])}
    <2>1. Plain(v) = Mapping(Chosen(v.pairs, P)) /\ Without(v, IsNull) = Mapping(Chosen(v.pairs, Q))
      BY <1>3 DEF Plain, Without
    <2>2. P \in SUBSET DOMAIN v.pairs /\ Q \in SUBSET DOMAIN v.pairs
      OBVIOUS
    <2> HIDE DEF P, Q
    <2>3. /\ Plain(v) \in Once(S) /\ Plain(v).type = "mapping" /\ Range(Plain(v).pairs) \subseteq Range(v.pairs)
          /\ Without(v, IsNull) \in Once(S) /\ Without(v, IsNull).type = "mapping"
          /\ Range(Without(v, IsNull).pairs) \subseteq Range(v.pairs)
      BY <1>3, <2>1, <2>2, OneByOne
    <2>4. Parts(v) = Range(v.pairs) /\ Parts(Plain(v)) = Range(Plain(v).pairs)
            /\ Parts(Without(v, IsNull)) = Range(Without(v, IsNull).pairs)
      BY <1>3, <2>3 DEF Parts
    <2> QED
      BY <2>3, <2>4 DEF Unnoted
  <1> QED
    BY <1>2, <1>3

LEMMA JsonOnce ==
  /\ \A S : \A v \in Json(S) : v \in Once(S) /\ Unnoted(v)
  /\ Json({}) \subseteq Once({})
  /\ Json(Json({})) \subseteq OnceEntries /\ Json(Json(Json({}))) \subseteq OnceSections
  /\ InputDocuments \subseteq OnceBindings
  <1>1. \A S : \A v \in Json(S) : v \in Once(S) /\ Unnoted(v)
    BY DEF Json
  <1>2. \A T : \A S \in SUBSET T : Json(S) \subseteq Once(T)
    BY <1>1, OnceMonotonic
  <1>3. Json({}) \subseteq Once({})
    BY <1>2
  <1>4. Json(Json({})) \subseteq OnceEntries
    BY <1>2, <1>3 DEF OnceEntries
  <1>5. Json(Json(Json({}))) \subseteq OnceSections
    BY <1>2, <1>4 DEF OnceSections
  <1>6. InputDocuments \subseteq OnceBindings
    BY <1>2, <1>5 DEF InputDocuments, OnceBindings
  <1> QED
    BY <1>1, <1>3, <1>4, <1>5, <1>6

Json2 == Json(Json({}))
Json3 == Json(Json(Json({})))

LEMMA SectionParts ==
  ASSUME NEW w \in Json3
  PROVE  /\ w.type = "list" =>
              /\ w.items \in Seq(ItemsOf(Json2)) /\ w = List(w.items)
              /\ \A n \in DOMAIN w.items :
                   /\ w.items[n] \in Range(w.items) /\ w.items[n].note = None
                   /\ w.items[n].value \in Json2
         /\ w.type = "mapping" =>
              /\ w.pairs \in Seq(PairsOf(Json2)) /\ UniqueKeys(w.pairs)
              /\ \A n \in DOMAIN w.pairs :
                   /\ w.pairs[n] \in Range(w.pairs) /\ w.pairs[n].note = None
                   /\ IsString(w.pairs[n].key) /\ w.pairs[n].key \in Scalars
                   /\ w.pairs[n].value \in Json2
  <1>1. w \in Json(Json2)
    BY DEF Json3, Json2
  <1>2. /\ w \in Values(Json2)
        /\ w.type = "mapping" =>
             /\ w.pairs \in Seq(PairsOf(Json2)) /\ UniqueKeys(w.pairs)
             /\ \A p \in Range(w.pairs) : IsString(p.key) /\ p.value \in Json2 /\ p.note = None
        /\ w.type = "list" =>
             /\ w.items \in Seq(ItemsOf(Json2))
             /\ \A i \in Range(w.items) : i.value \in Json2 /\ i.note = None
    BY <1>1, JsonParts
  <1>3. w.type = "list" => w = List(w.items)
    <2> SUFFICES ASSUME w.type = "list" PROVE w = List(w.items)
      OBVIOUS
    <2>1. w \in ListsOf(Json2)
      BY <1>2, ValueParts
    <2> QED
      BY <2>1 DEF ListsOf, List
  <1>4. w.type = "list" => \A n \in DOMAIN w.items : w.items[n] \in Range(w.items)
    BY <1>2, ListProperties
  <1>5. w.type = "mapping" => \A n \in DOMAIN w.pairs : w.pairs[n] \in Range(w.pairs) /\ w.pairs[n] \in PairsOf(Json2)
    BY <1>2, ListProperties
  <1> QED
    BY <1>2, <1>3, <1>4, <1>5 DEF PairsOf

LEMMA PlainEntries ==
  ASSUME NEW w \in Json3
  PROVE  /\ w.type = "list" =>
              /\ PlainItems(w.items) \in OnceSections
              /\ \A x \in Parts(PlainItems(w.items)) : Unnoted(x.value)
         /\ w.type = "mapping" =>
              /\ PlainPairs(w.pairs) \in OnceSections /\ Apart(PlainPairs(w.pairs).pairs)
              /\ \A x \in Parts(PlainPairs(w.pairs)) : Unnoted(x.value)
  <1>1. \A e \in Json2 : Plain(e) \in OnceEntries /\ Unnoted(Plain(e))
    <2> TAKE e \in Json2
    <2>1. e \in Once(Once({})) /\ Unnoted(e)
      BY JsonOnce DEF Json2, OnceEntries
    <2> QED
      BY <2>1, PlainOnce DEF OnceEntries
  <1>2. None \in Note
    BY NotesAreTexts
  <1>3. ASSUME w.type = "list"
        PROVE  /\ PlainItems(w.items) \in OnceSections
               /\ \A x \in Parts(PlainItems(w.items)) : Unnoted(x.value)
    <2> DEFINE g == [n \in DOMAIN w.items |-> Item(Plain(w.items[n].value), None)]
    <2>1. w.items \in Seq(ItemsOf(Json2)) /\ \A n \in DOMAIN w.items : w.items[n].value \in Json2
      BY <1>3, SectionParts
    <2>2. \A n \in DOMAIN w.items : g[n] \in ItemsOf(OnceEntries) /\ Unnoted(g[n].value)
      BY <1>1, <1>2, <2>1 DEF Item, ItemsOf
    <2>3. PlainItems(w.items) = List(g)
      BY DEF PlainItems
    <2>7. DOMAIN g = DOMAIN w.items /\ g = [n \in DOMAIN g |-> g[n]]
      OBVIOUS
    <2> HIDE DEF g
    <2>4. g \in Seq(ItemsOf(OnceEntries))
      BY <2>1, <2>2, <2>7, MappedList
    <2>5. List(g) \in OnceSections /\ List(g).type = "list" /\ List(g).items = g
      BY <2>4, OnceContainers, Containers DEF OnceSections
    <2>6. Parts(List(g)) = Range(g)
      BY <2>5 DEF Parts
    <2>8. \A x \in Range(g) : \E n \in DOMAIN g : x = g[n]
      BY <2>4, ListProperties
    <2> QED
      BY <2>2, <2>3, <2>5, <2>6, <2>7, <2>8
  <1>4. ASSUME w.type = "mapping"
        PROVE  /\ PlainPairs(w.pairs) \in OnceSections /\ Apart(PlainPairs(w.pairs).pairs)
               /\ \A x \in Parts(PlainPairs(w.pairs)) : Unnoted(x.value)
    <2> DEFINE g == [n \in DOMAIN w.pairs |-> Pair(w.pairs[n].key, Plain(w.pairs[n].value), None)]
    <2>1. /\ w.pairs \in Seq(PairsOf(Json2)) /\ UniqueKeys(w.pairs)
          /\ \A n \in DOMAIN w.pairs : /\ IsString(w.pairs[n].key) /\ w.pairs[n].key \in Scalars
                                       /\ w.pairs[n].value \in Json2
      BY <1>4, SectionParts
    <2>2. \A n \in DOMAIN w.pairs : g[n] \in PairsOf(OnceEntries) /\ Unnoted(g[n].value) /\ g[n].key = w.pairs[n].key
      BY <1>1, <1>2, <2>1 DEF Pair, PairsOf
    <2>3. PlainPairs(w.pairs) = Mapping(g)
      BY DEF PlainPairs
    <2>7. DOMAIN g = DOMAIN w.pairs /\ g = [n \in DOMAIN g |-> g[n]]
      OBVIOUS
    <2> HIDE DEF g
    <2>4. g \in Seq(PairsOf(OnceEntries)) /\ UniqueKeys(g) /\ NoMerge(g)
      <3>1. g \in Seq(PairsOf(OnceEntries))
        BY <2>1, <2>2, <2>7, MappedList
      <3>2. UniqueKeys(g)
        BY <2>1, <2>2, <2>7 DEF UniqueKeys
      <3>3. \A n \in DOMAIN g : g[n].key.type # "merge"
        BY <2>1, <2>2, <2>7 DEF IsString
      <3>4. NoMerge(g)
        BY <3>3 DEF NoMerge, Range
      <3> QED
        BY <3>1, <3>2, <3>4
    <2>5. Mapping(g) \in OnceSections /\ Mapping(g).type = "mapping" /\ Mapping(g).pairs = g
      BY <2>4, OnceContainers, Containers DEF OnceSections
    <2>6. Parts(Mapping(g)) = Range(g)
      BY <2>5 DEF Parts
    <2>8. \A x \in Range(g) : \E n \in DOMAIN g : x = g[n]
      BY <2>4, ListProperties
    <2>9. Apart(g)
      <3> SUFFICES ASSUME NEW m \in DOMAIN g, NEW n \in DOMAIN g, g[m].key.text = g[n].key.text
                   PROVE  m = n
        BY DEF Apart
      <3>1. /\ IsString(g[m].key) /\ g[m].key \in Scalars /\ IsString(g[n].key) /\ g[n].key \in Scalars
        BY <2>1, <2>2, <2>7
      <3>2. g[m].key = g[n].key
        BY <3>1 DEF Scalars, IsString
      <3> QED
        BY <2>4, <3>2 DEF UniqueKeys
    <2> QED
      BY <2>2, <2>3, <2>5, <2>6, <2>7, <2>8, <2>9
  <1> QED
    BY <1>3, <1>4

LEMMA StrippedOnce ==
  ASSUME NEW doc \in InputDocuments, doc.type = "mapping"
  PROVE  /\ StrippedBinding(doc) \in OnceBindings /\ Unnoted(StrippedBinding(doc))
  <1> DEFINE Heads(p) == p.key \in {String("id"), String("kind")}
             plain == Without(Plain(doc), Heads)
             g == [n \in DOMAIN plain.pairs |->
                     Pair(plain.pairs[n].key, Stripped(plain.pairs[n]), None)]
             P == {n \in DOMAIN Plain(doc).pairs : ~Heads(Plain(doc).pairs[n])}
  <1>1. doc \in Once(Json3) /\ doc.pairs \in Seq(PairsOf(Json3))
    BY JsonOnce, OnceParts DEF InputDocuments, Json3
  <1>2. Plain(doc) \in Once(Json3) /\ Plain(doc).type = "mapping"
    <2>1. Plain(doc).type = doc.type
      BY <1>1, OnceParts, PlainIs
    <2> QED
      BY <1>1, <2>1, PlainOnce
  <1>3. plain = Mapping(Chosen(Plain(doc).pairs, P))
    BY <1>2 DEF Without
  <1>4. P \in SUBSET DOMAIN Plain(doc).pairs
    OBVIOUS
  <1>5. StrippedBinding(doc) = Mapping(g)
    BY DEF StrippedBinding, Mapped
  <1>6. DOMAIN g = DOMAIN plain.pairs /\ g = [n \in DOMAIN g |-> g[n]]
          /\ \A n \in DOMAIN plain.pairs : g[n] = Pair(plain.pairs[n].key, Stripped(plain.pairs[n]), None)
    OBVIOUS
  <1> HIDE DEF P, plain, g
  <1>7. UniqueKeys(plain.pairs) /\ NoMerge(plain.pairs) /\ plain.pairs \in Seq(PairsOf(Json3))
    BY <1>2, <1>3, <1>4, OneByOne
  <1>8. \A p \in PairsOf(Json3) : Stripped(p) \in OnceSections
    <2> TAKE p \in PairsOf(Json3)
    <2>1. p.value \in Json3
      BY DEF PairsOf
    <2>2. p.value \in OnceSections
      BY <2>1, JsonOnce DEF Json3
    <2>3. Without(p.value, IsNull) \in OnceSections
      BY <2>2, PlainOnce DEF OnceSections
    <2> QED
      BY <2>1, <2>2, <2>3, PlainEntries, StrippedIs
  <1>9. None \in Note
    BY NotesAreTexts
  <1>10. \A n \in DOMAIN plain.pairs :
           g[n] \in PairsOf(OnceSections) /\ g[n].note = None /\ g[n].key = plain.pairs[n].key
    <2> TAKE n \in DOMAIN plain.pairs
    <2>0. plain.pairs[n] \in PairsOf(Json3)
      BY <1>7, ListProperties
    <2>1. plain.pairs[n] \in PairsOf(Json3) /\ plain.pairs[n].key \in Scalars
      BY <2>0 DEF PairsOf
    <2>2. Stripped(plain.pairs[n]) \in OnceSections
      BY <1>8, <2>1
    <2> QED
      BY <1>6, <1>9, <2>1, <2>2, Pairs
  <1>11. g \in Seq(PairsOf(OnceSections))
    BY <1>6, <1>7, <1>10, MappedList
  <1>12. UniqueKeys(g) /\ NoMerge(g)
    <2>1. UniqueKeys(g)
      BY <1>6, <1>7, <1>10 DEF UniqueKeys
    <2>2. \A n \in DOMAIN plain.pairs : plain.pairs[n].key.type # "merge"
      BY <1>7 DEF NoMerge, Range
    <2>3. \A n \in DOMAIN g : g[n].key.type # "merge"
      BY <1>6, <1>10, <2>2
    <2> QED
      BY <2>1, <2>3 DEF NoMerge, Range
  <1>13. Mapping(g) \in OnceBindings /\ Mapping(g).type = "mapping" /\ Mapping(g).pairs = g
    BY <1>11, <1>12, OnceContainers, Containers DEF OnceBindings
  <1>14. \A x \in Range(g) : x.note = None
    <2>1. \A x \in Range(g) : \E n \in DOMAIN g : x = g[n]
      BY <1>11, ListProperties
    <2> QED
      BY <1>6, <1>10, <2>1
  <1>15. Parts(Mapping(g)) = Range(g)
    BY <1>13 DEF Parts
  <1> QED
    BY <1>5, <1>13, <1>14, <1>15 DEF Unnoted

(* What the conversion has taken for a section of the document.            *)
LEMMA StrippedSection ==
  ASSUME NEW doc \in InputDocuments, doc.type = "mapping", NEW k \in SectionKeys,
         Has(StrippedBinding(doc), k), NEW w, w = At(doc, k)
  PROVE  /\ w \in Json3 /\ Has(doc, k) /\ w.type # "null" /\ At(StrippedBinding(doc), k).type = w.type
         /\ PairAt(doc, k) \in Range(doc.pairs) /\ PairAt(doc, k).key = String(k)
         /\ PairAt(doc, k).value = w
         /\ k \in {"locators", "asserted_by"} /\ w.type = "list" =>
              At(StrippedBinding(doc), k) = PlainItems(w.items)
         /\ k = "fields" /\ w.type = "mapping" => At(StrippedBinding(doc), k) = PlainPairs(w.pairs)
         /\ k = "wire" => At(StrippedBinding(doc), k) = Without(w, IsNull)
         /\ k = "compare_via" => At(StrippedBinding(doc), k) = w
  <1>1. /\ PairAt(doc, k) \in Range(doc.pairs) /\ PairAt(doc, k).key = String(k)
        /\ Has(doc, k) /\ ~IsNull(PairAt(doc, k)) /\ At(doc, k) = PairAt(doc, k).value
        /\ At(StrippedBinding(doc), k) = Stripped(PairAt(doc, k))
        /\ At(StrippedBinding(doc), k).type = At(doc, k).type
    BY StrippedAt
  <1>2. w \in Json3
    BY <1>1, DocumentParts DEF Json3
  <1>3. PairAt(doc, k).key.text = k
    BY <1>1, StringLeaf
  <1>4. Stripped(PairAt(doc, k)) =
           IF k \in {"locators", "asserted_by"} /\ w.type = "list" THEN PlainItems(w.items)
           ELSE IF k = "fields" /\ w.type = "mapping" THEN PlainPairs(w.pairs)
           ELSE IF k = "wire" THEN Without(w, IsNull)
           ELSE w
    BY <1>1, <1>3, StrippedIs
  <1>5. w.type # "null"
    BY <1>1 DEF IsNull
  <1> QED
    BY <1>1, <1>2, <1>4, <1>5

LEMMA StrippedAttached ==
  ASSUME NEW doc \in InputDocuments, doc.type = "mapping", BindingFindings(StrippedBinding(doc)) = {}
  PROVE  /\ NotedAtEntries(StrippedBinding(doc))
         /\ Has(StrippedBinding(doc), "fields") => Apart(At(StrippedBinding(doc), "fields").pairs)
  <1> DEFINE v == StrippedBinding(doc)
  <1>1. Unnoted(v) /\ v \in OnceBindings
    BY StrippedOnce
  <1>2. /\ v.type = "mapping"
        /\ Has(v, "locators") /\ At(v, "locators").type = "list"
        /\ Has(v, "fields") => At(v, "fields").type = "mapping"
        /\ Has(v, "wire") => FlatFindings(At(v, "wire"), "wire") = {}
        /\ Has(v, "asserted_by") => At(v, "asserted_by").type = "list"
    BY BindingClean
  <1> HIDE DEF v
  <1>3. \A k \in {"locators", "asserted_by"} : Has(v, k) =>
          \A x \in Parts(At(v, k)) : Unnoted(x.value)
    <2> SUFFICES ASSUME NEW k \in {"locators", "asserted_by"}, Has(v, k)
                 PROVE  \A x \in Parts(At(v, k)) : Unnoted(x.value)
      OBVIOUS
    <2>1. k \in SectionKeys /\ At(v, k).type = "list"
      BY <1>2 DEF SectionKeys
    <2>2. At(doc, k) \in Json3 /\ At(doc, k).type = "list" /\ At(v, k) = PlainItems(At(doc, k).items)
      BY <2>1, StrippedSection DEF v
    <2> QED
      BY <2>2, PlainEntries
  <1>4. Has(v, "fields") => /\ \A x \in Parts(At(v, "fields")) : Unnoted(x.value)
                            /\ Apart(At(v, "fields").pairs)
    <2> SUFFICES ASSUME Has(v, "fields")
                 PROVE  /\ \A x \in Parts(At(v, "fields")) : Unnoted(x.value)
                        /\ Apart(At(v, "fields").pairs)
      OBVIOUS
    <2>1. "fields" \in SectionKeys /\ At(v, "fields").type = "mapping"
      BY <1>2 DEF SectionKeys
    <2>2. At(doc, "fields") \in Json3 /\ At(doc, "fields").type = "mapping"
            /\ At(v, "fields") = PlainPairs(At(doc, "fields").pairs)
      BY <2>1, StrippedSection DEF v
    <2> QED
      BY <2>2, PlainEntries
  <1>5. Has(v, "wire") => Unnoted(At(v, "wire"))
    <2> SUFFICES ASSUME Has(v, "wire") PROVE Unnoted(At(v, "wire"))
      OBVIOUS
    <2>1. "wire" \in SectionKeys
      BY DEF SectionKeys
    <2>2. At(doc, "wire") \in Json3 /\ At(v, "wire") = Without(At(doc, "wire"), IsNull)
      BY <2>1, StrippedSection DEF v
    <2>3. At(doc, "wire") \in Once(Json2) /\ Unnoted(At(doc, "wire"))
      BY <2>2, JsonOnce DEF Json3, Json2
    <2> QED
      BY <2>2, <2>3, PlainOnce
  <1> QED
    BY <1>1, <1>3, <1>4, <1>5 DEF NotedAtEntries, v

LEMMA DocumentSpelled ==
  ASSUME NEW doc \in InputDocuments, doc.type = "mapping", InputFindings(doc) = {},
         NEW b, b = BindingInput(doc)
  PROVE  LET v == StrippedBinding(doc)
             c == Binding(v, CommentOf(doc))
         IN  /\ GoodBinding(b) /\ SpellsBinding(v, c) /\ c \in BindingType(Note)
             /\ b = Reattaching(doc, c) /\ c.comment = CommentOf(doc)
             /\ BindingInputFindings(doc) = {}
  <1> DEFINE v == StrippedBinding(doc)
             c == Binding(v, CommentOf(doc))
  <1>1. BindingInputFindings(doc) = {} /\ GoodBinding(b)
    BY InputAccepted DEF InputFindings, GoodBinding
  <1>2. BindingFindings(v) = {}
    BY <1>1 DEF BindingInputFindings
  <1>3. v \in OnceBindings /\ doc \in DocumentValues
    BY StrippedOnce, DocumentParts
  <1>4. NotedAtEntries(v) /\ (Has(v, "fields") => Apart(At(v, "fields").pairs))
    BY <1>2, StrippedAttached
  <1>5. c \in BindingType(TextOrNone) \cup {None} /\ (c = None => b = None) /\ (c # None => b = Reattaching(doc, c))
    BY <1>3, BindingInputIs
  <1>6. c # None
    <2>1. None \notin BindingType(Note)
      BY BindingKinds, NotesAreTexts
    <2> QED
      BY <1>1, <1>5, <2>1 DEF GoodBinding
  <1>7. b = Reattaching(doc, c)
    BY <1>5, <1>6
  <1>8. b.comment = c.comment
    BY <1>7 DEF Reattaching
  <1>9. c.comment = CommentOf(doc)
    BY <1>6 DEF Binding
  <1>10. b.comment \in Note
    BY <1>1 DEF GoodBinding, BindingType
  <1> HIDE DEF v
  <1>11. SpellsBinding(v, c) /\ c \in BindingType(Note)
    BY <1>2, <1>3, <1>4, <1>8, <1>9, <1>10, BindingSpelled
  <1> QED
    BY <1>1, <1>7, <1>9, <1>11 DEF v

(***************************************************************************)
(* An accepted document tells what is in the binding that is made of it,   *)
(* null aside.                                                             *)
(***************************************************************************)
LEMMA EntryPairs ==
  ASSUME NEW S \in {Json({}), Json2}, NEW v \in Json(S), v.type = "mapping"
  PROVE  /\ v.pairs \in Seq(PairsOf(S)) /\ UniqueKeys(v.pairs) /\ v \in Values(S)
         /\ \A q \in Range(v.pairs) :
              /\ q.note = None /\ q.key = String(q.key.text)
              /\ q.value.type = "null" => q.value = Null /\ ~Branching(q.value)
              /\ q.value.type = "string" => q.value = String(q.value.text) /\ ~Branching(q.value)
              /\ IsNull(q) <=> q.value.type = "null"
  <1>1. /\ v \in Values(S) /\ v.pairs \in Seq(PairsOf(S)) /\ UniqueKeys(v.pairs)
        /\ \A p \in Range(v.pairs) : IsString(p.key) /\ p.value \in S /\ p.note = None
    BY JsonParts
  <1>2. \A p \in Range(v.pairs) : p.key \in Scalars
    <2>1. \A p \in Range(v.pairs) : p \in PairsOf(S)
      BY <1>1, ListProperties
    <2> QED
      BY <2>1 DEF PairsOf
  <1>3. \A s \in Scalars : /\ IsString(s) => s = String(s.text)
                           /\ s.type = "string" => s = String(s.text)
                           /\ s.type = "null" => s = Null
    BY DEF Scalars, IsString, String, Scalar
  <1>4. \A x \in S : x.type \in ScalarTypes => x \in Scalars
    <2>1. S = Json({}) => S \subseteq Values({})
      BY JsonDepths
    <2>2. S = Json2 => S \subseteq Values(Json({}))
      BY JsonDepths DEF Json2
    <2> QED
      BY <2>1, <2>2, ValueParts
  <1>5. "null" \in ScalarTypes /\ "string" \in ScalarTypes
    BY DEF ScalarTypes
  <1>6. \A x : x.type \in {"null", "string"} => ~Branching(x)
    BY DEF Branching
  <1> QED
    BY <1>1, <1>2, <1>3, <1>4, <1>5, <1>6 DEF IsNull

LEMMA CommentClean ==
  ASSUME NEW v, v.type = "mapping", CommentFindings(v) = {}, NEW S, v.pairs \in Seq(PairsOf(S)),
         UniqueKeys(v.pairs)
  PROVE  /\ \A q \in Range(v.pairs) : q.key = String("comment") =>
              /\ q.value.type \in {"null", "string"}
              /\ q.value.type = "string" => CommentOf(v) = q.value.text
              /\ q.value.type # "string" => CommentOf(v) = None
         /\ CommentOf(v) # None =>
              \E q \in Range(v.pairs) : /\ q.key = String("comment") /\ q.value.type = "string"
                                        /\ q.value.text = CommentOf(v)
  <1>1. Has(v, "comment") => At(v, "comment").type \in {"null", "string"}
    <2>1. (v.type = "mapping" /\ Has(v, "comment") /\ At(v, "comment").type \notin {"null", "string"}) \in BOOLEAN
      BY DEF Has
    <2> QED
      BY <2>1, NoCode DEF CommentFindings
  <1>2. CommentOf(v) = IF Has(v, "comment") /\ At(v, "comment").type = "string"
                         THEN At(v, "comment").text ELSE None
    BY DEF CommentOf, TextAt, HasA
  <1>3. ASSUME NEW q \in Range(v.pairs), q.key = String("comment")
        PROVE  Has(v, "comment") /\ At(v, "comment") = q.value
    BY <1>3, OnePairAt
  <1>4. CommentOf(v) # None =>
          \E q \in Range(v.pairs) : /\ q.key = String("comment") /\ q.value.type = "string"
                                    /\ q.value.text = CommentOf(v)
    <2> SUFFICES ASSUME CommentOf(v) # None
                 PROVE  \E q \in Range(v.pairs) : /\ q.key = String("comment") /\ q.value.type = "string"
                                                  /\ q.value.text = CommentOf(v)
      OBVIOUS
    <2>1. Has(v, "comment") /\ At(v, "comment").type = "string" /\ CommentOf(v) = At(v, "comment").text
      BY <1>2
    <2>2. PairAt(v, "comment") \in Range(v.pairs) /\ PairAt(v, "comment").key = String("comment")
            /\ At(v, "comment") = PairAt(v, "comment").value
      BY <2>1, HadIsPair
    <2> QED
      BY <2>1, <2>2
  <1> QED
    BY <1>1, <1>2, <1>3, <1>4

LEMMA EntryTold ==
  ASSUME NEW v \in Json2, NEW x, Spells(Plain(v), x), CommentFindings(v) = {},
         NEW e, e.strings = x.strings, e.comment = CommentOf(v), DOMAIN e.strings # {}
  PROVE  TellsEntry({Null}, v, None, e)
  <1>1. v.type = "mapping" /\ Plain(v).type = "mapping"
    <2>1. Plain(v).type = "mapping"
      BY DEF Spells
    <2>2. v \in Values(Json({}))
      BY JsonParts DEF Json2
    <2> QED
      BY <2>1, <2>2, PlainIs
  <1>2. /\ v.pairs \in Seq(PairsOf(Json({}))) /\ UniqueKeys(v.pairs) /\ v \in Values(Json({}))
        /\ \A q \in Range(v.pairs) :
             /\ q.note = None /\ q.key = String(q.key.text)
             /\ q.value.type = "null" => q.value = Null /\ ~Branching(q.value)
             /\ q.value.type = "string" => q.value = String(q.value.text) /\ ~Branching(q.value)
             /\ IsNull(q) <=> q.value.type = "null"
    <2>1. Json({}) \in {Json({}), Json2} /\ v \in Json(Json({}))
      BY DEF Json2
    <2> QED
      BY <1>1, <2>1, EntryPairs
  <1>3. {p \in Range(v.pairs) : ~NullOrComment(p)} =
          {Pair(String(k), String(e.strings[k]), None) : k \in DOMAIN e.strings}
    BY <1>1, <1>2, PlainIs DEF Spells
  <1>4. \A q \in Range(v.pairs) :
          \/ q.value.type = "null" \/ q.key = String("comment")
          \/ \E k \in DOMAIN e.strings : q.key.text = k /\ q.value = String(e.strings[k])
    <2> SUFFICES ASSUME NEW q \in Range(v.pairs), q.value.type # "null", q.key # String("comment")
                 PROVE  \E k \in DOMAIN e.strings : q.key.text = k /\ q.value = String(e.strings[k])
      OBVIOUS
    <2>1. ~NullOrComment(q)
      BY DEF NullOrComment, IsNull
    <2>2. PICK k \in DOMAIN e.strings : q = Pair(String(k), String(e.strings[k]), None)
      BY <1>3, <2>1
    <2>3. q.key = String(k) /\ q.value = String(e.strings[k])
      BY <2>2, PairIs
    <2> QED
      BY <2>3, StringLeaf
  <1>5. \A k \in DOMAIN e.strings : \E q \in Range(v.pairs) :
          q.key.text = k /\ q.value = String(e.strings[k])
    <2> TAKE k \in DOMAIN e.strings
    <2>1. Pair(String(k), String(e.strings[k]), None) \in Range(v.pairs)
      BY <1>3
    <2> QED
      BY <2>1, PairIs, StringLeaf
  <1>6. v.pairs # <<>>
    BY <1>5, EmptyList
  <1>7. /\ \A q \in Range(v.pairs) : q.key = String("comment") =>
             /\ q.value.type \in {"null", "string"}
             /\ q.value.type = "string" => CommentOf(v) = q.value.text
             /\ q.value.type # "string" => CommentOf(v) = None
        /\ CommentOf(v) # None =>
             \E q \in Range(v.pairs) : /\ q.key = String("comment") /\ q.value.type = "string"
                                       /\ q.value.text = CommentOf(v)
    BY <1>1, <1>2, CommentClean
  <1>8. \A q \in Range(v.pairs) : ~Branching(q.value) /\ q.note = None
    <2> TAKE q \in Range(v.pairs)
    <2>1. q.value.type \in {"null", "string"}
      BY <1>4, <1>7, StringLeaf
    <2> QED
      BY <1>2, <2>1
  <1>9. {r \in Rows(v, None) : r[2] \notin {Null}} = EntryRows(e)
    <2>1. Null.type = "null" /\ \A t : String(t) # Null
      BY NullableIs, StringLeaf
    <2>2. ASSUME NEW r \in Rows(v, None), r[2] # Null PROVE r \in EntryRows(e)
      <3>1. PICK q \in Range(v.pairs) : r = <<q.key.text, q.value>>
        BY <2>2 DEF Rows, NoteRow
      <3>2. q.value.type # "null"
        BY <1>2, <2>2, <3>1
      <3>3. CASE q.key = String("comment")
        <4>1. q.value = String(q.value.text) /\ CommentOf(v) = q.value.text /\ q.key.text = "comment"
          BY <1>2, <1>7, <3>2, <3>3, StringLeaf
        <4>2. CASE CommentOf(v) = None
          \* None is no text of a string.
          <5>1. q.value \in Json({})
            <6>1. q \in PairsOf(Json({}))
              BY <1>2, ListProperties
            <6> QED
              BY <6>1 DEF PairsOf
          <5>2. q.value.type \in ScalarTypes
            BY <1>7, <3>2, <3>3 DEF ScalarTypes
          <5>3. q.value.text \in Texts
            BY <5>1, <5>2, JsonDepths, ValueParts
          <5> QED
            BY <4>1, <4>2, <5>3, NotesAreTexts
        <4>3. CASE CommentOf(v) # None
          BY <3>1, <4>1, <4>3 DEF EntryRows, NoteRow
        <4> QED
          BY <4>2, <4>3
      <3>4. CASE q.key # String("comment")
        <4>1. PICK k \in DOMAIN e.strings : q.key.text = k /\ q.value = String(e.strings[k])
          BY <1>4, <3>2, <3>4
        <4> QED
          BY <3>1, <4>1 DEF EntryRows
      <3> QED
        BY <3>3, <3>4
    <2>3. ASSUME NEW r \in EntryRows(e) PROVE r \in Rows(v, None) /\ r[2] # Null
      <3>1. CASE r \in {<<k, String(e.strings[k])>> : k \in DOMAIN e.strings}
        <4>1. PICK k \in DOMAIN e.strings : r = <<k, String(e.strings[k])>>
          BY <3>1
        <4>2. PICK q \in Range(v.pairs) : q.key.text = k /\ q.value = String(e.strings[k])
          BY <1>5
        <4> QED
          BY <2>1, <4>1, <4>2 DEF Rows
      <3>2. CASE r \in NoteRow(e.comment)
        <4>1. CommentOf(v) # None /\ r = <<"comment", String(CommentOf(v))>>
          BY <3>2 DEF NoteRow
        <4>2. PICK q \in Range(v.pairs) : /\ q.key = String("comment") /\ q.value.type = "string"
                                          /\ q.value.text = CommentOf(v)
          BY <1>7, <4>1
        <4>3. q.key.text = "comment" /\ q.value = String(CommentOf(v))
          BY <1>2, <4>2, StringLeaf
        <4> QED
          BY <2>1, <4>1, <4>2, <4>3 DEF Rows
      <3> QED
        BY <2>3, <3>1, <3>2 DEF EntryRows
    <2>4. \A z : z \in {r \in Rows(v, None) : r[2] \notin {Null}} <=> z \in EntryRows(e)
      BY <2>2, <2>3
    <2> QED
      BY <2>4
  <1> QED
    BY <1>1, <1>6, <1>8, <1>9 DEF TellsEntry

LEMMA WireTold ==
  ASSUME NEW S \in {Json({}), Json2}, NEW v \in Json(S), NEW e, Spells(Without(v, IsNull), e), e.comment = None, DOMAIN e.strings # {}
  PROVE  TellsEntry({Null}, v, None, e)
  <1>1. v.type = "mapping"
    <2>1. Without(v, IsNull).type = "mapping"
      BY DEF Spells
    <2>2. v \in Values(S)
      BY JsonParts
    <2> QED
      BY <2>1, <2>2, WithoutNulls
  <1>2. /\ v.pairs \in Seq(PairsOf(S)) /\ UniqueKeys(v.pairs) /\ v \in Values(S)
        /\ \A q \in Range(v.pairs) :
             /\ q.note = None /\ q.key = String(q.key.text)
             /\ q.value.type = "null" => q.value = Null /\ ~Branching(q.value)
             /\ q.value.type = "string" => q.value = String(q.value.text) /\ ~Branching(q.value)
             /\ IsNull(q) <=> q.value.type = "null"
    BY <1>1, EntryPairs
  <1>3. {p \in Range(v.pairs) : ~IsNull(p)} =
          {Pair(String(k), String(e.strings[k]), None) : k \in DOMAIN e.strings}
    BY <1>1, <1>2, WithoutNulls DEF Spells
  <1>4. \A q \in Range(v.pairs) : q.value.type # "null" =>
          \E k \in DOMAIN e.strings : q.key.text = k /\ q.value = String(e.strings[k])
    <2> SUFFICES ASSUME NEW q \in Range(v.pairs), q.value.type # "null"
                 PROVE  \E k \in DOMAIN e.strings : q.key.text = k /\ q.value = String(e.strings[k])
      OBVIOUS
    <2>1. ~IsNull(q)
      BY DEF IsNull
    <2>2. PICK k \in DOMAIN e.strings : q = Pair(String(k), String(e.strings[k]), None)
      BY <1>3, <2>1
    <2>3. q.key = String(k) /\ q.value = String(e.strings[k])
      BY <2>2, PairIs
    <2> QED
      BY <2>3, StringLeaf
  <1>5. \A k \in DOMAIN e.strings : \E q \in Range(v.pairs) :
          q.key.text = k /\ q.value = String(e.strings[k])
    <2> TAKE k \in DOMAIN e.strings
    <2>1. Pair(String(k), String(e.strings[k]), None) \in Range(v.pairs)
      BY <1>3
    <2> QED
      BY <2>1, PairIs, StringLeaf
  <1>6. v.pairs # <<>>
    BY <1>5, EmptyList
  <1>8. \A q \in Range(v.pairs) : ~Branching(q.value) /\ q.note = None
    BY <1>2, <1>4, StringLeaf
  <1>9. {r \in Rows(v, None) : r[2] \notin {Null}} = EntryRows(e)
    <2>1. Null.type = "null" /\ \A t : String(t) # Null
      BY NullableIs, StringLeaf
    <2>2. ASSUME NEW r \in Rows(v, None), r[2] # Null PROVE r \in EntryRows(e)
      <3>1. PICK q \in Range(v.pairs) : r = <<q.key.text, q.value>>
        BY <2>2 DEF Rows, NoteRow
      <3>2. q.value.type # "null"
        BY <1>2, <2>2, <3>1
      <3>3. PICK k \in DOMAIN e.strings : q.key.text = k /\ q.value = String(e.strings[k])
        BY <1>4, <3>2
      <3> QED
        BY <3>1, <3>3 DEF EntryRows
    <2>3. ASSUME NEW r \in EntryRows(e) PROVE r \in Rows(v, None) /\ r[2] # Null
      <3>1. PICK k \in DOMAIN e.strings : r = <<k, String(e.strings[k])>>
        BY <2>3 DEF EntryRows, NoteRow
      <3>2. PICK q \in Range(v.pairs) : q.key.text = k /\ q.value = String(e.strings[k])
        BY <1>5
      <3> QED
        BY <2>1, <3>1, <3>2 DEF Rows
    <2>4. \A z : z \in {r \in Rows(v, None) : r[2] \notin {Null}} <=> z \in EntryRows(e)
      BY <2>2, <2>3
    <2> QED
      BY <2>4
  <1> QED
    BY <1>1, <1>6, <1>8, <1>9 DEF TellsEntry

LEMMA InputClean ==
  ASSUME NEW doc, doc.type = "mapping", BindingInputFindings(doc) = {}
  PROVE  /\ CommentFindings(doc) = {} /\ BindingFindings(StrippedBinding(doc)) = {}
         /\ \A k \in {"locators", "asserted_by"} : HasA(doc, k, "list") =>
              \A i \in Range(At(doc, k).items) : CommentFindings(i.value) = {}
         /\ HasA(doc, "fields", "mapping") =>
              \A p \in Range(At(doc, "fields").pairs) : CommentFindings(p.value) = {}
  <1> DEFINE items(k) == IF HasA(doc, k, "list") THEN {i.value : i \in Range(At(doc, k).items)} ELSE {}
             fields == IF HasA(doc, "fields", "mapping")
                         THEN {p.value : p \in Range(At(doc, "fields").pairs)} ELSE {}
             seen == {doc} \cup items("locators") \cup items("asserted_by") \cup fields
  <1>1. BindingFindings(StrippedBinding(doc)) = {} /\ UNION {CommentFindings(x) : x \in seen} = {}
    BY DEF BindingInputFindings
  <1>2. \A x \in seen : CommentFindings(x) = {}
    <2> HIDE DEF seen
    <2> QED
      BY <1>1
  <1>3. \A k \in {"locators", "asserted_by"} : items(k) \subseteq seen
    OBVIOUS
  <1>4. doc \in seen /\ fields \subseteq seen
    OBVIOUS
  <1>5. \A k : HasA(doc, k, "list") => \A i \in Range(At(doc, k).items) : i.value \in items(k)
    OBVIOUS
  <1>6. HasA(doc, "fields", "mapping") => \A p \in Range(At(doc, "fields").pairs) : p.value \in fields
    OBVIOUS
  <1> HIDE DEF items, fields, seen
  <1>7. \A k \in {"locators", "asserted_by"} : HasA(doc, k, "list") =>
           \A i \in Range(At(doc, k).items) : CommentFindings(i.value) = {}
    BY <1>2, <1>3, <1>5
  <1>8. HasA(doc, "fields", "mapping") =>
           \A p \in Range(At(doc, "fields").pairs) : CommentFindings(p.value) = {}
    BY <1>2, <1>4, <1>6
  <1> QED
    BY <1>1, <1>2, <1>4, <1>7, <1>8

LEMMA ReattachedIs ==
  ASSUME NEW node, NEW C, NEW s \in Seq(EntryType(node, C)), NEW c \in Seq(TextOrNone),
         DOMAIN c = DOMAIN s
  PROVE  LET t == Reattached(s, c)
         IN  /\ DOMAIN t = DOMAIN s
             /\ \A n \in DOMAIN s : t[n].strings = s[n].strings /\ t[n].comment = c[n]
  <1>1. Len(s) = Len(c)
    BY ListProperties
  <1>2. Reattached(s, c) = [n \in DOMAIN s |-> [s[n] EXCEPT !.comment = c[n]]]
    BY <1>1 DEF Reattached
  <1>3. \A n \in DOMAIN s : s[n] \in EntryType(node, C)
    BY ListProperties
  <1>4. \A e \in EntryType(node, C) : \A z :
          [e EXCEPT !.comment = z].strings = e.strings /\ [e EXCEPT !.comment = z].comment = z
    BY DEF EntryType
  <1>5. DOMAIN Reattached(s, c) = DOMAIN s
    BY <1>2
  <1>6. \A n \in DOMAIN s : Reattached(s, c)[n] = [s[n] EXCEPT !.comment = c[n]]
    BY <1>2
  <1>7. ASSUME NEW n \in DOMAIN s
        PROVE  Reattached(s, c)[n].strings = s[n].strings /\ Reattached(s, c)[n].comment = c[n]
    <2>1. s[n] \in EntryType(node, C)
      BY <1>3
    <2>2. [s[n] EXCEPT !.comment = c[n]].strings = s[n].strings /\ [s[n] EXCEPT !.comment = c[n]].comment = c[n]
      BY <1>4, <2>1
    <2> QED
      BY <1>6, <2>2
  <1> QED
    BY <1>5, <1>7

LEMMA ListTold ==
  ASSUME NEW w \in Json3, w.type = "list", \A i \in Range(w.items) : CommentFindings(i.value) = {},
         NEW s, SpellsEntries(PlainItems(w.items), s),
         NEW C, NEW t \in Seq(C), DOMAIN t = DOMAIN s, Telling(t),
         \A n \in DOMAIN s : /\ t[n].strings = s[n].strings
                             /\ t[n].comment = CommentOf(w.items[n].value)
  PROVE  TellsList({Null}, w, t)
  <1>1. /\ w.items \in Seq(ItemsOf(Json2)) /\ w = List(w.items)
        /\ \A n \in DOMAIN w.items : /\ w.items[n] \in Range(w.items) /\ w.items[n].note = None
                                     /\ w.items[n].value \in Json2
    BY SectionParts
  <1>2. PlainItems(w.items).items = [n \in DOMAIN w.items |-> Item(Plain(w.items[n].value), None)]
    BY DEF PlainItems, List
  <1>3. DOMAIN w.items = DOMAIN s /\ \A n \in DOMAIN s : Spells(Plain(w.items[n].value), s[n])
    <2> DEFINE g == PlainItems(w.items).items
    <2>1. DOMAIN g = DOMAIN s /\ \A n \in DOMAIN s : Spells(g[n].value, s[n])
      BY DEF SpellsEntries
    <2>2. DOMAIN g = DOMAIN w.items /\ \A n \in DOMAIN w.items : g[n] = Item(Plain(w.items[n].value), None)
      BY <1>2
    <2>3. \A z : Item(z, None).value = z
      BY DEF Item
    <2> HIDE DEF g
    <2> QED
      BY <2>1, <2>2, <2>3
  <1>4. \A n \in DOMAIN t : t[n] \in Range(t)
    BY ListProperties
  <1>5. \A n \in DOMAIN t : DOMAIN t[n].strings # {}
    BY <1>4 DEF Telling
  <1>6. ASSUME NEW n \in DOMAIN t
        PROVE  TellsEntry({Null}, w.items[n].value, w.items[n].note, t[n])
    <2>1. w.items[n].value \in Json2 /\ w.items[n].note = None /\ CommentFindings(w.items[n].value) = {}
      BY <1>1, <1>3
    <2>2. Spells(Plain(w.items[n].value), s[n]) /\ t[n].strings = s[n].strings
            /\ t[n].comment = CommentOf(w.items[n].value) /\ DOMAIN t[n].strings # {}
      BY <1>3, <1>5
    <2> QED
      BY <2>1, <2>2, EntryTold
  <1>7. w.items = <<>> <=> t = <<>>
    BY <1>1, <1>3, SameDomain
  <1> QED
    BY <1>1, <1>3, <1>6, <1>7 DEF TellsList

LEMMA FieldsTold ==
  ASSUME NEW w \in Json3, w.type = "mapping", \A p \in Range(w.pairs) : CommentFindings(p.value) = {},
         NEW s, SpellsFields(PlainPairs(w.pairs), s),
         NEW C, NEW t \in Seq(C), t # <<>>, DOMAIN t = DOMAIN s,
         \A n \in DOMAIN s :
           /\ t[n].key = s[n].key /\ t[n].value.strings = s[n].value.strings
           /\ t[n].value.comment = CommentOf(At(w, s[n].key))
           /\ DOMAIN t[n].value.strings # {}
  PROVE  TellsFields({Null}, w, t)
  <1>1. /\ w.pairs \in Seq(PairsOf(Json2)) /\ UniqueKeys(w.pairs)
        /\ \A n \in DOMAIN w.pairs :
             /\ w.pairs[n] \in Range(w.pairs) /\ w.pairs[n].note = None
             /\ IsString(w.pairs[n].key) /\ w.pairs[n].key \in Scalars
             /\ w.pairs[n].value \in Json2
    BY SectionParts
  <1>2. PlainPairs(w.pairs).pairs = [n \in DOMAIN w.pairs |-> Pair(w.pairs[n].key, Plain(w.pairs[n].value), None)]
    BY DEF PlainPairs, Mapping
  <1>3. DOMAIN w.pairs = DOMAIN s
          /\ \A n \in DOMAIN s : w.pairs[n].key.text = s[n].key /\ Spells(Plain(w.pairs[n].value), s[n].value)
    <2> DEFINE g == PlainPairs(w.pairs).pairs
    <2>1. DOMAIN g = DOMAIN s /\ \A n \in DOMAIN s : g[n].key.text = s[n].key /\ Spells(g[n].value, s[n].value)
      BY DEF SpellsFields
    <2>2. DOMAIN g = DOMAIN w.pairs
            /\ \A n \in DOMAIN w.pairs : g[n] = Pair(w.pairs[n].key, Plain(w.pairs[n].value), None)
      BY <1>2
    <2> HIDE DEF g
    <2>3. \A n \in DOMAIN w.pairs : g[n].key = w.pairs[n].key /\ g[n].value = Plain(w.pairs[n].value)
      BY <2>2, PairIs
    <2> QED
      BY <2>1, <2>2, <2>3
  <1>4. \A z \in Scalars : IsString(z) => z = String(z.text)
    BY DEF Scalars, IsString, String, Scalar
  <1>5. \A n \in DOMAIN s : At(w, s[n].key) = w.pairs[n].value
    <2> TAKE n \in DOMAIN s
    <2>1. w.pairs[n].key = String(s[n].key) /\ w.pairs[n] \in Range(w.pairs)
      BY <1>1, <1>3, <1>4
    <2> QED
      BY <1>1, <2>1, OnePairAt
  <1>6. ASSUME NEW n \in DOMAIN t
        PROVE  TellsEntry({Null}, w.pairs[n].value, w.pairs[n].note, t[n].value)
    <2>1. w.pairs[n].value \in Json2 /\ w.pairs[n].note = None /\ CommentFindings(w.pairs[n].value) = {}
      BY <1>1, <1>3
    <2>2. /\ Spells(Plain(w.pairs[n].value), s[n].value) /\ t[n].value.strings = s[n].value.strings
          /\ t[n].value.comment = CommentOf(w.pairs[n].value) /\ DOMAIN t[n].value.strings # {}
      BY <1>3, <1>5
    <2> QED
      BY <2>1, <2>2, EntryTold
  <1>7. w.pairs # <<>>
    BY <1>1, <1>3, SameDomain
  <1> QED
    BY <1>3, <1>6, <1>7 DEF TellsFields

LEMMA DocumentLists ==
  ASSUME NEW doc \in InputDocuments, doc.type = "mapping", InputFindings(doc) = {},
         NEW k \in {"locators", "asserted_by"}, Has(StrippedBinding(doc), k),
         At(StrippedBinding(doc), k).type = "list",
         NEW C, NEW s \in Seq(EntryType(IF k = "locators" THEN "locator" ELSE "assertion", C)),
         SpellsEntries(At(StrippedBinding(doc), k), s),
         NEW t, t = Reattached(s, Comments(doc, k)), NEW T, t \in Seq(T), Telling(t)
  PROVE  TellsList({Null}, At(doc, k), t)
  <1> DEFINE w == At(doc, k)
  <1>1. BindingInputFindings(doc) = {}
    BY DEF InputFindings
  <1>2. k \in SectionKeys
    BY DEF SectionKeys
  <1>3. /\ w \in Json3 /\ Has(doc, k) /\ w.type = "list"
        /\ At(StrippedBinding(doc), k) = PlainItems(w.items)
    BY <1>2, StrippedSection
  <1>4. HasA(doc, k, "list") /\ doc \in DocumentValues
    BY <1>3, DocumentParts DEF HasA
  <1>5. \A i \in Range(w.items) : CommentFindings(i.value) = {}
    BY <1>1, <1>4, InputClean
  <1>6. Comments(doc, k) \in Seq(TextOrNone)
          /\ Comments(doc, k) = [n \in DOMAIN w.items |-> CommentOf(w.items[n].value)]
    BY <1>4, CommentsTyped
  <1>7. PlainItems(w.items).items = [n \in DOMAIN w.items |-> Item(Plain(w.items[n].value), None)]
    BY DEF PlainItems, List
  <1>8. DOMAIN w.items = DOMAIN s
    BY <1>3, <1>7 DEF SpellsEntries
  <1>9. DOMAIN Comments(doc, k) = DOMAIN s
    BY <1>6, <1>8
  <1>10. /\ DOMAIN t = DOMAIN s
         /\ \A n \in DOMAIN s : t[n].strings = s[n].strings /\ t[n].comment = Comments(doc, k)[n]
    BY <1>6, <1>9, ReattachedIs
  <1>11. \A n \in DOMAIN s : t[n].comment = CommentOf(w.items[n].value)
    BY <1>6, <1>8, <1>10
  <1> HIDE DEF w
  <1>12. TellsList({Null}, w, t)
    BY <1>3, <1>5, <1>10, <1>11, ListTold
  <1> QED
    BY <1>12 DEF w

LEMMA DocumentFields ==
  ASSUME NEW doc \in InputDocuments, doc.type = "mapping", InputFindings(doc) = {},
         Has(StrippedBinding(doc), "fields"), At(StrippedBinding(doc), "fields").type = "mapping",
         NEW C, NEW s \in DictsOf(Texts, EntryType("field_locator", C)),
         SpellsFields(At(StrippedBinding(doc), "fields"), s),
         NEW t, t = Recommented(doc, s), NEW T, t \in Seq(T), t # <<>>,
         \A n \in DOMAIN t : DOMAIN t[n].value.strings # {}
  PROVE  TellsFields({Null}, At(doc, "fields"), t)
  <1> DEFINE w == At(doc, "fields")
  <1>1. BindingInputFindings(doc) = {}
    BY DEF InputFindings
  <1>2. "fields" \in SectionKeys
    BY DEF SectionKeys
  <1>3. /\ w \in Json3 /\ Has(doc, "fields") /\ w.type = "mapping"
        /\ At(StrippedBinding(doc), "fields") = PlainPairs(w.pairs)
    BY <1>2, StrippedSection
  <1>4. HasA(doc, "fields", "mapping")
    BY <1>3 DEF HasA
  <1>5. \A p \in Range(w.pairs) : CommentFindings(p.value) = {}
    BY <1>1, <1>4, InputClean
  <1>6. s \in Seq([key : Texts, value : EntryType("field_locator", C)])
    BY DEF DictsOf
  <1>7. \A n \in DOMAIN s : s[n] \in [key : Texts, value : EntryType("field_locator", C)]
    BY <1>6, ListProperties
  <1>8. DOMAIN t = DOMAIN s /\ \A n \in DOMAIN s :
          t[n] = [s[n] EXCEPT !.value.comment = CommentOf(At(w, s[n].key))]
    BY DEF Recommented, FieldComment
  <1>9. \A e \in [key : Texts, value : EntryType("field_locator", C)] : \A z :
          LET x == [e EXCEPT !.value.comment = z]
          IN  x.key = e.key /\ x.value.strings = e.value.strings /\ x.value.comment = z
    BY DEF EntryType
  <1>10. ASSUME NEW n \in DOMAIN s
         PROVE  /\ t[n].key = s[n].key /\ t[n].value.strings = s[n].value.strings
                /\ t[n].value.comment = CommentOf(At(w, s[n].key))
                /\ DOMAIN t[n].value.strings # {}
    <2> DEFINE z == CommentOf(At(w, s[n].key))
    <2>1. s[n] \in [key : Texts, value : EntryType("field_locator", C)] /\ t[n] = [s[n] EXCEPT !.value.comment = z]
      BY <1>7, <1>8
    <2>2. DOMAIN t[n].value.strings # {}
      BY <1>8
    <2> HIDE DEF z
    <2> DEFINE x == [s[n] EXCEPT !.value.comment = z]
    <2>4. x.key = s[n].key /\ x.value.strings = s[n].value.strings /\ x.value.comment = z
      BY <1>9, <2>1
    <2>5. t[n] = x
      BY <2>1
    <2> HIDE DEF x
    <2>3. t[n].key = s[n].key /\ t[n].value.strings = s[n].value.strings /\ t[n].value.comment = z
      BY <2>4, <2>5
    <2> QED
      BY <2>2, <2>3 DEF z
  <1> HIDE DEF w
  <1>11. TellsFields({Null}, w, t)
    BY <1>3, <1>5, <1>8, <1>10, FieldsTold
  <1> QED
    BY <1>11 DEF w

(* What an accepted document has for a section of the binding.             *)
LEMMA DocumentSections ==
  ASSUME NEW doc \in InputDocuments, doc.type = "mapping", InputFindings(doc) = {},
         NEW b, b = BindingInput(doc), NEW k \in SectionKeys
  PROVE  /\ Has(StrippedBinding(doc), k) => TellsSection({Null}, k, At(doc, k), b)
         /\ HasSection(b, k) => Has(StrippedBinding(doc), k)
  <1> DEFINE v == StrippedBinding(doc)
             c == Binding(v, CommentOf(doc))
             w == At(doc, k)
  <1>1. /\ GoodBinding(b) /\ SpellsBinding(v, c) /\ c \in BindingType(Note)
        /\ b = Reattaching(doc, c) /\ BindingInputFindings(doc) = {}
    BY DocumentSpelled
  <1> HIDE DEF c, v
  <1>2. /\ b.locators = Reattached(c.locators, Comments(doc, "locators")) /\ b.compare_via = c.compare_via
        /\ b.fields = (IF c.fields = None THEN None ELSE Recommented(doc, c.fields)) /\ b.wire = c.wire
        /\ b.asserted_by = IF c.asserted_by = None THEN None
                           ELSE Reattached(c.asserted_by, Comments(doc, "asserted_by"))
    BY <1>1 DEF Reattaching
  <1>3. /\ c.locators \in Seq(EntryType("locator", Note))
        /\ c.fields \in DictsOf(Texts, EntryType("field_locator", Note)) \cup {None}
        /\ c.asserted_by \in Seq(EntryType("assertion", Note)) \cup {None}
        /\ c.compare_via \in TextOrNone
        /\ c.wire \in EntryType("wire", {None}) \cup {None}
    BY <1>1 DEF BindingType
  <1>4. /\ Telling(b.locators)
        /\ b.fields # None => b.fields # <<>> /\ \A n \in DOMAIN b.fields : DOMAIN b.fields[n].value.strings # {}
        /\ b.wire # None => DOMAIN b.wire.strings # {} /\ b.wire.comment = None
        /\ b.asserted_by # None => b.asserted_by # <<>> /\ Telling(b.asserted_by)
    BY <1>1, BindingTelling
  <1>5. /\ b.locators \in Seq(EntryType("locator", Note))
        /\ b.fields \in DictsOf(Texts, EntryType("field_locator", Note)) \cup {None}
        /\ b.asserted_by \in Seq(EntryType("assertion", Note)) \cup {None}
    BY <1>1 DEF GoodBinding, BindingType
  <1>6. /\ Has(v, "locators") /\ SpellsEntries(At(v, "locators"), c.locators)
        /\ Has(v, "compare_via") <=> c.compare_via # None
        /\ c.compare_via # None => At(v, "compare_via") = String(c.compare_via)
        /\ Has(v, "fields") <=> c.fields # None
        /\ c.fields # None => SpellsFields(At(v, "fields"), c.fields)
        /\ Has(v, "wire") <=> c.wire # None
        /\ c.wire # None => Spells(At(v, "wire"), c.wire)
        /\ Has(v, "asserted_by") <=> c.asserted_by # None
        /\ c.asserted_by # None => SpellsEntries(At(v, "asserted_by"), c.asserted_by)
    BY <1>1 DEF SpellsBinding
  <1>7. \A u, s : SpellsEntries(u, s) => u.type = "list"
    BY DEF SpellsEntries
  <1>8. \A u, s : SpellsFields(u, s) => u.type = "mapping"
    BY DEF SpellsFields
  <1>9. CASE k = "locators"
    <2>1. TellsList({Null}, w, b.locators)
      <3>1. Has(StrippedBinding(doc), k) /\ At(StrippedBinding(doc), k).type = "list"
              /\ SpellsEntries(At(StrippedBinding(doc), k), c.locators)
        BY <1>6, <1>7, <1>9 DEF v
      <3>2. c.locators \in Seq(EntryType(IF k = "locators" THEN "locator" ELSE "assertion", Note))
        BY <1>3, <1>9
      <3>3. b.locators = Reattached(c.locators, Comments(doc, k))
        BY <1>2, <1>9
      <3> QED
        BY <1>4, <1>5, <1>9, <3>1, <3>2, <3>3, DocumentLists
    <2> QED
      BY <1>6, <1>9, <2>1 DEF TellsSection, HasSection, v
  <1>10. CASE k = "asserted_by"
    <2>1. ASSUME Has(v, "asserted_by")
          PROVE  b.asserted_by # None /\ TellsList({Null}, w, b.asserted_by)
      <3>0. c.asserted_by # None /\ c.asserted_by \in Seq(EntryType("assertion", Note))
        BY <1>3, <1>6, <2>1
      <3>1. Has(StrippedBinding(doc), k) /\ At(StrippedBinding(doc), k).type = "list"
              /\ SpellsEntries(At(StrippedBinding(doc), k), c.asserted_by)
        BY <1>6, <1>7, <1>10, <2>1 DEF v
      <3>2. c.asserted_by \in Seq(EntryType(IF k = "locators" THEN "locator" ELSE "assertion", Note))
        BY <1>10, <3>0
      <3>3. b.asserted_by = Reattached(c.asserted_by, Comments(doc, k))
        BY <1>2, <1>10, <3>0
      <3>4. b.asserted_by # None
        <4>1. b.asserted_by \in Seq(EntryType("assertion", TextOrNone))
          <5>1. c.asserted_by \in Seq(EntryType("assertion", TextOrNone))
            <6>1. EntryType("assertion", Note) \subseteq EntryType("assertion", TextOrNone)
              BY NotesAreTexts, EntryKinds DEF Nodes
            <6> QED
              BY <3>0, <6>1
          <5>2. Comments(doc, k) \in Seq(TextOrNone)
            BY CommentsTyped, DocumentParts
          <5> QED
            BY <3>3, <5>1, <5>2, ReattachedTyped DEF Nodes
        <4> QED
          BY <4>1, EntryKinds DEF Nodes
      <3>5. b.asserted_by \in Seq(EntryType("assertion", Note)) /\ Telling(b.asserted_by)
        BY <1>4, <1>5, <3>4
      <3> QED
        BY <1>10, <3>1, <3>2, <3>3, <3>4, <3>5, DocumentLists
    <2>2. b.asserted_by # None => Has(v, "asserted_by")
      BY <1>2, <1>6
    <2> QED
      BY <1>10, <2>1, <2>2 DEF TellsSection, HasSection, v
  <1>11. CASE k = "fields"
    <2>1. ASSUME Has(v, "fields")
          PROVE  b.fields # None /\ TellsFields({Null}, w, b.fields)
      <3>0. c.fields # None /\ c.fields \in DictsOf(Texts, EntryType("field_locator", Note))
        BY <1>3, <1>6, <2>1
      <3>1. Has(StrippedBinding(doc), "fields") /\ At(StrippedBinding(doc), "fields").type = "mapping"
              /\ SpellsFields(At(StrippedBinding(doc), "fields"), c.fields)
        BY <1>6, <1>8, <2>1 DEF v
      <3>3. b.fields = Recommented(doc, c.fields)
        BY <1>2, <3>0
      <3>4. b.fields # None
        <4>1. c.fields \in Seq([key : Texts, value : EntryType("field_locator", Note)])
          BY <3>0 DEF DictsOf
        <4>2. DOMAIN b.fields = DOMAIN c.fields /\ b.fields = [n \in DOMAIN b.fields |-> b.fields[n]]
          BY <3>3 DEF Recommented
        <4>3. \A n \in DOMAIN c.fields : b.fields[n] \in [key : Texts, value : EntryType("field_locator", TextOrNone)]
          <5> TAKE n \in DOMAIN c.fields
          <5>1. c.fields[n] \in [key : Texts, value : EntryType("field_locator", Note)]
            BY <4>1, ListProperties
          <5>2. b.fields[n] = [c.fields[n] EXCEPT !.value.comment = FieldComment(doc, c.fields[n].key)]
            BY <3>3 DEF Recommented
          <5>3. FieldComment(doc, c.fields[n].key) \in TextOrNone
            <6>1. HasA(StrippedBinding(doc), "fields", "mapping")
              BY <3>1 DEF HasA
            <6>2. At(doc, "fields").pairs \in Seq(PairsOf(EntryValues))
                    /\ At(StrippedBinding(doc), "fields") = PlainPairs(At(doc, "fields").pairs)
              BY <6>1, FieldSource
            <6>3. c.fields = Fields(At(StrippedBinding(doc), "fields").pairs)
              <7>1. v.type = "mapping" /\ HasA(v, "locators", "list") /\ HasA(v, "fields", "mapping")
                BY <1>1, <1>6, <1>7, <6>1 DEF SpellsBinding, HasA, v
              <7>2. c.fields = Fields(At(v, "fields").pairs)
                BY <7>1 DEF c, Binding
              <7> QED
                BY <7>2 DEF v
            <6>4. c.fields[n] \in Range(c.fields)
              BY <4>1, ListProperties
            <6>5. Has(At(doc, "fields"), c.fields[n].key)
              BY <6>1, <6>3, <6>4, FieldSource
            <6>6. At(At(doc, "fields"), c.fields[n].key) \in EntryValues
              BY <6>2, <6>5, AtValue
            <6> QED
              BY <6>6, CommentTyped, Layers DEF FieldComment
          <5> QED
            BY <5>1, <5>2, <5>3 DEF EntryType
        <4>4. b.fields \in Seq([key : Texts, value : EntryType("field_locator", TextOrNone)])
          <5> DEFINE A == [key : Texts, value : EntryType("field_locator", Note)]
                     B == [key : Texts, value : EntryType("field_locator", TextOrNone)]
          <5>1. c.fields \in Seq(A) /\ \A n \in DOMAIN c.fields : b.fields[n] \in B
            BY <4>1, <4>3
          <5> HIDE DEF A, B
          <5>2. b.fields \in Seq(B)
            BY <4>2, <5>1, MappedList
          <5> QED
            BY <5>2 DEF B
        <4>5. UniqueKeys(b.fields)
          <5>1. UniqueKeys(c.fields)
            BY <3>0 DEF DictsOf
          <5>2. \A n \in DOMAIN c.fields : b.fields[n].key = c.fields[n].key
            <6> TAKE n \in DOMAIN c.fields
            <6>1. c.fields[n] \in [key : Texts, value : EntryType("field_locator", Note)]
              BY <4>1, ListProperties
            <6>2. b.fields[n] = [c.fields[n] EXCEPT !.value.comment = FieldComment(doc, c.fields[n].key)]
              BY <3>3 DEF Recommented
            <6> QED
              BY <6>1, <6>2
          <5> QED
            BY <4>2, <5>1, <5>2 DEF UniqueKeys
        <4>6. b.fields \in DictsOf(Texts, EntryType("field_locator", TextOrNone))
          BY <4>4, <4>5 DEF DictsOf
        <4> QED
          BY <4>6, EntryKinds DEF Nodes
      <3>5. b.fields \in DictsOf(Texts, EntryType("field_locator", Note)) /\ b.fields # <<>>
              /\ \A n \in DOMAIN b.fields : DOMAIN b.fields[n].value.strings # {}
        BY <1>4, <1>5, <3>4
      <3>6. b.fields \in Seq([key : Texts, value : EntryType("field_locator", Note)])
        BY <3>5 DEF DictsOf
      <3>7. TellsFields({Null}, At(doc, "fields"), b.fields)
        BY <3>0, <3>1, <3>3, <3>5, <3>6, DocumentFields
      <3> QED
        BY <1>11, <3>4, <3>7
    <2>2. b.fields # None => Has(v, "fields")
      BY <1>2, <1>6
    <2> QED
      BY <1>11, <2>1, <2>2 DEF TellsSection, HasSection, v
  <1>12. CASE k = "wire"
    <2>1. ASSUME Has(v, "wire")
          PROVE  b.wire # None /\ TellsEntry({Null}, w, None, b.wire)
      <3>1. c.wire # None /\ Spells(At(v, "wire"), c.wire) /\ b.wire = c.wire
        BY <1>2, <1>6, <2>1
      <3>2. w \in Json3 /\ At(v, "wire") = Without(w, IsNull) /\ At(v, "wire").type = w.type
        BY <1>12, <2>1, StrippedSection DEF v
      <3>3. w.type = "mapping" /\ w \in Once(Json2)
        BY <3>1, <3>2, JsonOnce DEF Spells, Json3, Json2
      <3>4. DOMAIN b.wire.strings # {} /\ b.wire.comment = None
        BY <1>4, <3>1
      <3>5. TellsEntry({Null}, w, None, b.wire)
        <4>1. Json2 \in {Json({}), Json2} /\ w \in Json(Json2) /\ Spells(Without(w, IsNull), b.wire)
          BY <3>1, <3>2 DEF Json2, Json3
        <4> HIDE DEF w
        <4> QED
          BY <3>4, <4>1, WireTold
      <3> QED
        BY <3>1, <3>5
    <2>2. b.wire # None => Has(v, "wire")
      BY <1>2, <1>6
    <2> QED
      BY <1>12, <2>1, <2>2 DEF TellsSection, HasSection, v
  <1>13. CASE k = "compare_via"
    <2>1. ASSUME Has(v, "compare_via") PROVE b.compare_via # None /\ w = String(b.compare_via)
      <3>1. At(v, "compare_via") = w
        BY <1>13, <2>1, StrippedSection DEF v
      <3> QED
        BY <1>2, <1>6, <2>1, <3>1
    <2>2. b.compare_via # None => Has(v, "compare_via")
      BY <1>2, <1>6
    <2> QED
      BY <1>13, <2>1, <2>2 DEF TellsSection, HasSection, v
  <1> QED
    BY <1>9, <1>10, <1>11, <1>12, <1>13 DEF SectionKeys

LEMMA DocumentTells ==
  ASSUME NEW id, NEW doc \in InputDocuments, InputFindings(doc) = {}, ~UsageRefuses(id, doc),
         NEW b, b = BindingInput(doc)
  PROVE  TellsBinding({Null}, doc, None, b)
  <1> DEFINE v == StrippedBinding(doc)
             c == Binding(v, CommentOf(doc))
  <1>1. doc.type = "mapping"
    BY DEF UsageRefuses
  <1>2. /\ GoodBinding(b) /\ SpellsBinding(v, c) /\ b = Reattaching(doc, c)
        /\ c.comment = CommentOf(doc) /\ BindingInputFindings(doc) = {}
    BY <1>1, DocumentSpelled
  <1>3. b.comment = CommentOf(doc)
    BY <1>2 DEF Reattaching
  <1>4. CommentFindings(doc) = {}
    BY <1>1, <1>2, InputClean
  <1>5. /\ doc.pairs \in Seq(PairsOf(SectionValues)) /\ UniqueKeys(doc.pairs) /\ doc \in DocumentValues
        /\ \A p \in Range(doc.pairs) : IsString(p.key) /\ p.note = None /\ p.value \in Json3
    BY <1>1, DocumentParts DEF Json3
  <1>6. \A q \in Range(doc.pairs) :
          /\ q.key = String(q.key.text)
          /\ q.value.type = "null" => q.value = Null
          /\ q.value.type = "string" => q.value = String(q.value.text) /\ q.value.text \in Texts
    <2> TAKE q \in Range(doc.pairs)
    <2>1. q \in PairsOf(SectionValues) /\ IsString(q.key)
      BY <1>5, ListProperties
    <2>2. q.key \in Scalars /\ q.value \in SectionValues
      BY <2>1 DEF PairsOf
    <2>3. "null" \in ScalarTypes /\ "string" \in ScalarTypes
      BY DEF ScalarTypes
    <2>4. q.value.type \in {"null", "string"} => q.value \in Scalars /\ q.value.text \in Texts
      BY <2>2, <2>3, ValueParts, Layers
    <2>5. \A s \in Scalars : /\ IsString(s) => s = String(s.text)
                             /\ s.type = "string" => s = String(s.text)
                             /\ s.type = "null" => s = Null
      BY DEF Scalars, IsString, String, Scalar
    <2> QED
      BY <2>1, <2>2, <2>4, <2>5
  <1>7. /\ \A q \in Range(doc.pairs) : q.key = String("comment") =>
             /\ q.value.type \in {"null", "string"}
             /\ q.value.type = "string" => CommentOf(doc) = q.value.text
             /\ q.value.type # "string" => CommentOf(doc) = None
        /\ CommentOf(doc) # None =>
             \E q \in Range(doc.pairs) : /\ q.key = String("comment") /\ q.value.type = "string"
                                         /\ q.value.text = CommentOf(doc)
    BY <1>1, <1>4, <1>5, CommentClean
  <1>8. KeysOf(v) \subseteq {String(k) : k \in SectionKeys}
    BY <1>2 DEF SpellsBinding
  <1>9. Range(v.pairs) = {Pair(p.key, Stripped(p), None) : p \in Kept(doc)}
    BY <1>1, <1>5, StrippedBindingIs
  <1> HIDE DEF c, v
  <1>10. \A k \in SectionKeys : Has(v, k) => TellsSection({Null}, k, At(doc, k), b)
    BY <1>1, DocumentSections DEF v
  <1>11. ASSUME NEW q \in Range(doc.pairs)
         PROVE  /\ q.note = None
                /\ \/ q.value \in {Null}
                   \/ q.key.text \in Headings /\ ~Branching(q.value)
                   \/ q.key.text = "comment" /\ b.comment # None /\ q.value = String(b.comment)
                   \/ q.key.text \in SectionKeys /\ TellsSection({Null}, q.key.text, q.value, b)
    <2>1. CASE q.value.type = "null"
      BY <1>5, <1>6, <2>1
    <2>2. CASE q.value.type # "null" /\ q.key = String("comment")
      <3>1. q.value = String(q.value.text) /\ q.value.text \in Texts /\ CommentOf(doc) = q.value.text
        BY <1>6, <1>7, <2>2
      <3>2. q.key.text = "comment"
        BY <2>2, StringLeaf
      <3> QED
        BY <1>3, <1>5, <3>1, <3>2, NotesAreTexts
    <2>3. CASE q.value.type # "null" /\ q.key \in {String("id"), String("kind")}
      <3>1. PICK k \in {"id", "kind"} : q.key = String(k)
        BY <2>3
      <3>2. Has(doc, k) /\ At(doc, k) = q.value
        BY <1>5, <3>1, OnePairAt
      <3>3. q.value \in {Null, String(id), String(KindOf[id])}
        BY <3>1, <3>2 DEF UsageRefuses, Contradicts
      <3>4. ~Branching(q.value)
        <4>1. Null.type = "null"
          BY NullableIs
        <4>2. ~Branching(Null)
          BY <4>1 DEF Branching
        <4> QED
          BY <3>3, <4>2, StringLeaf
      <3>5. q.key.text \in Headings
        BY <3>1, StringLeaf DEF Headings
      <3> QED
        BY <1>5, <3>4, <3>5
    <2>4. CASE /\ q.value.type # "null" /\ q.key # String("comment")
               /\ q.key \notin {String("id"), String("kind")}
      <3>1. q \in Kept(doc)
        BY <2>4 DEF Kept, NullOrComment, IsNull
      <3>2. Pair(q.key, Stripped(q), None) \in Range(v.pairs)
        BY <1>9, <3>1
      <3>3. q.key \in KeysOf(v)
        BY <3>2, PairIs DEF KeysOf
      <3>4. PICK k \in SectionKeys : q.key = String(k)
        BY <1>8, <3>3
      <3>5. q.key.text = k /\ Has(v, k)
        BY <3>3, <3>4, StringLeaf DEF Has
      <3>6. At(doc, k) = q.value
        BY <1>5, <3>4, OnePairAt
      <3> QED
        BY <1>5, <1>10, <3>5, <3>6
    <2> QED
      BY <2>1, <2>2, <2>3, <2>4
  <1>12. ASSUME NEW k \in SectionKeys, HasSection(b, k)
         PROVE  \E q \in Range(doc.pairs) : q.key.text = k /\ TellsSection({Null}, k, q.value, b)
    <2>1. Has(StrippedBinding(doc), k)
      BY <1>1, <1>12, DocumentSections
    <2>2. /\ PairAt(doc, k) \in Range(doc.pairs) /\ PairAt(doc, k).key = String(k)
          /\ PairAt(doc, k).value = At(doc, k)
      BY <1>1, <2>1, StrippedSection
    <2>3. TellsSection({Null}, k, At(doc, k), b)
      BY <1>10, <2>1 DEF v
    <2> QED
      BY <2>2, <2>3, StringLeaf
  <1>13. b.comment # None =>
           \E q \in Range(doc.pairs) : q.key.text = "comment" /\ q.value = String(b.comment)
    BY <1>3, <1>6, <1>7, StringLeaf
  <1>14. doc.pairs # <<>>
    <2>1. "locators" \in SectionKeys /\ HasSection(b, "locators")
      BY DEF SectionKeys, HasSection
    <2>2. \E q \in Range(doc.pairs) : TRUE
      BY <1>12, <2>1
    <2> QED
      BY <2>2, EmptyList
  <1> QED
    BY <1>1, <1>11, <1>12, <1>13, <1>14 DEF TellsBinding

(* What an accepted document says is what the binding is that is made of   *)
(* it.                                                                     *)
LEMMA DocumentSays ==
  ASSUME NEW id, NEW doc \in InputDocuments, InputFindings(doc) = {}, ~UsageRefuses(id, doc),
         NEW b, b = BindingInput(doc)
  PROVE  Said(doc) = BindingSaid(<<>>, b)
  <1>1. TellsBinding({Null}, doc, None, b)
    BY DocumentTells
  <1>2. Leaves(doc) = Deep(5, <<>>, doc)
    BY LeavesDeep
  <1>3. Noted(<<>>, None) = {}
    BY DEF Noted
  <1>4. \A x : /\ x \in Deep(5, <<>>, doc) \/ x \in Noted(<<>>, None)
               /\ x[2] \notin {Null} /\ x[1] \notin {K(<<>>, k) : k \in Headings}
               <=> x \in BindingSaid(<<>>, b)
    <2> TAKE x
    <2> DEFINE D == {Null}
               p == <<>>
    <2>1. D \in SUBSET {Null} /\ 5 \in 3..5 /\ IsPath(p) /\ TellsBinding(D, doc, None, b)
      BY <1>1, EmptyPath
    <2> HIDE DEF D, p
    <2>2. /\ x \in Deep(5, p, doc) \/ x \in Noted(p, None)
          /\ x[2] \notin D /\ x[1] \notin {K(p, k) : k \in Headings}
          <=> x \in BindingSaid(p, b)
      BY <2>1, BindingDeep
    <2> QED
      BY <2>2 DEF D, p
  <1>5. {K(<<>>, k) : k \in Headings} = {KeyPath(<<"id">>), KeyPath(<<"kind">>)}
    <2>1. \A k : K(<<>>, k) = KeyPath(<<k>>)
      BY DEF K, KeyPath
    <2> QED
      BY <2>1 DEF Headings
  <1>6. \A x : x \in Said(doc) <=> x \in BindingSaid(<<>>, b)
    BY <1>2, <1>3, <1>4, <1>5 DEF Said
  <1> QED
    BY <1>6

LEMMA AnswerSays ==
  ASSUME NEW id \in IdTexts, NEW b, GoodBinding(b)
  PROVE  Said(BindingOut(id, b)) = BindingSaid(<<>>, b)
  <1>1. b \in BindingType(Note) /\ BindingRules(b, FALSE)
    BY DEF GoodBinding
  <1>2. /\ BindingInput(BindingOut(id, b)) = b /\ InputFindings(BindingOut(id, b)) = {}
        /\ ~UsageRefuses(id, BindingOut(id, b))
    BY <1>1, AnswerTakenBack
  <1>3. BindingOut(id, b) \in InputDocuments
    BY <1>1, BindingJson
  <1> QED
    BY <1>2, <1>3, DocumentSays

(***************************************************************************)
(* What a file says about a binding: the leaves under its ID.              *)
(***************************************************************************)
LEMMA DeepKeys ==
  ASSUME NEW n \in 0..4, NEW p, IsPath(p), NEW v, v.type = "mapping", v.pairs # <<>>,
         NEW x \in Deep(n + 1, p, v)
  PROVE  \E q \in Range(v.pairs) :
           /\ x \in Deep(n, K(p, q.key.text), q.value) \/ x \in Noted(K(p, q.key.text), q.note)
           /\ OfPath(K(p, q.key.text), x[1]) /\ OfPath(p, x[1])
           /\ Len(x[1]) >= Len(p) + 1 /\ x[1][Len(p) + 1] = AtKey(q.key.text)
  <1>1. PICK q \in Range(v.pairs) :
          x \in Deep(n, K(p, q.key.text), q.value) \/ x \in Noted(K(p, q.key.text), q.note)
    BY DeepPairs DEF K
  <1> DEFINE at == K(p, q.key.text)
  <1>2. IsPath(at) /\ OfPath(at, at)
    BY PathKey, OfItself
  <1>3. n \in 0..5
    OBVIOUS
  <1> HIDE DEF at
  <1>4. \A z \in Deep(n, at, q.value) : OfPath(at, z[1])
    BY <1>2, <1>3, EachMoves DEF Moves
  <1>5. \A z \in Noted(at, q.note) : OfPath(at, z[1])
    BY <1>2, NotedMoved
  <1>6. OfPath(at, x[1])
    BY <1>1, <1>4, <1>5 DEF at
  <1>7. /\ Len(x[1]) >= Len(p) + 1 /\ x[1][Len(p) + 1] = AtKey(q.key.text) /\ OfPath(p, x[1])
    BY <1>6, PathKey DEF at
  <1> QED
    BY <1>1, <1>6, <1>7 DEF at

LEMMA BindingLeaves ==
  ASSUME NEW v \in OnceBindings, NEW b, GoodBinding(b), SpellsBinding(v, b), NEW p, IsPath(p), NEW x
  PROVE  x \in Deep(3, p, v) \/ x \in Noted(p, b.comment) <=> x \in BindingSaid(p, b)
  <1> DEFINE D == {}
             at == Len(p) + 1
  <1>1. TellsBinding(D, v, b.comment, b)
    BY BindingTells
  <1>2. D \in SUBSET {Null} /\ 3 \in 3..5 /\ IsPath(p) /\ \A z : z \notin D
    OBVIOUS
  <1> HIDE DEF D
  <1>3. /\ x \in Deep(3, p, v) \/ x \in Noted(p, b.comment)
        /\ x[2] \notin D /\ x[1] \notin {K(p, k) : k \in Headings}
        <=> x \in BindingSaid(p, b)
    BY <1>1, <1>2, BindingDeep
  <1>4. v.type = "mapping" /\ v.pairs # <<>>
    BY <1>1 DEF TellsBinding
  <1>5. \A k \in Headings : K(p, k)[at] = AtKey(k)
    BY <1>2, PathKey
  <1>6. ASSUME x \in Deep(3, p, v) PROVE x[1] \notin {K(p, k) : k \in Headings}
    <2>1. 2 \in 0..4 /\ 2 + 1 = 3
      OBVIOUS
    <2>2. x \in Deep(2 + 1, p, v)
      BY <1>6, <2>1
    <2>3. PICK q \in Range(v.pairs) : x[1][Len(p) + 1] = AtKey(q.key.text)
      BY <1>2, <1>4, <2>1, <2>2, DeepKeys
    <2>4. x[1][at] = AtKey(q.key.text)
      BY <2>3
    <2>5. q.key.text \in SectionKeys
      <3>1. v.pairs \in Seq(PairsOf(OnceSections)) /\ UniqueKeys(v.pairs)
        BY <1>4, OnceParts DEF OnceBindings
      <3>2. KeysOf(v) \subseteq {String(k) : k \in SectionKeys}
        BY DEF SpellsBinding
      <3> QED
        BY <3>1, <3>2, PairIsHad
    <2> QED
      BY <1>5, <2>4, <2>5, KeysApart
  <1>7. ASSUME x \in Noted(p, b.comment) PROVE x[1] \notin {K(p, k) : k \in Headings}
    <2>1. x[1] = K(p, "comment")
      BY <1>7 DEF Noted, K
    <2>2. x[1][at] = AtKey("comment")
      BY <1>2, <2>1, PathKey
    <2> QED
      BY <1>5, <2>2, KeysApart
  <1>8. x \in Deep(3, p, v) \/ x \in Noted(p, b.comment) <=> x \in BindingSaid(p, b)
    BY <1>2, <1>3, <1>6, <1>7
  <1> QED
    BY <1>8

(* The place of a binding in a file.                                       *)
LEMMA BindingPlace ==
  ASSUME NEW id
  PROVE  LET p == K(K(<<>>, "bindings"), id)
         IN  /\ IsPath(p) /\ Len(p) = 2 /\ p[1] = AtKey("bindings") /\ p[2] = AtKey(id)
             /\ IsPath(K(<<>>, "bindings")) /\ Len(K(<<>>, "bindings")) = 1
             /\ \A r : Rest(p, r) = SubSeq(r, 3, Len(r))
  <1> DEFINE e == <<>>
             p1 == K(e, "bindings")
             p == K(p1, id)
  <1>1. IsPath(e) /\ Len(e) = 0
    BY EmptyPath
  <1> HIDE DEF e
  <1>2. IsPath(p1) /\ Len(p1) = 1 /\ p1[1] = AtKey("bindings")
    <2>1. IsPath(K(e, "bindings")) /\ Len(K(e, "bindings")) = Len(e) + 1
            /\ K(e, "bindings")[Len(e) + 1] = AtKey("bindings")
      BY <1>1, PathKey
    <2>2. Len(e) + 1 = 1
      BY <1>1
    <2> QED
      BY <2>1, <2>2
  <1> HIDE DEF p1
  <1>3. IsPath(p) /\ Len(p) = 2 /\ p[2] = AtKey(id) /\ OfPath(p1, p)
    <2>1. /\ IsPath(K(p1, id)) /\ OfPath(p1, K(p1, id)) /\ Len(K(p1, id)) = Len(p1) + 1
          /\ K(p1, id)[Len(p1) + 1] = AtKey(id)
      BY <1>2, PathKey
    <2>2. Len(p1) + 1 = 2
      BY <1>2
    <2> QED
      BY <2>1, <2>2
  <1>4. p[1] = AtKey("bindings")
    BY <1>2, <1>3 DEF OfPath
  <1> HIDE DEF p
  <1>5. \A r : Rest(p, r) = SubSeq(r, 3, Len(r))
    BY <1>3 DEF Rest
  <1> QED
    BY <1>2, <1>3, <1>4, <1>5 DEF p, p1, e

LEMMA FileSays ==
  ASSUME file \in ParsedFiles, NEW m, Good(m), SpellsMap(file, m), NEW id \in Keys(m.bindings),
         NEW b, b = BindingOf(m, id)
  PROVE  SaidOf(id) = BindingSaid(<<>>, b)
  <1> DEFINE e == <<>>
             root == file.root
             w == At(root, "bindings")
             p1 == K(e, "bindings")
             p == K(p1, id)
             c == b.comment
  <1>1. /\ root \in Once(OnceBlocks) /\ root.type = "mapping"
        /\ root.pairs \in Seq(PairsOf(OnceBlocks)) /\ UniqueKeys(root.pairs)
    <2>1. root \in Once(OnceBlocks) /\ root.type = "mapping"
      BY ParsedRoot
    <2> QED
      BY <2>1, OnceParts
  <1>2. /\ KeysOf(root) \subseteq {String(k) : k \in RootKeys} /\ Has(root, "bindings")
        /\ \A q \in Range(root.pairs) : q.key # String("coverage") => q.note = None
        /\ SpellsBindings(w, m.bindings)
    BY DEF SpellsMap, SpellsRest
  <1>3. w \in OnceBlocks /\ PairAt(root, "bindings") \in Range(root.pairs)
          /\ PairAt(root, "bindings").key = String("bindings") /\ w = PairAt(root, "bindings").value
    BY <1>1, <1>2, OnceParts
  <1>4. /\ m.bindings \in Seq([key : IdTexts, value : BindingType(Note)]) /\ UniqueKeys(m.bindings)
        /\ \A x \in Range(m.bindings) : x.key \in IdTexts /\ GoodBinding(x.value)
    BY GoodMaps
  <1>5. PICK y0 \in Range(m.bindings) : y0.key = id /\ b = y0.value
    BY LookupProperties DEF BindingOf
  <1>6. PICK i \in DOMAIN m.bindings : m.bindings[i].key = id /\ m.bindings[i].value = b
    BY <1>4, <1>5, ListProperties
  <1>7. GoodBinding(b)
    BY <1>4, <1>5
  <1>8. /\ w.type = "mapping" /\ DOMAIN w.pairs = DOMAIN m.bindings
        /\ \A n \in DOMAIN m.bindings :
             /\ w.pairs[n].key.text = m.bindings[n].key
             /\ SpellsBinding(w.pairs[n].value, m.bindings[n].value)
             /\ w.pairs[n].note = m.bindings[n].value.comment
    BY <1>2 DEF SpellsBindings
  <1>9. /\ w.pairs \in Seq(PairsOf(OnceBindings))
        /\ \A n \in DOMAIN w.pairs : w.pairs[n] \in Range(w.pairs)
        /\ \A q \in Range(w.pairs) : q.value \in OnceBindings
    BY <1>3, <1>8, OnceParts DEF OnceBlocks
  <1> DEFINE q0 == w.pairs[i]
             v == q0.value
  <1>10. q0 \in Range(w.pairs) /\ q0.key.text = id /\ v \in OnceBindings /\ SpellsBinding(v, b) /\ q0.note = c
    BY <1>6, <1>8, <1>9
  <1>11. \A q \in Range(w.pairs) : q.key.text = id => q = q0
    <2> SUFFICES ASSUME NEW q \in Range(w.pairs), q.key.text = id PROVE q = q0
      OBVIOUS
    <2>1. PICK n \in DOMAIN w.pairs : q = w.pairs[n]
      BY <1>9, ListProperties
    <2>2. m.bindings[n].key = m.bindings[i].key /\ n \in DOMAIN m.bindings
      BY <1>6, <1>8, <2>1
    <2> QED
      BY <1>4, <1>6, <2>1, <2>2 DEF UniqueKeys
  <1>12. v.type = "mapping" /\ v.pairs # <<>>
    <2>1. TellsBinding({}, v, c, b)
      BY <1>7, <1>10, BindingTells
    <2> QED
      BY <2>1 DEF TellsBinding
  <1>13. w.pairs # <<>> /\ root.pairs # <<>>
    BY <1>3, <1>10, EmptyList
  <1>14. /\ IsPath(p) /\ Len(p) = 2 /\ p[1] = AtKey("bindings") /\ p[2] = AtKey(id)
         /\ IsPath(p1) /\ Len(p1) = 1 /\ \A r : Rest(p, r) = SubSeq(r, 3, Len(r))
    BY BindingPlace
  <1>15. IsPath(e) /\ Len(e) = 0 /\ OfPath(p, p)
    BY <1>14, EmptyPath, OfItself
  <1>16. /\ 2 \in 0..4 /\ 3 \in 0..4 /\ 4 \in 0..4 /\ 2 + 1 = 3 /\ 3 + 1 = 4 /\ 4 + 1 = 5
         /\ 3 \in 0..5
    OBVIOUS
  <1>17. Contents(file) = Deep(5, e, root) \cup Noted(e, file.header)
    BY LeavesDeep DEF Contents
  <1>18. \A x : x \in Noted(e, file.header) => Len(x[1]) = 1
    <2>1. \A x \in Noted(e, file.header) : x[1] = K(e, "comment")
      BY DEF Noted, K
    <2>2. Len(K(e, "comment")) = Len(e) + 1
      BY <1>15, PathKey
    <2> HIDE DEF e
    <2> QED
      BY <1>15, <2>1, <2>2
  <1>19. p = K(p1, id) /\ p1 = K(e, "bindings")
    OBVIOUS
  <1> HIDE DEF e, root, w, p1, p, c, q0, v
  <1>20. \A x : x \in Deep(3, p, v) => OfPath(p, x[1]) /\ Len(x[1]) > 2
    <2> SUFFICES ASSUME NEW x \in Deep(3, p, v) PROVE OfPath(p, x[1]) /\ Len(x[1]) > 2
      OBVIOUS
    <2>1. x \in Deep(2 + 1, p, v)
      BY <1>16
    <2>2. OfPath(p, x[1]) /\ Len(x[1]) >= Len(p) + 1
      BY <1>12, <1>14, <1>16, <2>1, DeepKeys
    <2>3. Len(x[1]) \in Nat
      BY <2>2 DEF OfPath, IsPath
    <2> QED
      BY <1>14, <2>2, <2>3
  <1>21. \A x : x \in Noted(p, c) => OfPath(p, x[1]) /\ Len(x[1]) > 2
    <2> SUFFICES ASSUME NEW x \in Noted(p, c) PROVE OfPath(p, x[1]) /\ Len(x[1]) > 2
      OBVIOUS
    <2>1. x[1] = K(p, "comment")
      BY DEF Noted, K
    <2>2. Len(K(p, "comment")) = Len(p) + 1 /\ OfPath(p, K(p, "comment"))
      BY <1>14, PathKey
    <2>3. Len(K(p, "comment")) = 3
      BY <1>14, <1>16, <2>2
    <2>4. Len(x[1]) = 3 /\ OfPath(p, x[1])
      BY <2>1, <2>2, <2>3
    <2>5. 3 > 2
      OBVIOUS
    <2> QED
      BY <2>4, <2>5
  <1>22. ASSUME NEW x, x \in Deep(3, p, v) \/ x \in Noted(p, c)
         PROVE  /\ x \in Contents(file) /\ Len(x[1]) > 2
                /\ x[1][1] = AtKey("bindings") /\ x[1][2] = AtKey(id) /\ x = <<x[1], x[2]>>
    <2>1. OfPath(p, x[1]) /\ Len(x[1]) > 2
      BY <1>20, <1>21, <1>22
    <2>2. x[1][1] = AtKey("bindings") /\ x[1][2] = AtKey(id)
      BY <1>14, <2>1 DEF OfPath
    <2>3. x \in Deep(3 + 1, p1, w)
      <3>1. x \in Deep(3, K(p1, q0.key.text), q0.value) \/ x \in Noted(K(p1, q0.key.text), q0.note)
        BY <1>10, <1>19, <1>22 DEF v
      <3> QED
        BY <1>8, <1>10, <1>13, <1>16, <3>1, DeepPairs DEF K
    <2>4. x \in Deep(4 + 1, e, root)
      <3>1. PairAt(root, "bindings").key.text = "bindings"
        BY <1>3, StringLeaf
      <3>2. x \in Deep(4, K(e, PairAt(root, "bindings").key.text), PairAt(root, "bindings").value)
        BY <1>3, <1>16, <1>19, <2>3, <3>1
      <3> QED
        BY <1>1, <1>3, <1>13, <1>16, <3>2, DeepPairs DEF K
    <2>5. x = <<x[1], x[2]>>
      <3>1. \A z \in Noted(p, c) : z = <<z[1], z[2]>>
        BY DEF Noted
      <3>2. \A z \in Deep(3, p, v) : z = <<z[1], z[2]>>
        <4>1. \A z : z \in Deep(3, p, v) => \E y \in OneDown(OneDown({<<p, v>>})) : z \in Below(y[1], y[2])
          BY DownFrom DEF Deep, Deeper
        <4> QED
          BY <4>1, BelowArePairs
      <3> QED
        BY <1>22, <3>1, <3>2
    <2> QED
      BY <1>16, <1>17, <2>1, <2>2, <2>4, <2>5
  <1>23. ASSUME NEW x \in Contents(file), Len(x[1]) > 2,
                x[1][1] = AtKey("bindings"), x[1][2] = AtKey(id)
         PROVE  x \in Deep(3, p, v) \/ x \in Noted(p, c)
    <2>1. x \in Deep(4 + 1, e, root)
      BY <1>16, <1>17, <1>18, <1>23
    <2>2. PICK q \in Range(root.pairs) :
            /\ x \in Deep(4, K(e, q.key.text), q.value) \/ x \in Noted(K(e, q.key.text), q.note)
            /\ x[1][Len(e) + 1] = AtKey(q.key.text)
      BY <1>1, <1>13, <1>15, <1>16, <2>1, DeepKeys
    <2>3. q.key.text = "bindings"
      BY <1>15, <1>23, <2>2, KeysApart
    <2>4. q.key = String("bindings") /\ q = PairAt(root, "bindings")
      BY <1>1, <1>2, <2>3, PairIsHad
    <2>5. q.note = None
      BY <1>2, <2>4, StringsDiffer DEF root
    <2>6. x \in Deep(3 + 1, p1, w)
      BY <1>3, <1>16, <1>19, <2>2, <2>3, <2>4, <2>5 DEF Noted
    <2>7a. \E r \in Range(w.pairs) :
             /\ x \in Deep(3, K(p1, r.key.text), r.value) \/ x \in Noted(K(p1, r.key.text), r.note)
             /\ OfPath(K(p1, r.key.text), x[1]) /\ OfPath(p1, x[1])
             /\ Len(x[1]) >= Len(p1) + 1 /\ x[1][Len(p1) + 1] = AtKey(r.key.text)
      <3>1. w.type = "mapping" /\ w.pairs # <<>> /\ IsPath(p1) /\ 3 \in 0..4
        BY <1>8, <1>13, <1>14, <1>16
      <3> HIDE DEF K
      <3> QED
        BY <3>1, <2>6, DeepKeys
    <2>7. PICK r \in Range(w.pairs) :
            /\ x \in Deep(3, K(p1, r.key.text), r.value) \/ x \in Noted(K(p1, r.key.text), r.note)
            /\ x[1][Len(p1) + 1] = AtKey(r.key.text)
      BY <2>7a
    <2>8. Len(p1) + 1 = 2
      BY <1>14
    <2>9. r.key.text = id
      BY <1>23, <2>7, <2>8, KeysApart
    <2>10. r = q0
      BY <1>11, <2>7, <2>9
    <2> QED
      BY <1>10, <1>19, <2>7, <2>9, <2>10 DEF v
  <1> DEFINE A == {z \in Contents(file) : Len(z[1]) > 2 /\ z[1][1] = AtKey("bindings") /\ z[1][2] = AtKey(id)}
             B == Deep(3, p, v) \cup Noted(p, c)
  <1>24. SaidOf(id) = Moved(p, A)
    <2>1. SaidOf(id) = {<<SubSeq(z[1], 3, Len(z[1])), z[2]>> : z \in A}
      BY DEF SaidOf
    <2>2. \A z \in A : SubSeq(z[1], 3, Len(z[1])) = Rest(p, z[1])
      BY <1>14
    <2> HIDE DEF A
    <2> QED
      BY <2>1, <2>2 DEF Moved
  <1>25. A = B
    <2>1. \A x : x \in A <=> x \in B
      BY <1>22, <1>23
    <2> HIDE DEF A, B
    <2> QED
      BY <2>1
  <1>26. Moved(p, Deep(3, p, v)) = Deep(3, <<>>, v) /\ Moved(p, Noted(p, c)) = Noted(<<>>, c)
    <2>1. Rest(p, p) = <<>>
      BY <1>14, RestOfItself
    <2>2. Moves(3)
      BY <1>16, EachMoves
    <2>3. Moved(p, Deep(3, p, v)) = Deep(3, Rest(p, p), v)
      BY <1>15, <2>2 DEF Moves
    <2>4. Moved(p, Noted(p, c)) = Noted(Rest(p, p), c)
      BY <1>15, NotedMoved
    <2> QED
      BY <2>1, <2>3, <2>4
  <1>27. Moved(p, B) = Deep(3, <<>>, v) \cup Noted(<<>>, c)
    <2>1. Moved(p, B) = Moved(p, Deep(3, p, v)) \cup Moved(p, Noted(p, c))
      BY DEF Moved
    <2> QED
      BY <1>26, <2>1
  <1>28. \A x : x \in Deep(3, <<>>, v) \/ x \in Noted(<<>>, c) <=> x \in BindingSaid(<<>>, b)
    BY <1>7, <1>10, EmptyPath, BindingLeaves DEF c
  <1> HIDE DEF A, B
  <1>29. \A x : x \in SaidOf(id) <=> x \in BindingSaid(<<>>, b)
    BY <1>24, <1>25, <1>27, <1>28
  <1> QED
    BY <1>29

(***************************************************************************)
(* `set`: what the file has is what the document says.                     *)
(***************************************************************************)
LEMMA AssignedFound ==
  ASSUME NEW E, None \notin E, NEW d \in Seq(E), UniqueKeys(d), NEW e \in E
  PROVE  e.key \in Keys(Assign(d, e)) /\ Lookup(Assign(d, e), e.key) = e.value
  <1> DEFINE t == Assign(d, e)
  <1>1. /\ t \in Seq(E) /\ UniqueKeys(t)
    BY AssignProperties
  <1>2. e \in Range(t)
    <2>1. CASE \E n \in DOMAIN d : d[n].key = e.key
      <3>1. t = [n \in DOMAIN d |-> IF d[n].key = e.key THEN e ELSE d[n]]
        BY <2>1 DEF Assign
      <3>2. PICK n \in DOMAIN d : d[n].key = e.key
        BY <2>1
      <3>3. n \in DOMAIN t /\ t[n] = e
        BY <3>1, <3>2
      <3> QED
        BY <3>3 DEF Range
    <2>2. CASE ~\E n \in DOMAIN d : d[n].key = e.key
      <3>1. t = Append(d, e)
        BY <2>2 DEF Assign
      <3>2. Len(d) + 1 \in DOMAIN t /\ t[Len(d) + 1] = e
        BY <3>1
      <3> QED
        BY <3>2 DEF Range
    <2> QED
      BY <2>1, <2>2
  <1> HIDE DEF t
  <1>3. e.key \in Keys(t)
    BY <1>2 DEF Keys, Range
  <1>4. PICK x \in Range(t) : x.key = e.key /\ Lookup(t, e.key) = x.value
    BY <1>3, LookupProperties
  <1>5. x = e
    BY <1>1, <1>2, <1>4 DEF UniqueKeys, Range
  <1> QED
    BY <1>3, <1>4, <1>5 DEF t

LEMMA BindingThere ==
  ASSUME NEW m, Good(m), NEW id \in IdTexts, NEW b, GoodBinding(b)
  PROVE  id \in Keys(WithBinding(m, id, b).bindings) /\ BindingOf(WithBinding(m, id, b), id) = b
  <1> DEFINE E == [key : IdTexts, value : BindingType(Note)]
             e == Keyed(id, b)
  <1>1. /\ m.bindings \in Seq(E) /\ UniqueKeys(m.bindings)
        /\ m = [schema_version |-> m.schema_version, bindings |-> m.bindings,
                coverage |-> m.coverage, header |-> m.header]
    BY GoodMaps
  <1>2. None \notin E
    <2>1. E \subseteq [key : Texts, value : BindingType(Note)]
      BY DEF IdTexts
    <2> QED
      BY <2>1, BindingKinds, NotesAreTexts
  <1>3. e \in E /\ e.key = id /\ e.value = b
    BY DEF Keyed, GoodBinding
  <1>4. WithBinding(m, id, b).bindings = Assign(m.bindings, e)
    BY <1>1 DEF WithBinding
  <1> HIDE DEF e, E
  <1>5. e.key \in Keys(Assign(m.bindings, e)) /\ Lookup(Assign(m.bindings, e), e.key) = e.value
    BY <1>1, <1>2, <1>3, AssignedFound
  <1> QED
    BY <1>3, <1>4, <1>5 DEF BindingOf

Taken(id, doc, out, f) ==
    /\ doc \in InputDocuments /\ InputFindings(doc) = {} /\ ~UsageRefuses(id, doc)
    /\ \E m : /\ Good(m) /\ f = Emit(m) /\ id \in Keys(m.bindings)
              /\ BindingOf(m, id) = BindingInput(doc) /\ GoodBinding(BindingInput(doc))
              /\ out = BindingOut(id, BindingInput(doc))

SetTaken == Succeeded("set") => Taken(reply.id, reply.doc, reply.out, file)

LEMMA SetTakes ==
  ASSUME file \in FileType, NEW id \in Texts, NEW doc \in InputDocuments, Set(Load, id, doc)
  PROVE  SetTaken'
  <1> DEFINE b == BindingInput(doc)
             m == WithBinding(Load.map, id, b)
  <1>1. \/ Refuse("set", id, doc, "ERR-USAGE")
        \/ Load.write # "ok" /\ Deny("set", id, Load.write)
        \/ Refuse("set", id, doc, "ERR-INPUT-INVALID")
        \/ /\ IdAccepted(id) /\ Load.write = "ok" /\ InputFindings(doc) = {}
           /\ ~UsageRefuses(id, doc)
           /\ Install("set", id, doc, m, BindingOut(id, BindingOf(m, id)))
    BY DEF Set, Installs
  <1>2. CASE \/ Refuse("set", id, doc, "ERR-USAGE")
             \/ Load.write # "ok" /\ Deny("set", id, Load.write)
             \/ Refuse("set", id, doc, "ERR-INPUT-INVALID")
    <2>1. reply'.code # "ok"
      BY <1>2 DEF Deny, Refuse, Answer
    <2> QED
      BY <2>1 DEF SetTaken, Succeeded
  <1>3. CASE /\ IdAccepted(id) /\ Load.write = "ok" /\ InputFindings(doc) = {}
             /\ ~UsageRefuses(id, doc)
             /\ Install("set", id, doc, m, BindingOut(id, BindingOf(m, id)))
    <2>1. Good(Load.map) /\ id \in IdTexts
      BY <1>3, LoadedMap, AcceptedId
    <2>2. GoodBinding(b)
      BY <1>3, InputAccepted DEF GoodBinding
    <2> HIDE DEF b
    <2>3. Good(m) /\ id \in Keys(m.bindings) /\ BindingOf(m, id) = b
      BY <2>1, <2>2, BindingPlaced, BindingThere
    <2> HIDE DEF m
    <2>4. MapCodes(m) = {}
      BY <2>3, GoodMaps
    <2>5. /\ file' = Emit(m)
          /\ reply' = [op |-> "set", id |-> id, doc |-> doc, code |-> "ok",
                       out |-> BindingOut(id, b)]
      BY <1>3, <2>3, <2>4 DEF Install
    <2>6. Taken(id, doc, BindingOut(id, b), file')
      BY <1>3, <2>2, <2>3, <2>5 DEF Taken, b
    <2> QED
      BY <2>5, <2>6 DEF SetTaken
  <1> QED
    BY <1>1, <1>2, <1>3

(* A `list` that has answered shows the summaries of what it has selected. *)
Summaries(s) == [n \in DOMAIN s |-> Summary(s[n].key, s[n].value)]
ListTrue == Succeeded("list") => reply.out = Summaries(Selected(Loaded, reply.doc))

Others == reply'.code = "ok" => reply'.op \notin {"set", "list"}

LEMMA OtherReplies ==
  ASSUME NEW op, op # "set", op # "list"
  PROVE  /\ \A id, doc, code, out : Answer(op, id, doc, code, out) => Others
         /\ \A id, code : Deny(op, id, code) => Others
         /\ \A id, doc, m, out : Install(op, id, doc, m, out) => Others
         /\ \A id, doc, m : Installs(op, id, doc, m) => Others
  BY DEF Answer, Deny, Refuse, Install, Installs, Others

Setting == \E id \in Ids : SetGiven(Load, id)
Listing == \E kinds \in {{}} \cup {{k} : k \in Kinds} : ListBindings(Load, kinds, FALSE)

LEMMA OtherCommands ==
  ASSUME Command(Load)
  PROVE  Setting \/ Listing \/ Others
  <1>1. CASE \E id \in Ids : Get(Load, id)
    BY <1>1, OtherReplies DEF Get
  <1>2. CASE \E id \in Ids : SetGiven(Load, id)
    BY <1>2 DEF Setting
  <1>3. CASE \E id \in Ids : AddEntry(Load, id)
    <2>1. PICK id \in Ids, node \in DOMAIN Additions : \E options \in Additions[node] :
            \E name \in IF node = "field_locator" THEN FieldNames ELSE {None} :
              Add(Load, id, node, name, options)
      BY <1>3 DEF AddEntry
    <2>2. node # "set" /\ node # "list"
      BY ArgumentsAssumption
    <2>3. (\E code : Deny(node, id, code)) \/ \E doc, m : Installs(node, id, doc, m)
      BY <2>1 DEF Add
    <2> QED
      BY <2>2, <2>3, OtherReplies
  <1>4. CASE \E kinds \in {{}} \cup {{k} : k \in Kinds}, full \in BOOLEAN :
               ListBindings(Load, kinds, full)
    <2>1. PICK kinds \in {{}} \cup {{k} : k \in Kinds} : \E full \in BOOLEAN : ListBindings(Load, kinds, full)
      BY <1>4
    <2>2. CASE ListBindings(Load, kinds, TRUE)
      <3>1. \/ Deny("list", None, "ERR-USAGE")
            \/ Load.read # "ok" /\ Deny("list", None, Load.read)
            \/ \E out : Answer("list --full", None, kinds, "ok", out)
        BY <2>2 DEF ListBindings
      <3>2. CASE \/ Deny("list", None, "ERR-USAGE")
                 \/ Load.read # "ok" /\ Deny("list", None, Load.read)
        <4>1. reply'.code # "ok"
          BY <3>2 DEF Deny, Refuse, Answer
        <4> QED
          BY <4>1 DEF Others
      <3>3. CASE \E out : Answer("list --full", None, kinds, "ok", out)
        BY <3>3, OtherReplies
      <3> QED
        BY <3>1, <3>2, <3>3
    <2> QED
      BY <2>1, <2>2 DEF Listing
  <1>5. CASE \E kind \in Kinds : FullyBoundAdd(Load, kind)
    <2>1. (\E code : Deny("fully-bound", None, code)) \/ \E doc, m, out : Install("fully-bound", None, doc, m, out)
      BY <1>5 DEF FullyBoundAdd, InstallsCoverage
    <2> QED
      BY <2>1, OtherReplies
  <1>6. CASE \E kind \in Kinds, reason \in Reasons, note \in Notes : CuratedSet(Load, kind, reason, note)
    <2>1. (\E code : Deny("curated", None, code)) \/ \E doc, m, out : Install("curated", None, doc, m, out)
      BY <1>6 DEF CuratedSet, InstallsCoverage
    <2> QED
      BY <2>1, OtherReplies
  <1>7. CASE \E l \in Removals : RemoveEntry(Load, l)
    <2>1. PICK l \in Removals : RemoveEntry(Load, l)
      BY <1>7
    <2>2. \E id : \/ \E code : Deny("remove", id, code)
                  \/ \E doc, m, out : Install("remove", id, doc, m, out)
                  \/ \E doc, m : Installs("remove", id, doc, m)
      BY <2>1 DEF RemoveEntry
    <2> QED
      BY <2>2, OtherReplies
  <1>8. CASE \E l \in Remarks : CommentGet(Load, l)
    <2>1. \/ \E code : Deny("comment get", None, code)
          \/ \E doc, out : Answer("comment get", None, doc, "ok", out)
      BY <1>8 DEF CommentGet
    <2> QED
      BY <2>1, OtherReplies
  <1>9. CASE \E l \in Remarks : \E text \in Notes : CommentWrite(Load, l, text)
    <2>1. PICK l \in Remarks, text \in Notes : CommentWrite(Load, l, text)
      BY <1>9
    <2>2. \E op \in {"comment set", "comment unset"} :
            (\E code : Deny(op, None, code)) \/ \E doc, m, out : Install(op, None, doc, m, out)
      BY <2>1 DEF CommentWrite
    <2> QED
      BY <2>2, OtherReplies
  <1>10. CASE Format(Load)
    <2>1. (\E code : Deny("format", None, code)) \/ \E doc, m, out : Install("format", None, doc, m, out)
      BY <1>10 DEF Format
    <2> QED
      BY <2>1, OtherReplies
  <1> QED
    BY <1>1, <1>2, <1>3, <1>4, <1>5, <1>6, <1>7, <1>8, <1>9, <1>10 DEF Command

LEMMA ListAnswers ==
  ASSUME Listing
  PROVE  ListTrue' /\ SetTaken'
  <1>1. PICK kinds \in {{}} \cup {{k} : k \in Kinds} : ListBindings(Load, kinds, FALSE)
    BY DEF Listing
  <1>2. \/ Deny("list", None, "ERR-USAGE")
        \/ Load.read # "ok" /\ Deny("list", None, Load.read)
        \/ Answer("list", None, kinds, "ok", Summaries(Selected(Load.map, kinds)))
    BY <1>1 DEF ListBindings, Mapped, Summaries
  <1>3. CASE Answer("list", None, kinds, "ok", Summaries(Selected(Load.map, kinds)))
    <2>1. /\ file' = file /\ reply'.op = "list" /\ reply'.doc = kinds
          /\ reply'.out = Summaries(Selected(Load.map, kinds))
      BY <1>3 DEF Answer
    <2>2. Loaded' = Load.map
      BY <2>1 DEF Loaded, Load
    <2> QED
      BY <2>1, <2>2 DEF ListTrue, SetTaken, Succeeded
  <1>4. CASE \/ Deny("list", None, "ERR-USAGE")
             \/ Load.read # "ok" /\ Deny("list", None, Load.read)
    <2>1. reply'.code # "ok"
      BY <1>4 DEF Deny, Refuse, Answer
    <2> QED
      BY <2>1 DEF ListTrue, SetTaken, Succeeded
  <1> QED
    BY <1>2, <1>3, <1>4

LEMMA SetAnswers ==
  ASSUME TypeOK, NEW id \in Ids, NEW doc \in InputDocuments, Set(Load, id, doc)
  PROVE  ListTrue' /\ SetTaken'
  <1>1. file \in FileType /\ id \in Texts
    BY ArgumentsAssumption DEF TypeOK
  <1>2. SetTaken'
    BY <1>1, SetTakes
  <1>3. reply'.op = "set"
    BY DEF Set, Installs, Install, Deny, Refuse, Answer
  <1> QED
    BY <1>2, <1>3 DEF ListTrue, Succeeded

LEMMA AnswersStay ==
  ASSUME TypeOK, ListTrue, SetTaken, [Next]_vars
  PROVE  ListTrue' /\ SetTaken'
  <1>1. CASE UNCHANGED vars
    BY <1>1 DEF vars, ListTrue, SetTaken, Succeeded, Loaded
  <1>2. CASE AnswerRead
    BY <1>2 DEF AnswerRead, NoReply, ListTrue, SetTaken, Succeeded
  <1>3. CASE Command(Load)
    <2>1. CASE Setting
      <3>1. PICK id \in Ids : SetGiven(Load, id)
        BY <2>1 DEF Setting
      <3>2. PICK doc \in Inputs[id] : Set(Load, id, doc)
        BY <3>1 DEF SetGiven
      <3>3. doc \in InputDocuments
        BY <3>2, ArgumentsAssumption
      <3> QED
        BY <3>2, <3>3, SetAnswers
    <2>2. CASE Listing
      BY <2>2, ListAnswers
    <2>3. CASE Others
      BY <2>3 DEF Others, ListTrue, SetTaken, Succeeded
    <2> QED
      BY <1>3, <2>1, <2>2, <2>3, OtherCommands
  <1>4. CASE \E id \in Ids : SetGot(Load, id)
    <2>1. PICK id \in Ids : SetGot(Load, id)
      BY <1>4
    <2>2. Set(Load, id, reply.out) /\ reply.out \in InputDocuments
      BY <2>1 DEF SetGot, TypeOK, Succeeded
    <2> QED
      BY <2>2, SetAnswers
  <1> QED
    BY <1>1, <1>2, <1>3, <1>4 DEF Next

(* What an accepted document says is what the answer says and what the     *)
(* file says then.                                                         *)
LEMMA TakenAll ==
  ASSUME TextsReadBack, SetTaken
  PROVE  SetTakesAll
  <1> SUFFICES ASSUME Succeeded("set")
               PROVE  Said(reply.doc) = Said(reply.out) /\ Said(reply.doc) = SaidOf(reply.id)
    BY DEF SetTakesAll
  <1> DEFINE id == reply.id
             doc == reply.doc
             b == BindingInput(doc)
  <1>1. Taken(id, doc, reply.out, file)
    BY DEF SetTaken
  <1>2. doc \in InputDocuments /\ InputFindings(doc) = {} /\ ~UsageRefuses(id, doc)
    BY <1>1 DEF Taken
  <1>3. PICK m : /\ Good(m) /\ file = Emit(m) /\ id \in Keys(m.bindings)
                 /\ BindingOf(m, id) = b /\ GoodBinding(b) /\ reply.out = BindingOut(id, b)
    BY <1>1 DEF Taken
  <1>4. file \in ParsedFiles /\ SpellsMap(file, m)
    BY <1>3, MapSpells
  <1>5. id \in IdTexts
    BY <1>3, BindingFound DEF Good
  <1> HIDE DEF id, doc
  <1>6. Said(doc) = BindingSaid(<<>>, b)
    BY <1>2, DocumentSays
  <1> HIDE DEF b
  <1>7. Said(BindingOut(id, b)) = BindingSaid(<<>>, b)
    BY <1>3, <1>5, AnswerSays
  <1>8. SaidOf(id) = BindingSaid(<<>>, b)
    BY <1>3, <1>4, FileSays
  <1>9. Said(reply.out) = BindingSaid(<<>>, b)
    BY <1>3, <1>7
  <1> QED
    BY <1>6, <1>8, <1>9 DEF id, doc

(* An accepted document says what the answer of `set` says and what the    *)
(* file says then: no key, comment or position is lost on the way, for any *)
(* document and file, of texts that read back (TextsReadBack: a field `<<` *)
(* or a symbol `=` would be another on the next load).                     *)
THEOREM SetLosesNothing == TextsReadBack => (Spec => []SetTakesAll)
  <1>1. Init => ListTrue /\ SetTaken
    BY DEF Init, NoReply, ListTrue, SetTaken, Succeeded
  <1>2. TypeOK /\ (ListTrue /\ SetTaken) /\ [Next]_vars => (ListTrue /\ SetTaken)'
    BY AnswersStay
  <1>3. TextsReadBack /\ SetTaken => SetTakesAll
    BY TakenAll
  <1> SUFFICES ASSUME TextsReadBack
               PROVE  Spec => []SetTakesAll
    OBVIOUS
  <1>4. ListTrue /\ SetTaken => SetTakesAll
    BY <1>3
  <1> QED
    BY <1>1, <1>2, <1>4, AnswersTyped, PTL DEF Spec

(***************************************************************************)
(* `list`: what a summary counts, and whom it takes.                       *)
(***************************************************************************)
CountedIn(b) == [locators |-> b.locators, fields |-> OrEmpty(b.fields), asserted_by |-> OrEmpty(b.asserted_by)]
Counted == {"locators", "fields", "asserted_by"}
StepOf(b, k, n) == IF k = "fields" THEN AtKey(b.fields[n].key) ELSE AtItem(n)
ThingOf(b, k, n) ==
    CASE k = "locators" -> b.locators[n] [] k = "fields" -> b.fields[n].value
      [] k = "asserted_by" -> b.asserted_by[n]
PlaceOf(b, k, n) == Append(K(<<>>, k), StepOf(b, k, n))

LEMMA NumberedImage ==
  ASSUME NEW c \in Nat, NEW f, DOMAIN f = 1..c, \A i, j \in 1..c : f[i] = f[j] => i = j,
         NEW T, \A x : x \in T <=> \E i \in 1..c : x = f[i]
  PROVE  Cardinality(T) = c
  <1> DEFINE g == [i \in 1..c |-> f[i]]
  <1>1. g \in [1..c -> T]
    OBVIOUS
  <1>2. \A x \in T : \E i \in 1..c : g[i] = x
    OBVIOUS
  <1>3. \A i, j \in 1..c : g[i] = g[j] => i = j
    OBVIOUS
  <1> HIDE DEF g
  <1>4. g \in Bijection(1..c, T)
    BY <1>1, <1>2, <1>3 DEF Bijection, Injection, Surjection, IsInjective
  <1> QED
    BY <1>4, FS_CountingElements DEF ExistsBijection

LEMMA NoCommentKey ==
  ASSUME NEW node \in Nodes, NEW C, NEW x \in EntryType(node, C)
  PROVE  "comment" \notin DOMAIN x.strings
  <1>1. x.strings \in StringsOf(node)
    BY DEF EntryType
  <1>2. DOMAIN x.strings \subseteq DOMAIN Shape[node].keys
    BY <1>1 DEF StringsOf
  <1>3. "comment" \notin DOMAIN Shape[node].keys
    BY ShapeFacts DEF Nodes
  <1> QED
    BY <1>2, <1>3

LEMMA PlacesAre ==
  ASSUME NEW k
  PROVE  LET p == K(<<>>, k)
         IN  /\ IsPath(p) /\ Len(p) = 1 /\ p[1] = AtKey(k)
             /\ \A j : /\ IsPath(K(p, j)) /\ Len(K(p, j)) = 2 /\ K(p, j)[1] = AtKey(k)
                       /\ K(p, j)[2] = AtKey(j)
             /\ \A y, j : LET q == Append(p, y)
                          IN  /\ Len(K(q, j)) = 3
                              /\ K(q, j)[1] = AtKey(k) /\ K(q, j)[2] = y /\ K(q, j)[3] = AtKey(j)
  <1> DEFINE e == <<>>
             p == K(e, k)
  <1>1. IsPath(e) /\ Len(e) = 0
    BY EmptyPath
  <1> HIDE DEF e
  <1>2. IsPath(p) /\ Len(p) = Len(e) + 1 /\ p[Len(e) + 1] = AtKey(k)
    BY <1>1, PathAppend DEF K
  <1>3. Len(p) = 1 /\ p[1] = AtKey(k)
    BY <1>1, <1>2
  <1> HIDE DEF p
  <1>4. ASSUME NEW y
        PROVE  /\ IsPath(Append(p, y)) /\ Len(Append(p, y)) = 2
               /\ Append(p, y)[1] = AtKey(k) /\ Append(p, y)[2] = y
    <2>1. /\ IsPath(Append(p, y)) /\ Len(Append(p, y)) = Len(p) + 1 /\ Append(p, y)[Len(p) + 1] = y
          /\ \A n \in 1..Len(p) : Append(p, y)[n] = p[n]
      BY <1>2, PathAppend
    <2>2. 1 \in 1..1
      OBVIOUS
    <2> QED
      BY <1>3, <2>1, <2>2
  <1>5. ASSUME NEW y, NEW j
        PROVE  LET q == Append(p, y)
               IN  /\ Len(K(q, j)) = 3
                   /\ K(q, j)[1] = AtKey(k) /\ K(q, j)[2] = y /\ K(q, j)[3] = AtKey(j)
    <2> DEFINE q == Append(p, y)
    <2>1. IsPath(q) /\ Len(q) = 2 /\ q[1] = AtKey(k) /\ q[2] = y
      BY <1>4
    <2> HIDE DEF q
    <2>2. /\ Len(K(q, j)) = Len(q) + 1 /\ K(q, j)[Len(q) + 1] = AtKey(j)
          /\ \A n \in 1..Len(q) : K(q, j)[n] = q[n]
      BY <2>1, PathAppend DEF K
    <2>3. 1 \in 1..2 /\ 2 \in 1..2
      OBVIOUS
    <2>4. Len(K(q, j)) = 3 /\ K(q, j)[1] = AtKey(k) /\ K(q, j)[2] = y /\ K(q, j)[3] = AtKey(j)
      BY <2>1, <2>2, <2>3
    <2> QED
      BY <2>4 DEF q
  <1>6. \A j : /\ IsPath(K(p, j)) /\ Len(K(p, j)) = 2 /\ K(p, j)[1] = AtKey(k)
               /\ K(p, j)[2] = AtKey(j)
    BY <1>4 DEF K
  <1> QED
    BY <1>2, <1>3, <1>5, <1>6 DEF p, e

LEMMA ThingsAre ==
  ASSUME NEW b, GoodBinding(b), NEW k \in Counted
  PROVE  LET s == CountedIn(b)[k]
         IN  /\ Len(s) \in Nat /\ DOMAIN s = 1..Len(s)
             /\ s # <<>> => s = b[k]
             /\ \A n \in DOMAIN s :
                  /\ DOMAIN ThingOf(b, k, n).strings # {}
                  /\ "comment" \notin DOMAIN ThingOf(b, k, n).strings
             /\ \A m, n \in DOMAIN s : StepOf(b, k, m) = StepOf(b, k, n) => m = n
  <1> DEFINE s == CountedIn(b)[k]
  <1>0. /\ b.locators \in Seq(EntryType("locator", Note))
        /\ OrEmpty(b.fields) \in Seq([key : Texts, value : EntryType("field_locator", Note)])
        /\ UniqueKeys(OrEmpty(b.fields)) /\ OrEmpty(b.asserted_by) \in Seq(EntryType("assertion", Note))
        /\ OrEmpty(b.fields) # <<>> => b.fields = OrEmpty(b.fields)
        /\ OrEmpty(b.asserted_by) # <<>> => b.asserted_by = OrEmpty(b.asserted_by)
    BY GoodParts
  <1>1. /\ Telling(b.locators)
        /\ b.fields # None => \A n \in DOMAIN b.fields : DOMAIN b.fields[n].value.strings # {}
        /\ b.asserted_by # None => Telling(b.asserted_by)
    BY BindingTelling
  <1>2. \A S : \A t \in Seq(S) : Len(t) \in Nat /\ DOMAIN t = 1..Len(t) /\ (\A n \in DOMAIN t : t # <<>>)
    BY ListProperties, EmptyList
  <1>3. {"locator", "field_locator", "assertion"} \subseteq Nodes
    BY DEF Nodes
  <1>4. \A m, n : AtItem(m) = AtItem(n) => m = n
    BY DEF AtItem
  <1>5. CASE k = "locators"
    <2>1. s = b.locators
      BY <1>5 DEF CountedIn
    <2>2. \A n \in DOMAIN s : ThingOf(b, k, n) = b.locators[n] /\ StepOf(b, k, n) = AtItem(n)
      BY <1>5 DEF ThingOf, StepOf
    <2>3. \A n \in DOMAIN s : b.locators[n] \in EntryType("locator", Note) /\ b.locators[n] \in Range(b.locators)
      BY <1>0, <2>1, ListProperties
    <2>4. \A n \in DOMAIN s : "comment" \notin DOMAIN b.locators[n].strings
      BY <1>3, <2>3, NoCommentKey
    <2>5. Len(s) \in Nat /\ DOMAIN s = 1..Len(s)
      BY <1>0, <1>2, <2>1
    <2>6. s = b[k]
      BY <1>5, <2>1
    <2> HIDE DEF s
    <2> QED
      BY <1>1, <1>4, <2>2, <2>3, <2>4, <2>5, <2>6 DEF Telling, s
  <1>6. CASE k = "asserted_by"
    <2>1. s = OrEmpty(b.asserted_by) /\ k # "fields" /\ k # "locators"
      BY <1>6 DEF CountedIn
    <2>2. \A n \in DOMAIN s : ThingOf(b, k, n) = b.asserted_by[n] /\ StepOf(b, k, n) = AtItem(n)
      BY <1>6 DEF ThingOf, StepOf
    <2>3. \A n \in DOMAIN s : s # <<>> /\ b.asserted_by = s /\ b.asserted_by # None
      BY <1>0, <1>2, <2>1 DEF OrEmpty
    <2>4. \A n \in DOMAIN s : s[n] \in EntryType("assertion", Note) /\ s[n] \in Range(s)
      BY <1>0, <2>1, ListProperties
    <2>5. \A n \in DOMAIN s : "comment" \notin DOMAIN s[n].strings
      BY <1>3, <2>4, NoCommentKey
    <2>6. Len(s) \in Nat /\ DOMAIN s = 1..Len(s)
      BY <1>0, <1>2, <2>1
    <2>7. s # <<>> => s = b[k]
      BY <1>0, <1>6, <2>1
    <2> HIDE DEF s
    <2>8. \A n \in DOMAIN s : DOMAIN s[n].strings # {}
      BY <1>1, <2>3, <2>4 DEF Telling
    <2> QED
      BY <1>4, <2>2, <2>3, <2>5, <2>6, <2>7, <2>8 DEF s
  <1>7. CASE k = "fields"
    <2>1. s = OrEmpty(b.fields)
      BY <1>7 DEF CountedIn
    <2>2. \A n \in DOMAIN s : ThingOf(b, k, n) = b.fields[n].value /\ StepOf(b, k, n) = AtKey(b.fields[n].key)
      BY <1>7 DEF ThingOf, StepOf
    <2>3. \A n \in DOMAIN s : s # <<>> /\ b.fields = s /\ b.fields # None
      BY <1>0, <1>2, <2>1 DEF OrEmpty
    <2>4. \A n \in DOMAIN s : s[n].value \in EntryType("field_locator", Note)
      <3> DEFINE E == [key : Texts, value : EntryType("field_locator", Note)]
      <3>1. \A x \in E : x.value \in EntryType("field_locator", Note)
        OBVIOUS
      <3>2. s \in Seq(E)
        BY <1>0, <2>1
      <3> HIDE DEF E, s
      <3> QED
        BY <3>1, <3>2, ListProperties
    <2>5. \A n \in DOMAIN s : "comment" \notin DOMAIN s[n].value.strings
      BY <1>3, <2>4, NoCommentKey
    <2>6. Len(s) \in Nat /\ DOMAIN s = 1..Len(s)
      BY <1>0, <1>2, <2>1
    <2>7. s # <<>> => s = b[k]
      BY <1>0, <1>7, <2>1
    <2>8. UniqueKeys(s)
      BY <1>0, <2>1
    <2> HIDE DEF s
    <2>9. \A n \in DOMAIN s : DOMAIN s[n].value.strings # {}
      BY <1>1, <2>3
    <2>10. \A m, n \in DOMAIN s : StepOf(b, k, m) = StepOf(b, k, n) => m = n
      BY <2>2, <2>3, <2>8, KeysApart DEF UniqueKeys
    <2> QED
      BY <2>2, <2>3, <2>5, <2>6, <2>7, <2>9, <2>10 DEF s
  <1> QED
    BY <1>5, <1>6, <1>7 DEF Counted

LEMMA ListSaidIs ==
  \A p, s, x : x \in ListSaid(p, s) <=>
    \/ s = <<>> /\ x = <<p, List(<<>>)>>
    \/ s # <<>> /\ \E n \in DOMAIN s : x \in EntrySaid(Append(p, AtItem(n)), s[n])
  BY DEF ListSaid

(* The forms of what is said, of a binding at any path.                    *)
EntryPath(p, b, k, n) == Append(K(p, k), StepOf(b, k, n))

LEMMA SaidFormsAt ==
  ASSUME NEW b, GoodBinding(b), NEW e, NEW x
  PROVE  x \in BindingSaid(e, b) <=>
           \/ x \in Noted(e, b.comment)
           \/ b.locators = <<>> /\ x = <<K(e, "locators"), List(<<>>)>>
           \/ b.compare_via # None /\ x = <<K(e, "compare_via"), String(b.compare_via)>>
           \/ b.wire # None /\ x \in EntrySaid(K(e, "wire"), b.wire)
           \/ \E k \in Counted : \E n \in DOMAIN CountedIn(b)[k] :
                x \in EntrySaid(EntryPath(e, b, k, n), ThingOf(b, k, n))
  <1> DEFINE Counts(k) == \E n \in DOMAIN CountedIn(b)[k] : x \in EntrySaid(EntryPath(e, b, k, n), ThingOf(b, k, n))
  <1>1. x \in BindingSaid(e, b) <=>
          x \in Noted(e, b.comment) \/ \E k \in SectionKeys : x \in SectionSaid(K(e, k), k, b)
    BY DEF BindingSaid
  <1>2. /\ b.locators \in Seq(EntryType("locator", Note))
        /\ OrEmpty(b.fields) # <<>> => b.fields = OrEmpty(b.fields)
        /\ OrEmpty(b.asserted_by) # <<>> => b.asserted_by = OrEmpty(b.asserted_by)
    BY GoodParts
  <1>3. (b.fields # None => b.fields # <<>>) /\ (b.asserted_by # None => b.asserted_by # <<>>)
    BY BindingTelling
  <1>4. x \in SectionSaid(K(e, "locators"), "locators", b) <=>
          (b.locators = <<>> /\ x = <<K(e, "locators"), List(<<>>)>>) \/ Counts("locators")
    <2>1. SectionSaid(K(e, "locators"), "locators", b) = ListSaid(K(e, "locators"), b.locators)
      BY DEF SectionSaid
    <2>2. CountedIn(b)["locators"] = b.locators
      BY DEF CountedIn
    <2>3. \A n : /\ EntryPath(e, b, "locators", n) = Append(K(e, "locators"), AtItem(n))
                 /\ ThingOf(b, "locators", n) = b.locators[n]
      BY DEF EntryPath, StepOf, ThingOf
    <2>4. \A n \in DOMAIN b.locators : b.locators # <<>>
      BY <1>2, EmptyList
    <2>5. Counts("locators") <=>
            \E n \in DOMAIN b.locators : x \in EntrySaid(Append(K(e, "locators"), AtItem(n)), b.locators[n])
      BY <2>2, <2>3
    <2> HIDE DEF Counts
    <2> QED
      BY <2>1, <2>4, <2>5, ListSaidIs
  <1>5. x \in SectionSaid(K(e, "fields"), "fields", b) <=> Counts("fields")
    <2>1. CountedIn(b)["fields"] = OrEmpty(b.fields)
      BY DEF CountedIn
    <2>2. \A n : /\ EntryPath(e, b, "fields", n) = K(K(e, "fields"), b.fields[n].key)
                 /\ ThingOf(b, "fields", n) = b.fields[n].value
      BY DEF EntryPath, StepOf, ThingOf, K
    <2>3. b.fields = None => SectionSaid(K(e, "fields"), "fields", b) = {} /\ DOMAIN OrEmpty(b.fields) = {}
      BY DEF SectionSaid, OrEmpty
    <2>4. b.fields # None => /\ SectionSaid(K(e, "fields"), "fields", b) = FieldsSaid(K(e, "fields"), b.fields)
                             /\ OrEmpty(b.fields) = b.fields
      BY DEF SectionSaid, OrEmpty
    <2> QED
      BY <2>1, <2>2, <2>3, <2>4 DEF FieldsSaid
  <1>6. x \in SectionSaid(K(e, "asserted_by"), "asserted_by", b) <=> Counts("asserted_by")
    <2>1. CountedIn(b)["asserted_by"] = OrEmpty(b.asserted_by)
      BY DEF CountedIn
    <2>2. \A n : /\ EntryPath(e, b, "asserted_by", n) = Append(K(e, "asserted_by"), AtItem(n))
                 /\ ThingOf(b, "asserted_by", n) = b.asserted_by[n]
      BY DEF EntryPath, StepOf, ThingOf
    <2>3. b.asserted_by = None =>
            SectionSaid(K(e, "asserted_by"), "asserted_by", b) = {} /\ DOMAIN OrEmpty(b.asserted_by) = {}
      BY DEF SectionSaid, OrEmpty
    <2>4. b.asserted_by # None =>
            /\ SectionSaid(K(e, "asserted_by"), "asserted_by", b) = ListSaid(K(e, "asserted_by"), b.asserted_by)
            /\ OrEmpty(b.asserted_by) = b.asserted_by /\ b.asserted_by # <<>>
      BY <1>3 DEF SectionSaid, OrEmpty
    <2>5. Counts("asserted_by") <=>
            \E n \in DOMAIN OrEmpty(b.asserted_by) :
              x \in EntrySaid(Append(K(e, "asserted_by"), AtItem(n)), b.asserted_by[n])
      BY <2>1, <2>2
    <2> HIDE DEF Counts
    <2> QED
      BY <2>3, <2>4, <2>5, ListSaidIs
  <1>7. x \in SectionSaid(K(e, "compare_via"), "compare_via", b) <=>
          b.compare_via # None /\ x = <<K(e, "compare_via"), String(b.compare_via)>>
    BY DEF SectionSaid
  <1>8. x \in SectionSaid(K(e, "wire"), "wire", b) <=> b.wire # None /\ x \in EntrySaid(K(e, "wire"), b.wire)
    BY DEF SectionSaid
  <1> HIDE DEF Counts
  <1>9. x \in BindingSaid(e, b) <=>
           \/ x \in Noted(e, b.comment)
           \/ b.locators = <<>> /\ x = <<K(e, "locators"), List(<<>>)>>
           \/ b.compare_via # None /\ x = <<K(e, "compare_via"), String(b.compare_via)>>
           \/ b.wire # None /\ x \in EntrySaid(K(e, "wire"), b.wire)
           \/ \E k \in Counted : Counts(k)
    BY <1>1, <1>4, <1>5, <1>6, <1>7, <1>8 DEF SectionKeys, Counted
  <1> QED
    BY <1>9 DEF Counts

LEMMA SaidForms ==
  ASSUME NEW b, GoodBinding(b), NEW x
  PROVE  x \in BindingSaid(<<>>, b) <=>
           \/ x \in Noted(<<>>, b.comment)
           \/ b.locators = <<>> /\ x = <<K(<<>>, "locators"), List(<<>>)>>
           \/ b.compare_via # None /\ x = <<K(<<>>, "compare_via"), String(b.compare_via)>>
           \/ b.wire # None /\ x \in EntrySaid(K(<<>>, "wire"), b.wire)
           \/ \E k \in Counted : \E n \in DOMAIN CountedIn(b)[k] :
                x \in EntrySaid(PlaceOf(b, k, n), ThingOf(b, k, n))
  <1>1. \A k, n : PlaceOf(b, k, n) = EntryPath(<<>>, b, k, n)
    BY DEF PlaceOf, EntryPath
  <1> QED
    BY <1>1, SaidFormsAt

(* Each entry is said at its place, a comment last.                        *)
LEMMA EntryPlaces ==
  ASSUME NEW b, NEW k, NEW n, NEW x \in EntrySaid(PlaceOf(b, k, n), ThingOf(b, k, n))
  PROVE  /\ Len(x[1]) = 3 /\ x[1][1] = AtKey(k) /\ x[1][2] = StepOf(b, k, n)
         /\ x[1][Len(x[1])] = AtKey("comment") =>
              "comment" \in DOMAIN ThingOf(b, k, n).strings \/ ThingOf(b, k, n).comment # None
  <1> DEFINE t == ThingOf(b, k, n)
             y == StepOf(b, k, n)
  <1>1. PICK r \in EntryRows(t) : x = <<K(Append(K(<<>>, k), y), r[1]), r[2]>>
    BY DEF EntrySaid, Placed, PlaceOf
  <1>2. x[1] = K(Append(K(<<>>, k), y), r[1])
    BY <1>1
  <1>3. r[1] = "comment" => "comment" \in DOMAIN t.strings \/ t.comment # None
    BY <1>1 DEF EntryRows, NoteRow
  <1> HIDE DEF t, y
  <1>4. Len(x[1]) = 3 /\ x[1][1] = AtKey(k) /\ x[1][2] = y /\ x[1][3] = AtKey(r[1])
    BY <1>2, PlacesAre
  <1>5. x[1][Len(x[1])] = AtKey("comment") => r[1] = "comment"
    BY <1>4, KeysApart
  <1> QED
    BY <1>3, <1>4, <1>5 DEF t, y

LEMMA EntrySpeaks ==
  ASSUME NEW p, NEW t
  PROVE  /\ DOMAIN t.strings # {} => EntrySaid(p, t) # {}
         /\ t.comment # None => <<K(p, "comment"), String(t.comment)>> \in EntrySaid(p, t)
  <1>1. \A r \in EntryRows(t) : <<K(p, r[1]), r[2]>> \in EntrySaid(p, t)
    BY DEF EntrySaid, Placed
  <1>2. DOMAIN t.strings # {} => EntryRows(t) # {}
    BY DEF EntryRows
  <1>3. t.comment # None => <<"comment", String(t.comment)>> \in EntryRows(t)
    BY DEF EntryRows, NoteRow
  <1> QED
    BY <1>1, <1>2, <1>3

(* The leaves that are not of an entry of the three are short.             *)
LEMMA ShortLeaves ==
  ASSUME NEW b, GoodBinding(b), NEW x,
         \/ x \in Noted(<<>>, b.comment)
         \/ b.locators = <<>> /\ x = <<K(<<>>, "locators"), List(<<>>)>>
         \/ b.compare_via # None /\ x = <<K(<<>>, "compare_via"), String(b.compare_via)>>
         \/ b.wire # None /\ x \in EntrySaid(K(<<>>, "wire"), b.wire)
  PROVE  /\ Len(x[1]) \in {1, 2}
         /\ x[1][Len(x[1])] = AtKey("comment") => b.comment # None
  <1>1. CASE x \in Noted(<<>>, b.comment)
    <2>1. b.comment # None /\ x[1] = K(<<>>, "comment")
      BY <1>1 DEF Noted, K
    <2> QED
      BY <2>1, PlacesAre
  <1>2. CASE \/ b.locators = <<>> /\ x = <<K(<<>>, "locators"), List(<<>>)>>
             \/ b.compare_via # None /\ x = <<K(<<>>, "compare_via"), String(b.compare_via)>>
    <2>1. \E k \in {"locators", "compare_via"} : x[1] = K(<<>>, k)
      BY <1>2
    <2>2. PICK k \in {"locators", "compare_via"} : x[1] = K(<<>>, k)
      BY <2>1
    <2>3. Len(x[1]) = 1 /\ x[1][1] = AtKey(k) /\ k # "comment"
      BY <2>2, PlacesAre
    <2> QED
      BY <2>3, KeysApart
  <1>3. CASE b.wire # None /\ x \in EntrySaid(K(<<>>, "wire"), b.wire)
    <2>1. b.wire \in EntryType("wire", {None})
      BY <1>3 DEF GoodBinding, BindingType
    <2>2. b.wire.comment = None /\ "comment" \notin DOMAIN b.wire.strings
      BY <2>1, <1>3, BindingTelling, NoCommentKey DEF Nodes
    <2>3. PICK r \in EntryRows(b.wire) : x = <<K(K(<<>>, "wire"), r[1]), r[2]>>
      BY <1>3 DEF EntrySaid, Placed
    <2>4. x[1] = K(K(<<>>, "wire"), r[1])
      BY <2>3
    <2>5. r[1] # "comment"
      BY <2>2, <2>3 DEF EntryRows, NoteRow
    <2>6. Len(x[1]) = 2 /\ x[1][2] = AtKey(r[1])
      BY <2>4, PlacesAre
    <2> QED
      BY <2>5, <2>6, KeysApart
  <1> QED
    BY <1>1, <1>2, <1>3

EntriesSaid(said, k) == {x[1][2] : x \in {x \in said : Len(x[1]) > 2 /\ x[1][1] = AtKey(k)}}

LEMMA EntriesCounted ==
  ASSUME NEW b, GoodBinding(b), NEW k \in Counted
  PROVE  Cardinality(EntriesSaid(BindingSaid(<<>>, b), k)) = Len(CountedIn(b)[k])
  <1> DEFINE said == BindingSaid(<<>>, b)
             s == CountedIn(b)[k]
             c == Len(s)
             f == [n \in 1..c |-> StepOf(b, k, n)]
             T == EntriesSaid(said, k)
  <1>1. /\ c \in Nat /\ DOMAIN s = 1..c
        /\ \A n \in 1..c : DOMAIN ThingOf(b, k, n).strings # {}
        /\ \A m, n \in 1..c : StepOf(b, k, m) = StepOf(b, k, n) => m = n
    BY ThingsAre
  <1>2. \A z : z \in T <=> \E x \in said : Len(x[1]) > 2 /\ x[1][1] = AtKey(k) /\ z = x[1][2]
    BY DEF EntriesSaid
  <1> HIDE DEF T, said, c
  <1>3. ASSUME NEW n \in 1..c
        PROVE  StepOf(b, k, n) \in T
    <2>1. PICK x : x \in EntrySaid(PlaceOf(b, k, n), ThingOf(b, k, n))
      BY <1>1, EntrySpeaks
    <2>2. x \in said
      BY <1>1, <2>1, SaidForms DEF said
    <2>3. Len(x[1]) = 3 /\ x[1][1] = AtKey(k) /\ x[1][2] = StepOf(b, k, n)
      BY <2>1, EntryPlaces
    <2>4. 3 > 2
      OBVIOUS
    <2> QED
      BY <1>2, <2>2, <2>3, <2>4
  <1>4. ASSUME NEW z \in T
        PROVE  \E n \in 1..c : z = StepOf(b, k, n)
    <2>1. PICK x \in said : Len(x[1]) > 2 /\ x[1][1] = AtKey(k) /\ z = x[1][2]
      BY <1>2
    <2>2. ~(1 > 2) /\ ~(2 > 2)
      OBVIOUS
    <2>3. PICK j \in Counted : \E n \in DOMAIN CountedIn(b)[j] :
            x \in EntrySaid(PlaceOf(b, j, n), ThingOf(b, j, n))
      BY <2>1, <2>2, SaidForms, ShortLeaves DEF said
    <2>4. PICK n \in DOMAIN CountedIn(b)[j] : x \in EntrySaid(PlaceOf(b, j, n), ThingOf(b, j, n))
      BY <2>3
    <2>5. x[1][1] = AtKey(j) /\ x[1][2] = StepOf(b, j, n)
      BY <2>4, EntryPlaces
    <2>6. j = k
      BY <2>1, <2>5, KeysApart
    <2> QED
      BY <1>1, <2>1, <2>4, <2>5, <2>6
  <1>5. \A z : z \in T <=> \E n \in 1..c : z = f[n]
    BY <1>3, <1>4
  <1>6. DOMAIN f = 1..c /\ \A m, n \in 1..c : f[m] = f[n] => m = n
    BY <1>1
  <1> HIDE DEF f
  <1>7. Cardinality(T) = c
    BY <1>1, <1>5, <1>6, NumberedImage
  <1> QED
    BY <1>7 DEF T, said, c

LEMMA CommentsSeen ==
  ASSUME NEW b, GoodBinding(b)
  PROVE  HasComment(b) <=> \E x \in BindingSaid(<<>>, b) : x[1][Len(x[1])] = AtKey("comment")
  <1> DEFINE said == BindingSaid(<<>>, b)
             Noting == \E k \in Counted : \E n \in DOMAIN CountedIn(b)[k] : ThingOf(b, k, n).comment # None
  <1>1. HasComment(b) <=> b.comment # None \/ Noting
    <2>1. \A s : (\E y \in Range(s) : Commented(y)) <=> \E n \in DOMAIN s : s[n].comment # None
      BY DEF Commented, Range
    <2>2. \A s : (\E y \in Range(s) : Commented(y.value)) <=> \E n \in DOMAIN s : s[n].value.comment # None
      BY DEF Commented, Range
    <2>3. /\ CountedIn(b)["locators"] = b.locators /\ CountedIn(b)["fields"] = OrEmpty(b.fields)
          /\ CountedIn(b)["asserted_by"] = OrEmpty(b.asserted_by)
      BY DEF CountedIn
    <2>4. /\ \A n \in DOMAIN OrEmpty(b.fields) : b.fields = OrEmpty(b.fields)
          /\ \A n \in DOMAIN OrEmpty(b.asserted_by) : b.asserted_by = OrEmpty(b.asserted_by)
      BY GoodParts, EmptyList
    <2>5. /\ \A n \in DOMAIN b.locators : ThingOf(b, "locators", n) = b.locators[n]
          /\ \A n \in DOMAIN OrEmpty(b.fields) : ThingOf(b, "fields", n) = OrEmpty(b.fields)[n].value
          /\ \A n \in DOMAIN OrEmpty(b.asserted_by) : ThingOf(b, "asserted_by", n) = OrEmpty(b.asserted_by)[n]
      BY <2>4 DEF ThingOf
    <2>6. Noting <=> \/ \E n \in DOMAIN b.locators : b.locators[n].comment # None
                     \/ \E n \in DOMAIN OrEmpty(b.fields) : OrEmpty(b.fields)[n].value.comment # None
                     \/ \E n \in DOMAIN OrEmpty(b.asserted_by) : OrEmpty(b.asserted_by)[n].comment # None
      BY <2>3, <2>5 DEF Counted
    <2>7. HasComment(b) <=> \/ b.comment # None
                            \/ \E y \in Range(b.locators) : Commented(y)
                            \/ \E y \in Range(OrEmpty(b.asserted_by)) : Commented(y)
                            \/ \E y \in Range(OrEmpty(b.fields)) : Commented(y.value)
      BY DEF HasComment, Commented
    <2> HIDE DEF Noting
    <2> QED
      BY <2>1, <2>2, <2>6, <2>7
  <1>2. ASSUME b.comment # None
        PROVE  \E x \in said : x[1][Len(x[1])] = AtKey("comment")
    <2> DEFINE x == <<K(<<>>, "comment"), String(b.comment)>>
    <2>1. x \in Noted(<<>>, b.comment) /\ x[1] = K(<<>>, "comment")
      BY <1>2 DEF Noted, K
    <2> HIDE DEF x
    <2>2. x \in said
      BY <2>1, SaidForms
    <2> QED
      BY <2>1, <2>2, PlacesAre
  <1>3. ASSUME Noting
        PROVE  \E x \in said : x[1][Len(x[1])] = AtKey("comment")
    <2>1. PICK k \in Counted : \E n \in DOMAIN CountedIn(b)[k] : ThingOf(b, k, n).comment # None
      BY <1>3
    <2>2. PICK n \in DOMAIN CountedIn(b)[k] : ThingOf(b, k, n).comment # None
      BY <2>1
    <2> DEFINE x == <<K(PlaceOf(b, k, n), "comment"), String(ThingOf(b, k, n).comment)>>
    <2>3. x \in EntrySaid(PlaceOf(b, k, n), ThingOf(b, k, n)) /\ x[1] = K(PlaceOf(b, k, n), "comment")
      BY <2>2, EntrySpeaks
    <2> HIDE DEF x
    <2>4. x \in said
      BY <2>2, <2>3, SaidForms
    <2>5. Len(x[1]) = 3 /\ x[1][3] = AtKey("comment")
      BY <2>3, PlacesAre DEF PlaceOf
    <2> QED
      BY <2>4, <2>5
  <1>4. ASSUME NEW x \in said, x[1][Len(x[1])] = AtKey("comment")
        PROVE  b.comment # None \/ Noting
    <2>1. CASE \E k \in Counted : \E n \in DOMAIN CountedIn(b)[k] :
                 x \in EntrySaid(PlaceOf(b, k, n), ThingOf(b, k, n))
      <3>1. PICK k \in Counted : \E n \in DOMAIN CountedIn(b)[k] :
                   x \in EntrySaid(PlaceOf(b, k, n), ThingOf(b, k, n))
        BY <2>1
      <3>2. PICK n \in DOMAIN CountedIn(b)[k] : x \in EntrySaid(PlaceOf(b, k, n), ThingOf(b, k, n))
        BY <3>1
      <3>3. "comment" \notin DOMAIN ThingOf(b, k, n).strings
        BY ThingsAre
      <3>4. ThingOf(b, k, n).comment # None
        BY <1>4, <3>2, <3>3, EntryPlaces
      <3> QED
        BY <3>4
    <2> QED
      BY <1>4, <2>1, SaidForms, ShortLeaves
  <1> HIDE DEF said, Noting
  <1>5. HasComment(b) <=> \E x \in said : x[1][Len(x[1])] = AtKey("comment")
    BY <1>1, <1>2, <1>3, <1>4
  <1> QED
    BY <1>5 DEF said

LEMMA SummaryCounts ==
  ASSUME NEW id, NEW b, GoodBinding(b), SaidOf(id) = BindingSaid(<<>>, b)
  PROVE  SummaryTrue(Summary(id, b))
  <1> DEFINE s == Summary(id, b)
             said == BindingSaid(<<>>, b)
  <1>1. /\ s.id = id /\ s.stub = (b.locators = <<>>) /\ s.locators = Len(b.locators)
        /\ s.fields = Len(OrEmpty(b.fields)) /\ s.assertions = Len(OrEmpty(b.asserted_by))
        /\ s.has_comment = HasComment(b)
    BY DEF Summary
  <1>2. /\ CountedIn(b)["locators"] = b.locators /\ CountedIn(b)["fields"] = OrEmpty(b.fields)
        /\ CountedIn(b)["asserted_by"] = OrEmpty(b.asserted_by)
        /\ "locators" \in Counted /\ "fields" \in Counted /\ "asserted_by" \in Counted
    BY DEF CountedIn, Counted
  <1>3. /\ Cardinality(EntriesSaid(said, "locators")) = Len(b.locators)
        /\ Cardinality(EntriesSaid(said, "fields")) = Len(OrEmpty(b.fields))
        /\ Cardinality(EntriesSaid(said, "asserted_by")) = Len(OrEmpty(b.asserted_by))
    BY <1>2, EntriesCounted
  <1>4. (b.locators = <<>>) = (Len(b.locators) = 0)
    <2>1. b.locators \in Seq(EntryType("locator", Note))
      BY GoodParts
    <2> QED
      BY <2>1, EmptyList
  <1>5. HasComment(b) = (\E x \in said : x[1][Len(x[1])] = AtKey("comment"))
    <2>1. HasComment(b) \in BOOLEAN
      BY DEF HasComment
    <2> QED
      BY <2>1, CommentsSeen
  <1> HIDE DEF s, said
  <1>6. SaidOf(s.id) = said
    BY <1>1 DEF said
  <1> QED
    BY <1>1, <1>3, <1>4, <1>5, <1>6 DEF SummaryTrue, EntriesSaid, s

(* What is taken of a list, and the keys that are taken of its keys.       *)
LEMMA ChosenKeys ==
  ASSUME NEW S, NEW s \in Seq(S), NEW P \in SUBSET DOMAIN s,
         NEW t, DOMAIN t = DOMAIN s, \A n \in DOMAIN s : t[n] = s[n].key
  PROVE  /\ \A n \in DOMAIN Chosen(s, P) : Chosen(s, P)[n] \in Range(s)
         /\ Chosen(t, P) = [n \in DOMAIN Chosen(s, P) |-> Chosen(s, P)[n].key]
  <1> DEFINE rank == [n \in P |-> n]
             at == Ordered(P, rank)
  <1>1. P \in SUBSET Nat /\ IsFiniteSet(P)
    BY PlacesFinite
  <1>2. rank \in [P -> Nat] /\ \A x, y \in P : rank[x] = rank[y] => x = y
    BY <1>1
  <1>3. at \in [1..Cardinality(P) -> P]
    BY <1>1, <1>2, OrderedProperties
  <1>4. /\ Chosen(s, P) = [k \in DOMAIN at |-> s[at[k]]]
        /\ Chosen(t, P) = [k \in DOMAIN at |-> t[at[k]]]
    BY DEF Chosen
  <1> HIDE DEF at
  <1>5. \A k \in DOMAIN at : at[k] \in DOMAIN s
    BY <1>3
  <1>6. \A n \in DOMAIN s : s[n] \in Range(s)
    BY DEF Range
  <1> QED
    BY <1>4, <1>5, <1>6

(* A `list` of a file that spells a good map.                              *)
LEMMA ListSays ==
  ASSUME file \in ParsedFiles, NEW m, Good(m), SpellsMap(file, m),
         Succeeded("list"), reply.out = Summaries(Selected(m, reply.doc))
  PROVE  ListedAsWritten
  <1> DEFINE d == m.bindings
             P == {n \in DOMAIN d : reply.doc = {} \/ KindOf[d[n].key] \in reply.doc}
             s == Chosen(d, P)
             pairs == At(file.root, "bindings").pairs
             ids == Mapped(pairs, LAMBDA p : p.key.text)
             Q == {n \in DOMAIN ids : reply.doc = {} \/ KindOf[ids[n]] \in reply.doc}
  <1>1. /\ d \in Seq([key : IdTexts, value : BindingType(Note)]) /\ UniqueKeys(d)
        /\ \A x \in Range(d) : x.key \in IdTexts /\ GoodBinding(x.value)
    BY GoodMaps
  <1>2. DOMAIN pairs = DOMAIN d /\ \A n \in DOMAIN d : pairs[n].key.text = d[n].key
    BY DEF SpellsMap, SpellsRest, SpellsBindings
  <1>3. DOMAIN ids = DOMAIN d /\ \A n \in DOMAIN d : ids[n] = d[n].key
    BY <1>2 DEF Mapped
  <1>4. reply.out = [n \in DOMAIN s |-> Summary(s[n].key, s[n].value)]
    BY DEF Selected, Summaries
  <1>5. P = Q
    BY <1>3
  <1>6. P \in SUBSET DOMAIN d
    OBVIOUS
  <1> HIDE DEF d, P, ids, Q
  <1>7. /\ \A n \in DOMAIN s : s[n] \in Range(d)
        /\ Chosen(ids, P) = [n \in DOMAIN s |-> s[n].key]
    BY <1>1, <1>3, <1>6, ChosenKeys
  <1> HIDE DEF s
  <1>8. ASSUME NEW n \in DOMAIN s
        PROVE  SummaryTrue(Summary(s[n].key, s[n].value))
    <2> DEFINE id == s[n].key
               b == s[n].value
    <2>1. s[n] \in Range(d) /\ GoodBinding(b) /\ id \in IdTexts
      BY <1>1, <1>7
    <2>2. id \in Keys(d)
      BY <2>1 DEF Keys, Range
    <2>3. BindingOf(m, id) = b
      <3>1. PICK y \in Range(d) : y.key = id /\ BindingOf(m, id) = y.value
        BY <2>2, LookupProperties DEF BindingOf, d
      <3>2. y = s[n]
        BY <1>1, <2>1, <3>1 DEF UniqueKeys, Range
      <3> QED
        BY <3>1, <3>2
    <2> HIDE DEF id, b
    <2>4. SaidOf(id) = BindingSaid(<<>>, b)
      BY <2>2, <2>3, FileSays DEF d
    <2>5. SummaryTrue(Summary(id, b))
      BY <2>1, <2>4, SummaryCounts
    <2> QED
      BY <2>5 DEF id, b
  <1>9. \A n \in DOMAIN reply.out : SummaryTrue(reply.out[n])
    BY <1>4, <1>8
  <1>10. Mapped(reply.out, LAMBDA y : y.id) = Chosen(ids, Q)
    <2>1. \A n \in DOMAIN s : reply.out[n].id = s[n].key
      BY <1>4 DEF Summary
    <2>2. Mapped(reply.out, LAMBDA y : y.id) = [n \in DOMAIN s |-> s[n].key]
      BY <1>4, <2>1 DEF Mapped
    <2> QED
      BY <1>5, <1>7, <2>2
  <1> QED
    BY <1>9, <1>10 DEF ListedAsWritten, ids, Q, pairs

LEMMA ShownTrue ==
  ASSUME Parsed, AnswerTrue, ListTrue
  PROVE  ShownAsWritten
  <1> SUFFICES ASSUME Clean, ~NamesConfused
               PROVE  /\ Succeeded("get") => Said(reply.out) = SaidOf(reply.id)
                      /\ Succeeded("list") => ListedAsWritten
    BY DEF ShownAsWritten
  <1> DEFINE m == Loaded
  <1>1. file \in ParsedFiles /\ SpellsMap(file, m) /\ Good(m)
    BY LoadedSpelled DEF Parsed
  <1>2. Succeeded("get") => reply.id \in Keys(m.bindings) /\ reply.out = BindingOut(reply.id, BindingOf(m, reply.id))
    BY DEF AnswerTrue, Got
  <1>3. Succeeded("list") => reply.out = Summaries(Selected(m, reply.doc))
    BY DEF ListTrue
  <1> HIDE DEF m
  <1>4. ASSUME Succeeded("get")
        PROVE  Said(reply.out) = SaidOf(reply.id)
    <2> DEFINE id == reply.id
               b == BindingOf(m, id)
    <2>1. id \in Keys(m.bindings) /\ reply.out = BindingOut(id, b)
      BY <1>2, <1>4
    <2>2. id \in IdTexts /\ GoodBinding(b)
      BY <1>1, <2>1, BindingFound DEF Good
    <2>3. SaidOf(id) = BindingSaid(<<>>, b)
      BY <1>1, <2>1, FileSays
    <2> HIDE DEF b, id
    <2>4. Said(BindingOut(id, b)) = BindingSaid(<<>>, b)
      BY <2>2, AnswerSays
    <2>5. Said(reply.out) = SaidOf(id)
      BY <2>1, <2>3, <2>4
    <2> QED
      BY <2>5 DEF id
  <1>5. Succeeded("list") => ListedAsWritten
    BY <1>1, <1>3, ListSays
  <1> QED
    BY <1>4, <1>5

(* Of a file that loads without a finding, `get` shows what it says about  *)
(* a binding, no more, no less, each comment at its entry, and `list`      *)
(* takes the bindings of the kinds asked for, in the order of the file,    *)
(* and counts what the file has.  A field whose name is no string may have *)
(* taken the comment of its binding; such files are left out, and nothing  *)
(* else (NamesConfused).                                                   *)
THEOREM AnswersShowTheFile == TextsReadBack => (Spec => []ShownAsWritten)
  <1>1. Init => AnswerTrue /\ ListTrue /\ SetTaken
    BY DEF Init, NoReply, AnswerTrue, ListTrue, SetTaken, Succeeded
  <1>2. TypeOK /\ (AnswerTrue /\ ListTrue /\ SetTaken) /\ [Next]_vars => (AnswerTrue /\ ListTrue /\ SetTaken)'
    BY AnswersStay, AnswerStaysTrue
  <1>3. Parsed /\ (AnswerTrue /\ ListTrue /\ SetTaken) => ShownAsWritten
    BY ShownTrue
  <1> SUFFICES ASSUME TextsReadBack
               PROVE  Spec => []ShownAsWritten
    OBVIOUS
  <1>4. Spec => []Parsed
    BY FileParsed
  <1> QED
    BY <1>1, <1>2, <1>3, <1>4, AnswersTyped, PTL DEF Spec

(***************************************************************************)
(* All that a file says, of the map that it spells.                        *)
(***************************************************************************)
BindingAt(id) == K(K(<<>>, "bindings"), id)
Covering == K(<<>>, "coverage")
FullyBoundAt(n) == Append(K(Covering, "fully_bound"), AtItem(n))
CuratedAt(kind) == K(K(Covering, "curated"), kind)

CoverageSaid(c) ==
    Noted(Covering, c.comment)
      \cup (IF c.fully_bound = None THEN {}
            ELSE {<<FullyBoundAt(n), String(c.fully_bound[n])>> : n \in DOMAIN c.fully_bound})
      \cup (IF c.curated = None THEN {}
            ELSE UNION {{<<CuratedAt(e.key), String(e.value.reason)>>}
                          \cup Noted(CuratedAt(e.key), e.value.comment) : e \in Range(c.curated)})

MapSaid(m) ==
    Noted(<<>>, m.header)
      \cup {<<K(<<>>, "schema_version"), Scalar("integer", m.schema_version)>>}
      \cup (IF m.bindings = <<>> THEN {<<K(<<>>, "bindings"), Mapping(<<>>)>>}
            ELSE UNION {BindingSaid(BindingAt(e.key), e.value) : e \in Range(m.bindings)})
      \cup (IF m.coverage = None THEN {} ELSE CoverageSaid(m.coverage))

LEMMA ListedDeep ==
  ASSUME NEW w, NEW s, s # <<>>, NEW S, w.items \in Seq(S), NEW T, s \in Seq(T), SpellsListed(w, s), NEW x
  PROVE  x \in Deep(3, K(Covering, "fully_bound"), w) <=>
           \E n \in DOMAIN s : x = <<FullyBoundAt(n), String(s[n])>>
  <1> DEFINE p == K(Covering, "fully_bound")
             at(n) == Append(p, AtItem(n))
  <1>1. 2 \in 0..4 /\ 2 + 1 = 3 /\ 2 \in 0..5
    OBVIOUS
  <1>2. w.type = "list" /\ DOMAIN w.items = DOMAIN s /\ w.items # <<>>
    BY SameDomain DEF SpellsListed
  <1>3. \A n \in DOMAIN s : w.items[n].value = String(s[n]) /\ w.items[n].note = None
    BY DEF SpellsListed
  <1>4. x \in Deep(2 + 1, p, w) <=> \E n \in DOMAIN w.items :
          x \in Deep(2, at(n), w.items[n].value) \/ x \in Noted(at(n), w.items[n].note)
    BY <1>1, <1>2, DeepItems
  <1> HIDE DEF p
  <1>5. \A n \in DOMAIN s : Noted(at(n), w.items[n].note) = {}
    BY <1>3 DEF Noted
  <1> HIDE DEF at
  <1>6. \A n \in DOMAIN s : Deep(2, at(n), w.items[n].value) = {<<at(n), String(s[n])>>}
    BY <1>1, <1>3, StringLeaf, DeepLeaf
  <1>7. x \in Deep(3, p, w) <=> \E n \in DOMAIN s : x = <<at(n), String(s[n])>>
    BY <1>1, <1>2, <1>4, <1>5, <1>6
  <1> QED
    BY <1>7 DEF at, p, FullyBoundAt

LEMMA CuratedDeep ==
  ASSUME NEW w, NEW d, d # <<>>, NEW S, w.pairs \in Seq(S), NEW T, d \in Seq(T), SpellsCurated(w, d), NEW x
  PROVE  x \in Deep(3, K(Covering, "curated"), w) <=>
           \E e \in Range(d) : \/ x = <<CuratedAt(e.key), String(e.value.reason)>>
                               \/ x \in Noted(CuratedAt(e.key), e.value.comment)
  <1> DEFINE p == K(Covering, "curated")
             at(k) == Append(p, AtKey(k))
  <1>1. 2 \in 0..4 /\ 2 + 1 = 3 /\ 2 \in 0..5
    OBVIOUS
  <1>2. w.type = "mapping" /\ DOMAIN w.pairs = DOMAIN d /\ w.pairs # <<>>
    BY SameDomain DEF SpellsCurated
  <1>3. \A n \in DOMAIN d : /\ w.pairs[n].key.text = d[n].key
                            /\ w.pairs[n].value = String(d[n].value.reason)
                            /\ w.pairs[n].note = d[n].value.comment
    BY DEF SpellsCurated
  <1>4. x \in Deep(2 + 1, p, w) <=> \E q \in Range(w.pairs) :
          x \in Deep(2, at(q.key.text), q.value) \/ x \in Noted(at(q.key.text), q.note)
    BY <1>1, <1>2, DeepPairs
  <1> HIDE DEF p
  <1> HIDE DEF at
  <1>5. \A n \in DOMAIN d : Deep(2, at(d[n].key), w.pairs[n].value) =
                              {<<at(d[n].key), String(d[n].value.reason)>>}
    BY <1>1, <1>3, StringLeaf, DeepLeaf
  <1>6. /\ \A q : q \in Range(w.pairs) <=> \E n \in DOMAIN d : q = w.pairs[n]
        /\ \A e : e \in Range(d) <=> \E n \in DOMAIN d : e = d[n]
    BY <1>2, ListProperties
  <1>7. x \in Deep(3, p, w) <=> \E n \in DOMAIN d :
          x \in Deep(2, at(d[n].key), w.pairs[n].value) \/ x \in Noted(at(d[n].key), d[n].value.comment)
    BY <1>1, <1>3, <1>4, <1>6
  <1>8. x \in Deep(3, p, w) <=> \E e \in Range(d) :
          x = <<at(e.key), String(e.value.reason)>> \/ x \in Noted(at(e.key), e.value.comment)
    BY <1>5, <1>6, <1>7
  <1>9. \A k : at(k) = CuratedAt(k)
    BY DEF at, p, CuratedAt, K
  <1> QED
    BY <1>8, <1>9 DEF p

(* The coverage block of a file.                                           *)
LEMMA CoverageDeep ==
  ASSUME NEW v \in OnceBlocks, NEW c \in CoverageType, CoverageRules(c), SpellsCoverage(v, c), NEW x
  PROVE  x \in Deep(4, Covering, v) \/ x \in Noted(Covering, c.comment) <=> x \in CoverageSaid(c)
  <1> DEFINE keys == {"fully_bound", "curated"}
             In(k) == Has(v, k) /\ x \in Deep(3, K(Covering, k), At(v, k))
  <1>1. /\ v.type = "mapping" /\ UniqueKeys(v.pairs) /\ Unnoted(v)
        /\ KeysOf(v) \subseteq {String(k) : k \in keys}
        /\ Has(v, "fully_bound") <=> c.fully_bound # None
        /\ c.fully_bound # None => SpellsListed(At(v, "fully_bound"), c.fully_bound)
        /\ Has(v, "curated") <=> c.curated # None
        /\ c.curated # None => SpellsCurated(At(v, "curated"), c.curated)
    BY DEF SpellsCoverage
  <1>2. v.pairs \in Seq(PairsOf(OnceBindings)) /\ \A k : Has(v, k) => At(v, k) \in OnceBindings
    BY <1>1, OnceParts DEF OnceBlocks
  <1>3. 3 \in 0..4 /\ 3 + 1 = 4
    OBVIOUS
  <1>4. v.pairs # <<>>
    <2>1. \E k \in keys : Has(v, k)
      BY <1>1 DEF CoverageRules
    <2>2. PICK k \in keys : Has(v, k)
      BY <2>1
    <2>3. PairAt(v, k) \in Range(v.pairs)
      BY <2>2, HadIsPair
    <2> QED
      BY <2>3, EmptyList
  <1>5. \A q \in Range(v.pairs) : q.note = None
    BY <1>1 DEF Unnoted, Parts
  <1>6. x \in Deep(3 + 1, Covering, v) <=> \E q \in Range(v.pairs) :
          x \in Deep(3, K(Covering, q.key.text), q.value) \/ x \in Noted(K(Covering, q.key.text), q.note)
    BY <1>1, <1>3, <1>4, DeepPairs DEF K
  <1>7. \A q \in Range(v.pairs) : q.key.text \in keys /\ Has(v, q.key.text) /\ q.value = At(v, q.key.text)
    BY <1>1, <1>2, PairIsHad
  <1>8. \A k : Has(v, k) => /\ PairAt(v, k) \in Range(v.pairs) /\ PairAt(v, k).key.text = k
                            /\ PairAt(v, k).value = At(v, k)
    BY HadIsPair, StringLeaf
  <1>9. x \in Deep(4, Covering, v) <=> \E k \in keys : In(k)
    <2>1. \A q \in Range(v.pairs) : x \notin Noted(K(Covering, q.key.text), q.note)
      BY <1>5 DEF Noted
    <2> HIDE DEF keys
    <2>2. x \in Deep(4, Covering, v) <=> \E q \in Range(v.pairs) : x \in Deep(3, K(Covering, q.key.text), q.value)
      BY <1>3, <1>6, <2>1
    <2>3. ASSUME NEW q \in Range(v.pairs), x \in Deep(3, K(Covering, q.key.text), q.value)
          PROVE  \E k \in keys : In(k)
      BY <1>7, <2>3
    <2>4. ASSUME NEW k \in keys, In(k)
          PROVE  \E q \in Range(v.pairs) : x \in Deep(3, K(Covering, q.key.text), q.value)
      BY <1>8, <2>4
    <2> HIDE DEF In
    <2> QED
      BY <2>2, <2>3, <2>4
  <1>10. In("fully_bound") <=>
           c.fully_bound # None /\ \E n \in DOMAIN c.fully_bound : x = <<FullyBoundAt(n), String(c.fully_bound[n])>>
    <2>1. CASE c.fully_bound # None
      <3> DEFINE w == At(v, "fully_bound")
      <3>1. w \in OnceBindings /\ SpellsListed(w, c.fully_bound) /\ Has(v, "fully_bound")
        BY <1>1, <1>2, <2>1
      <3>2. w.items \in Seq(ItemsOf(OnceSections)) /\ c.fully_bound \in Seq(Texts) /\ c.fully_bound # <<>>
        BY <2>1, <3>1, OnceParts DEF OnceBindings, SpellsListed, CoverageType, CoverageRules
      <3> HIDE DEF w
      <3>3. x \in Deep(3, K(Covering, "fully_bound"), w) <=>
              \E n \in DOMAIN c.fully_bound : x = <<FullyBoundAt(n), String(c.fully_bound[n])>>
        BY <3>1, <3>2, ListedDeep
      <3> QED
        BY <2>1, <3>1, <3>3 DEF w
    <2> QED
      BY <1>1, <2>1
  <1>11. In("curated") <=>
           c.curated # None /\ \E e \in Range(c.curated) :
             \/ x = <<CuratedAt(e.key), String(e.value.reason)>> \/ x \in Noted(CuratedAt(e.key), e.value.comment)
    <2>1. CASE c.curated # None
      <3> DEFINE w == At(v, "curated")
      <3>1. w \in OnceBindings /\ SpellsCurated(w, c.curated) /\ Has(v, "curated")
        BY <1>1, <1>2, <2>1
      <3>2. /\ w.pairs \in Seq(PairsOf(OnceSections)) /\ c.curated # <<>>
            /\ c.curated \in Seq([key : Texts, value : [reason : Texts, comment : Note]])
        BY <2>1, <3>1, OnceParts DEF OnceBindings, SpellsCurated, CoverageType, CoverageRules, DictsOf
      <3> HIDE DEF w
      <3>3. x \in Deep(3, K(Covering, "curated"), w) <=> \E e \in Range(c.curated) :
             \/ x = <<CuratedAt(e.key), String(e.value.reason)>> \/ x \in Noted(CuratedAt(e.key), e.value.comment)
        BY <3>1, <3>2, CuratedDeep
      <3> QED
        BY <2>1, <3>1, <3>3 DEF w
    <2> QED
      BY <1>1, <2>1
  <1> HIDE DEF In
  <1>12. (\E k \in keys : In(k)) <=> In("fully_bound") \/ In("curated")
    OBVIOUS
  <1>13. x \in CoverageSaid(c) <=>
           \/ x \in Noted(Covering, c.comment)
           \/ c.fully_bound # None /\ \E n \in DOMAIN c.fully_bound : x = <<FullyBoundAt(n), String(c.fully_bound[n])>>
           \/ c.curated # None /\ \E e \in Range(c.curated) :
                \/ x = <<CuratedAt(e.key), String(e.value.reason)>> \/ x \in Noted(CuratedAt(e.key), e.value.comment)
    BY DEF CoverageSaid
  <1> HIDE DEF keys
  <1> QED
    BY <1>9, <1>10, <1>11, <1>12, <1>13

(* The bindings of a file.                                                 *)
LEMMA BindingsDeep ==
  ASSUME NEW w \in OnceBlocks, NEW d \in Seq([key : IdTexts, value : BindingType(Note)]), SpellsBindings(w, d),
         \A e \in Range(d) : GoodBinding(e.value), NEW x
  PROVE  x \in Deep(4, K(<<>>, "bindings"), w) <=>
           IF d = <<>> THEN x = <<K(<<>>, "bindings"), Mapping(<<>>)>>
           ELSE \E e \in Range(d) : x \in BindingSaid(BindingAt(e.key), e.value)
  <1> DEFINE p == K(<<>>, "bindings")
  <1>1. /\ w.type = "mapping" /\ DOMAIN w.pairs = DOMAIN d
        /\ \A n \in DOMAIN d : /\ w.pairs[n].key.text = d[n].key
                               /\ SpellsBinding(w.pairs[n].value, d[n].value)
                               /\ w.pairs[n].note = d[n].value.comment
    BY DEF SpellsBindings
  <1>2. w.pairs \in Seq(PairsOf(OnceBindings)) /\ \A q \in Range(w.pairs) : q.value \in OnceBindings
    BY <1>1, OnceParts DEF OnceBlocks
  <1>3. /\ w.pairs = <<>> <=> d = <<>>
        /\ \A q : q \in Range(w.pairs) <=> \E n \in DOMAIN d : q = w.pairs[n]
        /\ \A e : e \in Range(d) <=> \E n \in DOMAIN d : e = d[n]
    BY <1>1, <1>2, SameDomain, ListProperties
  <1>4. 3 \in 0..4 /\ 3 + 1 = 4 /\ 4 \in 0..5
    OBVIOUS
  <1>5. CASE d = <<>>
    <2>1. w = Mapping(w.pairs)
      BY <1>1, BlockParts
    <2>2. w = Mapping(<<>>) /\ w.pairs = <<>>
      BY <1>3, <1>5, <2>1
    <2>3. ~Branching(w)
      BY <1>1, <2>2 DEF Branching
    <2>4. Deep(4, p, w) = {<<p, w>>}
      BY <1>4, <2>3, DeepLeaf
    <2> QED
      BY <1>5, <2>2, <2>4
  <1>6. CASE d # <<>>
    <2>1. x \in Deep(3 + 1, p, w) <=> \E q \in Range(w.pairs) :
            x \in Deep(3, K(p, q.key.text), q.value) \/ x \in Noted(K(p, q.key.text), q.note)
      BY <1>1, <1>3, <1>4, <1>6, DeepPairs DEF K
    <2>2. IsPath(p)
      BY BindingPlace
    <2>3. \A k : BindingAt(k) = K(p, k)
      BY DEF BindingAt
    <2> HIDE DEF p
    <2>4. ASSUME NEW n \in DOMAIN d
          PROVE  x \in Deep(3, K(p, w.pairs[n].key.text), w.pairs[n].value)
                   \/ x \in Noted(K(p, w.pairs[n].key.text), w.pairs[n].note)
                 <=> x \in BindingSaid(BindingAt(d[n].key), d[n].value)
      <3> DEFINE v == w.pairs[n].value
                 b == d[n].value
      <3>1. v \in OnceBindings /\ SpellsBinding(v, b) /\ GoodBinding(b)
        BY <1>1, <1>2, <1>3
      <3>2. IsPath(K(p, d[n].key))
        BY <2>2, PathKey
      <3> HIDE DEF v, b
      <3>3. x \in Deep(3, K(p, d[n].key), v) \/ x \in Noted(K(p, d[n].key), b.comment)
              <=> x \in BindingSaid(K(p, d[n].key), b)
        BY <3>1, <3>2, BindingLeaves
      <3> QED
        BY <1>1, <2>3, <3>3 DEF v, b
    <2>5. x \in Deep(4, p, w) <=> \E n \in DOMAIN d : x \in BindingSaid(BindingAt(d[n].key), d[n].value)
      BY <1>3, <1>4, <2>1, <2>4
    <2>6. x \in Deep(4, p, w) <=> \E e \in Range(d) : x \in BindingSaid(BindingAt(e.key), e.value)
      BY <1>3, <2>5
    <2> QED
      BY <1>6, <2>6 DEF p
  <1> QED
    BY <1>5, <1>6

LEMMA MapForms ==
  ASSUME NEW m, NEW x
  PROVE  x \in MapSaid(m) <=>
           \/ x \in Noted(<<>>, m.header)
           \/ x = <<K(<<>>, "schema_version"), Scalar("integer", m.schema_version)>>
           \/ m.bindings = <<>> /\ x = <<K(<<>>, "bindings"), Mapping(<<>>)>>
           \/ m.bindings # <<>> /\ \E e \in Range(m.bindings) : x \in BindingSaid(BindingAt(e.key), e.value)
           \/ m.coverage # None /\ x \in CoverageSaid(m.coverage)
  BY DEF MapSaid

(* What is in a file is what its map says.                                 *)
LEMMA ContentsSaid ==
  ASSUME NEW f \in ParsedFiles, NEW m, Good(m), SpellsMap(f, m)
  PROVE  Contents(f) = MapSaid(m)
  <1> DEFINE e == <<>>
             root == f.root
  <1>1. /\ root \in Once(OnceBlocks) /\ root.type = "mapping"
        /\ root.pairs \in Seq(PairsOf(OnceBlocks)) /\ UniqueKeys(root.pairs)
    <2>1. root \in Once(OnceBlocks) /\ root.type = "mapping"
      BY ParsedRoot
    <2> QED
      BY <2>1, OnceParts
  <1>2. /\ f.header = m.header
        /\ KeysOf(root) \subseteq {String(k) : k \in RootKeys}
        /\ \A q \in Range(root.pairs) : q.key # String("coverage") => q.note = None
        /\ Has(root, "schema_version") /\ At(root, "schema_version") = Scalar("integer", m.schema_version)
        /\ Has(root, "bindings") /\ SpellsBindings(At(root, "bindings"), m.bindings)
        /\ Has(root, "coverage") <=> m.coverage # None
        /\ m.coverage # None => /\ SpellsCoverage(At(root, "coverage"), m.coverage)
                                /\ PairAt(root, "coverage").note = m.coverage.comment
    BY DEF SpellsMap, SpellsRest
  <1>3. \A k : Has(root, k) => /\ PairAt(root, k) \in Range(root.pairs) /\ PairAt(root, k).key.text = k
                               /\ PairAt(root, k).value = At(root, k) /\ At(root, k) \in OnceBlocks
    BY <1>1, HadIsPair, StringLeaf, OnceParts
  <1>4. \A q \in Range(root.pairs) : /\ q.key.text \in RootKeys /\ Has(root, q.key.text)
                                     /\ q = PairAt(root, q.key.text) /\ q.value = At(root, q.key.text)
                                     /\ q.key = String(q.key.text)
    BY <1>1, <1>2, PairIsHad
  <1>5. root.pairs # <<>>
    BY <1>2, <1>3, EmptyList
  <1>6. 4 \in 0..4 /\ 4 + 1 = 5 /\ 4 \in 0..5
    OBVIOUS
  <1>7. /\ m.bindings \in Seq([key : IdTexts, value : BindingType(Note)])
        /\ \A y \in Range(m.bindings) : y.key \in IdTexts /\ GoodBinding(y.value)
    BY GoodMaps
  <1> SUFFICES ASSUME NEW x
               PROVE  x \in Contents(f) <=> x \in MapSaid(m)
    OBVIOUS
  <1> DEFINE In(k) == /\ Has(root, k)
                      /\ x \in Deep(4, K(e, k), At(root, k)) \/ x \in Noted(K(e, k), PairAt(root, k).note)
  <1>8. x \in Contents(f) <=> x \in Deep(5, e, root) \/ x \in Noted(e, f.header)
    BY LeavesDeep DEF Contents
  <1>9. x \in Deep(4 + 1, e, root) <=> \E q \in Range(root.pairs) :
          x \in Deep(4, K(e, q.key.text), q.value) \/ x \in Noted(K(e, q.key.text), q.note)
    BY <1>1, <1>5, <1>6, DeepPairs DEF K
  <1> HIDE DEF e, root
  <1>10. x \in Deep(5, e, root) <=> \E k \in RootKeys : In(k)
    <2>1. ASSUME NEW q \in Range(root.pairs),
                 x \in Deep(4, K(e, q.key.text), q.value) \/ x \in Noted(K(e, q.key.text), q.note)
          PROVE  \E k \in RootKeys : In(k)
      <3>1. In(q.key.text)
        BY <1>4, <2>1
      <3> QED
        BY <1>4, <3>1
    <2>2. ASSUME NEW k \in RootKeys, In(k)
          PROVE  \E q \in Range(root.pairs) :
                   x \in Deep(4, K(e, q.key.text), q.value) \/ x \in Noted(K(e, q.key.text), q.note)
      BY <1>3, <2>2
    <2> HIDE DEF In
    <2> QED
      BY <1>6, <1>9, <2>1, <2>2
  <1>11. \A k : Has(root, k) /\ k # "coverage" => Noted(K(e, k), PairAt(root, k).note) = {}
    <2> SUFFICES ASSUME NEW k, Has(root, k), k # "coverage"
                 PROVE  Noted(K(e, k), PairAt(root, k).note) = {}
      OBVIOUS
    <2>1. PairAt(root, k).key # String("coverage")
      BY <1>3, <1>4, StringsDiffer
    <2>2. PairAt(root, k).note = None
      BY <1>2, <1>3, <2>1
    <2> QED
      BY <2>2 DEF Noted
  <1>12. In("schema_version") <=> x = <<K(e, "schema_version"), Scalar("integer", m.schema_version)>>
    <2> DEFINE v == Scalar("integer", m.schema_version)
    <2>1. ~Branching(v)
      BY DEF Branching, Scalar
    <2> HIDE DEF v
    <2>2. Deep(4, K(e, "schema_version"), v) = {<<K(e, "schema_version"), v>>}
      BY <1>6, <2>1, DeepLeaf
    <2>3. In("schema_version") <=> x \in Deep(4, K(e, "schema_version"), v)
      BY <1>2, <1>11 DEF v
    <2> QED
      BY <2>2, <2>3 DEF v
  <1>13. In("bindings") <=> IF m.bindings = <<>> THEN x = <<K(e, "bindings"), Mapping(<<>>)>>
                            ELSE \E y \in Range(m.bindings) : x \in BindingSaid(BindingAt(y.key), y.value)
    <2>1. At(root, "bindings") \in OnceBlocks
      BY <1>2, <1>3
    <2>2. In("bindings") <=> x \in Deep(4, K(e, "bindings"), At(root, "bindings"))
      BY <1>2, <1>11
    <2> QED
      BY <1>2, <1>7, <2>1, <2>2, BindingsDeep DEF e
  <1>14. In("coverage") <=> m.coverage # None /\ x \in CoverageSaid(m.coverage)
    <2>1. CASE m.coverage # None
      <3>1. m.coverage \in CoverageType /\ CoverageRules(m.coverage)
        BY <2>1, GoodCoverage
      <3>2. At(root, "coverage") \in OnceBlocks /\ Has(root, "coverage")
        BY <1>2, <1>3, <2>1
      <3>3. x \in Deep(4, Covering, At(root, "coverage")) \/ x \in Noted(Covering, m.coverage.comment)
              <=> x \in CoverageSaid(m.coverage)
        BY <1>2, <2>1, <3>1, <3>2, CoverageDeep
      <3> QED
        BY <1>2, <2>1, <3>2, <3>3 DEF Covering, e
    <2> QED
      BY <1>2, <2>1
  <1> HIDE DEF In
  <1>15. (\E k \in RootKeys : In(k)) <=> In("schema_version") \/ In("bindings") \/ In("coverage")
    BY DEF RootKeys
  <1> QED
    BY <1>2, <1>8, <1>10, <1>12, <1>13, <1>14, <1>15, MapForms DEF e

(***************************************************************************)
(* Leaves under a path, and beside it.                                     *)
(***************************************************************************)
AllOf(p, A) == \A x \in A : OfPath(p, x[1])
NoneOf(p, A) == \A x \in A : IsPath(x[1]) /\ ~OfPath(p, x[1])

LEMMA StepPath ==
  ASSUME NEW p, IsPath(p), NEW e
  PROVE  /\ IsPath(Append(p, e)) /\ OfPath(p, Append(p, e)) /\ Len(Append(p, e)) = Len(p) + 1
         /\ Len(p) \in Nat
         /\ \A r : OfPath(Append(p, e), r) => /\ Len(r) \in Nat /\ Len(r) >= Len(p) + 1
                                              /\ r[Len(p) + 1] = e /\ OfPath(p, r) /\ r # p
  <1>1. /\ IsPath(Append(p, e)) /\ Len(p) \in Nat /\ Len(Append(p, e)) = Len(p) + 1
        /\ Append(p, e)[Len(p) + 1] = e
    BY PathAppend
  <1>2. OfPath(p, Append(p, e))
    BY OfItself, OfAppend
  <1>3. ASSUME NEW r, OfPath(Append(p, e), r)
        PROVE  Len(r) \in Nat /\ Len(r) >= Len(p) + 1 /\ r[Len(p) + 1] = e /\ OfPath(p, r)
    <2>1. Len(r) \in Nat /\ Len(r) >= Len(p) + 1
      BY <1>1, <1>3, LenProperties DEF OfPath, IsPath
    <2>2. r[Len(p) + 1] = Append(p, e)[Len(p) + 1]
      BY <1>1, <1>3 DEF OfPath
    <2> QED
      BY <1>1, <1>2, <1>3, <2>1, <2>2, OfTransitive
  <1>4. \A r : OfPath(Append(p, e), r) => r # p
    BY <1>1, <1>3
  <1> QED
    BY <1>1, <1>2, <1>3, <1>4

(* Two branches share nothing.                                             *)
LEMMA Branches ==
  ASSUME NEW p, IsPath(p), NEW d, NEW e, d # e, NEW r, OfPath(Append(p, d), r)
  PROVE  ~OfPath(Append(p, e), r)
  BY StepPath

LEMMA PrefixIs ==
  ASSUME NEW p, NEW r, IsPath(p), IsPath(r)
  PROVE  IsPrefix(p, r) <=> OfPath(p, r)
  <1>1. Len(p) \in Nat /\ Len(r) \in Nat /\ p \in Seq(Range(p)) /\ r \in Seq(Range(r))
    BY LenProperties DEF IsPath
  <1>2. \A T : \A s \in Seq(T) : \A n \in 0..Len(s) :
          Len(SubSeq(s, 1, n)) = n /\ \A i \in 1..n : SubSeq(s, 1, n)[i] = s[i]
    BY SubSeqProperties
  <1>3. CASE Len(p) <= Len(r)
    <2>1. Len(p) \in 0..Len(r) /\ Len(p) \in 0..Len(p)
      BY <1>1, <1>3
    <2> DEFINE s == SubSeq(p, 1, Len(p))
               t == SubSeq(r, 1, Len(p))
    <2>2. Len(s) = Len(p) /\ Len(t) = Len(p) /\ \A i \in 1..Len(p) : s[i] = p[i] /\ t[i] = r[i]
      BY <1>1, <1>2, <2>1
    <2>3. s \in Seq(Range(p)) /\ t \in Seq(Range(r))
      BY <1>1, <2>1, SubSeqProperties
    <2>4. IsPath(s) /\ IsPath(t)
      BY <2>3, PathOf
    <2>5. IsPrefix(p, r) <=> s = t
      BY <1>3 DEF IsPrefix
    <2> HIDE DEF s, t
    <2>6. s = t <=> \A i \in 1..Len(p) : r[i] = p[i]
      BY <2>2, <2>4, SamePath
    <2> QED
      BY <1>3, <2>5, <2>6 DEF OfPath
  <1>4. CASE ~(Len(p) <= Len(r))
    BY <1>4 DEF IsPrefix, OfPath
  <1> QED
    BY <1>3, <1>4

(* A file in two parts, one under a path and one beside it.                *)
Aside(p, B) == {x \in B : x[1] # SubSeq(p, 1, Len(p) - 1)}

LEMMA UnderIs ==
  ASSUME NEW f, NEW p, IsPath(p), NEW A, AllOf(p, A), NEW B, NoneOf(p, B), Contents(f) = A \cup B
  PROVE  Under(f, p) = Moved(p, A) /\ Beside(f, p) = Aside(p, B)
  <1>1. \A x \in A : IsPrefix(p, x[1])
    BY PrefixIs DEF AllOf, OfPath
  <1>2. \A x \in B : ~IsPrefix(p, x[1])
    BY PrefixIs DEF NoneOf
  <1>3. {x \in Contents(f) : IsPrefix(p, x[1])} = A
    BY <1>1, <1>2
  <1>4. Under(f, p) = Moved(p, A)
    BY <1>3 DEF Under, Moved, Rest
  <1>5. Beside(f, p) = Aside(p, B)
    BY <1>1, <1>2 DEF Beside, Aside
  <1> QED
    BY <1>4, <1>5

LEMMA AllNone ==
  ASSUME NEW p, IsPath(p)
  PROVE  /\ \A A, B : AllOf(p, A) /\ AllOf(p, B) => AllOf(p, A \cup B)
         /\ \A A, B : NoneOf(p, A) /\ NoneOf(p, B) => NoneOf(p, A \cup B)
         /\ \A q, A : OfPath(p, q) /\ AllOf(q, A) => AllOf(p, A)
         /\ \A q, A : OfPath(p, q) /\ NoneOf(p, A) => NoneOf(q, A)
         /\ \A d, e, A : d # e /\ AllOf(Append(p, d), A) => NoneOf(Append(p, e), A)
         /\ AllOf(p, {}) /\ NoneOf(p, {})
  <1>1. \A q, A : OfPath(p, q) /\ AllOf(q, A) => AllOf(p, A)
    BY OfTransitive DEF AllOf
  <1>2. \A q, A : OfPath(p, q) /\ NoneOf(p, A) => NoneOf(q, A)
    BY OfTransitive DEF NoneOf
  <1>3. ASSUME NEW d, NEW e, NEW A, d # e, AllOf(Append(p, d), A)
        PROVE  NoneOf(Append(p, e), A)
    <2> SUFFICES ASSUME NEW x \in A
                 PROVE  IsPath(x[1]) /\ ~OfPath(Append(p, e), x[1])
      BY DEF NoneOf
    <2>1. OfPath(Append(p, d), x[1])
      BY <1>3 DEF AllOf
    <2> QED
      BY <1>3, <2>1, Branches DEF OfPath
  <1>4. /\ \A A, B : AllOf(p, A) /\ AllOf(p, B) => AllOf(p, A \cup B)
        /\ \A A, B : NoneOf(p, A) /\ NoneOf(p, B) => NoneOf(p, A \cup B)
        /\ AllOf(p, {}) /\ NoneOf(p, {})
    BY DEF AllOf, NoneOf
  <1> QED
    BY <1>1, <1>2, <1>3, <1>4

(***************************************************************************)
(* What is said about an entry, a list, a section or a binding is under    *)
(* its path.                                                               *)
(***************************************************************************)
LEMMA NotedUnder ==
  ASSUME NEW p, IsPath(p), NEW c
  PROVE  AllOf(p, Noted(p, c)) /\ \A x \in Noted(p, c) : x[1] = K(p, "comment")
  <1>1. \A x \in Noted(p, c) : x[1] = Append(p, AtKey("comment"))
    BY DEF Noted
  <1>2. OfPath(p, Append(p, AtKey("comment")))
    BY StepPath
  <1> QED
    BY <1>1, <1>2 DEF AllOf, K

LEMMA EntryUnder ==
  ASSUME NEW p, IsPath(p), NEW x
  PROVE  AllOf(p, EntrySaid(p, x))
  <1> SUFFICES ASSUME NEW z \in EntrySaid(p, x)
               PROVE  OfPath(p, z[1])
    BY DEF AllOf
  <1>1. PICK r \in EntryRows(x) : z = <<K(p, r[1]), r[2]>>
    BY DEF EntrySaid, Placed
  <1> QED
    BY <1>1, StepPath DEF K

LEMMA ListUnder ==
  ASSUME NEW p, IsPath(p), NEW s
  PROVE  AllOf(p, ListSaid(p, s))
  <1> SUFFICES ASSUME NEW z \in ListSaid(p, s)
               PROVE  OfPath(p, z[1])
    BY DEF AllOf
  <1>1. CASE z = <<p, List(<<>>)>>
    BY <1>1, OfItself
  <1>2. CASE \E n \in DOMAIN s : z \in EntrySaid(Append(p, AtItem(n)), s[n])
    <2>1. PICK n \in DOMAIN s : z \in EntrySaid(Append(p, AtItem(n)), s[n])
      BY <1>2
    <2>2. OfPath(Append(p, AtItem(n)), z[1])
      BY <2>1, StepPath, EntryUnder DEF AllOf
    <2> QED
      BY <2>2, StepPath
  <1> QED
    BY <1>1, <1>2, ListSaidIs

LEMMA FieldsUnder ==
  ASSUME NEW p, IsPath(p), NEW d
  PROVE  AllOf(p, FieldsSaid(p, d))
  <1> SUFFICES ASSUME NEW z \in FieldsSaid(p, d)
               PROVE  OfPath(p, z[1])
    BY DEF AllOf
  <1>1. PICK n \in DOMAIN d : z \in EntrySaid(K(p, d[n].key), d[n].value)
    BY DEF FieldsSaid
  <1>2. OfPath(Append(p, AtKey(d[n].key)), z[1])
    BY <1>1, StepPath, EntryUnder DEF AllOf, K
  <1> QED
    BY <1>2, StepPath

LEMMA SectionUnder ==
  ASSUME NEW p, IsPath(p), NEW k \in SectionKeys, NEW b
  PROVE  AllOf(p, SectionSaid(p, k, b))
  <1>1. \A t : AllOf(p, {<<p, t>>})
    BY OfItself DEF AllOf
  <1>2. AllOf(p, {})
    BY DEF AllOf
  <1>3. CASE k = "locators"
    BY <1>3, ListUnder DEF SectionSaid
  <1>4. CASE k = "compare_via"
    BY <1>1, <1>2, <1>4 DEF SectionSaid
  <1>5. CASE k = "fields"
    BY <1>2, <1>5, FieldsUnder DEF SectionSaid
  <1>6. CASE k = "wire"
    BY <1>2, <1>6, EntryUnder DEF SectionSaid
  <1>7. CASE k = "asserted_by"
    BY <1>2, <1>7, ListUnder DEF SectionSaid
  <1> QED
    BY <1>3, <1>4, <1>5, <1>6, <1>7 DEF SectionKeys

(* A binding but for one of its sections.                                  *)
Beyond(p, k, b) == Noted(p, b.comment) \cup UNION {SectionSaid(K(p, j), j, b) : j \in SectionKeys \ {k}}

LEMMA BindingParts ==
  ASSUME NEW p, IsPath(p), NEW k \in SectionKeys, NEW b
  PROVE  /\ BindingSaid(p, b) = SectionSaid(K(p, k), k, b) \cup Beyond(p, k, b)
         /\ AllOf(K(p, k), SectionSaid(K(p, k), k, b)) /\ NoneOf(K(p, k), Beyond(p, k, b))
         /\ AllOf(p, BindingSaid(p, b)) /\ \A x \in BindingSaid(p, b) : x[1] # p
         /\ IsPath(K(p, k)) /\ OfPath(p, K(p, k))
  <1>1. \A j : IsPath(K(p, j)) /\ OfPath(p, K(p, j)) /\ K(p, j) = Append(p, AtKey(j))
    BY StepPath DEF K
  <1>2. BindingSaid(p, b) = SectionSaid(K(p, k), k, b) \cup Beyond(p, k, b)
    BY DEF BindingSaid, Beyond
  <1>3. \A j \in SectionKeys : AllOf(K(p, j), SectionSaid(K(p, j), j, b))
    BY <1>1, SectionUnder
  <1>4. AllOf(K(p, "comment"), Noted(p, b.comment))
    BY <1>1, NotedUnder, OfItself DEF AllOf
  <1>5. NoneOf(K(p, k), Noted(p, b.comment))
    <2>1. AtKey("comment") # AtKey(k)
      BY KeysApart
    <2>2. AllOf(Append(p, AtKey("comment")), Noted(p, b.comment))
      BY <1>4 DEF K
    <2>3. NoneOf(Append(p, AtKey(k)), Noted(p, b.comment))
      BY <2>1, <2>2, AllNone
    <2> QED
      BY <2>3 DEF K
  <1>6. \A j \in SectionKeys \ {k} : NoneOf(K(p, k), SectionSaid(K(p, j), j, b))
    <2> TAKE j \in SectionKeys \ {k}
    <2>1. AtKey(j) # AtKey(k)
      BY KeysApart
    <2> DEFINE A == SectionSaid(K(p, j), j, b)
    <2>2. AllOf(Append(p, AtKey(j)), A)
      BY <1>3 DEF K
    <2> HIDE DEF A
    <2>3. NoneOf(Append(p, AtKey(k)), A)
      BY <2>1, <2>2, AllNone
    <2> QED
      BY <2>3 DEF K, A
  <1>7. NoneOf(K(p, k), Beyond(p, k, b))
    BY <1>5, <1>6 DEF NoneOf, Beyond
  <1>8. \A x \in BindingSaid(p, b) : \E j : OfPath(Append(p, AtKey(j)), x[1])
    BY <1>1, <1>3, <1>4 DEF AllOf, BindingSaid
  <1>9. AllOf(p, BindingSaid(p, b)) /\ \A x \in BindingSaid(p, b) : x[1] # p
    BY <1>8, StepPath DEF AllOf
  <1> QED
    BY <1>1, <1>2, <1>3, <1>7, <1>9

(* What a file says besides the bindings, and of bindings other than one.  *)
NoBindings(m) == IF m.bindings = <<>> THEN {<<K(<<>>, "bindings"), Mapping(<<>>)>>} ELSE {}
Heading(m) == Noted(<<>>, m.header) \cup {<<K(<<>>, "schema_version"), Scalar("integer", m.schema_version)>>}
CoveringSaid(m) == IF m.coverage = None THEN {} ELSE CoverageSaid(m.coverage)
OtherBindings(m, id) ==
    UNION {BindingSaid(BindingAt(e.key), e.value) : e \in {e \in Range(m.bindings) : e.key # id}}
Around(m, id) == Heading(m) \cup CoveringSaid(m) \cup OtherBindings(m, id)

LEMMA RootPaths ==
  /\ IsPath(<<>>) /\ Len(<<>>) = 0 /\ \A k : IsPath(K(<<>>, k)) /\ K(<<>>, k) = Append(<<>>, AtKey(k))
  /\ \A j, k : AtKey(j) = AtKey(k) => j = k
  /\ \A k : /\ IsPath(BindingAt(k)) /\ BindingAt(k) = Append(K(<<>>, "bindings"), AtKey(k))
            /\ OfPath(K(<<>>, "bindings"), BindingAt(k))
  BY EmptyPath, KeysApart, StepPath DEF K, BindingAt

LEMMA CoverageUnder ==
  ASSUME NEW c
  PROVE  AllOf(Covering, CoverageSaid(c))
  <1>1. IsPath(Covering)
    BY RootPaths DEF Covering
  <1>2. \A k : IsPath(K(Covering, k)) /\ OfPath(Covering, K(Covering, k))
    BY <1>1, StepPath DEF K
  <1>3. \A n : OfPath(Covering, FullyBoundAt(n))
    BY <1>2, StepPath, OfTransitive DEF FullyBoundAt
  <1>4. \A k : OfPath(Covering, CuratedAt(k)) /\ IsPath(CuratedAt(k))
    <2> TAKE k
    <2>1. OfPath(K(Covering, "curated"), CuratedAt(k)) /\ IsPath(CuratedAt(k))
      BY <1>2, StepPath DEF CuratedAt, K
    <2> QED
      BY <1>2, <2>1, OfTransitive
  <1>5. \A k, t : AllOf(Covering, Noted(CuratedAt(k), t))
    BY <1>1, <1>4, NotedUnder, AllNone
  <1>6. AllOf(Covering, Noted(Covering, c.comment))
    BY <1>1, NotedUnder
  <1> SUFFICES ASSUME NEW x \in CoverageSaid(c)
               PROVE  OfPath(Covering, x[1])
    BY DEF AllOf
  <1>7. \/ x \in Noted(Covering, c.comment)
        \/ \E n : x[1] = FullyBoundAt(n)
        \/ \E k : x[1] = CuratedAt(k)
        \/ \E k, t : x \in Noted(CuratedAt(k), t)
    BY DEF CoverageSaid
  <1> QED
    BY <1>3, <1>4, <1>5, <1>6, <1>7 DEF AllOf

LEMMA HeadingPaths ==
  ASSUME NEW m, NEW x \in Heading(m)
  PROVE  \E k \in {"comment", "schema_version"} : x[1] = K(<<>>, k)
  BY DEF Heading, Noted, K

(* Beside the bindings.                                                    *)
LEMMA OutsideBindings ==
  ASSUME NEW m
  PROVE  /\ NoneOf(K(<<>>, "bindings"), Heading(m)) /\ NoneOf(K(<<>>, "bindings"), CoveringSaid(m))
         /\ \A x \in Heading(m) \cup CoveringSaid(m) : x[1] # K(<<>>, "bindings")
  <1> DEFINE p == <<>>
  <1>1. IsPath(p) /\ \A j, k : AtKey(j) = AtKey(k) => j = k
    BY RootPaths
  <1>2. \A k : IsPath(K(p, k)) /\ OfPath(K(p, k), K(p, k)) /\ K(p, k) = Append(p, AtKey(k))
    BY RootPaths, OfItself
  <1> HIDE DEF p
  <1>3. \A k : k # "bindings" => ~OfPath(K(p, "bindings"), K(p, k))
    <2> SUFFICES ASSUME NEW k, k # "bindings"
                 PROVE  ~OfPath(K(p, "bindings"), K(p, k))
      OBVIOUS
    <2>1. AtKey(k) # AtKey("bindings")
      BY <1>1
    <2>2. OfPath(Append(p, AtKey(k)), K(p, k))
      BY <1>2
    <2>3. ~OfPath(Append(p, AtKey("bindings")), K(p, k))
      BY <1>1, <2>1, <2>2, Branches
    <2> QED
      BY <2>3 DEF K
  <1>4. NoneOf(K(p, "bindings"), Heading(m))
    BY <1>2, <1>3, HeadingPaths DEF NoneOf, p
  <1>5. NoneOf(K(p, "bindings"), CoveringSaid(m))
    <2>1. AllOf(Append(p, AtKey("coverage")), CoveringSaid(m))
      BY CoverageUnder DEF CoveringSaid, Covering, K, AllOf, p
    <2>2. AtKey("coverage") # AtKey("bindings")
      BY <1>1
    <2>3. NoneOf(Append(p, AtKey("bindings")), CoveringSaid(m))
      BY <1>1, <2>1, <2>2, AllNone
    <2> QED
      BY <2>3 DEF K
  <1>6. \A x \in Heading(m) \cup CoveringSaid(m) : x[1] # K(p, "bindings")
    BY <1>2, <1>4, <1>5 DEF NoneOf
  <1> QED
    BY <1>4, <1>5, <1>6 DEF p

LEMMA BindingsUnder ==
  ASSUME NEW id, NEW b
  PROVE  /\ AllOf(BindingAt(id), BindingSaid(BindingAt(id), b))
         /\ \A x \in BindingSaid(BindingAt(id), b) :
              OfPath(K(<<>>, "bindings"), x[1]) /\ x[1] # K(<<>>, "bindings") /\ x[1] # BindingAt(id)
  <1>1. IsPath(BindingAt(id)) /\ "locators" \in SectionKeys /\ IsPath(K(<<>>, "bindings"))
    BY RootPaths DEF SectionKeys
  <1>2. AllOf(BindingAt(id), BindingSaid(BindingAt(id), b)) /\ \A x \in BindingSaid(BindingAt(id), b) : x[1] # BindingAt(id)
    BY <1>1, BindingParts
  <1>3. \A r : OfPath(BindingAt(id), r) => OfPath(K(<<>>, "bindings"), r) /\ r # K(<<>>, "bindings")
    BY <1>1, RootPaths, StepPath
  <1> QED
    BY <1>2, <1>3 DEF AllOf

LEMMA AroundApart ==
  ASSUME NEW m, NEW id
  PROVE  /\ NoneOf(BindingAt(id), Around(m, id)) /\ IsPath(BindingAt(id))
         /\ \A x \in Around(m, id) : x[1] # K(<<>>, "bindings")
         /\ NoneOf(BindingAt(id), NoBindings(m))
  <1> DEFINE q == K(<<>>, "bindings")
  <1>1. IsPath(q) /\ IsPath(BindingAt(id)) /\ OfPath(q, BindingAt(id)) /\ \A k : BindingAt(k) = Append(q, AtKey(k))
    BY RootPaths
  <1>2. NoneOf(BindingAt(id), Heading(m)) /\ NoneOf(BindingAt(id), CoveringSaid(m))
    BY <1>1, OutsideBindings, AllNone
  <1>3. \A k, b : k # id => NoneOf(BindingAt(id), BindingSaid(BindingAt(k), b))
    <2> SUFFICES ASSUME NEW k, NEW b, k # id
                 PROVE  NoneOf(BindingAt(id), BindingSaid(BindingAt(k), b))
      OBVIOUS
    <2> DEFINE A == BindingSaid(BindingAt(k), b)
    <2>1. AllOf(Append(q, AtKey(k)), A)
      BY <1>1, BindingsUnder
    <2>2. AtKey(k) # AtKey(id)
      BY RootPaths
    <2> HIDE DEF A, q
    <2>3. NoneOf(Append(q, AtKey(id)), A)
      BY <1>1, <2>1, <2>2, AllNone
    <2> QED
      BY <1>1, <2>3 DEF A
  <1>4. NoneOf(BindingAt(id), OtherBindings(m, id))
    BY <1>3 DEF NoneOf, OtherBindings
  <1>5. \A x \in OtherBindings(m, id) : x[1] # q
    BY BindingsUnder DEF OtherBindings
  <1>6. NoneOf(BindingAt(id), NoBindings(m))
    <2>1. ~OfPath(BindingAt(id), q)
      BY <1>1, StepPath
    <2> QED
      BY <1>1, <2>1 DEF NoneOf, NoBindings
  <1> QED
    BY <1>1, <1>2, <1>4, <1>5, <1>6, OutsideBindings DEF NoneOf, Around

(* The binding of an ID and what is around it.                             *)
LEMMA MapAround ==
  ASSUME NEW m, Good(m), NEW id
  PROVE  /\ id \in Keys(m.bindings) =>
              MapSaid(m) = BindingSaid(BindingAt(id), BindingOf(m, id)) \cup Around(m, id)
         /\ id \notin Keys(m.bindings) => MapSaid(m) = NoBindings(m) \cup Around(m, id)
  <1> DEFINE R == Range(m.bindings)
             Of(e) == BindingSaid(BindingAt(e.key), e.value)
             here == BindingSaid(BindingAt(id), BindingOf(m, id))
  <1>1. /\ m.bindings \in Seq([key : IdTexts, value : BindingType(Note)]) /\ UniqueKeys(m.bindings)
    BY GoodMaps
  <1>2. m.bindings = <<>> <=> R = {}
    BY <1>1, NothingInIt
  <1>3. Keys(m.bindings) = {e.key : e \in R} /\ \A d, e \in R : d.key = e.key => d = e
    BY <1>1, ListProperties, UniqueIsInjective
  <1>4. \A e \in R : e.key = id => BindingOf(m, id) = e.value
    BY <1>3 DEF BindingOf, Lookup
  <1>5. \A x : x \in MapSaid(m) <=> \/ x \in Heading(m) \/ x \in CoveringSaid(m) \/ x \in NoBindings(m)
                                    \/ \E e \in R : x \in Of(e)
    <2> TAKE x
    <2>1. x \in Heading(m) <=> \/ x \in Noted(<<>>, m.header)
                               \/ x = <<K(<<>>, "schema_version"), Scalar("integer", m.schema_version)>>
      BY DEF Heading
    <2>2. x \in CoveringSaid(m) <=> m.coverage # None /\ x \in CoverageSaid(m.coverage)
      BY DEF CoveringSaid
    <2>3. x \in NoBindings(m) <=> m.bindings = <<>> /\ x = <<K(<<>>, "bindings"), Mapping(<<>>)>>
      BY DEF NoBindings
    <2>4. (\E e \in R : x \in Of(e)) => m.bindings # <<>>
      BY <1>2
    <2> HIDE DEF R
    <2> QED
      BY <2>1, <2>2, <2>3, <2>4, MapForms DEF R
  <1>6. \A x : x \in Around(m, id) <=> \/ x \in Heading(m) \/ x \in CoveringSaid(m)
                                       \/ \E e \in R : e.key # id /\ x \in Of(e)
    BY DEF Around, OtherBindings
  <1>7. \A x : (\E e \in R : e.key = id /\ x \in Of(e)) <=> id \in Keys(m.bindings) /\ x \in here
    BY <1>3, <1>4
  <1>8. id \in Keys(m.bindings) => m.bindings # <<>>
    BY <1>2, <1>3
  <1>9. id \in Keys(m.bindings) => NoBindings(m) = {}
    BY <1>8 DEF NoBindings
  <1> HIDE DEF R, Of, here
  <1>10. ASSUME id \in Keys(m.bindings)
         PROVE  MapSaid(m) = here \cup Around(m, id)
    <2>1. \A x : x \in MapSaid(m) <=> x \in here \/ x \in Around(m, id)
      BY <1>5, <1>6, <1>7, <1>9, <1>10
    <2> QED
      BY <2>1
  <1>11. ASSUME id \notin Keys(m.bindings)
         PROVE  MapSaid(m) = NoBindings(m) \cup Around(m, id)
    <2>1. \A x : x \in MapSaid(m) <=> x \in NoBindings(m) \/ x \in Around(m, id)
      BY <1>5, <1>6, <1>7, <1>11
    <2> QED
      BY <2>1
  <1> QED
    BY <1>10, <1>11 DEF here

(* A binding that another takes the place of, and one that goes.           *)
LEMMA AroundKept ==
  ASSUME NEW m, Good(m), NEW id \in Keys(m.bindings)
  PROVE  /\ \A b : GoodBinding(b) =>
              LET n == WithBinding(m, id, b)
              IN  Good(n) /\ id \in Keys(n.bindings) /\ BindingOf(n, id) = b /\ Around(n, id) = Around(m, id)
         /\ LET n == [m EXCEPT !.bindings = Drop(@, id)]
            IN  Good(n) /\ id \notin Keys(n.bindings) /\ Around(n, id) = Around(m, id)
  <1> DEFINE R(n) == Range(n.bindings)
             D == [key : IdTexts, value : BindingType(Note)]
  <1>1. /\ m.bindings \in Seq(D) /\ UniqueKeys(m.bindings) /\ id \in IdTexts
        /\ m = [schema_version |-> m.schema_version, bindings |-> m.bindings,
                coverage |-> m.coverage, header |-> m.header]
    BY GoodMaps, BindingFound DEF Good
  <1>2. \A n : n.header = m.header /\ n.schema_version = m.schema_version /\ n.coverage = m.coverage
                 /\ (\A e : e \in R(n) /\ e.key # id <=> e \in R(m) /\ e.key # id)
                 => Around(n, id) = Around(m, id)
    <2> SUFFICES ASSUME NEW n, n.header = m.header, n.schema_version = m.schema_version, n.coverage = m.coverage,
                        \A e : e \in R(n) /\ e.key # id <=> e \in R(m) /\ e.key # id
                 PROVE  Around(n, id) = Around(m, id)
      OBVIOUS
    <2>1. {e \in R(n) : e.key # id} = {e \in R(m) : e.key # id}
      OBVIOUS
    <2>2. OtherBindings(n, id) = OtherBindings(m, id)
      BY <2>1 DEF OtherBindings
    <2>3. Heading(n) = Heading(m) /\ CoveringSaid(n) = CoveringSaid(m)
      BY DEF Heading, CoveringSaid
    <2> QED
      BY <2>2, <2>3 DEF Around
  <1>3. ASSUME NEW b, GoodBinding(b)
        PROVE  LET n == WithBinding(m, id, b)
               IN  Good(n) /\ id \in Keys(n.bindings) /\ BindingOf(n, id) = b /\ Around(n, id) = Around(m, id)
    <2> DEFINE n == WithBinding(m, id, b)
    <2>1. Good(n) /\ id \in Keys(n.bindings) /\ BindingOf(n, id) = b
      BY <1>1, <1>3, BindingPlaced, BindingThere
    <2>2. n.header = m.header /\ n.schema_version = m.schema_version /\ n.coverage = m.coverage
            /\ n.bindings = Assign(m.bindings, Keyed(id, b))
      BY <1>1 DEF WithBinding
    <2>3. Keyed(id, b).key = id /\ Keyed(id, b) # None /\ Keyed(id, b) \in D
      <3>1. Keyed(id, b) \in D /\ Keyed(id, b).key = id
        BY <1>1, <1>3 DEF Keyed, GoodBinding
      <3>2. D \subseteq [key : Texts, value : BindingType(Note)]
        BY DEF IdTexts
      <3> QED
        BY <3>1, <3>2, BindingKinds, NotesAreTexts
    <2>4. n.bindings = [i \in DOMAIN m.bindings |-> IF m.bindings[i].key = id THEN Keyed(id, b) ELSE m.bindings[i]]
      <3>1. \E i \in DOMAIN m.bindings : m.bindings[i].key = id
        BY DEF Keys
      <3> QED
        BY <2>2, <2>3, <3>1 DEF Assign
    <2>5. n.bindings \in Seq(D)
      BY <2>1, GoodMaps
    <2>6. /\ \A e : e \in R(n) <=> \E i \in DOMAIN n.bindings : n.bindings[i] = e
          /\ \A e : e \in R(m) <=> \E i \in DOMAIN m.bindings : m.bindings[i] = e
      BY <1>1, <2>5, ListProperties
    <2>7. /\ DOMAIN n.bindings = DOMAIN m.bindings
          /\ \A i \in DOMAIN m.bindings : n.bindings[i] = IF m.bindings[i].key = id THEN Keyed(id, b) ELSE m.bindings[i]
      BY <2>4
    <2> HIDE DEF n, R
    <2>8. \A e : e \in R(n) /\ e.key # id <=> e \in R(m) /\ e.key # id
      BY <2>3, <2>6, <2>7
    <2> QED
      BY <1>2, <2>1, <2>2, <2>8 DEF n
  <1>4. LET n == [m EXCEPT !.bindings = Drop(@, id)]
        IN  Good(n) /\ id \notin Keys(n.bindings) /\ Around(n, id) = Around(m, id)
    <2> DEFINE n == [m EXCEPT !.bindings = Drop(@, id)]
    <2>1. Good(n)
      BY BindingTaken
    <2>2. n.header = m.header /\ n.schema_version = m.schema_version /\ n.coverage = m.coverage
            /\ n.bindings = Drop(m.bindings, id)
      BY <1>1
    <2>3. n.bindings \in Seq(D) /\ R(n) = {e \in R(m) : e.key # id}
      BY <1>1, <2>2, DropList
    <2>4. id \notin Keys(n.bindings)
      BY <2>3, ListProperties
    <2> HIDE DEF n, R
    <2> QED
      BY <1>2, <2>1, <2>2, <2>3, <2>4 DEF n
  <1> QED
    BY <1>3, <1>4

(***************************************************************************)
(* The entries that are found under the path of a list.                    *)
(***************************************************************************)
LEMMA EntryMoved ==
  ASSUME NEW base, NEW p, OfPath(base, p), NEW x
  PROVE  Moved(base, EntrySaid(p, x)) = EntrySaid(Rest(base, p), x)
  <1>1. \A k : Rest(base, K(p, k)) = K(Rest(base, p), k)
    BY RestAppend DEF K
  <1>2. \A r : <<K(p, r[1]), r[2]>>[1] = K(p, r[1]) /\ <<K(p, r[1]), r[2]>>[2] = r[2]
    OBVIOUS
  <1>3. \A z : z \in EntrySaid(p, x) <=> \E r \in EntryRows(x) : z = <<K(p, r[1]), r[2]>>
    BY DEF EntrySaid, Placed
  <1>4. \A y : y \in EntrySaid(Rest(base, p), x) <=> \E r \in EntryRows(x) : y = <<K(Rest(base, p), r[1]), r[2]>>
    BY DEF EntrySaid, Placed
  <1>5. \A y : y \in Moved(base, EntrySaid(p, x)) <=> \E z \in EntrySaid(p, x) : y = <<Rest(base, z[1]), z[2]>>
    BY DEF Moved
  <1>6. \A y : y \in Moved(base, EntrySaid(p, x)) <=> y \in EntrySaid(Rest(base, p), x)
    <2> TAKE y
    <2>1. y \in Moved(base, EntrySaid(p, x)) <=> \E r \in EntryRows(x) : y = <<Rest(base, K(p, r[1])), r[2]>>
      <3>1. ASSUME y \in Moved(base, EntrySaid(p, x))
            PROVE  \E r \in EntryRows(x) : y = <<Rest(base, K(p, r[1])), r[2]>>
        <4>1. PICK z \in EntrySaid(p, x) : y = <<Rest(base, z[1]), z[2]>>
          BY <1>5, <3>1
        <4>2. PICK r \in EntryRows(x) : z = <<K(p, r[1]), r[2]>>
          BY <1>3
        <4>3. z[1] = K(p, r[1]) /\ z[2] = r[2]
          BY <4>2
        <4> QED
          BY <4>1, <4>3
      <3>2. ASSUME NEW r \in EntryRows(x), y = <<Rest(base, K(p, r[1])), r[2]>>
            PROVE  y \in Moved(base, EntrySaid(p, x))
        <4> DEFINE z == <<K(p, r[1]), r[2]>>
        <4>1. z \in EntrySaid(p, x)
          BY <1>3
        <4>2. y = <<Rest(base, z[1]), z[2]>>
          BY <3>2
        <4> HIDE DEF z
        <4> QED
          BY <1>5, <4>1, <4>2
      <3> QED
        BY <3>1, <3>2
    <2> QED
      BY <1>1, <1>4, <2>1
  <1> QED
    BY <1>6

LEMMA ItemsApart ==
  /\ \A m, n : AtItem(m) = AtItem(n) => m = n
  /\ \A k, n : AtKey(k) # AtItem(n)
  BY DEF AtItem, AtKey

(* The path of an item of a list.                                          *)
LEMMA ItemPath ==
  ASSUME NEW q, IsPath(q), NEW e
  PROVE  /\ IsPath(Append(q, e)) /\ OfPath(q, Append(q, e)) /\ Rest(q, Append(q, e)) = <<e>>
         /\ Rest(Append(q, e), Append(q, e)) = <<>>
         /\ IsPath(<<e>>) /\ \A d : Len(Append(<<e>>, d)) = 2 /\ Append(<<e>>, d)[1] = e
  <1>1. IsPath(Append(q, e)) /\ OfPath(q, Append(q, e))
    BY StepPath
  <1>2. OfPath(q, q) /\ Rest(q, q) = <<>>
    BY OfItself, RestOfItself
  <1>3. Rest(q, Append(q, e)) = Append(<<>>, e)
    <2> DEFINE r == q
    <2>1. OfPath(q, r) /\ r = q
      BY <1>2
    <2> HIDE DEF r
    <2>2. Rest(q, Append(r, e)) = Append(Rest(q, r), e)
      BY <2>1, RestAppend
    <2>3. Rest(q, r) = <<>> /\ Append(r, e) = Append(q, e)
      BY <1>2, <2>1
    <2> QED
      BY <2>2, <2>3
  <1>4. Rest(Append(q, e), Append(q, e)) = <<>>
    BY <1>1, RestOfItself
  <1>5. Append(<<>>, e) = <<e>>
    OBVIOUS
  <1> DEFINE h == <<e>>
  <1>6. IsPath(h) /\ Len(h) = 1 /\ h[1] = e
    <2>1. h \in Seq({e}) /\ Len(h) = 1 /\ h[1] = e
      OBVIOUS
    <2> QED
      BY <2>1, PathOf
  <1> HIDE DEF h
  <1>7. ASSUME NEW d
        PROVE  Len(Append(h, d)) = 2 /\ Append(h, d)[1] = e
    <2>1. Len(Append(h, d)) = Len(h) + 1 /\ \A n \in 1..Len(h) : Append(h, d)[n] = h[n]
      BY <1>6, PathAppend
    <2>2. 1 \in 1..1
      OBVIOUS
    <2> QED
      BY <1>6, <2>1, <2>2
  <1> QED
    BY <1>1, <1>2, <1>3, <1>4, <1>5, <1>6, <1>7 DEF h

(* An entry that says something at all.                                    *)
EntriesOf(s) == [n \in DOMAIN s |-> EntrySaid(<<>>, s[n])]

LEMMA ListUnderIs ==
  ASSUME NEW f, NEW q, IsPath(q), NEW C, NEW s \in Seq(C), Telling(s), NEW A, NEW B, NoneOf(q, B),
         Contents(f) = A \cup B, A = ListSaid(q, s) \/ (s = <<>> /\ A = {})
  PROVE  EntriesUnder(f, q) = EntriesOf(s)
  <1> DEFINE at(n) == Append(q, AtItem(n))
             firsts == {x[1][1] : x \in {x \in Under(f, q) : x[1] # <<>>}}
  <1>1. Len(s) \in Nat /\ DOMAIN s = 1..Len(s) /\ (s = <<>> <=> Len(s) = 0)
          /\ \A x : x \in Range(s) <=> \E n \in DOMAIN s : s[n] = x
    BY ListProperties
  <1>2. AllOf(q, A)
    BY ListUnder DEF AllOf
  <1>3. Under(f, q) = Moved(q, A)
    BY <1>2, UnderIs
  <1>4. CASE s = <<>>
    <2>1. \A z \in A : z[1] = q
      BY <1>4, ListSaidIs
    <2>2. \A x \in Under(f, q) : x[1] = <<>>
      BY <1>3, <2>1, RestOfItself DEF Moved
    <2>3. firsts = {}
      BY <2>2
    <2>4. EntryCount(f, q) = 0
      BY <2>3, FS_EmptySet DEF EntryCount
    <2>5. 1..0 = {} /\ DOMAIN s = {}
      BY <1>1, <1>4
    <2> QED
      BY <2>4, <2>5 DEF EntriesUnder, EntriesOf
  <1>5. CASE s # <<>>
    <2>1. \A z : z \in A <=> \E n \in DOMAIN s : z \in EntrySaid(at(n), s[n])
      BY <1>5, ListSaidIs
    <2>2. \A n : /\ IsPath(at(n)) /\ OfPath(q, at(n)) /\ Rest(q, at(n)) = <<AtItem(n)>>
                 /\ Rest(at(n), at(n)) = <<>>
      BY ItemPath
    <2>3. \A n : AllOf(at(n), EntrySaid(at(n), s[n]))
      BY <2>2, EntryUnder
    <2>4. ASSUME NEW n \in DOMAIN s
          PROVE  Under(f, at(n)) = EntrySaid(<<>>, s[n])
      <3> DEFINE here == EntrySaid(at(n), s[n])
                 there == UNION {EntrySaid(at(i), s[i]) : i \in DOMAIN s \ {n}}
      <3>1. \A i \in DOMAIN s \ {n} : NoneOf(at(n), EntrySaid(at(i), s[i]))
        <4> TAKE i \in DOMAIN s \ {n}
        <4>1. AtItem(i) # AtItem(n)
          BY ItemsApart
        <4> DEFINE E == EntrySaid(at(i), s[i])
        <4>2. AllOf(Append(q, AtItem(i)), E)
          BY <2>3
        <4> HIDE DEF E
        <4>3. NoneOf(Append(q, AtItem(n)), E)
          BY <4>1, <4>2, AllNone
        <4> QED
          BY <4>3 DEF E
      <3>2. NoneOf(at(n), there)
        BY <3>1 DEF NoneOf
      <3>3. NoneOf(at(n), B)
        BY <2>2, AllNone
      <3>4. NoneOf(at(n), there \cup B)
        BY <3>2, <3>3 DEF NoneOf
      <3>5. A = here \cup there
        BY <2>1
      <3>6. AllOf(at(n), here)
        BY <2>3
      <3>7. Moved(at(n), here) = EntrySaid(<<>>, s[n])
        <4>1. OfPath(at(n), at(n))
          BY <2>2, OfItself
        <4> QED
          BY <2>2, <4>1, EntryMoved
      <3>8. IsPath(at(n))
        BY <2>2
      <3> HIDE DEF here, there, at
      <3>9. Contents(f) = here \cup (there \cup B)
        BY <3>5
      <3> QED
        BY <3>4, <3>6, <3>7, <3>8, <3>9, UnderIs
    <2>5. \A y : y \in Under(f, q) <=> \E n \in DOMAIN s : y \in EntrySaid(<<AtItem(n)>>, s[n])
      <3>1. \A n : Moved(q, EntrySaid(at(n), s[n])) = EntrySaid(<<AtItem(n)>>, s[n])
        BY <2>2, EntryMoved
      <3>2. \A y : \A D : y \in Moved(q, D) <=> \E z \in D : y = <<Rest(q, z[1]), z[2]>>
        BY DEF Moved
      <3> HIDE DEF at
      <3>3. \A y : y \in Moved(q, A) <=> \E n \in DOMAIN s : y \in Moved(q, EntrySaid(at(n), s[n]))
        BY <2>1, <3>2
      <3> QED
        BY <1>3, <3>1, <3>3
    <2>6. \A n : \A y \in EntrySaid(<<AtItem(n)>>, s[n]) : y[1] # <<>> /\ y[1][1] = AtItem(n)
      <3> TAKE n
      <3> TAKE y \in EntrySaid(<<AtItem(n)>>, s[n])
      <3>1. PICK r \in EntryRows(s[n]) : y = <<K(<<AtItem(n)>>, r[1]), r[2]>>
        BY DEF EntrySaid, Placed
      <3>2. y[1] = Append(<<AtItem(n)>>, AtKey(r[1]))
        BY <3>1 DEF K
      <3>3. Len(Append(<<AtItem(n)>>, AtKey(r[1]))) = 2 /\ Append(<<AtItem(n)>>, AtKey(r[1]))[1] = AtItem(n)
        BY ItemPath
      <3>7. Len(<<>>) = 0
        BY EmptyPath
      <3> QED
        BY <3>2, <3>3, <3>7
    <2>7. \A n \in DOMAIN s : EntrySaid(<<AtItem(n)>>, s[n]) # {}
      BY <1>1, EntrySpeaks DEF Telling
    <2>8. \A t : t \in firsts <=> \E n \in DOMAIN s : t = AtItem(n)
      <3> TAKE t
      <3>1. t \in firsts <=> \E y \in Under(f, q) : y[1] # <<>> /\ t = y[1][1]
        OBVIOUS
      <3> HIDE DEF firsts
      <3>2. ASSUME NEW y \in Under(f, q), t = y[1][1]
            PROVE  \E n \in DOMAIN s : t = AtItem(n)
        BY <2>5, <2>6, <3>2
      <3>3. ASSUME NEW n \in DOMAIN s, t = AtItem(n)
            PROVE  t \in firsts
        <4>1. PICK y : y \in EntrySaid(<<AtItem(n)>>, s[n])
          BY <2>7
        <4>2. y \in Under(f, q) /\ y[1] # <<>> /\ y[1][1] = AtItem(n)
          BY <2>5, <2>6, <4>1
        <4> QED
          BY <3>1, <3>3, <4>2
      <3> QED
        BY <3>1, <3>2, <3>3
    <2>9. Cardinality(firsts) = Len(s)
      <3> DEFINE g == [n \in 1..Len(s) |-> AtItem(n)]
      <3>1. DOMAIN g = 1..Len(s) /\ \A n \in 1..Len(s) : g[n] = AtItem(n)
        OBVIOUS
      <3> HIDE DEF g, firsts
      <3>2. \A i, j \in 1..Len(s) : g[i] = g[j] => i = j
        BY <3>1, ItemsApart
      <3>3. \A t : t \in firsts <=> \E n \in 1..Len(s) : t = g[n]
        BY <1>1, <2>8, <3>1
      <3> QED
        BY <1>1, <3>1, <3>2, <3>3, NumberedImage
    <2>10. EntryCount(f, q) = Len(s)
      BY <2>9 DEF EntryCount
    <2> QED
      BY <1>1, <2>4, <2>10 DEF EntriesUnder, EntriesOf
  <1> QED
    BY <1>4, <1>5

(***************************************************************************)
(* Options against the strings of an entry.                                *)
(***************************************************************************)
Match(l, keys, strings) ==
    \A k \in keys : /\ k \in DOMAIN l.strings <=> k \in DOMAIN strings
                    /\ k \in DOMAIN strings => l.strings[k] = strings[k]

LEMMA DescribesMatch ==
  ASSUME NEW l, NEW keys, "comment" \notin keys, NEW x
  PROVE  Describes(l, keys, EntrySaid(<<>>, x)) <=> Match(l, keys, x.strings)
  <1>1. \A k : KeyPath(<<k>>) = K(<<>>, k)
    <2> TAKE k
    <2>1. KeyPath(<<k>>) = <<AtKey(k)>>
      BY DEF KeyPath
    <2>2. K(<<>>, k) = <<AtKey(k)>>
      BY DEF K
    <2> QED
      BY <2>1, <2>2
  <1>2. \A j, k : K(<<>>, j) = K(<<>>, k) => j = k
    <2>1. \A k : K(<<>>, k) = <<AtKey(k)>>
      BY DEF K
    <2>2. \A a, b : <<a>> = <<b>> => a = b
      OBVIOUS
    <2> QED
      BY <2>1, <2>2, KeysApart
  <1> DEFINE has(k) == {y[2] : y \in {y \in EntrySaid(<<>>, x) : y[1] = KeyPath(<<k>>)}}
  <1>3. ASSUME NEW k \in keys
        PROVE  has(k) = IF k \in DOMAIN x.strings THEN {String(x.strings[k])} ELSE {}
    <2>1. \A r \in EntryRows(x) : r[1] = k <=> k \in DOMAIN x.strings /\ r = <<k, String(x.strings[k])>>
      <3> SUFFICES ASSUME NEW r \in EntryRows(x)
                   PROVE  r[1] = k <=> k \in DOMAIN x.strings /\ r = <<k, String(x.strings[k])>>
        OBVIOUS
      <3>1. CASE r \in NoteRow(x.comment)
        <4>1. r[1] = "comment"
          BY <3>1 DEF NoteRow
        <4> QED
          BY <4>1
      <3>2. CASE \E j \in DOMAIN x.strings : r = <<j, String(x.strings[j])>>
        BY <3>2
      <3> QED
        BY <3>1, <3>2 DEF EntryRows
    <2>2. k \in DOMAIN x.strings => <<k, String(x.strings[k])>> \in EntryRows(x)
      BY DEF EntryRows
    <2>3. \A y : y \in EntrySaid(<<>>, x) <=> \E r \in EntryRows(x) : y = <<K(<<>>, r[1]), r[2]>>
      BY DEF EntrySaid, Placed
    <2>4. \A t : t \in has(k) <=> \E y \in EntrySaid(<<>>, x) : y[1] = K(<<>>, k) /\ t = y[2]
      BY <1>1
    <2> HIDE DEF has
    <2>5. \A t : t \in has(k) <=> \E r \in EntryRows(x) : r[1] = k /\ t = r[2]
      <3> TAKE t
      <3>1. ASSUME t \in has(k)
            PROVE  \E r \in EntryRows(x) : r[1] = k /\ t = r[2]
        <4>1. PICK y \in EntrySaid(<<>>, x) : y[1] = K(<<>>, k) /\ t = y[2]
          BY <2>4, <3>1
        <4>2. PICK r \in EntryRows(x) : y = <<K(<<>>, r[1]), r[2]>>
          BY <2>3
        <4>3. y[1] = K(<<>>, r[1]) /\ y[2] = r[2]
          BY <4>2
        <4> QED
          BY <1>2, <4>1, <4>3
      <3>2. ASSUME NEW r \in EntryRows(x), r[1] = k, t = r[2]
            PROVE  t \in has(k)
        <4> DEFINE y == <<K(<<>>, r[1]), r[2]>>
        <4>1. y \in EntrySaid(<<>>, x)
          BY <2>3
        <4>2. y[1] = K(<<>>, k) /\ y[2] = t
          BY <3>2
        <4> HIDE DEF y
        <4> QED
          BY <2>4, <4>1, <4>2
      <3> QED
        BY <3>1, <3>2
    <2>6. \A t : t \in has(k) <=> k \in DOMAIN x.strings /\ t = String(x.strings[k])
      BY <2>1, <2>2, <2>5
    <2> QED
      BY <2>6
  <1>4. Describes(l, keys, EntrySaid(<<>>, x)) <=>
          \A k \in keys : has(k) = IF k \in DOMAIN l.strings THEN {String(l.strings[k])} ELSE {}
    BY DEF Describes
  <1> HIDE DEF has
  <1>5. \A s, t : {String(s)} = {String(t)} <=> s = t
    <2> TAKE s, t
    <2>1. \A a, b : {a} = {b} <=> a = b
      OBVIOUS
    <2> QED
      BY <2>1, StringsDiffer
  <1>6. \A t : {String(t)} # {}
    OBVIOUS
  <1>7. \A k \in keys : has(k) = (IF k \in DOMAIN l.strings THEN {String(l.strings[k])} ELSE {}) <=>
          /\ k \in DOMAIN l.strings <=> k \in DOMAIN x.strings
          /\ k \in DOMAIN x.strings => l.strings[k] = x.strings[k]
    BY <1>3, <1>5, <1>6
  <1> QED
    BY <1>4, <1>7 DEF Match

(* Options that are texts, and what the grammar of parse demands of them.  *)
Optioned(l) == \A k \in DOMAIN l.strings : l.strings[k] # None

LEMMA SameText ==
  ASSUME NEW l, Optioned(l), NEW x, \A k \in DOMAIN x.strings : x.strings[k] # None, NEW k
  PROVE  StringAt(l, k) = StringAt(x, k) <=>
           /\ k \in DOMAIN l.strings <=> k \in DOMAIN x.strings
           /\ k \in DOMAIN x.strings => l.strings[k] = x.strings[k]
  BY DEF Optioned, StringAt

LEMMA LocatorMatches ==
  ASSUME NEW l, Optioned(l), NEW x, \A k \in DOMAIN x.strings : x.strings[k] # None
  PROVE  LocatorIdentity(x) = LocatorGiven(l) <=> Match(l, IdentityKeys["locator"], x.strings)
  <1>1. IdentityKeys["locator"] = {"path", "symbol"}
    BY DEF IdentityKeys
  <1>2. LocatorIdentity(x) = LocatorGiven(l) <=>
          StringAt(l, "path") = StringAt(x, "path") /\ StringAt(l, "symbol") = StringAt(x, "symbol")
    BY DEF LocatorIdentity, LocatorGiven
  <1> QED
    BY <1>1, <1>2, SameText DEF Match

LEMMA AssertionMatches ==
  ASSUME NEW l, Optioned(l), AssertionShaped(l, {"path", "symbol"}),
         NEW x, AssertionRules(x), \A k \in DOMAIN x.strings : x.strings[k] # None
  PROVE  AssertionIdentity(x) = AssertionGiven(l) <=> Match(l, IdentityKeys["assertion"], x.strings)
  <1>1. IdentityKeys["assertion"] = {"path", "symbol", "owed", "arm"}
    BY DEF IdentityKeys, Selecting
  <1>2. /\ "owed" \in DOMAIN l.strings => "path" \notin DOMAIN l.strings /\ "symbol" \notin DOMAIN l.strings
        /\ "owed" \notin DOMAIN l.strings => "path" \in DOMAIN l.strings /\ "symbol" \in DOMAIN l.strings
    BY DEF AssertionShaped, Given
  <1>3. /\ "owed" \in DOMAIN x.strings => "path" \notin DOMAIN x.strings /\ "symbol" \notin DOMAIN x.strings
        /\ "owed" \notin DOMAIN x.strings => "path" \in DOMAIN x.strings /\ "symbol" \in DOMAIN x.strings
    BY DEF AssertionRules
  <1>4. Match(l, IdentityKeys["assertion"], x.strings) <=>
          /\ StringAt(l, "path") = StringAt(x, "path") /\ StringAt(l, "symbol") = StringAt(x, "symbol")
          /\ StringAt(l, "owed") = StringAt(x, "owed") /\ StringAt(l, "arm") = StringAt(x, "arm")
    BY <1>1, SameText DEF Match
  <1>5. \A k : k \notin DOMAIN l.strings => StringAt(l, k) = None
    BY DEF StringAt
  <1>6. \A k : k \notin DOMAIN x.strings => StringAt(x, k) = None
    BY DEF StringAt
  <1>7. /\ \A k \in DOMAIN l.strings : StringAt(l, k) # None
        /\ \A k \in DOMAIN x.strings : StringAt(x, k) # None
    BY DEF StringAt, Optioned
  <1>8. CASE "owed" \in DOMAIN l.strings /\ "owed" \in DOMAIN x.strings
    <2>1. AssertionIdentity(x) = AssertionGiven(l) <=>
            StringAt(l, "owed") = StringAt(x, "owed") /\ StringAt(l, "arm") = StringAt(x, "arm")
      BY <1>3, <1>8 DEF AssertionIdentity, AssertionGiven
    <2> QED
      BY <1>2, <1>3, <1>4, <1>5, <1>6, <1>8, <2>1
  <1>9. CASE "owed" \notin DOMAIN l.strings /\ "owed" \notin DOMAIN x.strings
    <2>1. AssertionIdentity(x) = AssertionGiven(l) <=>
            /\ StringAt(l, "path") = StringAt(x, "path") /\ StringAt(l, "symbol") = StringAt(x, "symbol")
            /\ StringAt(l, "arm") = StringAt(x, "arm")
      BY <1>9 DEF AssertionIdentity, AssertionGiven
    <2> QED
      BY <1>4, <1>5, <1>6, <1>9, <2>1
  <1>10. CASE ~("owed" \in DOMAIN l.strings <=> "owed" \in DOMAIN x.strings)
    <2>1. AssertionIdentity(x) # AssertionGiven(l)
      BY <1>3, <1>10 DEF AssertionIdentity, AssertionGiven
    <2>2. StringAt(l, "owed") # StringAt(x, "owed")
      BY <1>5, <1>6, <1>7, <1>10
    <2> QED
      BY <1>4, <2>1, <2>2
  <1> QED
    BY <1>8, <1>9, <1>10

(***************************************************************************)
(* The paths that a command line gives.                                    *)
(***************************************************************************)
LEMMA KeyPathIs ==
  ASSUME NEW S, NEW s \in Seq(S)
  PROVE  /\ IsPath(KeyPath(s)) /\ Len(KeyPath(s)) = Len(s) /\ Len(s) \in Nat
         /\ \A n \in 1..Len(s) : KeyPath(s)[n] = AtKey(s[n])
  <1> DEFINE T == {AtKey(x) : x \in S}
             p == KeyPath(s)
  <1>1. DOMAIN s = 1..Len(s) /\ Len(s) \in Nat /\ \A n \in 1..Len(s) : s[n] \in S
    OBVIOUS
  <1>2. p = [n \in 1..Len(s) |-> AtKey(s[n])]
    BY <1>1 DEF KeyPath
  <1>3. \A n \in 1..Len(s) : AtKey(s[n]) \in T
    BY <1>1
  <1> HIDE DEF p, T
  <1>4. p \in [1..Len(s) -> T] /\ \A n \in 1..Len(s) : p[n] = AtKey(s[n])
    BY <1>2, <1>3
  <1>5. p \in Seq(T) /\ Len(p) = Len(s)
    BY <1>1, <1>4
  <1>6. IsPath(p)
    BY <1>5, PathOf
  <1> QED
    BY <1>1, <1>4, <1>5, <1>6 DEF p

LEMMA JoinedNext ==
  ASSUME NEW p, IsPath(p), NEW r, IsPath(r), NEW k
  PROVE  p \o K(r, k) = K(p \o r, k)
  <1> DEFINE S == Range(p) \cup Range(r) \cup {AtKey(k)}
             e == AtKey(k)
  <1>1. p \in Seq(S) /\ r \in Seq(S) /\ e \in S
    <2>1. /\ p \in [1..Len(p) -> Range(p)] /\ Len(p) \in Nat
          /\ r \in [1..Len(r) -> Range(r)] /\ Len(r) \in Nat
      BY LenProperties DEF IsPath
    <2>2. p \in [1..Len(p) -> S] /\ r \in [1..Len(r) -> S]
      BY <2>1
    <2> QED
      BY <2>1, <2>2
  <1> HIDE DEF S, e
  <1>2. p \o Append(r, e) = Append(p \o r, e)
    <2> DEFINE a == p \o Append(r, e)
               b == Append(p \o r, e)
    <2>1. a \in Seq(S) /\ b \in Seq(S)
      BY <1>1
    <2>2. Len(a) = Len(p) + Len(r) + 1 /\ Len(b) = Len(p) + Len(r) + 1 /\ Len(p) \in Nat /\ Len(r) \in Nat
      BY <1>1
    <2>3. \A n \in 1..(Len(p) + Len(r) + 1) : a[n] = b[n]
      BY <1>1
    <2> HIDE DEF a, b
    <2>4. IsPath(a) /\ IsPath(b)
      BY <2>1, PathOf
    <2>5. a = b
      BY <2>2, <2>3, <2>4, SamePath
    <2> QED
      BY <2>5 DEF a, b
  <1> QED
    BY <1>2 DEF K, e

LEMMA JoinedTwo ==
  ASSUME NEW p, IsPath(p), NEW e, IsPath(e), NEW k, NEW l
  PROVE  p \o K(K(e, k), l) = K(K(p \o e, k), l)
  <1>1. IsPath(K(e, k))
    BY PathKey
  <1>2. p \o K(K(e, k), l) = K(p \o K(e, k), l)
    BY <1>1, JoinedNext
  <1>3. p \o K(e, k) = K(p \o e, k)
    BY JoinedNext
  <1> QED
    BY <1>2, <1>3

LEMMA KeyPaths ==
  /\ \A j : KeyPath(<<j>>) = K(<<>>, j)
  /\ \A j, k : KeyPath(<<j, k>>) = K(K(<<>>, j), k)
  /\ \A i, j, k : KeyPath(<<i, j, k>>) = K(K(K(<<>>, i), j), k)
  <1>1. \A n \in 1..1 : n = 1
    OBVIOUS
  <1>2. \A n \in 1..2 : n = 1 \/ n = 2
    OBVIOUS
  <1>3. \A n \in 1..3 : n = 1 \/ n = 2 \/ n = 3
    OBVIOUS
  <1>4. \A j : KeyPath(<<j>>) = K(<<>>, j)
    <2> TAKE j
    <2> DEFINE s == <<j>>
               p == KeyPath(s)
               q == K(<<>>, j)
    <2>1. s \in Seq({j}) /\ Len(s) = 1 /\ s[1] = j
      OBVIOUS
    <2> HIDE DEF s
    <2>2. IsPath(p) /\ Len(p) = 1 /\ \A n \in 1..1 : p[n] = AtKey(s[n])
      BY <2>1, KeyPathIs
    <2>3. IsPath(q) /\ Len(q) = 1 /\ q[1] = AtKey(j)
      BY PlacesAre
    <2> HIDE DEF p, q
    <2>4. p = q
      BY <1>1, <2>1, <2>2, <2>3, SamePath
    <2> QED
      BY <2>4 DEF p, q, s
  <1>5. \A j, k : KeyPath(<<j, k>>) = K(K(<<>>, j), k)
    <2> TAKE j, k
    <2> DEFINE s == <<j, k>>
               p == KeyPath(s)
               q == K(K(<<>>, j), k)
    <2>1. s \in Seq({j, k}) /\ Len(s) = 2 /\ s[1] = j /\ s[2] = k
      OBVIOUS
    <2> HIDE DEF s
    <2>2. IsPath(p) /\ Len(p) = 2 /\ \A n \in 1..2 : p[n] = AtKey(s[n])
      BY <2>1, KeyPathIs
    <2>3. IsPath(q) /\ Len(q) = 2 /\ q[1] = AtKey(j) /\ q[2] = AtKey(k)
      BY PlacesAre
    <2> HIDE DEF p, q
    <2>4. p = q
      BY <1>2, <2>1, <2>2, <2>3, SamePath
    <2> QED
      BY <2>4 DEF p, q, s
  <1>6. \A i, j, k : KeyPath(<<i, j, k>>) = K(K(K(<<>>, i), j), k)
    <2> TAKE i, j, k
    <2> DEFINE s == <<i, j, k>>
               p == KeyPath(s)
               h == Append(K(<<>>, i), AtKey(j))
               q == K(h, k)
    <2>1. s \in Seq({i, j, k}) /\ Len(s) = 3 /\ s[1] = i /\ s[2] = j /\ s[3] = k
      OBVIOUS
    <2> HIDE DEF s
    <2>2. IsPath(p) /\ Len(p) = 3 /\ \A n \in 1..3 : p[n] = AtKey(s[n])
      BY <2>1, KeyPathIs
    <2>3. IsPath(h)
      BY PlacesAre, StepPath
    <2>4. Len(q) = 3 /\ q[1] = AtKey(i) /\ q[2] = AtKey(j) /\ q[3] = AtKey(k)
      BY PlacesAre
    <2>5. IsPath(q)
      BY <2>3, PathKey
    <2> HIDE DEF p, q
    <2>6. p = q
      BY <1>3, <2>1, <2>2, <2>4, <2>5, SamePath
    <2> QED
      BY <2>6 DEF p, q, s, h, K
  <1> QED
    BY <1>4, <1>5, <1>6

LEMMA LinePaths ==
  /\ KeyPath(<<"coverage">>) = Covering
  /\ \A k : KeyPath(<<"coverage", "curated", k>>) = CuratedAt(k)
  /\ \A id : KeyPath(<<"bindings", id>>) = BindingAt(id)
  /\ \A id, k : KeyPath(<<"bindings", id>>) \o KeyPath(<<"fields", k>>) = K(K(BindingAt(id), "fields"), k)
  <1>1. KeyPath(<<"coverage">>) = Covering
    BY KeyPaths DEF Covering
  <1>2. \A k : KeyPath(<<"coverage", "curated", k>>) = CuratedAt(k)
    BY KeyPaths DEF Covering, CuratedAt
  <1>3. \A id : KeyPath(<<"bindings", id>>) = BindingAt(id)
    BY KeyPaths DEF BindingAt
  <1>4. \A id, k : KeyPath(<<"bindings", id>>) \o KeyPath(<<"fields", k>>) = K(K(BindingAt(id), "fields"), k)
    <2> TAKE id, k
    <2> DEFINE p == BindingAt(id)
               e == <<>>
               j == "fields"
    <2>1. IsPath(p) /\ IsPath(e)
      BY EmptyPath, AroundApart
    <2>2. KeyPath(<<"bindings", id>>) = p
      BY <1>3
    <2>3. KeyPath(<<j, k>>) = K(K(e, j), k)
      BY KeyPaths
    <2> HIDE DEF p, j
    <2>4. p \o e = p
      BY <2>1, ConcatEmptySeq DEF IsPath
    <2> HIDE DEF e
    <2>5. p \o K(K(e, j), k) = K(K(p \o e, j), k)
      BY <2>1, JoinedTwo
    <2> DEFINE r == KeyPath(<<"bindings", id>>)
               t == KeyPath(<<j, k>>)
    <2>6. r = p /\ t = K(K(e, j), k)
      BY <2>2, <2>3
    <2> HIDE DEF r, t
    <2>7. r \o t = K(K(p, j), k)
      BY <2>4, <2>5, <2>6
    <2> QED
      BY <2>7 DEF r, t, p, j
  <1> QED
    BY <1>1, <1>2, <1>3, <1>4

LEMMA FrontPath ==
  ASSUME NEW p, IsPath(p), NEW e
  PROVE  SubSeq(Append(p, e), 1, Len(Append(p, e)) - 1) = p
  <1> DEFINE S == Range(p) \cup {e}
             q == Append(p, e)
             r == SubSeq(q, 1, Len(q) - 1)
  <1>1. p \in Seq(S) /\ Len(p) \in Nat
    <2>1. p \in [1..Len(p) -> Range(p)] /\ Len(p) \in Nat
      BY LenProperties DEF IsPath
    <2>2. p \in [1..Len(p) -> S]
      BY <2>1
    <2> QED
      BY <2>1, <2>2
  <1>0. e \in S
    OBVIOUS
  <1> HIDE DEF S
  <1>2. q \in Seq(S) /\ Len(q) = Len(p) + 1 /\ \A n \in 1..Len(p) : q[n] = p[n]
    BY <1>0, <1>1
  <1> HIDE DEF q
  <1>3. r \in Seq(S) /\ Len(r) = Len(p) /\ \A n \in 1..Len(p) : r[n] = q[n]
    <2>1. Len(q) - 1 = Len(p)
      BY <1>1, <1>2
    <2> QED
      BY <1>1, <1>2, <2>1
  <1> HIDE DEF r
  <1>4. IsPath(r)
    BY <1>3, PathOf
  <1>5. r = p
    BY <1>2, <1>3, <1>4, SamePath
  <1> QED
    BY <1>5 DEF r, q

(***************************************************************************)
(* A binding that goes.                                                    *)
(***************************************************************************)
LEMMA BindingSpeaks ==
  ASSUME NEW b, GoodBinding(b), NEW p
  PROVE  BindingSaid(p, b) # {}
  <1> DEFINE q == K(p, "locators")
  <1>1. \A x \in ListSaid(q, b.locators) : x \in BindingSaid(p, b)
    <2>1. SectionSaid(K(p, "locators"), "locators", b) = ListSaid(q, b.locators)
      BY DEF SectionSaid
    <2> HIDE DEF q
    <2>2. "locators" \in SectionKeys
      BY DEF SectionKeys
    <2> QED
      BY <2>1, <2>2 DEF BindingSaid
  <1>2. b.locators \in Seq(EntryType("locator", Note)) /\ Telling(b.locators)
    BY GoodParts, BindingTelling
  <1>3. ListSaid(q, b.locators) # {}
    <2>1. CASE b.locators = <<>>
      BY <2>1, ListSaidIs
    <2>2. CASE b.locators # <<>>
      <3>1. 1 \in DOMAIN b.locators /\ b.locators[1] \in Range(b.locators)
        BY <1>2, <2>2, ListProperties
      <3>2. EntrySaid(Append(q, AtItem(1)), b.locators[1]) # {}
        BY <1>2, <3>1, EntrySpeaks DEF Telling
      <3> QED
        BY <2>2, <3>1, <3>2, ListSaidIs
    <2> QED
      BY <2>1, <2>2
  <1> QED
    BY <1>1, <1>3

LEMMA BindingGone ==
  ASSUME NEW m, Good(m), NEW id \in Keys(m.bindings), NEW n, n = [m EXCEPT !.bindings = Drop(@, id)],
         NEW f, Contents(f) = MapSaid(m), NEW g, Contents(g) = MapSaid(n)
  PROVE  LET p == BindingAt(id)
         IN  Under(f, p) # {} /\ Under(g, p) = {} /\ Beside(f, p) = Beside(g, p)
  <1> DEFINE p == BindingAt(id)
             A == BindingSaid(p, BindingOf(m, id))
             B == Around(m, id)
             C == NoBindings(n)
  <1>1. Good(n) /\ id \notin Keys(n.bindings) /\ Around(n, id) = B
    BY AroundKept
  <1>2. Contents(f) = A \cup B /\ Contents(g) = C \cup B
    BY <1>1, MapAround
  <1>3. /\ IsPath(p) /\ NoneOf(p, B) /\ NoneOf(p, C) /\ AllOf(p, A)
        /\ \A x \in B : x[1] # K(<<>>, "bindings")
    BY AroundApart, BindingsUnder
  <1>4. A # {}
    <2>1. GoodBinding(BindingOf(m, id))
      BY BindingFound DEF Good
    <2> QED
      BY <2>1, BindingSpeaks
  <1>5. SubSeq(p, 1, Len(p) - 1) = K(<<>>, "bindings")
    BY FrontPath, RootPaths DEF BindingAt, K
  <1>6. \A x \in C : x[1] = K(<<>>, "bindings")
    BY DEF NoBindings
  <1> DEFINE D == C \cup B
             none == {}
  <1>7. NoneOf(p, D) /\ AllOf(p, none)
    BY <1>3, AllNone
  <1>10. Moved(p, A) # {} /\ Moved(p, none) = {}
    BY <1>4 DEF Moved
  <1>12. Contents(g) = none \cup D
    BY <1>2
  <1>13. Aside(p, B) = Aside(p, D)
    BY <1>3, <1>5, <1>6 DEF Aside
  <1> HIDE DEF p, A, B, C, D, none
  <1>8. Under(f, p) = Moved(p, A) /\ Beside(f, p) = Aside(p, B)
    BY <1>2, <1>3, UnderIs
  <1>9. Under(g, p) = Moved(p, none) /\ Beside(g, p) = Aside(p, D)
    BY <1>3, <1>7, <1>12, UnderIs
  <1>11. Under(f, p) # {} /\ Under(g, p) = {} /\ Beside(f, p) = Beside(g, p)
    BY <1>8, <1>9, <1>10, <1>13
  <1> QED
    BY <1>11 DEF p

(***************************************************************************)
(* A binding that is another in one of its sections.                       *)
(***************************************************************************)
LEMMA SectionChanged ==
  ASSUME NEW m, Good(m), NEW id \in Keys(m.bindings), NEW b, b = BindingOf(m, id),
         NEW k \in SectionKeys, NEW c, GoodBinding(c),
         Beyond(BindingAt(id), k, c) = Beyond(BindingAt(id), k, b),
         NEW f, Contents(f) = MapSaid(m), NEW g, Contents(g) = MapSaid(WithBinding(m, id, c))
  PROVE  LET q == K(BindingAt(id), k)
             B == Beyond(BindingAt(id), k, b) \cup Around(m, id)
         IN  /\ Contents(f) = SectionSaid(q, k, b) \cup B /\ Contents(g) = SectionSaid(q, k, c) \cup B
             /\ IsPath(q) /\ NoneOf(q, B) /\ AllOf(q, SectionSaid(q, k, b)) /\ AllOf(q, SectionSaid(q, k, c))
  <1> DEFINE p == BindingAt(id)
             q == K(p, k)
             D == Beyond(p, k, b)
             B == Around(m, id)
             n == WithBinding(m, id, c)
  <1>1. /\ Good(n) /\ id \in Keys(n.bindings) /\ BindingOf(n, id) = c
        /\ Around(n, id) = B
    BY AroundKept
  <1>2. IsPath(p) /\ NoneOf(p, B)
    BY AroundApart
  <1>3. MapSaid(m) = BindingSaid(p, b) \cup B
    BY MapAround
  <1>4. MapSaid(n) = BindingSaid(p, c) \cup B
    <2> HIDE DEF n, p, B
    <2> QED
      BY <1>1, MapAround DEF p
  <1>5. /\ BindingSaid(p, b) = SectionSaid(q, k, b) \cup D
        /\ AllOf(q, SectionSaid(q, k, b)) /\ NoneOf(q, D) /\ IsPath(q) /\ OfPath(p, q)
    BY <1>2, BindingParts
  <1>6. /\ BindingSaid(p, c) = SectionSaid(q, k, c) \cup D
        /\ AllOf(q, SectionSaid(q, k, c))
    BY <1>2, BindingParts
  <1>7. NoneOf(q, D \cup B)
    BY <1>2, <1>5, AllNone
  <1> HIDE DEF p, q, D, B, n
  <1>8. /\ Contents(f) = SectionSaid(q, k, b) \cup (D \cup B)
        /\ Contents(g) = SectionSaid(q, k, c) \cup (D \cup B)
    BY <1>3, <1>4, <1>5, <1>6 DEF n
  <1> QED
    BY <1>5, <1>6, <1>7, <1>8 DEF p, q, D, B

(* Two files of which one says A below the path and the other A2, and both *)
(* B beside it.                                                            *)
Differ(f, g, q, A, A2, B) ==
    /\ Contents(f) = A \cup B /\ Contents(g) = A2 \cup B
    /\ IsPath(q) /\ NoneOf(q, B)

(* The places of a list that lack one.                                     *)
LEMMA ListTaken ==
  ASSUME NEW C, NEW s \in Seq(C), NEW i \in DOMAIN s, Telling(s), NEW q, NEW A, NEW A2, NEW B,
         NEW f, NEW g, Differ(f, g, q, A, A2, B), A = ListSaid(q, s),
         A2 = ListSaid(q, RemoveAt(s, i)) \/ (RemoveAt(s, i) = <<>> /\ A2 = {})
  PROVE  /\ EntriesUnder(f, q) = EntriesOf(s)
         /\ EntriesUnder(g, q) = RemoveAt(EntriesUnder(f, q), i)
         /\ Beside(f, q) = Beside(g, q)
  <1> DEFINE t == RemoveAt(s, i)
             e == EntriesOf(s)
             d == EntriesOf(t)
  <1>0. Contents(f) = A \cup B /\ Contents(g) = A2 \cup B /\ IsPath(q) /\ NoneOf(q, B)
    BY DEF Differ
  <1>1. /\ t \in Seq(C) /\ DOMAIN t = 1..(Len(s) - 1)
        /\ \A n \in 1..(Len(s) - 1) : t[n] = IF n < i THEN s[n] ELSE s[n + 1]
    BY RemoveList
  <1>2. DOMAIN s = 1..Len(s) /\ Len(s) \in Nat
    BY ListProperties
  <1>3. Telling(t)
    <2>1. \A x : x \in Range(t) => \E n \in DOMAIN t : t[n] = x
      BY DEF Range
    <2> HIDE DEF t
    <2>2. \A n \in DOMAIN t : t[n] \in Range(s)
      BY <1>1, <1>2 DEF Range
    <2> QED
      BY <2>1, <2>2 DEF Telling
  <1>4. EntriesUnder(f, q) = e
    BY <1>0, ListUnderIs
  <1>5. EntriesUnder(g, q) = d
    <2>1. A2 = ListSaid(q, t) \/ (t = <<>> /\ A2 = {})
      OBVIOUS
    <2> HIDE DEF t
    <2> QED
      BY <1>0, <1>1, <1>3, <2>1, ListUnderIs
  <1>6. RemoveAt(e, i) = d
    <2> DEFINE S == Range(e)
    <2>1. DOMAIN e = 1..Len(s) /\ \A n \in DOMAIN s : e[n] = EntrySaid(<<>>, s[n])
      BY <1>2 DEF EntriesOf
    <2>2. d = [n \in 1..(Len(s) - 1) |-> EntrySaid(<<>>, t[n])]
      BY <1>1 DEF EntriesOf
    <2> HIDE DEF e, d, t
    <2>3. e \in [1..Len(s) -> S]
      <3>1. \A n \in DOMAIN e : e[n] \in S
        BY DEF Range
      <3>2. e = [n \in DOMAIN e |-> e[n]]
        BY DEF e, EntriesOf
      <3> QED
        BY <2>1, <3>1, <3>2
    <2>4. e \in Seq(S) /\ Len(e) = Len(s)
      BY <1>2, <2>3
    <2> HIDE DEF S
    <2>5. /\ RemoveAt(e, i) \in Seq(S) /\ DOMAIN RemoveAt(e, i) = 1..(Len(s) - 1)
          /\ \A n \in 1..(Len(s) - 1) : RemoveAt(e, i)[n] = IF n < i THEN e[n] ELSE e[n + 1]
      BY <1>2, <2>1, <2>4, RemoveList
    <2> DEFINE r == RemoveAt(e, i)
    <2>6. r = [n \in 1..(Len(s) - 1) |-> r[n]]
      <3>1. r \in [1..Len(r) -> S]
        BY <2>5
      <3> HIDE DEF r
      <3> QED
        BY <2>5, <3>1 DEF r
    <2>7. \A n \in 1..(Len(s) - 1) : r[n] = EntrySaid(<<>>, t[n])
      <3> TAKE n \in 1..(Len(s) - 1)
      <3>1. n \in DOMAIN s /\ n + 1 \in DOMAIN s
        BY <1>2
      <3> QED
        BY <1>1, <2>1, <2>5, <3>1 DEF t
    <2> HIDE DEF r
    <2> QED
      BY <2>2, <2>6, <2>7 DEF r
  <1>7. Beside(f, q) = Beside(g, q)
    <2>1. AllOf(q, A) /\ AllOf(q, A2)
      BY <1>0, ListUnder DEF AllOf
    <2> HIDE DEF t
    <2> QED
      BY <1>0, <2>1, UnderIs
  <1> QED
    BY <1>4, <1>5, <1>6, <1>7

(* The entry at the place that is found has the identity that is given.    *)
LEMMA PositionIs ==
  ASSUME NEW b \in BindingType(Note), NEW l
  PROVE  /\ Position(b, "locator", l) # 0 =>
              LocatorIdentity(b.locators[Position(b, "locator", l)]) = LocatorGiven(l)
         /\ Position(b, "assertion", l) # 0 =>
              AssertionIdentity(OrEmpty(b.asserted_by)[Position(b, "assertion", l)]) = AssertionGiven(l)
         /\ Position(b, "field", l) # 0 =>
              OrEmpty(b.fields)[Position(b, "field", l)].key = l.name
  <1>1. /\ b.locators \in Seq(EntryType("locator", Note))
        /\ OrEmpty(b.fields) \in Seq([key : Texts, value : EntryType("field_locator", Note)])
        /\ OrEmpty(b.asserted_by) \in Seq(EntryType("assertion", Note))
    BY EmptyList DEF BindingType, DictsOf, OrEmpty
  <1>2. Position(b, "locator", l) # 0 =>
          LocatorIdentity(b.locators[Position(b, "locator", l)]) = LocatorGiven(l)
    <2> DEFINE s == b.locators
               P == {n \in 1..Len(s) : LocatorIdentity(s[n]) = LocatorGiven(l)}
    <2>1. Position(b, "locator", l) = IF P # {} THEN Min(P) ELSE 0
      BY DEF Position, SelectInSeq
    <2>2. P # {} => Min(P) \in P
      <3>1. P \in SUBSET (1..Len(s))
        OBVIOUS
      <3> HIDE DEF P, s
      <3> QED
        BY <1>1, <3>1, FoundPlace DEF s
    <2>3. \A n \in P : LocatorIdentity(s[n]) = LocatorGiven(l)
      OBVIOUS
    <2> HIDE DEF P
    <2> QED
      BY <2>1, <2>2, <2>3
  <1>3. Position(b, "assertion", l) # 0 =>
          AssertionIdentity(OrEmpty(b.asserted_by)[Position(b, "assertion", l)]) = AssertionGiven(l)
    <2> DEFINE s == OrEmpty(b.asserted_by)
               P == {n \in 1..Len(s) : AssertionIdentity(s[n]) = AssertionGiven(l)}
    <2>1. Position(b, "assertion", l) = IF P # {} THEN Min(P) ELSE 0
      BY DEF Position, SelectInSeq
    <2>2. P # {} => Min(P) \in P
      <3>1. P \in SUBSET (1..Len(s))
        OBVIOUS
      <3> HIDE DEF P, s
      <3> QED
        BY <1>1, <3>1, FoundPlace DEF s
    <2>3. \A n \in P : AssertionIdentity(s[n]) = AssertionGiven(l)
      OBVIOUS
    <2> HIDE DEF P
    <2> QED
      BY <2>1, <2>2, <2>3
  <1>4. Position(b, "field", l) # 0 => OrEmpty(b.fields)[Position(b, "field", l)].key = l.name
    <2> DEFINE s == OrEmpty(b.fields)
               P == {n \in 1..Len(s) : s[n].key = l.name}
    <2>1. Position(b, "field", l) = IF P # {} THEN Min(P) ELSE 0
      BY DEF Position, SelectInSeq
    <2>2. P # {} => Min(P) \in P
      <3>1. P \in SUBSET (1..Len(s))
        OBVIOUS
      <3> HIDE DEF P, s
      <3> QED
        BY <1>1, <3>1, FoundPlace DEF s
    <2>3. \A n \in P : s[n].key = l.name
      OBVIOUS
    <2> HIDE DEF P
    <2> QED
      BY <2>1, <2>2, <2>3
  <1> QED
    BY <1>2, <1>3, <1>4

(* Bindings that differ in one section say the same besides.               *)
LEMMA BeyondSame ==
  ASSUME NEW p, NEW k \in SectionKeys, NEW b, NEW c, c.comment = b.comment,
         k # "locators" => c.locators = b.locators,
         k # "compare_via" => c.compare_via = b.compare_via,
         k # "fields" => c.fields = b.fields,
         k # "wire" => c.wire = b.wire,
         k # "asserted_by" => c.asserted_by = b.asserted_by
  PROVE  Beyond(p, k, c) = Beyond(p, k, b)
  <1>1. \A j \in SectionKeys \ {k} : SectionSaid(K(p, j), j, c) = SectionSaid(K(p, j), j, b)
    BY DEF SectionSaid, SectionKeys
  <1> QED
    BY <1>1 DEF Beyond

(***************************************************************************)
(* A locator or an assertion that goes.                                    *)
(***************************************************************************)
EntryGone(f, g, q, l, keys) ==
    /\ \E n \in DOMAIN EntriesUnder(f, q) :
         /\ Describes(l, keys, EntriesUnder(f, q)[n])
         /\ EntriesUnder(g, q) = RemoveAt(EntriesUnder(f, q), n)
    /\ Beside(f, q) = Beside(g, q)

LEMMA DescribedTaken ==
  ASSUME NEW f, NEW g, NEW q, NEW l, NEW keys, "comment" \notin keys,
         NEW s, NEW i \in DOMAIN s, Match(l, keys, s[i].strings),
         EntriesUnder(f, q) = EntriesOf(s),
         EntriesUnder(g, q) = RemoveAt(EntriesUnder(f, q), i),
         Beside(f, q) = Beside(g, q)
  PROVE  EntryGone(f, g, q, l, keys)
  <1>1. i \in DOMAIN EntriesUnder(f, q) /\ EntriesUnder(f, q)[i] = EntrySaid(<<>>, s[i])
    BY DEF EntriesOf
  <1>2. Describes(l, keys, EntrySaid(<<>>, s[i]))
    BY DescribesMatch
  <1> QED
    BY <1>1, <1>2 DEF EntryGone

SectionsDiffer(f, g, id, k, b, c) ==
    \E B : Differ(f, g, K(BindingAt(id), k), SectionSaid(K(BindingAt(id), k), k, b),
                  SectionSaid(K(BindingAt(id), k), k, c), B)

LEMMA SectionsApart ==
  ASSUME NEW m, Good(m), NEW id \in Keys(m.bindings), NEW b, b = BindingOf(m, id),
         NEW k \in SectionKeys, NEW c, GoodBinding(c),
         Beyond(BindingAt(id), k, c) = Beyond(BindingAt(id), k, b),
         NEW f, Contents(f) = MapSaid(m), NEW g, Contents(g) = MapSaid(WithBinding(m, id, c))
  PROVE  SectionsDiffer(f, g, id, k, b, c)
  <1>1. LET q == K(BindingAt(id), k)
            B == Beyond(BindingAt(id), k, b) \cup Around(m, id)
        IN  /\ Contents(f) = SectionSaid(q, k, b) \cup B /\ Contents(g) = SectionSaid(q, k, c) \cup B
            /\ IsPath(q) /\ NoneOf(q, B)
    BY SectionChanged
  <1> QED
    BY <1>1 DEF SectionsDiffer, Differ

LEMMA ListShorter ==
  ASSUME NEW f, NEW g, NEW q, NEW A, NEW A2, NEW B, Differ(f, g, q, A, A2, B),
         NEW C, NEW s \in Seq(C), NEW i \in DOMAIN s, Telling(s), A = ListSaid(q, s),
         A2 = ListSaid(q, RemoveAt(s, i)) \/ (RemoveAt(s, i) = <<>> /\ A2 = {}),
         NEW l, NEW keys, "comment" \notin keys, Match(l, keys, s[i].strings)
  PROVE  EntryGone(f, g, q, l, keys)
  <1>1. /\ EntriesUnder(f, q) = EntriesOf(s)
        /\ EntriesUnder(g, q) = RemoveAt(EntriesUnder(f, q), i)
        /\ Beside(f, q) = Beside(g, q)
    BY ListTaken
  <1> QED
    BY <1>1, DescribedTaken

LEMMA LocatorGone ==
  ASSUME NEW b, GoodBinding(b), NEW l, Optioned(l), NEW i, i = Position(b, "locator", l), i # 0,
         NEW f, NEW g, NEW id, SectionsDiffer(f, g, id, "locators", b, EntryRemoved(b, "locator", i))
  PROVE  EntryGone(f, g, K(BindingAt(id), "locators"), l, IdentityKeys["locator"])
  <1> DEFINE s == b.locators
             t == RemoveAt(s, i)
             c == EntryRemoved(b, "locator", i)
             q == K(BindingAt(id), "locators")
             C == EntryType("locator", Note)
             keys == IdentityKeys["locator"]
  <1>1. b \in BindingType(Note)
    BY DEF GoodBinding
  <1>2. s \in Seq(C) /\ Telling(s) /\ i \in DOMAIN s
    BY <1>1, GoodParts, BindingTelling, PositionFound
  <1>3. LocatorIdentity(s[i]) = LocatorGiven(l)
    BY <1>1, PositionIs
  <1>4. c.locators = t
    <2>1. b = [locators |-> b.locators, compare_via |-> b.compare_via, fields |-> b.fields,
               wire |-> b.wire, asserted_by |-> b.asserted_by, comment |-> b.comment]
      BY GoodParts
    <2>2. c = [b EXCEPT !.locators = t]
      BY DEF EntryRemoved
    <2> HIDE DEF t, c
    <2> QED
      BY <2>1, <2>2
  <1>5. s[i] \in C
    BY <1>2, ListProperties
  <1>6. \A k \in DOMAIN s[i].strings : s[i].strings[k] # None
    BY <1>5, EntryParts, NotesAreTexts DEF Nodes
  <1>7. Match(l, keys, s[i].strings)
    BY <1>3, <1>6, LocatorMatches
  <1>8. "comment" \notin keys
    BY DEF IdentityKeys
  <1>9. PICK B : Differ(f, g, q, ListSaid(q, s), ListSaid(q, t), B)
    <2>1. SectionSaid(q, "locators", b) = ListSaid(q, s) /\ SectionSaid(q, "locators", c) = ListSaid(q, t)
      BY <1>4 DEF SectionSaid
    <2> HIDE DEF t, s
    <2> QED
      BY <2>1 DEF SectionsDiffer
  <1> HIDE DEF keys, q, s, C, c
  <1>10. EntryGone(f, g, q, l, keys)
    BY <1>2, <1>7, <1>8, <1>9, ListShorter
  <1> QED
    BY <1>10 DEF keys, q

LEMMA AssertionGone ==
  ASSUME NEW b, GoodBinding(b), NEW l, Optioned(l), AssertionShaped(l, {"path", "symbol"}),
         NEW i, i = Position(b, "assertion", l), i # 0,
         NEW f, NEW g, NEW id, SectionsDiffer(f, g, id, "asserted_by", b, EntryRemoved(b, "assertion", i))
  PROVE  EntryGone(f, g, K(BindingAt(id), "asserted_by"), l, IdentityKeys["assertion"])
  <1> DEFINE s == OrEmpty(b.asserted_by)
             t == RemoveAt(s, i)
             c == EntryRemoved(b, "assertion", i)
             q == K(BindingAt(id), "asserted_by")
             C == EntryType("assertion", Note)
             keys == IdentityKeys["assertion"]
  <1>1. b \in BindingType(Note)
    BY DEF GoodBinding
  <1>2. s \in Seq(C) /\ i \in DOMAIN s /\ AssertedRules(s, FALSE)
    BY <1>1, GoodParts, PositionFound
  <1>3. b.asserted_by = s /\ s # None
    <2>1. None \notin Seq(C)
      BY EntryKinds, NotesAreTexts DEF Nodes
    <2> QED
      BY <1>2, <2>1, EmptyList, GoodParts
  <1>4. Telling(s)
    BY <1>3, BindingTelling
  <1>5. AssertionIdentity(s[i]) = AssertionGiven(l)
    BY <1>1, PositionIs
  <1>6. t \in Seq(C)
    BY <1>2, RemoveList
  <1>7. c.asserted_by = OrNone(t)
    <2>1. b = [locators |-> b.locators, compare_via |-> b.compare_via, fields |-> b.fields,
               wire |-> b.wire, asserted_by |-> b.asserted_by, comment |-> b.comment]
      BY GoodParts
    <2>2. c = [b EXCEPT !.asserted_by = OrNone(t)]
      BY <1>3 DEF EntryRemoved
    <2> HIDE DEF t, c
    <2> QED
      BY <2>1, <2>2
  <1>8. s[i] \in C /\ s[i] \in Range(s)
    BY <1>2, ListProperties DEF Range
  <1>9. \A k \in DOMAIN s[i].strings : s[i].strings[k] # None
    BY <1>8, EntryParts, NotesAreTexts DEF Nodes
  <1>10. AssertionRules(s[i])
    BY <1>2, <1>8 DEF AssertedRules
  <1>11. Match(l, keys, s[i].strings)
    BY <1>5, <1>9, <1>10, AssertionMatches
  <1>12. "comment" \notin keys
    BY DEF IdentityKeys, Selecting
  <1> DEFINE A2 == SectionSaid(q, "asserted_by", c)
  <1>13. A2 = ListSaid(q, t) \/ (t = <<>> /\ A2 = {})
    <2>1. t # <<>> => t # None
      <3>1. None \notin Seq(C)
        BY EntryKinds, NotesAreTexts DEF Nodes
      <3> QED
        BY <1>6, <3>1
    <2>2. A2 = IF c.asserted_by = None THEN {} ELSE ListSaid(q, c.asserted_by)
      BY DEF SectionSaid
    <2> HIDE DEF t, A2
    <2> QED
      BY <1>7, <2>1, <2>2 DEF OrNone
  <1>14. PICK B : Differ(f, g, q, ListSaid(q, s), A2, B)
    <2>1. SectionSaid(q, "asserted_by", b) = ListSaid(q, s)
      BY <1>3 DEF SectionSaid
    <2> HIDE DEF s
    <2> QED
      BY <2>1 DEF SectionsDiffer
  <1>15. A2 = ListSaid(q, RemoveAt(s, i)) \/ (RemoveAt(s, i) = <<>> /\ A2 = {})
    BY <1>13
  <1> HIDE DEF keys, q, s, C, c, A2, t
  <1>16. EntryGone(f, g, q, l, keys)
    BY <1>2, <1>4, <1>11, <1>12, <1>14, <1>15, ListShorter
  <1> QED
    BY <1>16 DEF keys, q

(***************************************************************************)
(* A field that goes.                                                      *)
(***************************************************************************)
OtherFieldsSaid(q, d, i) ==
    UNION {EntrySaid(K(q, d[n].key), d[n].value) : n \in DOMAIN d \ {i}}

LEMMA FieldsParted ==
  ASSUME NEW S, NEW d \in Seq(S), NEW i \in DOMAIN d, NEW q
  PROVE  /\ FieldsSaid(q, d) = EntrySaid(K(q, d[i].key), d[i].value) \cup OtherFieldsSaid(q, d, i)
         /\ FieldsSaid(q, RemoveAt(d, i)) = OtherFieldsSaid(q, d, i)
  <1> DEFINE t == RemoveAt(d, i)
             Of(e) == EntrySaid(K(q, e.key), e.value)
             A == FieldsSaid(q, d)
             A2 == FieldsSaid(q, t)
             O == OtherFieldsSaid(q, d, i)
             E == EntrySaid(K(q, d[i].key), d[i].value)
  <1>1. /\ DOMAIN t = 1..(Len(d) - 1)
        /\ \A n \in 1..(Len(d) - 1) : t[n] = IF n < i THEN d[n] ELSE d[n + 1]
    BY RemoveList
  <1>2. DOMAIN d = 1..Len(d) /\ Len(d) \in Nat
    BY ListProperties
  <1>3. \A x : x \in A <=> \E n \in DOMAIN d : x \in Of(d[n])
    BY DEF FieldsSaid
  <1>4. \A x : x \in A2 <=> \E n \in DOMAIN t : x \in Of(t[n])
    BY DEF FieldsSaid
  <1>5. \A x : x \in O <=> \E n \in DOMAIN d : n # i /\ x \in Of(d[n])
    BY DEF OtherFieldsSaid
  <1>6. \A x : x \in E <=> x \in Of(d[i])
    OBVIOUS
  <1> HIDE DEF t, Of, A, A2, O, E
  <1>7. A = E \cup O
    BY <1>3, <1>5, <1>6
  <1>8. A2 = O
    <2>1. ASSUME NEW x, x \in A2  PROVE x \in O
      <3>1. PICK n \in DOMAIN t : x \in Of(t[n])
        BY <1>4, <2>1
      <3>2. CASE n < i
        BY <1>1, <1>2, <1>5, <3>1, <3>2
      <3>3. CASE ~(n < i)
        <4>1. n + 1 \in DOMAIN d /\ n + 1 # i /\ t[n] = d[n + 1]
          BY <1>1, <1>2, <3>3
        <4> QED
          BY <1>5, <3>1, <4>1
      <3> QED
        BY <3>2, <3>3
    <2>2. ASSUME NEW x, x \in O  PROVE x \in A2
      <3>1. PICK n \in DOMAIN d : n # i /\ x \in Of(d[n])
        BY <1>5, <2>2
      <3>2. CASE n < i
        <4>1. n \in DOMAIN t /\ t[n] = d[n]
          BY <1>1, <1>2, <3>2
        <4> QED
          BY <1>4, <3>1, <4>1
      <3>3. CASE ~(n < i)
        <4>1. n - 1 \in DOMAIN t /\ ~(n - 1 < i) /\ t[n - 1] = d[(n - 1) + 1] /\ (n - 1) + 1 = n
          BY <1>1, <1>2, <3>1, <3>3
        <4> QED
          BY <1>4, <3>1, <4>1
      <3> QED
        BY <3>2, <3>3
    <2> QED
      BY <2>1, <2>2
  <1> QED
    BY <1>7, <1>8 DEF A, A2, E, O, t

LEMMA OthersUnder ==
  ASSUME NEW q, IsPath(q), NEW d, UniqueKeys(d), NEW i \in DOMAIN d
  PROVE  /\ NoneOf(K(q, d[i].key), OtherFieldsSaid(q, d, i)) /\ IsPath(K(q, d[i].key))
         /\ AllOf(K(q, d[i].key), EntrySaid(K(q, d[i].key), d[i].value))
         /\ \A x \in OtherFieldsSaid(q, d, i) : x[1] # q
  <1> DEFINE key == d[i].key
  <1>1. \A n \in DOMAIN d \ {i} : d[n].key # key
    BY DEF UniqueKeys
  <1>2. IsPath(K(q, key))
    BY StepPath DEF K
  <1>3. AllOf(K(q, key), EntrySaid(K(q, key), d[i].value))
    BY <1>2, EntryUnder
  <1>4. ASSUME NEW n \in DOMAIN d \ {i}
        PROVE  /\ NoneOf(K(q, key), EntrySaid(K(q, d[n].key), d[n].value))
               /\ \A x \in EntrySaid(K(q, d[n].key), d[n].value) : x[1] # q
    <2> DEFINE j == d[n].key
               A == EntrySaid(K(q, j), d[n].value)
    <2>1. IsPath(Append(q, AtKey(j))) /\ AllOf(Append(q, AtKey(j)), A)
      BY StepPath, EntryUnder DEF K
    <2>2. AtKey(j) # AtKey(key)
      BY <1>1, RootPaths
    <2> HIDE DEF j, key, A
    <2>3. NoneOf(Append(q, AtKey(key)), A)
      BY <2>1, <2>2, AllNone
    <2>4. \A x \in A : OfPath(Append(q, AtKey(j)), x[1])
      BY <2>1 DEF AllOf
    <2>5. \A x \in A : x[1] # q
      BY <2>4, StepPath
    <2> QED
      BY <2>3, <2>5 DEF K, A, j
  <1> HIDE DEF key
  <1>5. \A x \in OtherFieldsSaid(q, d, i) :
          \E n \in DOMAIN d \ {i} : x \in EntrySaid(K(q, d[n].key), d[n].value)
    BY DEF OtherFieldsSaid
  <1>6. NoneOf(K(q, key), OtherFieldsSaid(q, d, i))
    BY <1>4, <1>5 DEF NoneOf
  <1>7. \A x \in OtherFieldsSaid(q, d, i) : x[1] # q
    BY <1>4, <1>5
  <1> QED
    BY <1>2, <1>3, <1>6, <1>7 DEF key

LEMMA FieldGone ==
  ASSUME NEW b, GoodBinding(b), NEW l, NEW i, i = Position(b, "field", l), i # 0,
         NEW f, NEW g, NEW id, SectionsDiffer(f, g, id, "fields", b, EntryRemoved(b, "field", i))
  PROVE  LET p == K(K(BindingAt(id), "fields"), l.name)
         IN  Under(f, p) # {} /\ Under(g, p) = {} /\ Beside(f, p) = Beside(g, p)
  <1> DEFINE d == OrEmpty(b.fields)
             t == RemoveAt(d, i)
             c == EntryRemoved(b, "field", i)
             q == K(BindingAt(id), "fields")
             F == [key : Texts, value : EntryType("field_locator", Note)]
             p == K(q, d[i].key)
             E == EntrySaid(p, d[i].value)
             O == OtherFieldsSaid(q, d, i)
             A2 == SectionSaid(q, "fields", c)
             none == {}
  <1>1. b \in BindingType(Note)
    BY DEF GoodBinding
  <1>2. d \in Seq(F) /\ i \in DOMAIN d /\ UniqueKeys(d)
    BY <1>1, GoodParts, PositionFound
  <1>3. b.fields = d /\ d # None
    <2>1. b.fields = d /\ b.fields \in DictsOf(Texts, EntryType("field_locator", Note)) \cup {None} /\ d # <<>>
      BY <1>1, <1>2, EmptyList, GoodParts DEF BindingType
    <2>2. b.fields = None => d = <<>>
      BY DEF OrEmpty
    <2> HIDE DEF d
    <2> QED
      BY <2>1, <2>2
  <1>4. d[i].key = l.name
    BY <1>1, PositionIs
  <1>5. DOMAIN d[i].value.strings # {}
    BY <1>2, <1>3, BindingTelling
  <1>6. t \in Seq(F) /\ UniqueKeys(t)
    BY <1>2, RemovedList
  <1>7. c.fields = OrNone(t)
    <2>1. b = [locators |-> b.locators, compare_via |-> b.compare_via, fields |-> b.fields,
               wire |-> b.wire, asserted_by |-> b.asserted_by, comment |-> b.comment]
      BY GoodParts
    <2>2. c = [b EXCEPT !.fields = OrNone(t)]
      BY <1>3 DEF EntryRemoved
    <2> HIDE DEF t, c
    <2> QED
      BY <2>1, <2>2
  <1>8. FieldsSaid(q, d) = E \cup O /\ FieldsSaid(q, t) = O
    <2> HIDE DEF d, q, F
    <2> QED
      BY <1>2, FieldsParted
  <1>9. A2 = O
    <2>1. t # <<>> => t # None
      <3>1. None \notin DictsOf(Texts, EntryType("field_locator", Note))
        BY EntryKinds, NotesAreTexts DEF Nodes
      <3>2. t \in DictsOf(Texts, EntryType("field_locator", Note))
        BY <1>6 DEF DictsOf
      <3> QED
        BY <3>1, <3>2
    <2>2. A2 = IF c.fields = None THEN {} ELSE FieldsSaid(q, c.fields)
      BY DEF SectionSaid
    <2>3. t = <<>> => FieldsSaid(q, t) = {}
      BY EmptyList DEF FieldsSaid
    <2> HIDE DEF t, A2
    <2> QED
      BY <1>7, <1>8, <2>1, <2>2, <2>3 DEF OrNone
  <1>10. PICK B : Differ(f, g, q, E \cup O, O, B)
    <2>1. SectionSaid(q, "fields", b) = E \cup O
      BY <1>3, <1>8 DEF SectionSaid
    <2> HIDE DEF E, O, A2, c
    <2> QED
      BY <1>9, <2>1 DEF SectionsDiffer, A2, c
  <1>11. Contents(f) = (E \cup O) \cup B /\ Contents(g) = O \cup B /\ IsPath(q) /\ NoneOf(q, B)
    BY <1>10 DEF Differ
  <1>12. /\ NoneOf(p, O) /\ IsPath(p) /\ AllOf(p, E)
    <2> HIDE DEF d, q
    <2> QED
      BY <1>2, <1>11, OthersUnder
  <1>13. OfPath(q, p)
    <2> HIDE DEF q, d
    <2> QED
      BY <1>11, StepPath DEF K
  <1>14. Moved(p, E) # {} /\ Moved(p, none) = {}
    BY <1>5, EntrySpeaks DEF Moved
  <1> DEFINE D == O \cup B
  <1>15. Contents(f) = E \cup D /\ Contents(g) = none \cup D
    BY <1>11
  <1> HIDE DEF p, q, E, O, D, none
  <1>16. AllOf(p, none) /\ NoneOf(p, D)
    BY <1>11, <1>12, <1>13, AllNone DEF none, D
  <1>17. Under(f, p) = Moved(p, E) /\ Beside(f, p) = Aside(p, D)
    BY <1>12, <1>15, <1>16, UnderIs
  <1>18. Under(g, p) = Moved(p, none) /\ Beside(g, p) = Aside(p, D)
    BY <1>12, <1>15, <1>16, UnderIs
  <1>19. Under(f, p) # {} /\ Under(g, p) = {} /\ Beside(f, p) = Beside(g, p)
    BY <1>14, <1>17, <1>18
  <1>20. p = K(K(BindingAt(id), "fields"), l.name)
    BY <1>4 DEF p, q
  <1> QED
    BY <1>19, <1>20

(* What is left of a binding without one of its entries.                   *)
LEMMA SectionTaken ==
  ASSUME NEW m, Good(m), NEW id \in Keys(m.bindings), NEW b, b = BindingOf(m, id),
         NEW node, NEW k, <<node, k>> \in {<<"locator", "locators">>, <<"assertion", "asserted_by">>,
                                           <<"field", "fields">>},
         NEW l, NEW i, i = Position(b, node, l), i # 0,
         NEW f, Contents(f) = MapSaid(m),
         NEW g, Contents(g) = MapSaid(WithBinding(m, id, EntryRemoved(b, node, i)))
  PROVE  GoodBinding(b) /\ SectionsDiffer(f, g, id, k, b, EntryRemoved(b, node, i))
  <1> DEFINE c == EntryRemoved(b, node, i)
  <1>1. GoodBinding(b)
    BY BindingFound DEF Good
  <1>2. GoodBinding(c)
    BY <1>1, EntryTaken
  <1>3. k \in SectionKeys
    BY DEF SectionKeys
  <1>4. b = [locators |-> b.locators, compare_via |-> b.compare_via, fields |-> b.fields,
             wire |-> b.wire, asserted_by |-> b.asserted_by, comment |-> b.comment]
    BY <1>1, GoodParts
  <1>5. /\ node = "locator" => \E v : c = [b EXCEPT !.locators = v]
        /\ node = "assertion" => \E v : c = [b EXCEPT !.asserted_by = v]
        /\ node = "field" => \E v : c = [b EXCEPT !.fields = v]
    BY DEF EntryRemoved
  <1> HIDE DEF c
  <1>6. /\ c.comment = b.comment /\ c.compare_via = b.compare_via /\ c.wire = b.wire
        /\ k # "locators" => c.locators = b.locators
        /\ k # "fields" => c.fields = b.fields
        /\ k # "asserted_by" => c.asserted_by = b.asserted_by
    <2>1. CASE node = "locator"
      BY <1>4, <1>5, <2>1
    <2>2. CASE node = "assertion"
      BY <1>4, <1>5, <2>2
    <2>3. CASE node = "field"
      BY <1>4, <1>5, <2>3
    <2> QED
      BY <2>1, <2>2, <2>3
  <1>7. Beyond(BindingAt(id), k, c) = Beyond(BindingAt(id), k, b)
    BY <1>3, <1>6, BeyondSame
  <1>8. Contents(g) = MapSaid(WithBinding(m, id, c))
    BY DEF c
  <1>9. SectionsDiffer(f, g, id, k, b, c)
    BY <1>2, <1>3, <1>7, <1>8, SectionsApart
  <1> QED
    BY <1>1, <1>9 DEF c

(***************************************************************************)
(* What `remove` takes away is what its line describes.                    *)
(***************************************************************************)
LEMMA RemovalDescribes ==
  ASSUME NEW m, Good(m), NEW l, RemoveAccepted(l), Optioned(l), NEW id, id = l.target,
         id \in Keys(m.bindings), Contents(file) = MapSaid(m),
         NEW node, node = RemovalNode(l), NEW i, node # "binding" => i = Position(BindingOf(m, id), node, l) /\ i # 0,
         node = "binding" => Contents(file') = MapSaid([m EXCEPT !.bindings = Drop(@, id)]),
         node # "binding" =>
           Contents(file') = MapSaid(WithBinding(m, id, EntryRemoved(BindingOf(m, id), node, i)))
  PROVE  RemovedAsDescribed(l)
  <1> DEFINE b == BindingOf(m, id)
             p == KeyPath(<<"bindings", l.target>>)
  <1>1. p = BindingAt(id) /\ p \o KeyPath(<<"fields", l.name>>) = K(K(BindingAt(id), "fields"), l.name)
    BY LinePaths
  <1>2. node \in {"locator", "assertion", "field", "binding"}
    BY DEF RemovalNode
  <1>3. CASE node = "binding"
    <2> DEFINE n == [m EXCEPT !.bindings = Drop(@, id)]
               q == BindingAt(id)
    <2>1. Contents(file') = MapSaid(n)
      BY <1>3
    <2> HIDE DEF n
    <2>2. Under(file, q) # {} /\ Under(file', q) = {} /\ Beside(file, q) = Beside(file', q)
      BY <2>1, BindingGone DEF n
    <2>3. node \notin DOMAIN ListOf /\ node # "field"
      BY <1>3 DEF ListOf
    <2> HIDE DEF q
    <2> QED
      BY <1>1, <2>2, <2>3 DEF RemovedAsDescribed, q
  <1>4. CASE node = "field"
    <2> DEFINE q == K(K(BindingAt(id), "fields"), l.name)
               f == file
               g == file'
    <2>1. GoodBinding(b) /\ SectionsDiffer(f, g, id, "fields", b, EntryRemoved(b, node, i))
      <3> HIDE DEF f, g, b
      <3> QED
        BY <1>4, SectionTaken DEF f, g, b
    <2>2. Under(f, q) # {} /\ Under(g, q) = {} /\ Beside(f, q) = Beside(g, q)
      <3> HIDE DEF f, g, b, q
      <3> QED
        BY <1>4, <2>1, FieldGone DEF q, b
    <2>3. node \notin DOMAIN ListOf
      BY <1>4 DEF ListOf
    <2> HIDE DEF q
    <2> QED
      BY <1>1, <1>4, <2>2, <2>3 DEF RemovedAsDescribed, q
  <1>5. CASE node = "locator"
    <2> DEFINE q == K(BindingAt(id), "locators")
               f == file
               g == file'
    <2>1. GoodBinding(b) /\ SectionsDiffer(f, g, id, "locators", b, EntryRemoved(b, node, i))
      <3> HIDE DEF f, g, b
      <3> QED
        BY <1>5, SectionTaken DEF f, g, b
    <2>2. EntryGone(f, g, q, l, IdentityKeys["locator"])
      <3> HIDE DEF f, g, b, q
      <3> QED
        BY <1>5, <2>1, LocatorGone DEF q, b
    <2>3. /\ node \in DOMAIN ListOf /\ ListOf[node] = "locators" /\ IdentityKeys[node] = IdentityKeys["locator"]
          /\ Append(p, AtKey(ListOf[node])) = q
      BY <1>1, <1>5 DEF ListOf, K
    <2> HIDE DEF q
    <2> QED
      BY <2>2, <2>3 DEF RemovedAsDescribed, EntryGone
  <1>6. CASE node = "assertion"
    <2> DEFINE q == K(BindingAt(id), "asserted_by")
               f == file
               g == file'
    <2>1. GoodBinding(b) /\ SectionsDiffer(f, g, id, "asserted_by", b, EntryRemoved(b, node, i))
      <3> HIDE DEF f, g, b
      <3> QED
        BY <1>6, SectionTaken DEF f, g, b
    <2>2. EntryGone(f, g, q, l, IdentityKeys["assertion"])
      <3>1. AssertionShaped(l, {"path", "symbol"})
        BY <1>6 DEF RemoveAccepted, RemovalNode
      <3> HIDE DEF f, g, b, q
      <3> QED
        BY <1>6, <2>1, <3>1, AssertionGone DEF q, b
    <2>3. /\ node \in DOMAIN ListOf /\ ListOf[node] = "asserted_by"
          /\ IdentityKeys[node] = IdentityKeys["assertion"]
          /\ Append(p, AtKey(ListOf[node])) = q
      BY <1>1, <1>6 DEF ListOf, K
    <2> HIDE DEF q
    <2> QED
      BY <2>2, <2>3 DEF RemovedAsDescribed, EntryGone
  <1> QED
    BY <1>2, <1>3, <1>4, <1>5, <1>6

(* A file that may be written is all that its map says, before and after.  *)
LEMMA Writable ==
  ASSUME file \in ParsedFiles, ~NamesConfused, Load.write = "ok"
  PROVE  /\ file \in FileType /\ Clean /\ Good(Load.map) /\ Load.map = Loaded
         /\ Contents(file) = MapSaid(Load.map)
  <1>1. file \in FileType
    BY DEF ParsedFiles
  <1>2. Clean /\ Load.map = Loaded
    BY DEF Load, WriteCode, ReadCode, Clean
  <1>3. SpellsMap(file, Loaded) /\ Good(Loaded)
    BY <1>2, LoadedSpelled
  <1> DEFINE f == file
             m == Loaded
  <1>4. f \in ParsedFiles /\ SpellsMap(f, m) /\ Good(m)
    BY <1>3
  <1> HIDE DEF f, m
  <1>5. Contents(f) = MapSaid(m)
    BY <1>4, ContentsSaid
  <1>6. Contents(file) = MapSaid(Loaded)
    BY <1>5 DEF f, m
  <1> QED
    BY <1>1, <1>2, <1>3, <1>6

LEMMA Emitted ==
  ASSUME TextsReadBack, NEW m, Good(m)
  PROVE  MapCodes(m) = {} /\ Contents(Emit(m)) = MapSaid(m)
  <1> DEFINE f == Emit(m)
  <1>1. f \in ParsedFiles /\ SpellsMap(f, m)
    BY MapSpells
  <1> HIDE DEF f
  <1>2. Contents(f) = MapSaid(m)
    BY <1>1, ContentsSaid
  <1>3. MapCodes(m) = {}
    BY GoodMaps
  <1> QED
    BY <1>2, <1>3 DEF f

LEMMA RemoveTakes ==
  ASSUME TextsReadBack, file \in ParsedFiles, ~NamesConfused, NEW l \in Removals, RemoveEntry(Load, l),
         reply'.code = "ok"
  PROVE  RemovedAsDescribed(reply'.doc)
  <1> DEFINE id == l.target
             node == RemovalNode(l)
             m == Load.map
             old == BindingOf(m, id)
             i == Position(old, node, l)
             b == EntryRemoved(old, node, i)
             n == WithBinding(m, id, b)
             k == [m EXCEPT !.bindings = Drop(@, id)]
             Ready == RemoveAccepted(l) /\ Load.write = "ok" /\ Present(Load, id)
  <1>1. \/ \E code \in {"ERR-USAGE", "ERR-NOT-FOUND"} : Deny("remove", id, code)
        \/ Load.write # "ok" /\ Deny("remove", id, Load.write)
        \/ Ready /\ node = "binding" /\ Install("remove", id, l, k, None)
        \/ /\ Ready /\ node # "binding" /\ i # 0
           /\ Install("remove", id, l, n, BindingOut(id, BindingOf(n, id)))
    BY DEF RemoveEntry, Installs
  <1>2. \A code : Deny("remove", id, code) => reply'.code = code
    BY DEF Deny, Refuse, Answer
  <1>3. \/ Ready /\ node = "binding" /\ Install("remove", id, l, k, None)
        \/ /\ Ready /\ node # "binding" /\ i # 0
           /\ Install("remove", id, l, n, BindingOut(id, BindingOf(n, id)))
    BY <1>1, <1>2
  <1>4. Ready
    BY <1>3
  <1>5. Good(m) /\ Contents(file) = MapSaid(m)
    BY <1>4, Writable
  <1>6. id \in Keys(m.bindings)
    BY <1>4 DEF Present
  <1>7. Optioned(l)
    BY LinesAssumption, NotesAreTexts DEF Optioned
  <1>8. CASE node = "binding" /\ Install("remove", id, l, k, None)
    <2>1. Good(k)
      BY <1>5, <1>6, BindingTaken
    <2> HIDE DEF k, m
    <2>2. MapCodes(k) = {} /\ Contents(Emit(k)) = MapSaid(k)
      BY <2>1, Emitted
    <2>3. file' = Emit(k) /\ reply'.doc = l
      BY <1>8, <2>2 DEF Install
    <2>4. Contents(file') = MapSaid(k)
      BY <2>2, <2>3
    <2>5. RemovedAsDescribed(l)
      BY <1>4, <1>5, <1>6, <1>7, <1>8, <2>4, RemovalDescribes DEF k
    <2> QED
      BY <2>3, <2>5
  <1>9. CASE node # "binding" /\ i # 0 /\ Install("remove", id, l, n, BindingOut(id, BindingOf(n, id)))
    <2>1. node \in {"locator", "assertion", "field"}
      BY <1>9 DEF RemovalNode
    <2>2. id \in IdTexts /\ GoodBinding(old)
      BY <1>5, <1>6, BindingFound DEF Good
    <2> HIDE DEF old, node, m
    <2>3. GoodBinding(b)
      BY <1>9, <2>1, <2>2, EntryTaken
    <2> HIDE DEF b
    <2>4. Good(n)
      BY <1>5, <2>2, <2>3, BindingPlaced
    <2> HIDE DEF n
    <2>5. MapCodes(n) = {} /\ Contents(Emit(n)) = MapSaid(n)
      BY <2>4, Emitted
    <2>6. file' = Emit(n) /\ reply'.doc = l
      BY <1>9, <2>5 DEF Install
    <2>7. Contents(file') = MapSaid(n)
      BY <2>5, <2>6
    <2>8. RemovedAsDescribed(l)
      <3>1. id = l.target /\ node = RemovalNode(l) /\ i = Position(BindingOf(m, id), node, l)
        BY DEF node, old
      <3>2. Contents(file') = MapSaid(WithBinding(m, id, EntryRemoved(BindingOf(m, id), node, i)))
        BY <2>7 DEF n, b, old
      <3>3. RemoveAccepted(l) /\ i # 0 /\ node # "binding"
        BY <1>4, <1>9
      <3> HIDE DEF id, i, Ready
      <3> QED
        BY <1>5, <1>6, <1>7, <3>1, <3>2, <3>3, RemovalDescribes
    <2> QED
      BY <2>6, <2>8
  <1> QED
    BY <1>3, <1>8, <1>9

(* Which command an answer is of.                                          *)
Lines == {"remove", "comment get", "comment set", "comment unset"}

LEMMA OpIs ==
  ASSUME NEW op
  PROVE  /\ \A id, doc, code, out : Answer(op, id, doc, code, out) => reply'.op = op
         /\ \A id, code : Deny(op, id, code) => reply'.op = op
         /\ \A id, doc, code : Refuse(op, id, doc, code) => reply'.op = op
         /\ \A id, doc, m, out : Install(op, id, doc, m, out) => reply'.op = op
         /\ \A id, doc, m : Installs(op, id, doc, m) => reply'.op = op
  BY DEF Answer, Deny, Refuse, Install, Installs

LEMMA SetIs ==
  ASSUME NEW id, NEW doc, Set(Load, id, doc)
  PROVE  reply'.op = "set"
  <1>1. (\E code : Deny("set", id, code) \/ Refuse("set", id, doc, code)) \/ \E m : Installs("set", id, doc, m)
    BY DEF Set
  <1> QED
    BY <1>1, OpIs

LEMMA LineAnswers ==
  ASSUME Next, reply'.op \in Lines
  PROVE  \/ \E l \in Removals : RemoveEntry(Load, l) /\ reply'.op = "remove"
         \/ \E l \in Remarks : CommentGet(Load, l) /\ reply'.op = "comment get"
         \/ \E l \in Remarks : \E text \in Notes :
              CommentWrite(Load, l, text) /\ reply'.op \in {"comment set", "comment unset"}
  <1>1. CASE AnswerRead
    BY <1>1 DEF AnswerRead, NoReply, Lines
  <1>2. CASE \E id \in Ids : SetGot(Load, id)
    BY <1>2, SetIs DEF SetGot, Lines
  <1>3. CASE \E id \in Ids : Get(Load, id)
    <2>1. PICK id \in Ids : Get(Load, id)
      BY <1>3
    <2>2. (\E code : Deny("get", id, code)) \/ \E doc, code, out : Answer("get", id, doc, code, out)
      BY <2>1 DEF Get
    <2> QED
      BY <2>2, OpIs DEF Lines
  <1>4. CASE \E id \in Ids : SetGiven(Load, id)
    BY <1>4, SetIs DEF SetGiven, Lines
  <1>5. CASE \E id \in Ids : AddEntry(Load, id)
    <2>1. PICK id \in Ids, node \in DOMAIN Additions : \E options \in Additions[node] :
            \E name \in IF node = "field_locator" THEN FieldNames ELSE {None} :
              Add(Load, id, node, name, options)
      BY <1>5 DEF AddEntry
    <2>2. node \notin Lines
      BY ArgumentsAssumption DEF Lines
    <2>3. (\E code : Deny(node, id, code)) \/ \E doc, m : Installs(node, id, doc, m)
      BY <2>1 DEF Add
    <2> QED
      BY <2>2, <2>3, OpIs
  <1>6. CASE \E kinds \in {{}} \cup {{k} : k \in Kinds}, full \in BOOLEAN :
               ListBindings(Load, kinds, full)
    <2>1. PICK kinds \in {{}} \cup {{k} : k \in Kinds} : \E full \in BOOLEAN : ListBindings(Load, kinds, full)
      BY <1>6
    <2>2. PICK full \in BOOLEAN : ListBindings(Load, kinds, full)
      BY <2>1
    <2> DEFINE op == IF full THEN "list --full" ELSE "list"
    <2>3. (\E code : Deny("list", None, code)) \/ \E out : Answer(op, None, kinds, "ok", out)
      BY <2>2 DEF ListBindings
    <2>4. op \notin Lines /\ "list" \notin Lines
      BY DEF Lines
    <2> HIDE DEF op
    <2> QED
      BY <2>3, <2>4, OpIs
  <1>7. CASE \E kind \in Kinds : FullyBoundAdd(Load, kind)
    <2>1. (\E code : Deny("fully-bound", None, code)) \/ \E doc, m, out : Install("fully-bound", None, doc, m, out)
      BY <1>7 DEF FullyBoundAdd, InstallsCoverage
    <2> QED
      BY <2>1, OpIs DEF Lines
  <1>8. CASE \E kind \in Kinds, reason \in Reasons, note \in Notes : CuratedSet(Load, kind, reason, note)
    <2>1. (\E code : Deny("curated", None, code)) \/ \E doc, m, out : Install("curated", None, doc, m, out)
      BY <1>8 DEF CuratedSet, InstallsCoverage
    <2> QED
      BY <2>1, OpIs DEF Lines
  <1>9. CASE \E l \in Removals : RemoveEntry(Load, l)
    <2>1. PICK l \in Removals : RemoveEntry(Load, l)
      BY <1>9
    <2>2. \E id : \/ \E code : Deny("remove", id, code)
                  \/ \E doc, m, out : Install("remove", id, doc, m, out)
                  \/ \E doc, m : Installs("remove", id, doc, m)
      BY <2>1 DEF RemoveEntry
    <2> QED
      BY <2>1, <2>2, OpIs
  <1>10. CASE \E l \in Remarks : CommentGet(Load, l)
    <2>1. PICK l \in Remarks : CommentGet(Load, l)
      BY <1>10
    <2>2. \/ \E code : Deny("comment get", None, code)
          \/ \E doc, out : Answer("comment get", None, doc, "ok", out)
      BY <2>1 DEF CommentGet
    <2> QED
      BY <2>1, <2>2, OpIs
  <1>11. CASE \E l \in Remarks : \E text \in Notes : CommentWrite(Load, l, text)
    <2>1. PICK l \in Remarks, text \in Notes : CommentWrite(Load, l, text)
      BY <1>11
    <2>2. \E op \in {"comment set", "comment unset"} :
            (\E code : Deny(op, None, code)) \/ \E doc, m, out : Install(op, None, doc, m, out)
      BY <2>1 DEF CommentWrite
    <2> QED
      BY <2>1, <2>2, OpIs
  <1>12. CASE Format(Load)
    <2>1. (\E code : Deny("format", None, code)) \/ \E doc, m, out : Install("format", None, doc, m, out)
      BY <1>12 DEF Format
    <2> QED
      BY <2>1, OpIs DEF Lines
  <1> QED
    BY <1>1, <1>2, <1>3, <1>4, <1>5, <1>6, <1>7, <1>8, <1>9, <1>10, <1>11, <1>12 DEF Next, Command

(* An accepted `remove` takes away the one entry that its line describes   *)
(* in full, and nothing beside it, for any line and any file of texts that *)
(* read back, in which no name is no string and taken for another or       *)
(* given its binding's comment (TextsReadBack, NamesConfused).             *)
THEOREM RemoveTakesTheDescribed == TextsReadBack => (Spec => RemovesTheDescribed)
  <1> SUFFICES ASSUME TextsReadBack
               PROVE  Spec => RemovesTheDescribed
    OBVIOUS
  <1>1. Parsed /\ [Next]_vars =>
          [reply'.op = "remove" /\ reply'.code = "ok" /\ ~NamesConfused => RemovedAsDescribed(reply'.doc)]_vars
    <2> SUFFICES ASSUME Parsed, Next, reply'.op = "remove", reply'.code = "ok", ~NamesConfused
                 PROVE  RemovedAsDescribed(reply'.doc)
      OBVIOUS
    <2>1. reply'.op \in Lines
      BY DEF Lines
    <2>2. PICK l \in Removals : RemoveEntry(Load, l)
      BY <2>1, LineAnswers
    <2> QED
      BY <2>2, RemoveTakes DEF Parsed
  <1>2. Spec => []Parsed
    BY FileParsed
  <1> QED
    BY <1>1, <1>2, PTL DEF Spec, RemovesTheDescribed

(***************************************************************************)
(* What is said with another comment at one place, and the same besides.   *)
(***************************************************************************)
Swaps(A, A2, spot, c, c2) ==
    \E O : /\ \A x \in O : x[1] # K(spot, "comment")
           /\ A = Noted(spot, c) \cup O /\ A2 = Noted(spot, c2) \cup O

LEMMA SwapWider ==
  ASSUME NEW A, NEW A2, NEW spot, NEW c, NEW c2, Swaps(A, A2, spot, c, c2),
         NEW B, \A x \in B : x[1] # K(spot, "comment")
  PROVE  Swaps(A \cup B, A2 \cup B, spot, c, c2)
  <1>1. PICK O : /\ \A x \in O : x[1] # K(spot, "comment")
                 /\ A = Noted(spot, c) \cup O /\ A2 = Noted(spot, c2) \cup O
    BY DEF Swaps
  <1> DEFINE P == O \cup B
  <1>2. \A x \in P : x[1] # K(spot, "comment")
    BY <1>1
  <1>3. A \cup B = Noted(spot, c) \cup P /\ A2 \cup B = Noted(spot, c2) \cup P
    BY <1>1
  <1> HIDE DEF P
  <1> QED
    BY <1>2, <1>3 DEF Swaps

LEMMA NotNoted ==
  ASSUME NEW p, IsPath(p)
  PROVE  /\ \A B : NoneOf(p, B) => \A x \in B : x[1] # K(p, "comment")
         /\ \A k : k # "comment" => K(p, k) # K(p, "comment")
         /\ \A k, B : k # "comment" /\ AllOf(K(p, k), B) => \A x \in B : x[1] # K(p, "comment")
  <1> DEFINE note == AtKey("comment")
  <1>1. \A e : IsPath(Append(p, e)) /\ OfPath(p, Append(p, e))
    BY StepPath
  <1>2. \A B : NoneOf(p, B) => \A x \in B : x[1] # Append(p, note)
    BY <1>1 DEF NoneOf
  <1>3. \A k : k # "comment" => AtKey(k) # note
    BY RootPaths
  <1>4. \A e : OfPath(Append(p, e), Append(p, e))
    BY <1>1 DEF OfPath, IsPath
  <1> HIDE DEF note
  <1>5. \A e, B : e # note /\ AllOf(Append(p, e), B) => NoneOf(Append(p, note), B)
    BY AllNone
  <1>6. \A B : NoneOf(Append(p, note), B) => \A x \in B : x[1] # Append(p, note)
    BY <1>4 DEF NoneOf
  <1>7. \A k : k # "comment" => Append(p, AtKey(k)) # Append(p, note)
    <2> SUFFICES ASSUME NEW k, k # "comment", Append(p, AtKey(k)) = Append(p, note)
                 PROVE  FALSE
      OBVIOUS
    <2>1. Append(p, AtKey(k))[Len(p) + 1] = AtKey(k)
      BY <1>4, StepPath
    <2>2. Append(p, note)[Len(p) + 1] = note
      BY <1>4, StepPath
    <2> QED
      BY <1>3, <2>1, <2>2
  <1> QED
    BY <1>2, <1>3, <1>5, <1>6, <1>7 DEF K, note

LEMMA EntrySwap ==
  ASSUME NEW p, IsPath(p), NEW x, "comment" \notin DOMAIN x.strings, NEW y, y.strings = x.strings
  PROVE  Swaps(EntrySaid(p, x), EntrySaid(p, y), p, x.comment, y.comment)
  <1> DEFINE rows == {<<k, String(x.strings[k])>> : k \in DOMAIN x.strings}
             O == Placed(p, rows)
  <1>1. \A a, b : Placed(p, a \cup b) = Placed(p, a) \cup Placed(p, b)
    BY DEF Placed
  <1>2. EntryRows(x) = rows \cup NoteRow(x.comment) /\ EntryRows(y) = rows \cup NoteRow(y.comment)
    BY DEF EntryRows
  <1>3. \A r \in rows : r[1] # "comment"
    OBVIOUS
  <1> HIDE DEF rows
  <1>4. \A z \in O : \E r \in rows : z = <<K(p, r[1]), r[2]>>
    BY DEF Placed
  <1>5. \A z \in O : z[1] # K(p, "comment")
    BY <1>3, <1>4, NotNoted
  <1>6. /\ EntrySaid(p, x) = Noted(p, x.comment) \cup O
        /\ EntrySaid(p, y) = Noted(p, y.comment) \cup O
    BY <1>1, <1>2, NotedPlaced DEF EntrySaid
  <1> HIDE DEF O
  <1> QED
    BY <1>5, <1>6 DEF Swaps

(* An entry of a list, and one of the fields.                              *)
OtherItemsSaid(q, s, i) == UNION {EntrySaid(Append(q, AtItem(n)), s[n]) : n \in DOMAIN s \ {i}}

LEMMA ItemsParted ==
  ASSUME NEW q, IsPath(q), NEW s, NEW i \in DOMAIN s
  PROVE  /\ ListSaid(q, s) = EntrySaid(Append(q, AtItem(i)), s[i]) \cup OtherItemsSaid(q, s, i)
         /\ NoneOf(Append(q, AtItem(i)), OtherItemsSaid(q, s, i)) /\ IsPath(Append(q, AtItem(i)))
  <1> DEFINE at(n) == Append(q, AtItem(n))
             A == ListSaid(q, s)
             E == EntrySaid(at(i), s[i])
             O == OtherItemsSaid(q, s, i)
  <1>1. s # <<>>
    BY EmptyList
  <1>2. \A x : x \in A <=> \E n \in DOMAIN s : x \in EntrySaid(at(n), s[n])
    BY <1>1 DEF ListSaid
  <1>3. \A x : x \in O <=> \E n \in DOMAIN s \ {i} : x \in EntrySaid(at(n), s[n])
    BY DEF OtherItemsSaid
  <1>4. \A n : IsPath(at(n))
    BY StepPath
  <1>5. \A n \in DOMAIN s \ {i} : NoneOf(at(i), EntrySaid(at(n), s[n]))
    <2> TAKE n \in DOMAIN s \ {i}
    <2>1. AtItem(n) # AtItem(i)
      BY ItemsApart
    <2>2. AllOf(at(n), EntrySaid(at(n), s[n]))
      BY <1>4, EntryUnder
    <2> QED
      BY <2>1, <2>2, AllNone
  <1>6. A = E \cup O
    <2> HIDE DEF A, O, at
    <2>1. \A x : x \in E <=> x \in EntrySaid(at(i), s[i])
      OBVIOUS
    <2> HIDE DEF E
    <2>2. \A x : x \in A <=> x \in E \/ x \in O
      BY <1>2, <1>3, <2>1
    <2> QED
      BY <2>2
  <1>7. NoneOf(at(i), O)
    BY <1>3, <1>5 DEF NoneOf
  <1> QED
    BY <1>4, <1>6, <1>7

LEMMA ListSwap ==
  ASSUME NEW q, IsPath(q), NEW s, NEW t, DOMAIN t = DOMAIN s, NEW i \in DOMAIN s,
         \A n \in DOMAIN s : n # i => t[n] = s[n],
         t[i].strings = s[i].strings, "comment" \notin DOMAIN s[i].strings
  PROVE  Swaps(ListSaid(q, s), ListSaid(q, t), Append(q, AtItem(i)), s[i].comment, t[i].comment)
  <1> DEFINE p == Append(q, AtItem(i))
             O == OtherItemsSaid(q, s, i)
             A == EntrySaid(p, s[i])
             A2 == EntrySaid(p, t[i])
  <1>1. ListSaid(q, s) = A \cup O /\ NoneOf(p, O) /\ IsPath(p)
    BY ItemsParted
  <1>2. ListSaid(q, t) = A2 \cup OtherItemsSaid(q, t, i)
    BY ItemsParted
  <1>3. OtherItemsSaid(q, t, i) = O
    BY DEF OtherItemsSaid
  <1>4. Swaps(A, A2, p, s[i].comment, t[i].comment)
    BY <1>1, EntrySwap
  <1> HIDE DEF p, O, A, A2
  <1>5. \A x \in O : x[1] # K(p, "comment")
    BY <1>1, NotNoted
  <1>6. Swaps(A \cup O, A2 \cup O, p, s[i].comment, t[i].comment)
    BY <1>4, <1>5, SwapWider
  <1> QED
    BY <1>1, <1>2, <1>3, <1>6 DEF p

LEMMA FieldsSwap ==
  ASSUME NEW q, IsPath(q), NEW S, NEW d \in Seq(S), NEW t \in Seq(S), DOMAIN t = DOMAIN d, UniqueKeys(d),
         NEW i \in DOMAIN d, \A n \in DOMAIN d : n # i => t[n] = d[n], t[i].key = d[i].key,
         t[i].value.strings = d[i].value.strings, "comment" \notin DOMAIN d[i].value.strings
  PROVE  Swaps(FieldsSaid(q, d), FieldsSaid(q, t), K(q, d[i].key), d[i].value.comment, t[i].value.comment)
  <1> DEFINE p == K(q, d[i].key)
             O == OtherFieldsSaid(q, d, i)
             A == EntrySaid(p, d[i].value)
             A2 == EntrySaid(p, t[i].value)
  <1>1. FieldsSaid(q, d) = A \cup O
    BY FieldsParted
  <1>2. FieldsSaid(q, t) = A2 \cup OtherFieldsSaid(q, t, i)
    BY FieldsParted
  <1>3. OtherFieldsSaid(q, t, i) = O
    BY DEF OtherFieldsSaid
  <1>4. NoneOf(p, O) /\ IsPath(p)
    BY OthersUnder
  <1>5. Swaps(A, A2, p, d[i].value.comment, t[i].value.comment)
    BY <1>4, EntrySwap
  <1> HIDE DEF p, O, A, A2
  <1>6. \A x \in O : x[1] # K(p, "comment")
    BY <1>4, NotNoted
  <1>7. Swaps(A \cup O, A2 \cup O, p, d[i].value.comment, t[i].value.comment)
    BY <1>5, <1>6, SwapWider
  <1> QED
    BY <1>1, <1>2, <1>3, <1>7 DEF p

(***************************************************************************)
(* Comments of the header, of the coverage and of its kinds.               *)
(***************************************************************************)
BindingsPart(m) ==
    NoBindings(m) \cup UNION {BindingSaid(BindingAt(e.key), e.value) : e \in Range(m.bindings)}

LEMMA MapParts ==
  ASSUME NEW m
  PROVE  /\ MapSaid(m) = Heading(m) \cup BindingsPart(m) \cup CoveringSaid(m)
         /\ AllOf(K(<<>>, "bindings"), BindingsPart(m)) /\ AllOf(Covering, CoveringSaid(m))
         /\ NoneOf(Covering, Heading(m) \cup BindingsPart(m)) /\ IsPath(Covering)
  <1> DEFINE root == K(<<>>, "bindings")
             Of(e) == BindingSaid(BindingAt(e.key), e.value)
  <1>1. \A x : x \in BindingsPart(m) <=>
           \/ m.bindings = <<>> /\ x = <<root, Mapping(<<>>)>>
           \/ m.bindings # <<>> /\ \E e \in Range(m.bindings) : x \in Of(e)
    BY EmptyList DEF BindingsPart, NoBindings
  <1>2. \A x : x \in Heading(m) <=>
           x \in Noted(<<>>, m.header) \/ x = <<K(<<>>, "schema_version"), Scalar("integer", m.schema_version)>>
    BY DEF Heading
  <1>3. \A x : x \in CoveringSaid(m) <=> m.coverage # None /\ x \in CoverageSaid(m.coverage)
    BY DEF CoveringSaid
  <1>4. MapSaid(m) = Heading(m) \cup BindingsPart(m) \cup CoveringSaid(m)
    <2> DEFINE A == MapSaid(m)
               B == Heading(m) \cup BindingsPart(m) \cup CoveringSaid(m)
    <2>1. \A x : x \in A <=> x \in B
      BY <1>1, <1>2, <1>3, MapForms
    <2> HIDE DEF A, B
    <2>2. A = B
      BY <2>1
    <2> QED
      BY <2>2 DEF A, B
  <1>5. IsPath(root) /\ OfPath(root, root)
    BY RootPaths DEF OfPath, IsPath
  <1>6. AllOf(root, BindingsPart(m))
    <2> SUFFICES ASSUME NEW x \in BindingsPart(m)
                 PROVE  OfPath(root, x[1])
      BY DEF AllOf
    <2>1. CASE x = <<root, Mapping(<<>>)>>
      BY <1>5, <2>1
    <2>2. CASE \E e \in Range(m.bindings) : x \in Of(e)
      BY <2>2, BindingsUnder
    <2> QED
      BY <1>1, <2>1, <2>2
  <1>7. AllOf(Covering, CoveringSaid(m))
    BY <1>3, CoverageUnder DEF AllOf
  <1>8. NoneOf(Covering, BindingsPart(m))
    <2> DEFINE d == AtKey("bindings")
               e == AtKey("coverage")
               B == BindingsPart(m)
               p == <<>>
    <2>1. d # e /\ IsPath(p)
      BY RootPaths
    <2>2. AllOf(Append(p, d), B)
      BY <1>6 DEF K
    <2> HIDE DEF d, e, B, p
    <2>3. NoneOf(Append(p, e), B)
      BY <2>1, <2>2, AllNone
    <2> QED
      BY <2>3 DEF p, e, B, Covering, K
  <1>9. NoneOf(Covering, Heading(m))
    <2> SUFFICES ASSUME NEW x \in Heading(m)
                 PROVE  IsPath(x[1]) /\ ~OfPath(Covering, x[1])
      BY DEF NoneOf
    <2>1. PICK k \in {"comment", "schema_version"} : x[1] = K(<<>>, k)
      BY HeadingPaths
    <2> DEFINE d == AtKey(k)
               e == AtKey("coverage")
               p == <<>>
    <2>2. d # e /\ IsPath(p)
      BY <2>1, RootPaths
    <2>3. x[1] = Append(p, d)
      BY <2>1 DEF K
    <2> HIDE DEF d, e, p
    <2>4. IsPath(Append(p, d))
      BY <2>2, StepPath
    <2>5. OfPath(Append(p, d), Append(p, d))
      BY <2>4 DEF OfPath, IsPath
    <2>6. ~OfPath(Append(p, e), x[1])
      BY <2>2, <2>3, <2>5, Branches
    <2> QED
      BY <2>3, <2>4, <2>6 DEF p, e, Covering, K
  <1>10. NoneOf(Covering, Heading(m) \cup BindingsPart(m))
    BY <1>8, <1>9 DEF NoneOf
  <1> QED
    BY <1>4, <1>6, <1>7, <1>10, RootPaths DEF Covering

LEMMA HeaderSwap ==
  ASSUME NEW m, Good(m), NEW t
  PROVE  Swaps(MapSaid(m), MapSaid([m EXCEPT !.header = t]), <<>>, m.header, t)
  <1> DEFINE n == [m EXCEPT !.header = t]
             version == {<<K(<<>>, "schema_version"), Scalar("integer", m.schema_version)>>}
             B == BindingsPart(m)
             C == CoveringSaid(m)
             O == version \cup B \cup C
             root == <<>>
  <1>1. n.header = t /\ n.schema_version = m.schema_version /\ n.bindings = m.bindings /\ n.coverage = m.coverage
    BY GoodMaps
  <1> HIDE DEF n
  <1>2. /\ Heading(m) = Noted(<<>>, m.header) \cup version /\ Heading(n) = Noted(<<>>, t) \cup version
        /\ BindingsPart(n) = B /\ CoveringSaid(n) = C
    BY <1>1 DEF Heading, BindingsPart, NoBindings, CoveringSaid
  <1>3. MapSaid(m) = Heading(m) \cup B \cup C /\ MapSaid(n) = Heading(n) \cup B \cup C
    BY <1>2, MapParts
  <1>4. AllOf(K(root, "bindings"), B) /\ AllOf(K(root, "coverage"), C) /\ IsPath(root)
    BY MapParts, RootPaths DEF Covering
  <1>5. \A x \in version : x[1] = K(root, "schema_version")
    OBVIOUS
  <1> HIDE DEF version, B, C, root
  <1>6. /\ \A x \in B : x[1] # K(root, "comment")
        /\ \A x \in C : x[1] # K(root, "comment")
        /\ K(root, "schema_version") # K(root, "comment")
    BY <1>4, NotNoted
  <1>7. \A x \in O : x[1] # K(root, "comment")
    BY <1>5, <1>6
  <1>8. MapSaid(m) = Noted(root, m.header) \cup O /\ MapSaid(n) = Noted(root, t) \cup O
    BY <1>2, <1>3 DEF root
  <1> HIDE DEF O
  <1> QED
    BY <1>7, <1>8 DEF Swaps, n, root

LEMMA CoverageSwap ==
  ASSUME NEW m, Good(m), m.coverage # None, NEW c, c # None, NEW spot, OfPath(Covering, spot),
         NEW x, NEW y, Swaps(CoverageSaid(m.coverage), CoverageSaid(c), spot, x, y)
  PROVE  Swaps(MapSaid(m), MapSaid([m EXCEPT !.coverage = c]), spot, x, y)
  <1> DEFINE n == [m EXCEPT !.coverage = c]
             O == Heading(m) \cup BindingsPart(m)
             A == CoverageSaid(m.coverage)
             A2 == CoverageSaid(c)
  <1>1. n.header = m.header /\ n.schema_version = m.schema_version /\ n.bindings = m.bindings /\ n.coverage = c
    BY GoodMaps
  <1> HIDE DEF n
  <1>2. Heading(n) = Heading(m) /\ BindingsPart(n) = BindingsPart(m) /\ CoveringSaid(n) = A2 /\ CoveringSaid(m) = A
    BY <1>1 DEF Heading, BindingsPart, NoBindings, CoveringSaid
  <1>3. MapSaid(m) = A \cup O /\ MapSaid(n) = A2 \cup O
    BY <1>2, MapParts
  <1>4. NoneOf(Covering, O) /\ IsPath(Covering) /\ IsPath(spot)
    BY MapParts DEF OfPath
  <1> HIDE DEF O, A, A2
  <1>5. NoneOf(spot, O)
    BY <1>4, AllNone
  <1>6. \A z \in O : z[1] # K(spot, "comment")
    BY <1>4, <1>5, NotNoted
  <1>7. Swaps(A, A2, spot, x, y)
    BY DEF A, A2
  <1>8. Swaps(A \cup O, A2 \cup O, spot, x, y)
    BY <1>6, <1>7, SwapWider
  <1> QED
    BY <1>3, <1>8 DEF n

(* The fully bound kinds, and the curated ones.                            *)
FullySaid(c) ==
    IF c.fully_bound = None THEN {}
    ELSE {<<FullyBoundAt(n), String(c.fully_bound[n])>> : n \in DOMAIN c.fully_bound}
KindSaid(e) == {<<CuratedAt(e.key), String(e.value.reason)>>} \cup Noted(CuratedAt(e.key), e.value.comment)
CuratedSaid(c) == IF c.curated = None THEN {} ELSE UNION {KindSaid(e) : e \in Range(c.curated)}

LEMMA CoverageParts ==
  ASSUME NEW c
  PROVE  /\ CoverageSaid(c) = Noted(Covering, c.comment) \cup FullySaid(c) \cup CuratedSaid(c)
         /\ AllOf(K(Covering, "fully_bound"), FullySaid(c)) /\ AllOf(K(Covering, "curated"), CuratedSaid(c))
         /\ \A e : AllOf(CuratedAt(e.key), KindSaid(e))
         /\ \A k : IsPath(CuratedAt(k)) /\ OfPath(K(Covering, "curated"), CuratedAt(k))
         /\ IsPath(Covering) /\ IsPath(K(Covering, "curated")) /\ OfPath(Covering, K(Covering, "curated"))
  <1>1. IsPath(Covering)
    BY RootPaths DEF Covering
  <1>2. \A k : IsPath(K(Covering, k)) /\ OfPath(Covering, K(Covering, k))
    BY <1>1, StepPath DEF K
  <1>3. \A n : OfPath(K(Covering, "fully_bound"), FullyBoundAt(n))
    BY <1>2, StepPath DEF FullyBoundAt
  <1>4. \A k : IsPath(CuratedAt(k)) /\ OfPath(K(Covering, "curated"), CuratedAt(k))
    BY <1>2, StepPath DEF CuratedAt, K
  <1>5. \A e : AllOf(CuratedAt(e.key), KindSaid(e))
    <2> TAKE e
    <2> DEFINE p == CuratedAt(e.key)
    <2>1. IsPath(p) /\ OfPath(p, p)
      BY <1>4 DEF OfPath, IsPath
    <2>2. AllOf(p, Noted(p, e.value.comment))
      BY <2>1, NotedUnder
    <2>3. \A x : x \in KindSaid(e) => x[1] = p \/ x \in Noted(p, e.value.comment)
      BY DEF KindSaid
    <2> HIDE DEF p
    <2>4. AllOf(p, KindSaid(e))
      BY <2>1, <2>2, <2>3 DEF AllOf
    <2> QED
      BY <2>4 DEF p
  <1>6. AllOf(K(Covering, "curated"), CuratedSaid(c))
    <2> DEFINE q == K(Covering, "curated")
    <2>1. \A e : AllOf(q, KindSaid(e))
      BY <1>2, <1>4, <1>5, AllNone
    <2>2. \A x \in CuratedSaid(c) : \E e : x \in KindSaid(e)
      BY DEF CuratedSaid
    <2> HIDE DEF q
    <2>3. AllOf(q, CuratedSaid(c))
      BY <2>1, <2>2 DEF AllOf
    <2> QED
      BY <2>3 DEF q
  <1>7. AllOf(K(Covering, "fully_bound"), FullySaid(c))
    BY <1>3 DEF FullySaid, AllOf
  <1>8. CoverageSaid(c) = Noted(Covering, c.comment) \cup FullySaid(c) \cup CuratedSaid(c)
    BY DEF CoverageSaid, FullySaid, CuratedSaid, KindSaid
  <1> QED
    BY <1>1, <1>2, <1>4, <1>5, <1>6, <1>7, <1>8

LEMMA CoverageNoteSwap ==
  ASSUME NEW c, c = [fully_bound |-> c.fully_bound, curated |-> c.curated, comment |-> c.comment], NEW t
  PROVE  Swaps(CoverageSaid(c), CoverageSaid([c EXCEPT !.comment = t]), Covering, c.comment, t)
  <1> DEFINE d == [c EXCEPT !.comment = t]
             A == FullySaid(c)
             B == CuratedSaid(c)
             O == A \cup B
  <1>1. d.comment = t /\ d.fully_bound = c.fully_bound /\ d.curated = c.curated
    OBVIOUS
  <1> HIDE DEF d
  <1>2. FullySaid(d) = A /\ CuratedSaid(d) = B
    BY <1>1 DEF FullySaid, CuratedSaid
  <1>3. CoverageSaid(c) = Noted(Covering, c.comment) \cup A \cup B /\ CoverageSaid(d) = Noted(Covering, t) \cup A \cup B
    BY <1>1, <1>2, CoverageParts
  <1>4. AllOf(K(Covering, "fully_bound"), A) /\ AllOf(K(Covering, "curated"), B) /\ IsPath(Covering)
    BY CoverageParts
  <1> HIDE DEF A, B
  <1>5. (\A x \in A : x[1] # K(Covering, "comment")) /\ (\A x \in B : x[1] # K(Covering, "comment"))
    BY <1>4, NotNoted
  <1>6. \A x \in O : x[1] # K(Covering, "comment")
    BY <1>5
  <1>7. CoverageSaid(c) = Noted(Covering, c.comment) \cup O /\ CoverageSaid(d) = Noted(Covering, t) \cup O
    BY <1>3
  <1> HIDE DEF O
  <1> QED
    BY <1>6, <1>7 DEF Swaps, d

(* A kind among the curated.                                               *)
OtherKindsSaid(s, i) == UNION {KindSaid(s[n]) : n \in DOMAIN s \ {i}}

LEMMA KindsParted ==
  ASSUME NEW s, UniqueKeys(s), NEW i \in DOMAIN s, NEW S, s \in Seq(S)
  PROVE  /\ UNION {KindSaid(e) : e \in Range(s)} = KindSaid(s[i]) \cup OtherKindsSaid(s, i)
         /\ NoneOf(CuratedAt(s[i].key), OtherKindsSaid(s, i))
  <1> DEFINE A == UNION {KindSaid(e) : e \in Range(s)}
             E == KindSaid(s[i])
             O == OtherKindsSaid(s, i)
  <1>1. \A e : e \in Range(s) <=> \E n \in DOMAIN s : s[n] = e
    BY ListProperties
  <1>2. \A x : x \in A <=> \E n \in DOMAIN s : x \in KindSaid(s[n])
    BY <1>1
  <1>3. \A x : x \in O <=> \E n \in DOMAIN s \ {i} : x \in KindSaid(s[n])
    BY DEF OtherKindsSaid
  <1>4. \A x : x \in E <=> x \in KindSaid(s[i])
    OBVIOUS
  <1>5. ASSUME NEW n \in DOMAIN s \ {i}
        PROVE  NoneOf(CuratedAt(s[i].key), KindSaid(s[n]))
    <2> DEFINE q == K(Covering, "curated")
               d == AtKey(s[n].key)
               e == AtKey(s[i].key)
               B == KindSaid(s[n])
    <2>1. s[n].key # s[i].key
      BY DEF UniqueKeys
    <2>2. d # e
      BY <2>1, RootPaths
    <2>3. IsPath(q) /\ AllOf(Append(q, d), B)
      BY CoverageParts DEF CuratedAt, K
    <2> HIDE DEF q, d, e, B
    <2>4. NoneOf(Append(q, e), B)
      BY <2>2, <2>3, AllNone
    <2> QED
      BY <2>4 DEF q, e, B, CuratedAt, K
  <1>6. NoneOf(CuratedAt(s[i].key), O)
    <2> HIDE DEF O
    <2> QED
      BY <1>3, <1>5 DEF NoneOf
  <1> HIDE DEF A, E, O
  <1>7. A = E \cup O
    <2>1. \A x : x \in A <=> x \in E \/ x \in O
      BY <1>2, <1>3, <1>4
    <2> QED
      BY <2>1
  <1> QED
    BY <1>6, <1>7 DEF A, E, O

LEMMA KindsSwap ==
  ASSUME NEW s, UniqueKeys(s), NEW S, s \in Seq(S), NEW t, t \in Seq(S), DOMAIN t = DOMAIN s, NEW i \in DOMAIN s,
         \A n \in DOMAIN s : n # i => t[n] = s[n],
         t[i].key = s[i].key, t[i].value.reason = s[i].value.reason
  PROVE  Swaps(UNION {KindSaid(e) : e \in Range(s)}, UNION {KindSaid(e) : e \in Range(t)},
               CuratedAt(s[i].key), s[i].value.comment, t[i].value.comment)
  <1> DEFINE p == CuratedAt(s[i].key)
             A == UNION {KindSaid(e) : e \in Range(s)}
             A2 == UNION {KindSaid(e) : e \in Range(t)}
             O == OtherKindsSaid(s, i)
             why == {<<p, String(s[i].value.reason)>>}
             P == why \cup O
  <1>1. UniqueKeys(t)
    <2>1. \A n \in DOMAIN s : t[n].key = s[n].key
      OBVIOUS
    <2> QED
      BY <2>1 DEF UniqueKeys
  <1>2. A = KindSaid(s[i]) \cup O /\ NoneOf(p, O)
    BY KindsParted
  <1>3. A2 = KindSaid(t[i]) \cup OtherKindsSaid(t, i)
    BY <1>1, KindsParted
  <1>4. OtherKindsSaid(t, i) = O
    BY DEF OtherKindsSaid
  <1>5. KindSaid(s[i]) = why \cup Noted(p, s[i].value.comment) /\ KindSaid(t[i]) = why \cup Noted(p, t[i].value.comment)
    BY DEF KindSaid
  <1>6. IsPath(p) /\ \A x \in why : x[1] = p
    BY CoverageParts
  <1> HIDE DEF p, A, A2, O, why
  <1>7. p # K(p, "comment")
    BY <1>6, StepPath DEF K
  <1>8. \A x \in O : x[1] # K(p, "comment")
    BY <1>2, <1>6, NotNoted
  <1>9. \A x \in P : x[1] # K(p, "comment")
    BY <1>6, <1>7, <1>8
  <1>10. A = Noted(p, s[i].value.comment) \cup P /\ A2 = Noted(p, t[i].value.comment) \cup P
    BY <1>2, <1>3, <1>4, <1>5
  <1> HIDE DEF P
  <1>11. Swaps(A, A2, p, s[i].value.comment, t[i].value.comment)
    BY <1>9, <1>10 DEF Swaps
  <1> QED
    BY <1>11 DEF A, A2, p

(* The map with another comment at a kind, or with another binding.        *)
LEMMA CuratedSwap ==
  ASSUME NEW c \in CoverageType, NEW i \in DOMAIN OrEmpty(c.curated), NEW t \in Note
  PROVE  Swaps(CoverageSaid(c), CoverageSaid([c EXCEPT !.curated[i].value.comment = t]),
               CuratedAt(c.curated[i].key), c.curated[i].value.comment, t)
  <1> DEFINE V == [reason : Texts, comment : Note]
             E == [key : Texts, value : V]
             old == c.curated
             e == [key |-> old[i].key, value |-> [reason |-> old[i].value.reason, comment |-> t]]
             s == [old EXCEPT ![i] = e]
             d == [c EXCEPT !.curated[i].value.comment = t]
             spot == CuratedAt(old[i].key)
             A == UNION {KindSaid(x) : x \in Range(old)}
             A2 == UNION {KindSaid(x) : x \in Range(s)}
             B == Noted(Covering, c.comment)
             C == FullySaid(c)
             x1 == old[i].value.comment
  <1>1. /\ c.curated # None /\ i \in DOMAIN old
        /\ old \in Seq(E) /\ UniqueKeys(old)
    BY EmptyList DEF OrEmpty, CoverageType, DictsOf
  <1>2. c = [fully_bound |-> c.fully_bound, curated |-> old, comment |-> c.comment]
    BY DEF CoverageType
  <1>3. old[i] \in E
    <2> HIDE DEF E, old
    <2> QED
      BY <1>1, ListProperties
  <1>4. e \in E /\ [old[i] EXCEPT !.value.comment = t] = e
    BY <1>3
  <1>5. e.key = old[i].key /\ e.value.reason = old[i].value.reason /\ e.value.comment = t
    OBVIOUS
  <1>6. d.curated = s /\ d.fully_bound = c.fully_bound /\ d.comment = c.comment
    <2>1. d = [c EXCEPT !.curated = s]
      BY <1>4
    <2> HIDE DEF s, d, old
    <2> QED
      BY <1>2, <2>1
  <1> HIDE DEF E, e, old, d
  <1>7. /\ s \in Seq(E) /\ DOMAIN s = DOMAIN old
        /\ \A k \in DOMAIN old : s[k] = IF k = i THEN e ELSE old[k]
    BY <1>1, <1>4, ReplaceList
  <1>8. s # None
    <2>1. s \in DictsOf(Texts, V)
      <3>1. \A k \in DOMAIN old : s[k].key = old[k].key
        BY <1>5, <1>7
      <3> QED
        BY <1>1, <1>7, <3>1 DEF UniqueKeys, DictsOf, E
    <2> QED
      BY <2>1, NoneAssumption
  <1> HIDE DEF s
  <1>9. Swaps(A, A2, spot, x1, t)
    <2>1. \A n \in DOMAIN old : n # i => s[n] = old[n]
      BY <1>7
    <2>2. s[i].key = old[i].key /\ s[i].value.reason = old[i].value.reason /\ s[i].value.comment = t
      BY <1>1, <1>5, <1>7
    <2>3. Swaps(A, A2, spot, x1, s[i].value.comment)
      BY <1>1, <1>7, <2>1, <2>2, KindsSwap
    <2> QED
      BY <2>2, <2>3
  <1>10. CuratedSaid(c) = A /\ CuratedSaid(d) = A2 /\ FullySaid(d) = C
    BY <1>1, <1>6, <1>8 DEF CuratedSaid, FullySaid, old
  <1>11. CoverageSaid(c) = B \cup C \cup A /\ CoverageSaid(d) = B \cup C \cup A2
    BY <1>6, <1>10, CoverageParts
  <1>12. /\ AllOf(K(Covering, "fully_bound"), C) /\ IsPath(spot) /\ OfPath(K(Covering, "curated"), spot)
         /\ IsPath(Covering)
    BY CoverageParts
  <1>13. (\A z \in B : z[1] # K(spot, "comment")) /\ (\A z \in C : z[1] # K(spot, "comment"))
    <2> DEFINE full == AtKey("fully_bound")
               cur == AtKey("curated")
               note == AtKey("comment")
               p == Covering
    <2>1. full # cur /\ note # cur
      BY RootPaths
    <2>2. AllOf(Append(p, full), C) /\ OfPath(Append(p, cur), spot) /\ IsPath(p)
      BY <1>12 DEF K
    <2>3. AllOf(Append(p, note), B)
      <3>1. \A x \in B : x[1] = Append(p, note)
        BY DEF Noted
      <3>2. OfPath(Append(p, note), Append(p, note))
        BY <2>2, StepPath DEF OfPath, IsPath
      <3> QED
        BY <3>1, <3>2 DEF AllOf
    <2> HIDE DEF full, cur, note, B, C, spot, p
    <2>4. NoneOf(Append(p, cur), B) /\ NoneOf(Append(p, cur), C)
      BY <2>1, <2>2, <2>3, AllNone
    <2>5. IsPath(Append(p, cur))
      BY <2>2, StepPath
    <2>6. NoneOf(spot, B) /\ NoneOf(spot, C)
      BY <2>2, <2>4, <2>5, AllNone
    <2> QED
      BY <1>12, <2>6, NotNoted
  <1> DEFINE P == B \cup C
  <1>14. \A z \in P : z[1] # K(spot, "comment")
    BY <1>13
  <1>15. CoverageSaid(c) = A \cup P /\ CoverageSaid(d) = A2 \cup P
    BY <1>11
  <1> HIDE DEF A, A2, P, spot, x1
  <1>16. Swaps(A \cup P, A2 \cup P, spot, x1, t)
    BY <1>9, <1>14, SwapWider
  <1> QED
    BY <1>15, <1>16 DEF d, spot, x1, old

LEMMA BindingNoteSwap ==
  ASSUME NEW p, IsPath(p), NEW b, NEW c, c.locators = b.locators, c.compare_via = b.compare_via,
         c.fields = b.fields, c.wire = b.wire, c.asserted_by = b.asserted_by
  PROVE  Swaps(BindingSaid(p, b), BindingSaid(p, c), p, b.comment, c.comment)
  <1> DEFINE Of(k, x) == SectionSaid(K(p, k), k, x)
             O == UNION {Of(k, b) : k \in SectionKeys}
             O2 == UNION {Of(k, c) : k \in SectionKeys}
  <1>1. \A k \in SectionKeys : Of(k, c) = Of(k, b)
    BY DEF SectionSaid, SectionKeys
  <1>2. O2 = O
    BY <1>1
  <1>3. \A z \in O : z[1] # K(p, "comment")
    <2> SUFFICES ASSUME NEW k \in SectionKeys, NEW z \in Of(k, b)
                 PROVE  z[1] # K(p, "comment")
      OBVIOUS
    <2>1. k # "comment"
      BY DEF SectionKeys
    <2>2. AllOf(K(p, k), Of(k, b))
      BY BindingParts
    <2> DEFINE A == Of(k, b)
    <2>3. z \in A /\ AllOf(K(p, k), A)
      BY <2>2
    <2> HIDE DEF A
    <2> QED
      BY <2>1, <2>3, NotNoted
  <1>4. BindingSaid(p, b) = Noted(p, b.comment) \cup O /\ BindingSaid(p, c) = Noted(p, c.comment) \cup O
    BY <1>2 DEF BindingSaid
  <1> HIDE DEF O
  <1> QED
    BY <1>3, <1>4 DEF Swaps

LEMMA SectionSwap ==
  ASSUME NEW p, IsPath(p), NEW k \in SectionKeys, NEW b, NEW c, Beyond(p, k, c) = Beyond(p, k, b),
         NEW spot, OfPath(K(p, k), spot), NEW x, NEW y,
         Swaps(SectionSaid(K(p, k), k, b), SectionSaid(K(p, k), k, c), spot, x, y)
  PROVE  Swaps(BindingSaid(p, b), BindingSaid(p, c), spot, x, y)
  <1> DEFINE q == K(p, k)
             A == SectionSaid(q, k, b)
             A2 == SectionSaid(q, k, c)
             D == Beyond(p, k, b)
  <1>1. BindingSaid(p, b) = A \cup D /\ BindingSaid(p, c) = A2 \cup D /\ NoneOf(q, D) /\ IsPath(q)
    BY BindingParts
  <1>2. Swaps(A, A2, spot, x, y) /\ OfPath(q, spot) /\ IsPath(spot)
    BY DEF OfPath
  <1> HIDE DEF q, A, A2, D
  <1>3. NoneOf(spot, D)
    BY <1>1, <1>2, AllNone
  <1>4. \A z \in D : z[1] # K(spot, "comment")
    BY <1>2, <1>3, NotNoted
  <1>5. Swaps(A \cup D, A2 \cup D, spot, x, y)
    BY <1>2, <1>4, SwapWider
  <1> QED
    BY <1>1, <1>5

LEMMA BindingSwap ==
  ASSUME NEW m, Good(m), NEW id \in Keys(m.bindings), NEW b, b = BindingOf(m, id), NEW c, GoodBinding(c),
         NEW spot, OfPath(BindingAt(id), spot), NEW x, NEW y,
         Swaps(BindingSaid(BindingAt(id), b), BindingSaid(BindingAt(id), c), spot, x, y)
  PROVE  Swaps(MapSaid(m), MapSaid(WithBinding(m, id, c)), spot, x, y)
  <1> DEFINE p == BindingAt(id)
             n == WithBinding(m, id, c)
             A == BindingSaid(p, b)
             A2 == BindingSaid(p, c)
             D == Around(m, id)
  <1>1. Good(n) /\ id \in Keys(n.bindings) /\ BindingOf(n, id) = c /\ Around(n, id) = D
    BY AroundKept
  <1>2. MapSaid(m) = A \cup D
    BY MapAround
  <1>3. MapSaid(n) = A2 \cup D
    <2> HIDE DEF n, p, D
    <2> QED
      BY <1>1, MapAround DEF p
  <1>4. NoneOf(p, D) /\ IsPath(p)
    BY AroundApart
  <1>5. Swaps(A, A2, spot, x, y) /\ OfPath(p, spot) /\ IsPath(spot)
    BY DEF OfPath
  <1> HIDE DEF p, A, A2, D, n
  <1>6. NoneOf(spot, D)
    BY <1>4, <1>5, AllNone
  <1>7. \A z \in D : z[1] # K(spot, "comment")
    BY <1>5, <1>6, NotNoted
  <1>8. Swaps(A \cup D, A2 \cup D, spot, x, y)
    BY <1>5, <1>7, SwapWider
  <1> QED
    BY <1>2, <1>3, <1>8 DEF n

(* A binding of which one entry has another comment.                       *)
Renoted(p, b, c, spot, x, t) ==
    GoodBinding(c) /\ Swaps(BindingSaid(p, b), BindingSaid(p, c), spot, x, t)

LEMMA BeyondOne ==
  ASSUME NEW p, NEW b, NEW c, c.comment = b.comment, c.compare_via = b.compare_via, c.wire = b.wire
  PROVE  /\ c.fields = b.fields /\ c.asserted_by = b.asserted_by =>
              Beyond(p, "locators", c) = Beyond(p, "locators", b)
         /\ c.fields = b.fields /\ c.locators = b.locators =>
              Beyond(p, "asserted_by", c) = Beyond(p, "asserted_by", b)
         /\ c.asserted_by = b.asserted_by /\ c.locators = b.locators =>
              Beyond(p, "fields", c) = Beyond(p, "fields", b)
         /\ {"locators", "asserted_by", "fields"} \subseteq SectionKeys
  BY BeyondSame DEF SectionKeys

LocatorWith(b, i, t) == [b EXCEPT !.locators[i].comment = t]
AssertionWith(b, i, t) == [b EXCEPT !.asserted_by[i].comment = t]

LEMMA LocatorNoted ==
  ASSUME NEW b, GoodBinding(b), NEW i \in DOMAIN b.locators, NEW t \in Note, CommentRules(t, FALSE),
         NEW p, IsPath(p), NEW c, c = LocatorWith(b, i, t)
  PROVE  /\ Renoted(p, b, c, Append(K(p, "locators"), AtItem(i)), b.locators[i].comment, t)
         /\ i \in DOMAIN c.locators /\ c.locators[i].strings = b.locators[i].strings
  <1> DEFINE E == EntryType("locator", Note)
             old == b.locators
             x == [old[i] EXCEPT !.comment = t]
             s == [old EXCEPT ![i] = x]
             q == K(p, "locators")
             spot == Append(q, AtItem(i))
  <1>1. old \in Seq(E)
    BY GoodParts
  <1>2. old[i] \in E
    <2> HIDE DEF E
    <2> QED
      BY <1>1, ListProperties
  <1>3. x \in E /\ x.strings = old[i].strings /\ x.comment = t
    BY <1>2, EntryCommented DEF Nodes
  <1>4. "comment" \notin DOMAIN old[i].strings
    BY <1>2, NoCommentKey DEF Nodes
  <1>5. GoodBinding(c)
    BY LocatorCommented DEF LocatorWith
  <1>6. b = [locators |-> b.locators, compare_via |-> b.compare_via, fields |-> b.fields,
             wire |-> b.wire, asserted_by |-> b.asserted_by, comment |-> b.comment]
    BY GoodParts
  <1>7. c = [b EXCEPT !.locators = s]
    BY DEF LocatorWith
  <1> HIDE DEF E, x
  <1>8. /\ s \in Seq(E) /\ DOMAIN s = DOMAIN old
        /\ \A k \in DOMAIN old : s[k] = IF k = i THEN x ELSE old[k]
    BY <1>1, <1>3, ReplaceList
  <1> HIDE DEF s
  <1>9. /\ c.locators = s /\ c.comment = b.comment /\ c.compare_via = b.compare_via /\ c.fields = b.fields
        /\ c.wire = b.wire /\ c.asserted_by = b.asserted_by
    BY <1>6, <1>7
  <1>10. Beyond(p, "locators", c) = Beyond(p, "locators", b) /\ "locators" \in SectionKeys
    BY <1>9, BeyondOne
  <1>11. Swaps(ListSaid(q, old), ListSaid(q, s), spot, old[i].comment, t)
    <2>1. \A n \in DOMAIN old : n # i => s[n] = old[n]
      BY <1>8
    <2>2. s[i].strings = old[i].strings /\ s[i].comment = t
      BY <1>3, <1>8
    <2>3. IsPath(q)
      BY StepPath DEF K
    <2> HIDE DEF old, q, spot
    <2>4. Swaps(ListSaid(q, old), ListSaid(q, s), Append(q, AtItem(i)), old[i].comment, s[i].comment)
      BY <1>4, <1>8, <2>1, <2>2, <2>3, ListSwap DEF old
    <2> QED
      BY <2>2, <2>4 DEF spot
  <1>12. SectionSaid(q, "locators", b) = ListSaid(q, old) /\ SectionSaid(q, "locators", c) = ListSaid(q, s)
    BY <1>9 DEF SectionSaid
  <1>13. OfPath(q, spot)
    BY StepPath DEF K
  <1>14. Swaps(BindingSaid(p, b), BindingSaid(p, c), spot, old[i].comment, t)
    <2>1. Swaps(SectionSaid(q, "locators", b), SectionSaid(q, "locators", c), spot, old[i].comment, t)
      BY <1>11, <1>12
    <2> HIDE DEF spot, old
    <2> QED
      BY <1>10, <1>13, <2>1, SectionSwap
  <1> QED
    BY <1>3, <1>5, <1>8, <1>9, <1>14 DEF Renoted

LEMMA AssertionNoted ==
  ASSUME NEW b, GoodBinding(b), NEW i \in DOMAIN OrEmpty(b.asserted_by), NEW t \in Note, CommentRules(t, FALSE),
         NEW p, IsPath(p), NEW c, c = AssertionWith(b, i, t)
  PROVE  /\ Renoted(p, b, c, Append(K(p, "asserted_by"), AtItem(i)), b.asserted_by[i].comment, t)
         /\ b.asserted_by = OrEmpty(b.asserted_by)
         /\ i \in DOMAIN OrEmpty(c.asserted_by) /\ OrEmpty(c.asserted_by)[i].strings = b.asserted_by[i].strings
  <1> DEFINE E == EntryType("assertion", Note)
             old == b.asserted_by
             x == [old[i] EXCEPT !.comment = t]
             s == [old EXCEPT ![i] = x]
             q == K(p, "asserted_by")
             spot == Append(q, AtItem(i))
  <1>1. old \in Seq(E) /\ old = OrEmpty(b.asserted_by) /\ i \in DOMAIN old
    BY GoodParts, EmptyList
  <1>0. None \notin Seq(E)
    BY EntryKinds, NotesAreTexts DEF Nodes
  <1>2. old[i] \in E
    <2> HIDE DEF E
    <2> QED
      BY <1>1, ListProperties
  <1>3. x \in E /\ x.strings = old[i].strings /\ x.comment = t
    BY <1>2, EntryCommented DEF Nodes
  <1>4. "comment" \notin DOMAIN old[i].strings
    BY <1>2, NoCommentKey DEF Nodes
  <1>5. GoodBinding(c)
    BY AssertionCommented DEF AssertionWith
  <1>6. b = [locators |-> b.locators, compare_via |-> b.compare_via, fields |-> b.fields,
             wire |-> b.wire, asserted_by |-> b.asserted_by, comment |-> b.comment]
    BY GoodParts
  <1>7. c = [b EXCEPT !.asserted_by = s]
    BY DEF AssertionWith
  <1> HIDE DEF E, x
  <1>8. /\ s \in Seq(E) /\ DOMAIN s = DOMAIN old
        /\ \A k \in DOMAIN old : s[k] = IF k = i THEN x ELSE old[k]
    BY <1>1, <1>3, ReplaceList
  <1> HIDE DEF s
  <1>9. /\ c.asserted_by = s /\ c.comment = b.comment /\ c.compare_via = b.compare_via /\ c.fields = b.fields
        /\ c.wire = b.wire /\ c.locators = b.locators
    BY <1>6, <1>7
  <1>10. Beyond(p, "asserted_by", c) = Beyond(p, "asserted_by", b) /\ "asserted_by" \in SectionKeys
    BY <1>9, BeyondOne
  <1>11. Swaps(ListSaid(q, old), ListSaid(q, s), spot, old[i].comment, t)
    <2>1. \A n \in DOMAIN old : n # i => s[n] = old[n]
      BY <1>8
    <2>2. s[i].strings = old[i].strings /\ s[i].comment = t
      BY <1>1, <1>3, <1>8
    <2>3. IsPath(q)
      BY StepPath DEF K
    <2> HIDE DEF old, q, spot
    <2>4. Swaps(ListSaid(q, old), ListSaid(q, s), Append(q, AtItem(i)), old[i].comment, s[i].comment)
      BY <1>1, <1>4, <1>8, <2>1, <2>2, <2>3, ListSwap
    <2> QED
      BY <2>2, <2>4 DEF spot
  <1>12. /\ SectionSaid(q, "asserted_by", b) = ListSaid(q, old)
         /\ SectionSaid(q, "asserted_by", c) = ListSaid(q, s)
    <2>1. old # None /\ s # None
      BY <1>0, <1>1, <1>8
    <2> QED
      BY <1>9, <2>1 DEF SectionSaid
  <1>13. OfPath(q, spot)
    BY StepPath DEF K
  <1>14. Swaps(BindingSaid(p, b), BindingSaid(p, c), spot, old[i].comment, t)
    <2>1. Swaps(SectionSaid(q, "asserted_by", b), SectionSaid(q, "asserted_by", c), spot, old[i].comment, t)
      BY <1>11, <1>12
    <2> HIDE DEF spot, old
    <2> QED
      BY <1>10, <1>13, <2>1, SectionSwap
  <1>15. OrEmpty(c.asserted_by) = s
    BY <1>0, <1>8, <1>9 DEF OrEmpty
  <1> QED
    BY <1>1, <1>3, <1>5, <1>8, <1>14, <1>15 DEF Renoted

LEMMA FieldNoted ==
  ASSUME NEW b, GoodBinding(b), NEW i \in DOMAIN OrEmpty(b.fields), NEW t \in Note, CommentRules(t, FALSE),
         NEW p, IsPath(p), NEW c, c = [b EXCEPT !.fields[i].value.comment = t]
  PROVE  /\ Renoted(p, b, c, K(K(p, "fields"), b.fields[i].key), b.fields[i].value.comment, t)
         /\ b.fields = OrEmpty(b.fields)
  <1> DEFINE E == [key : Texts, value : EntryType("field_locator", Note)]
             old == b.fields
             x == [old[i].value EXCEPT !.comment = t]
             e == [key |-> old[i].key, value |-> x]
             s == [old EXCEPT ![i] = e]
             q == K(p, "fields")
             spot == K(q, old[i].key)
  <1>1. old \in Seq(E) /\ UniqueKeys(old) /\ old = OrEmpty(b.fields) /\ i \in DOMAIN old
    BY GoodParts, EmptyList
  <1>0. None \notin DictsOf(Texts, EntryType("field_locator", Note))
    BY EntryKinds, NotesAreTexts DEF Nodes
  <1>2. old[i] \in E
    <2> HIDE DEF E, old
    <2> QED
      BY <1>1, ListProperties
  <1>3. /\ x \in EntryType("field_locator", Note) /\ x.strings = old[i].value.strings
        /\ x.comment = t
    BY <1>2, EntryCommented DEF Nodes
  <1>4. "comment" \notin DOMAIN old[i].value.strings
    BY <1>2, NoCommentKey DEF Nodes
  <1>5. GoodBinding(c)
    BY FieldCommented
  <1>6. b = [locators |-> b.locators, compare_via |-> b.compare_via, fields |-> b.fields,
             wire |-> b.wire, asserted_by |-> b.asserted_by, comment |-> b.comment]
    BY GoodParts
  <1>7. e \in E /\ c = [b EXCEPT !.fields = s]
    <2>1. old[i] = [key |-> old[i].key, value |-> old[i].value]
      BY <1>2
    <2>2. [old[i] EXCEPT !.value = x] = e
      <3> HIDE DEF x
      <3> QED
        BY <2>1
    <2>3. e \in E
      <3> HIDE DEF x
      <3> QED
        BY <1>2, <1>3
    <2> QED
      BY <2>2, <2>3
  <1>16. e.key = old[i].key /\ e.value = x
    OBVIOUS
  <1> HIDE DEF E, x, e
  <1>8. /\ s \in Seq(E) /\ DOMAIN s = DOMAIN old
        /\ \A k \in DOMAIN old : s[k] = IF k = i THEN e ELSE old[k]
    BY <1>1, <1>7, ReplaceList
  <1> HIDE DEF s
  <1>9. /\ c.fields = s /\ c.comment = b.comment /\ c.compare_via = b.compare_via
        /\ c.asserted_by = b.asserted_by /\ c.wire = b.wire /\ c.locators = b.locators
    BY <1>6, <1>7
  <1>10. Beyond(p, "fields", c) = Beyond(p, "fields", b) /\ "fields" \in SectionKeys
    BY <1>9, BeyondOne
  <1>17. IsPath(q)
    BY StepPath DEF K
  <1>11. Swaps(FieldsSaid(q, old), FieldsSaid(q, s), spot, old[i].value.comment, t)
    <2>1. \A n \in DOMAIN old : n # i => s[n] = old[n]
      BY <1>8
    <2>2. s[i].key = old[i].key /\ s[i].value.strings = old[i].value.strings /\ s[i].value.comment = t
      BY <1>1, <1>3, <1>8, <1>16
    <2> HIDE DEF old, q, spot
    <2>4. Swaps(FieldsSaid(q, old), FieldsSaid(q, s), K(q, old[i].key), old[i].value.comment, s[i].value.comment)
      BY <1>1, <1>4, <1>8, <1>17, <2>1, <2>2, FieldsSwap
    <2> QED
      BY <2>2, <2>4 DEF spot
  <1>12. /\ SectionSaid(q, "fields", b) = FieldsSaid(q, old)
         /\ SectionSaid(q, "fields", c) = FieldsSaid(q, s)
    <2>1. UniqueKeys(s)
      <3>1. \A k \in DOMAIN old : s[k].key = old[k].key
        BY <1>8, <1>16
      <3> QED
        BY <1>1, <1>8, <3>1 DEF UniqueKeys
    <2>2. old # None /\ s # None
      BY <1>0, <1>1, <1>8, <2>1 DEF DictsOf, E
    <2> QED
      BY <1>9, <2>2 DEF SectionSaid
  <1>13. OfPath(q, spot)
    BY <1>17, StepPath DEF K
  <1>14. Swaps(BindingSaid(p, b), BindingSaid(p, c), spot, old[i].value.comment, t)
    <2>1. Swaps(SectionSaid(q, "fields", b), SectionSaid(q, "fields", c), spot, old[i].value.comment, t)
      BY <1>11, <1>12
    <2> HIDE DEF spot, old
    <2> QED
      BY <1>10, <1>13, <2>1, SectionSwap
  <1> QED
    BY <1>1, <1>5, <1>14 DEF Renoted

(* The carrier that an anchor leads to is the one with the key of it.      *)
LEMMA ResolveIs ==
  ASSUME NEW m, Good(m), NEW l, l.anchor \in Anchors, NEW at, at = Resolve(m, l), at # <<>>
  PROVE  /\ l.anchor = "header" => at = <<"header">>
         /\ l.anchor = "coverage" => at = <<"coverage">> /\ m.coverage # None
         /\ l.anchor = "curated" =>
              /\ m.coverage # None
              /\ \E k \in DOMAIN OrEmpty(m.coverage.curated) :
                   at = <<"curated", k>> /\ OrEmpty(m.coverage.curated)[k].key = l.target
         /\ l.anchor \in {"binding", "locator", "field", "assertion"} =>
              \E n \in DOMAIN m.bindings :
                /\ m.bindings[n].key = l.target
                /\ l.anchor = "binding" => at = <<"binding", n>>
                /\ l.anchor # "binding" =>
                     \E i : /\ i = Position(m.bindings[n].value, l.anchor, l) /\ i # 0
                            /\ at = <<l.anchor, n, i>>
  <1> DEFINE curated == IF m.coverage = None THEN <<>> ELSE OrEmpty(m.coverage.curated)
             P == {i \in 1..Len(m.bindings) : m.bindings[i].key = l.target}
             Q == {i \in 1..Len(curated) : curated[i].key = l.target}
             n == IF P # {} THEN Min(P) ELSE 0
             k == IF Q # {} THEN Min(Q) ELSE 0
  <1>1. /\ l.anchor = "header" => at = <<"header">>
        /\ l.anchor = "coverage" => at = IF m.coverage = None THEN <<>> ELSE <<"coverage">>
        /\ l.anchor = "curated" => at = IF k = 0 THEN <<>> ELSE <<"curated", k>>
        /\ l.anchor \notin {"header", "coverage", "curated"} /\ n = 0 => at = <<>>
        /\ l.anchor = "binding" /\ n # 0 => at = <<"binding", n>>
        /\ l.anchor \in {"locator", "field", "assertion"} /\ n # 0 =>
             at = IF Position(m.bindings[n].value, l.anchor, l) = 0 THEN <<>>
                  ELSE <<l.anchor, n, Position(m.bindings[n].value, l.anchor, l)>>
    <2>1. SelectInSeq(m.bindings, LAMBDA e : e.key = l.target) = n
      BY DEF SelectInSeq
    <2>2. SelectInSeq(curated, LAMBDA e : e.key = l.target) = k
      BY DEF SelectInSeq
    <2> HIDE DEF n, k, P, Q
    <2> QED
      BY <2>1, <2>2 DEF Resolve
  <1>2. n # 0 => n \in DOMAIN m.bindings /\ m.bindings[n].key = l.target
    <2>1. m.bindings \in Seq([key : IdTexts, value : BindingType(Note)])
      BY GoodMaps
    <2>2. P # {} => Min(P) \in DOMAIN m.bindings /\ Min(P) \in P
      <3> HIDE DEF P
      <3> P \in SUBSET (1..Len(m.bindings))
        BY DEF P
      <3> QED
        BY <2>1, FoundPlace
    <2>3. \A i \in P : m.bindings[i].key = l.target
      OBVIOUS
    <2> HIDE DEF P
    <2> QED
      BY <2>2, <2>3
  <1>3. k # 0 => k \in DOMAIN curated /\ curated[k].key = l.target
    <2>1. curated \in Seq([key : Texts, value : [reason : Texts, comment : Note]])
      <3>1. CASE m.coverage = None
        BY <3>1, EmptyList
      <3>2. CASE m.coverage # None
        <4>1. m.coverage \in CoverageType
          BY <3>2, GoodCoverage
        <4> QED
          BY <3>2, <4>1, EmptyList DEF CoverageType, DictsOf, OrEmpty
      <3> QED
        BY <3>1, <3>2
    <2>2. Q # {} => Min(Q) \in DOMAIN curated /\ Min(Q) \in Q
      <3> HIDE DEF Q, curated
      <3> Q \in SUBSET (1..Len(curated))
        BY DEF Q
      <3> QED
        BY <2>1, FoundPlace
    <2>3. \A i \in Q : curated[i].key = l.target
      OBVIOUS
    <2> HIDE DEF Q
    <2> QED
      BY <2>2, <2>3
  <1> HIDE DEF n, k, P, Q
  <1>4. l.anchor = "curated" =>
          /\ m.coverage # None
          /\ \E j \in DOMAIN OrEmpty(m.coverage.curated) :
               at = <<"curated", j>> /\ OrEmpty(m.coverage.curated)[j].key = l.target
    <2> SUFFICES ASSUME l.anchor = "curated"
                 PROVE  /\ m.coverage # None
                        /\ \E j \in DOMAIN OrEmpty(m.coverage.curated) :
                             at = <<"curated", j>> /\ OrEmpty(m.coverage.curated)[j].key = l.target
      OBVIOUS
    <2>1. k # 0 /\ at = <<"curated", k>>
      BY <1>1
    <2>2. k \in DOMAIN curated /\ curated[k].key = l.target
      BY <1>3, <2>1
    <2>3. m.coverage # None
      BY <2>2, EmptyList
    <2>4. curated = OrEmpty(m.coverage.curated)
      BY <2>3
    <2> QED
      BY <2>1, <2>2, <2>3, <2>4
  <1>5. l.anchor \in {"binding", "locator", "field", "assertion"} =>
          /\ n \in DOMAIN m.bindings /\ m.bindings[n].key = l.target
          /\ l.anchor = "binding" => at = <<"binding", n>>
          /\ l.anchor # "binding" =>
               /\ Position(m.bindings[n].value, l.anchor, l) # 0
               /\ at = <<l.anchor, n, Position(m.bindings[n].value, l.anchor, l)>>
    BY <1>1, <1>2
  <1>6. l.anchor \in {"binding", "locator", "field", "assertion"} =>
          \E j \in DOMAIN m.bindings :
            /\ m.bindings[j].key = l.target
            /\ l.anchor = "binding" => at = <<"binding", j>>
            /\ l.anchor # "binding" =>
                 \E i : /\ i = Position(m.bindings[j].value, l.anchor, l) /\ i # 0
                        /\ at = <<l.anchor, j, i>>
    BY <1>5
  <1>7. l.anchor = "coverage" => at = <<"coverage">> /\ m.coverage # None
    BY <1>1
  <1> QED
    BY <1>1, <1>4, <1>6, <1>7

LEMMA BindingAsWith ==
  ASSUME NEW m, Good(m), NEW n \in DOMAIN m.bindings, NEW id, id = m.bindings[n].key
  PROVE  /\ id \in Keys(m.bindings) /\ BindingOf(m, id) = m.bindings[n].value
         /\ \A c : GoodBinding(c) => [m EXCEPT !.bindings[n].value = c] = WithBinding(m, id, c)
  <1> DEFINE D == [key : IdTexts, value : BindingType(Note)]
             s == m.bindings
  <1>1. /\ s \in Seq(D) /\ UniqueKeys(s)
        /\ m = [schema_version |-> m.schema_version, bindings |-> m.bindings,
                coverage |-> m.coverage, header |-> m.header]
    BY GoodMaps
  <1>2. id \in Keys(s)
    BY DEF Keys
  <1>3. s[n] \in D /\ s[n] \in Range(s)
    <2> HIDE DEF D
    <2> QED
      BY <1>1, ListProperties
  <1>4. \A i \in DOMAIN s : s[i].key = id => i = n
    BY <1>1 DEF UniqueKeys
  <1>5. \A e \in Range(s) : e.key = id <=> e = s[n]
    <2>1. \A e \in Range(s) : \E i \in DOMAIN s : e = s[i]
      BY DEF Range
    <2> HIDE DEF s
    <2> QED
      BY <1>4, <2>1 DEF s
  <1>6. BindingOf(m, id) = s[n].value
    <2>1. (CHOOSE e \in Range(s) : e.key = id) = s[n]
      <3> HIDE DEF s
      <3> QED
        BY <1>3, <1>5
    <2> QED
      BY <2>1 DEF BindingOf, Lookup
  <1>7. ASSUME NEW c, GoodBinding(c)
        PROVE  [m EXCEPT !.bindings[n].value = c] = WithBinding(m, id, c)
    <2> DEFINE e == Keyed(id, c)
    <2>1. e.key = id /\ e # None
      <3>1. e \in D /\ e.key = id
        BY <1>3, <1>7 DEF Keyed, GoodBinding
      <3>2. D \subseteq [key : Texts, value : BindingType(Note)]
        BY DEF IdTexts
      <3> QED
        BY <3>1, <3>2, BindingKinds, NotesAreTexts
    <2>2. [s[n] EXCEPT !.value = c] = e
      <3>1. s[n] = [key |-> s[n].key, value |-> s[n].value]
        BY <1>3
      <3> QED
        BY <3>1 DEF Keyed
    <2>3. [m EXCEPT !.bindings[n].value = c] = [m EXCEPT !.bindings = [s EXCEPT ![n] = e]]
      BY <2>2
    <2>4. Assign(s, e) = [s EXCEPT ![n] = e]
      <3>1. Assign(s, e) = [i \in DOMAIN s |-> IF s[i].key = id THEN e ELSE s[i]]
        BY <2>1 DEF Assign
      <3>2. \A i \in DOMAIN s : s[i].key = id <=> i = n
        BY <1>4
      <3>3. [s EXCEPT ![n] = e] = [i \in DOMAIN s |-> IF i = n THEN e ELSE s[i]]
        OBVIOUS
      <3> HIDE DEF s, e
      <3>4. [i \in DOMAIN s |-> IF s[i].key = id THEN e ELSE s[i]] = [i \in DOMAIN s |-> IF i = n THEN e ELSE s[i]]
        BY <3>2
      <3> QED
        BY <3>1, <3>3, <3>4
    <2> QED
      BY <2>3, <2>4 DEF WithBinding
  <1> QED
    BY <1>2, <1>6, <1>7

(* What is found in the lists of a binding, and the places of a line.      *)
LEMMA BindingLists ==
  ASSUME NEW m, Good(m), NEW id \in Keys(m.bindings), NEW b, b = BindingOf(m, id),
         NEW f, Contents(f) = MapSaid(m)
  PROVE  /\ GoodBinding(b)
         /\ EntriesUnder(f, K(BindingAt(id), "locators")) = EntriesOf(b.locators)
         /\ EntriesUnder(f, K(BindingAt(id), "asserted_by")) = EntriesOf(OrEmpty(b.asserted_by))
  <1> DEFINE p == BindingAt(id)
             R == Around(m, id)
  <1>1. GoodBinding(b)
    BY BindingFound DEF Good
  <1>2. MapSaid(m) = BindingSaid(p, b) \cup R
    BY MapAround
  <1>3. NoneOf(p, R) /\ IsPath(p)
    BY AroundApart
  <1>4. \A k \in SectionKeys :
          \E B : NoneOf(K(p, k), B) /\ IsPath(K(p, k)) /\ Contents(f) = SectionSaid(K(p, k), k, b) \cup B
    <2> TAKE k \in SectionKeys
    <2> DEFINE q == K(p, k)
               A == SectionSaid(q, k, b)
               D == Beyond(p, k, b)
               B == D \cup R
    <2>1. BindingSaid(p, b) = A \cup D /\ NoneOf(q, D) /\ IsPath(q) /\ OfPath(p, q)
      BY <1>3, BindingParts
    <2> HIDE DEF q, A, D, p, R
    <2>2. NoneOf(q, R)
      BY <1>3, <2>1, AllNone
    <2>3. NoneOf(q, B)
      BY <2>1, <2>2, AllNone
    <2>4. Contents(f) = A \cup B
      BY <1>2, <2>1
    <2> QED
      BY <2>1, <2>3, <2>4 DEF q, A
  <1>5. b.locators \in Seq(EntryType("locator", Note)) /\ Telling(b.locators)
    BY <1>1, GoodParts, BindingTelling
  <1>6. EntriesUnder(f, K(p, "locators")) = EntriesOf(b.locators)
    <2> DEFINE q == K(p, "locators")
               s == b.locators
               A == SectionSaid(q, "locators", b)
    <2>1. PICK B : NoneOf(q, B) /\ IsPath(q) /\ Contents(f) = A \cup B
      BY <1>4 DEF SectionKeys
    <2>2. A = ListSaid(q, s)
      BY DEF SectionSaid
    <2> HIDE DEF q, s, A
    <2>3. EntriesUnder(f, q) = EntriesOf(s)
      BY <1>5, <2>1, <2>2, ListUnderIs DEF s
    <2> QED
      BY <2>3 DEF q, s
  <1>7. EntriesUnder(f, K(p, "asserted_by")) = EntriesOf(OrEmpty(b.asserted_by))
    <2> DEFINE q == K(p, "asserted_by")
               s == OrEmpty(b.asserted_by)
               A == SectionSaid(q, "asserted_by", b)
    <2>1. PICK B : NoneOf(q, B) /\ IsPath(q) /\ Contents(f) = A \cup B
      BY <1>4 DEF SectionKeys
    <2>2. A = ListSaid(q, s) \/ (s = <<>> /\ A = {})
      <3>1. A = IF b.asserted_by = None THEN {} ELSE ListSaid(q, b.asserted_by)
        BY DEF SectionSaid
      <3> QED
        BY <3>1 DEF OrEmpty
    <2>3. s \in Seq(EntryType("assertion", Note)) /\ Telling(s)
      <3>1. b.asserted_by # None => Telling(b.asserted_by)
        BY <1>1, BindingTelling
      <3>2. Telling(<<>>)
        BY EmptyList DEF Telling, Range
      <3> QED
        BY <1>1, <3>1, <3>2, GoodParts DEF OrEmpty
    <2> HIDE DEF q, s, A
    <2>4. EntriesUnder(f, q) = EntriesOf(s)
      BY <2>1, <2>2, <2>3, ListUnderIs
    <2> QED
      BY <2>4 DEF q, s
  <1> QED
    BY <1>1, <1>6, <1>7

DescribedAt(f, l, q, keys) ==
    {Append(q, AtItem(n)) : n \in {n \in DOMAIN EntriesUnder(f, q) :
                                     Describes(l, keys, EntriesUnder(f, q)[n])}}

LEMMA OnePlace ==
  ASSUME NEW f, NEW q, NEW s, EntriesUnder(f, q) = EntriesOf(s), NEW l, NEW keys, "comment" \notin keys,
         NEW i \in DOMAIN s, \A n \in DOMAIN s : Match(l, keys, s[n].strings) <=> n = i
  PROVE  DescribedAt(f, l, q, keys) = {Append(q, AtItem(i))}
  <1> DEFINE e == EntriesUnder(f, q)
  <1>1. DOMAIN e = DOMAIN s /\ \A n \in DOMAIN s : e[n] = EntrySaid(<<>>, s[n])
    BY DEF EntriesOf
  <1>2. \A n \in DOMAIN s : Describes(l, keys, EntrySaid(<<>>, s[n])) <=> n = i
    BY DescribesMatch
  <1> HIDE DEF e
  <1>3. {n \in DOMAIN e : Describes(l, keys, e[n])} = {i}
    BY <1>1, <1>2
  <1> QED
    BY <1>3 DEF DescribedAt, e

LEMMA LocatorPlace ==
  ASSUME NEW b, GoodBinding(b), NEW l, Optioned(l), NEW i \in DOMAIN b.locators,
         LocatorIdentity(b.locators[i]) = LocatorGiven(l), l.anchor = "locator",
         NEW f, EntriesUnder(f, K(BindingAt(l.target), "locators")) = EntriesOf(b.locators)
  PROVE  Places(f, l) = {Append(K(BindingAt(l.target), "locators"), AtItem(i))}
  <1> DEFINE s == b.locators
             q == K(BindingAt(l.target), "locators")
             C == EntryType("locator", Note)
             keys == IdentityKeys["locator"]
  <1>1. s \in Seq(C) /\ LocatorsRules(s, FALSE)
    BY GoodParts
  <1>2. \A n \in DOMAIN s : s[n] \in C
    BY <1>1, ListProperties
  <1>3. ASSUME NEW n \in DOMAIN s
        PROVE  LocatorIdentity(s[n]) = LocatorGiven(l) <=> Match(l, keys, s[n].strings)
    <2>1. \A k \in DOMAIN s[n].strings : s[n].strings[k] # None
      BY <1>2, EntryParts, NotesAreTexts DEF Nodes
    <2> QED
      BY <2>1, LocatorMatches
  <1>4. \A n \in DOMAIN s : LocatorIdentity(s[n]) = LocatorGiven(l) <=> n = i
    BY <1>1 DEF LocatorsRules, OneOfEachLocator
  <1>5. "comment" \notin keys
    BY DEF IdentityKeys
  <1>6. \A n \in DOMAIN s : Match(l, keys, s[n].strings) <=> n = i
    BY <1>3, <1>4
  <1>7. Places(f, l) = DescribedAt(f, l, q, keys)
    <2>1. Append(KeyPath(<<"bindings", l.target>>), AtKey("locators")) = q
      BY LinePaths DEF K
    <2>2. l.anchor \in DOMAIN ListOf /\ ListOf[l.anchor] = "locators" /\ IdentityKeys[l.anchor] = keys
      BY DEF ListOf
    <2> HIDE DEF q, keys
    <2> QED
      BY <2>1, <2>2 DEF Places, DescribedAt
  <1> HIDE DEF s, q, C, keys
  <1>8. DescribedAt(f, l, q, keys) = {Append(q, AtItem(i))}
    BY <1>5, <1>6, OnePlace DEF s, q
  <1> QED
    BY <1>7, <1>8 DEF q

LEMMA AssertionPlace ==
  ASSUME NEW b, GoodBinding(b), NEW l, Optioned(l), AssertionShaped(l, {"path", "symbol"}),
         NEW i \in DOMAIN OrEmpty(b.asserted_by),
         AssertionIdentity(OrEmpty(b.asserted_by)[i]) = AssertionGiven(l), l.anchor = "assertion",
         NEW f, EntriesUnder(f, K(BindingAt(l.target), "asserted_by")) = EntriesOf(OrEmpty(b.asserted_by))
  PROVE  Places(f, l) = {Append(K(BindingAt(l.target), "asserted_by"), AtItem(i))}
  <1> DEFINE s == OrEmpty(b.asserted_by)
             q == K(BindingAt(l.target), "asserted_by")
             C == EntryType("assertion", Note)
             keys == IdentityKeys["assertion"]
  <1>1. s \in Seq(C) /\ AssertedRules(s, FALSE)
    BY GoodParts
  <1>2. \A n \in DOMAIN s : s[n] \in C /\ s[n] \in Range(s)
    BY <1>1, ListProperties DEF Range
  <1>3. ASSUME NEW n \in DOMAIN s
        PROVE  AssertionIdentity(s[n]) = AssertionGiven(l) <=> Match(l, keys, s[n].strings)
    <2>1. \A k \in DOMAIN s[n].strings : s[n].strings[k] # None
      BY <1>2, EntryParts, NotesAreTexts DEF Nodes
    <2>2. AssertionRules(s[n])
      BY <1>1, <1>2 DEF AssertedRules
    <2> QED
      BY <2>1, <2>2, AssertionMatches
  <1>4. \A n \in DOMAIN s : AssertionIdentity(s[n]) = AssertionGiven(l) <=> n = i
    BY <1>1 DEF AssertedRules, OneOfEachAssertion
  <1>5. "comment" \notin keys
    BY DEF IdentityKeys, Selecting
  <1>6. \A n \in DOMAIN s : Match(l, keys, s[n].strings) <=> n = i
    BY <1>3, <1>4
  <1>7. Places(f, l) = DescribedAt(f, l, q, keys)
    <2>1. Append(KeyPath(<<"bindings", l.target>>), AtKey("asserted_by")) = q
      BY LinePaths DEF K
    <2>2. l.anchor \in DOMAIN ListOf /\ ListOf[l.anchor] = "asserted_by" /\ IdentityKeys[l.anchor] = keys
      BY DEF ListOf
    <2> HIDE DEF q, keys
    <2> QED
      BY <2>1, <2>2 DEF Places, DescribedAt
  <1> HIDE DEF s, q, C, keys
  <1>8. DescribedAt(f, l, q, keys) = {Append(q, AtItem(i))}
    BY <1>5, <1>6, OnePlace DEF s, q
  <1> QED
    BY <1>7, <1>8 DEF q

LEMMA PlainPlaces ==
  ASSUME NEW f, NEW l
  PROVE  /\ l.anchor = "header" => Places(f, l) = {<<>>}
         /\ l.anchor = "coverage" => Places(f, l) = {Covering}
         /\ l.anchor = "curated" => Places(f, l) = {CuratedAt(l.target)}
         /\ l.anchor = "binding" => Places(f, l) = {BindingAt(l.target)}
         /\ l.anchor = "field" => Places(f, l) = {K(K(BindingAt(l.target), "fields"), l.name)}
  <1> DEFINE a == KeyPath(<<"coverage">>)
             b == KeyPath(<<"coverage", "curated", l.target>>)
             c == KeyPath(<<"bindings", l.target>>)
             d == KeyPath(<<"bindings", l.target>>) \o KeyPath(<<"fields", l.name>>)
             e == <<>>
  <1>1. /\ l.anchor = "header" => Places(f, l) = {e}
        /\ l.anchor = "coverage" => Places(f, l) = {a}
        /\ l.anchor = "curated" => Places(f, l) = {b}
        /\ l.anchor = "binding" => Places(f, l) = {c}
        /\ l.anchor = "field" => Places(f, l) = {d}
    BY DEF Places, ListOf
  <1>2. /\ a = Covering /\ b = CuratedAt(l.target) /\ c = BindingAt(l.target)
        /\ d = K(K(BindingAt(l.target), "fields"), l.name)
    BY LinePaths
  <1> HIDE DEF a, b, c, d
  <1> QED
    BY <1>1, <1>2

(***************************************************************************)
(* The one place that a line describes, in two files that say the same but *)
(* for the comment there.                                                  *)
(***************************************************************************)
SwapsAt(f, g, l, x, y) ==
    \E spot : /\ Places(f, l) = {spot} /\ Places(g, l) = {spot}
              /\ Swaps(Contents(f), Contents(g), spot, x, y)

LEMMA HeaderRemarked ==
  ASSUME NEW m, Good(m), NEW l, l.anchor = "header", NEW t,
         NEW f, Contents(f) = MapSaid(m), NEW g, Contents(g) = MapSaid(WithText(m, <<"header">>, t))
  PROVE  SwapsAt(f, g, l, TextOf(m, <<"header">>), t)
  <1> DEFINE spot == <<>>
  <1>1. WithText(m, <<"header">>, t) = [m EXCEPT !.header = t] /\ TextOf(m, <<"header">>) = m.header
    BY DEF WithText, TextOf
  <1>2. Places(f, l) = {spot} /\ Places(g, l) = {spot}
    BY PlainPlaces
  <1>3. Swaps(Contents(f), Contents(g), spot, m.header, t)
    BY <1>1, HeaderSwap
  <1> HIDE DEF spot
  <1> QED
    BY <1>1, <1>2, <1>3 DEF SwapsAt

LEMMA CoverageRemarked ==
  ASSUME NEW m, Good(m), m.coverage # None, NEW l, l.anchor = "coverage",
         NEW t \in Note, CommentRules(t, FALSE),
         NEW f, Contents(f) = MapSaid(m), NEW g, Contents(g) = MapSaid(WithText(m, <<"coverage">>, t))
  PROVE  SwapsAt(f, g, l, TextOf(m, <<"coverage">>), t)
  <1> DEFINE b == m.coverage
             c == [b EXCEPT !.comment = t]
  <1>1. WithText(m, <<"coverage">>, t) = [m EXCEPT !.coverage = c] /\ TextOf(m, <<"coverage">>) = b.comment
    BY DEF WithText, TextOf
  <1>2. Places(f, l) = {Covering} /\ Places(g, l) = {Covering}
    BY PlainPlaces
  <1>3. /\ b \in CoverageType /\ CoverageRules(b)
        /\ b = [fully_bound |-> b.fully_bound, curated |-> b.curated, comment |-> b.comment]
    BY GoodCoverage
  <1>4. c # None
    BY <1>3, CoverageCommented, NoneAssumption
  <1>5. Swaps(CoverageSaid(b), CoverageSaid(c), Covering, b.comment, t)
    <2> HIDE DEF b
    <2> QED
      BY <1>3, CoverageNoteSwap
  <1>6. OfPath(Covering, Covering)
    BY CoverageParts DEF OfPath, IsPath
  <1> HIDE DEF c
  <1>7. Swaps(Contents(f), Contents(g), Covering, b.comment, t)
    BY <1>1, <1>4, <1>5, <1>6, CoverageSwap
  <1> QED
    BY <1>1, <1>2, <1>7 DEF SwapsAt

LEMMA CuratedHasOne ==
  ASSUME NEW b \in CoverageType, CoverageRules(b), NEW k \in DOMAIN OrEmpty(b.curated),
         NEW t \in Note, CommentRules(t, FALSE)
  PROVE  [b EXCEPT !.curated[k].value.comment = t] # None
  <1> DEFINE c == [b EXCEPT !.curated[k].value.comment = t]
  <1>1. c \in CoverageType
    BY CuratedCommented
  <1> HIDE DEF c
  <1>2. c # None
    BY <1>1, NoneAssumption
  <1> QED
    BY <1>2 DEF c

LEMMA WithKept ==
  ASSUME NEW m, Good(m), NEW id \in Keys(m.bindings), NEW c, GoodBinding(c)
  PROVE  /\ Good(WithBinding(m, id, c)) /\ id \in Keys(WithBinding(m, id, c).bindings)
         /\ BindingOf(WithBinding(m, id, c), id) = c
  <1> DEFINE n == WithBinding(m, id, c)
  <1>1. Good(n) /\ id \in Keys(n.bindings) /\ BindingOf(n, id) = c /\ Around(n, id) = Around(m, id)
    BY AroundKept
  <1> QED
    BY <1>1

LEMMA CuratedRemarked ==
  ASSUME NEW m, Good(m), m.coverage # None, NEW l, l.anchor = "curated",
         NEW k \in DOMAIN OrEmpty(m.coverage.curated), OrEmpty(m.coverage.curated)[k].key = l.target,
         NEW t \in Note, CommentRules(t, FALSE),
         NEW f, Contents(f) = MapSaid(m), NEW g, Contents(g) = MapSaid(WithText(m, <<"curated", k>>, t))
  PROVE  SwapsAt(f, g, l, TextOf(m, <<"curated", k>>), t)
  <1> DEFINE b == m.coverage
             c == [b EXCEPT !.curated[k].value.comment = t]
             spot == CuratedAt(l.target)
             x == b.curated[k].value.comment
  <1>1. WithText(m, <<"curated", k>>, t) = [m EXCEPT !.coverage = c] /\ TextOf(m, <<"curated", k>>) = x
    BY DEF WithText, TextOf
  <1>2. Places(f, l) = {spot} /\ Places(g, l) = {spot}
    BY PlainPlaces
  <1>3. b \in CoverageType /\ CoverageRules(b)
    BY GoodCoverage
  <1>4. c # None
    BY <1>3, CuratedHasOne
  <1>5. b.curated[k].key = l.target
    BY EmptyList DEF OrEmpty
  <1>6. Swaps(CoverageSaid(b), CoverageSaid(c), CuratedAt(b.curated[k].key), x, t)
    <2> HIDE DEF b
    <2> QED
      BY <1>3, CuratedSwap DEF b
  <1>7. OfPath(Covering, spot)
    BY CoverageParts, OfTransitive
  <1> HIDE DEF c, x, spot
  <1>8. Swaps(CoverageSaid(b), CoverageSaid(c), spot, x, t)
    BY <1>5, <1>6 DEF spot
  <1>9. Swaps(Contents(f), Contents(g), spot, x, t)
    BY <1>1, <1>4, <1>7, <1>8, CoverageSwap
  <1> QED
    BY <1>1, <1>2, <1>9 DEF SwapsAt

(* A comment of a binding or in it.                                        *)
Edits(m, n, id, b, c, w) ==
    /\ n \in DOMAIN m.bindings /\ id = m.bindings[n].key /\ b = m.bindings[n].value
    /\ w = [m EXCEPT !.bindings[n].value = c]

LEMMA InBinding ==
  ASSUME NEW m, Good(m), NEW n, NEW id, NEW b, NEW c, NEW r, Edits(m, n, id, b, c, r),
         NEW spot, NEW x, NEW t, Renoted(BindingAt(id), b, c, spot, x, t), OfPath(BindingAt(id), spot),
         NEW f, Contents(f) = MapSaid(m), NEW g, Contents(g) = MapSaid(r)
  PROVE  /\ Swaps(Contents(f), Contents(g), spot, x, t) /\ GoodBinding(b) /\ GoodBinding(c)
         /\ EntriesUnder(f, K(BindingAt(id), "locators")) = EntriesOf(b.locators)
         /\ EntriesUnder(f, K(BindingAt(id), "asserted_by")) = EntriesOf(OrEmpty(b.asserted_by))
         /\ EntriesUnder(g, K(BindingAt(id), "locators")) = EntriesOf(c.locators)
         /\ EntriesUnder(g, K(BindingAt(id), "asserted_by")) = EntriesOf(OrEmpty(c.asserted_by))
  <1> DEFINE w == WithBinding(m, id, c)
  <1>1. GoodBinding(c) /\ Swaps(BindingSaid(BindingAt(id), b), BindingSaid(BindingAt(id), c), spot, x, t)
    BY DEF Renoted
  <1>2. id \in Keys(m.bindings) /\ BindingOf(m, id) = b
    BY BindingAsWith DEF Edits
  <1>3. r = w
    BY <1>1, BindingAsWith DEF Edits
  <1>4. Contents(g) = MapSaid(w)
    BY <1>3
  <1>5. Swaps(MapSaid(m), MapSaid(w), spot, x, t)
    BY <1>1, <1>2, BindingSwap
  <1>6. Good(w) /\ id \in Keys(w.bindings) /\ BindingOf(w, id) = c
    BY <1>1, <1>2, WithKept
  <1> HIDE DEF w
  <1>7. /\ EntriesUnder(g, K(BindingAt(id), "locators")) = EntriesOf(c.locators)
        /\ EntriesUnder(g, K(BindingAt(id), "asserted_by")) = EntriesOf(OrEmpty(c.asserted_by))
    BY <1>4, <1>6, BindingLists
  <1>8. /\ EntriesUnder(f, K(BindingAt(id), "locators")) = EntriesOf(b.locators)
        /\ EntriesUnder(f, K(BindingAt(id), "asserted_by")) = EntriesOf(OrEmpty(b.asserted_by))
        /\ GoodBinding(b)
    BY <1>2, BindingLists
  <1>9. Swaps(Contents(f), Contents(g), spot, x, t)
    BY <1>4, <1>5
  <1> QED
    BY <1>1, <1>7, <1>8, <1>9

(***************************************************************************)
(* Each kind of anchor.                                                    *)
(***************************************************************************)
LEMMA GoodBindingOf ==
  ASSUME NEW m, Good(m), NEW n \in DOMAIN m.bindings
  PROVE  GoodBinding(m.bindings[n].value)
  <1>1. m.bindings[n] \in Range(m.bindings)
    BY DEF Range
  <1> QED
    BY <1>1, GoodMaps

LEMMA BindingRemarked ==
  ASSUME NEW m, Good(m), NEW n \in DOMAIN m.bindings, NEW l, l.anchor = "binding",
         l.target = m.bindings[n].key, NEW t \in Note, CommentRules(t, FALSE),
         NEW f, Contents(f) = MapSaid(m), NEW g, Contents(g) = MapSaid(WithText(m, <<"binding", n>>, t))
  PROVE  SwapsAt(f, g, l, TextOf(m, <<"binding", n>>), t)
  <1> DEFINE b == m.bindings[n].value
             c == [b EXCEPT !.comment = t]
             r == [m EXCEPT !.bindings[n].value = c]
             p == BindingAt(l.target)
  <1>1. /\ WithText(m, <<"binding", n>>, t) = [m EXCEPT !.bindings[n].value = c]
        /\ TextOf(m, <<"binding", n>>) = b.comment
    BY DEF WithText, TextOf
  <1>2. GoodBinding(b)
    BY GoodBindingOf
  <1>3. IsPath(p) /\ OfPath(p, p)
    BY RootPaths DEF OfPath, IsPath
  <1>4. Renoted(p, b, c, p, b.comment, t)
    <2> HIDE DEF b, p
    <2>1. b = [locators |-> b.locators, compare_via |-> b.compare_via, fields |-> b.fields,
               wire |-> b.wire, asserted_by |-> b.asserted_by, comment |-> b.comment]
      BY <1>2, GoodParts
    <2>2. /\ c.locators = b.locators /\ c.compare_via = b.compare_via /\ c.fields = b.fields /\ c.wire = b.wire
          /\ c.asserted_by = b.asserted_by /\ c.comment = t
      BY <2>1
    <2>3. GoodBinding(c)
      BY <1>2, OtherComment
    <2> HIDE DEF c
    <2>4. Swaps(BindingSaid(p, b), BindingSaid(p, c), p, b.comment, c.comment)
      BY <1>3, <2>2, BindingNoteSwap
    <2> QED
      BY <2>2, <2>3, <2>4 DEF Renoted
  <1>5. Contents(g) = MapSaid(r) /\ Edits(m, n, l.target, b, c, r)
    BY <1>1 DEF Edits
  <1>6. Places(f, l) = {p} /\ Places(g, l) = {p}
    BY PlainPlaces
  <1> HIDE DEF b, c, p, r
  <1>7. Swaps(Contents(f), Contents(g), p, b.comment, t)
    BY <1>3, <1>4, <1>5, InBinding DEF p
  <1> QED
    BY <1>1, <1>6, <1>7 DEF SwapsAt

LEMMA LocatorRemarked ==
  ASSUME NEW m, Good(m), NEW n \in DOMAIN m.bindings, NEW l, Optioned(l), l.anchor = "locator",
         l.target = m.bindings[n].key, NEW i, i = Position(m.bindings[n].value, "locator", l), i # 0,
         NEW t \in Note, CommentRules(t, FALSE),
         NEW f, Contents(f) = MapSaid(m), NEW g, Contents(g) = MapSaid(WithText(m, <<"locator", n, i>>, t))
  PROVE  SwapsAt(f, g, l, TextOf(m, <<"locator", n, i>>), t)
  <1> DEFINE b == m.bindings[n].value
             c == LocatorWith(b, i, t)
             r == [m EXCEPT !.bindings[n].value = c]
             p == BindingAt(l.target)
             q == K(p, "locators")
             spot == Append(q, AtItem(i))
             x == b.locators[i].comment
  <1>1. /\ WithText(m, <<"locator", n, i>>, t) = [m EXCEPT !.bindings[n].value = c]
        /\ TextOf(m, <<"locator", n, i>>) = x
    BY DEF WithText, TextOf, LocatorWith
  <1>2. GoodBinding(b)
    BY GoodBindingOf
  <1>3. IsPath(p) /\ OfPath(p, spot)
    <2>1. IsPath(p)
      BY RootPaths
    <2> HIDE DEF p
    <2>2. IsPath(q) /\ OfPath(p, q)
      BY <2>1, StepPath DEF K
    <2> HIDE DEF q
    <2>3. OfPath(q, spot)
      BY <2>2, StepPath
    <2> QED
      BY <2>1, <2>2, <2>3, OfTransitive
  <1>4. i \in DOMAIN b.locators /\ LocatorIdentity(b.locators[i]) = LocatorGiven(l)
    BY <1>2, PositionFound, PositionIs DEF GoodBinding
  <1>5. Renoted(p, b, c, spot, x, t) /\ i \in DOMAIN c.locators /\ c.locators[i].strings = b.locators[i].strings
    <2> HIDE DEF b, p
    <2> QED
      BY <1>2, <1>3, <1>4, LocatorNoted
  <1>6. Contents(g) = MapSaid(r) /\ Edits(m, n, l.target, b, c, r)
    BY <1>1 DEF Edits
  <1> HIDE DEF b, c, p, r, x, spot
  <1>7. /\ Swaps(Contents(f), Contents(g), spot, x, t) /\ GoodBinding(c)
        /\ EntriesUnder(f, K(BindingAt(l.target), "locators")) = EntriesOf(b.locators)
        /\ EntriesUnder(g, K(BindingAt(l.target), "locators")) = EntriesOf(c.locators)
    BY <1>3, <1>5, <1>6, InBinding DEF p
  <1>8. LocatorIdentity(c.locators[i]) = LocatorGiven(l)
    BY <1>4, <1>5 DEF LocatorIdentity, StringAt
  <1>9. Places(f, l) = {spot}
    BY <1>2, <1>4, <1>7, LocatorPlace DEF spot, q, p
  <1>10. Places(g, l) = {spot}
    BY <1>5, <1>7, <1>8, LocatorPlace DEF spot, q, p
  <1> QED
    BY <1>1, <1>7, <1>9, <1>10 DEF SwapsAt

LEMMA AssertionRemarked ==
  ASSUME NEW m, Good(m), NEW n \in DOMAIN m.bindings, NEW l, Optioned(l), l.anchor = "assertion",
         AssertionShaped(l, {"path", "symbol"}),
         l.target = m.bindings[n].key, NEW i, i = Position(m.bindings[n].value, "assertion", l), i # 0,
         NEW t \in Note, CommentRules(t, FALSE),
         NEW f, Contents(f) = MapSaid(m), NEW g, Contents(g) = MapSaid(WithText(m, <<"assertion", n, i>>, t))
  PROVE  SwapsAt(f, g, l, TextOf(m, <<"assertion", n, i>>), t)
  <1> DEFINE b == m.bindings[n].value
             c == AssertionWith(b, i, t)
             r == [m EXCEPT !.bindings[n].value = c]
             p == BindingAt(l.target)
             q == K(p, "asserted_by")
             spot == Append(q, AtItem(i))
             x == b.asserted_by[i].comment
  <1>1. /\ WithText(m, <<"assertion", n, i>>, t) = [m EXCEPT !.bindings[n].value = c]
        /\ TextOf(m, <<"assertion", n, i>>) = x
    BY DEF WithText, TextOf, AssertionWith
  <1>2. GoodBinding(b)
    BY GoodBindingOf
  <1>3. IsPath(p) /\ OfPath(p, spot)
    <2>1. IsPath(p)
      BY RootPaths
    <2> HIDE DEF p
    <2>2. IsPath(q) /\ OfPath(p, q)
      BY <2>1, StepPath DEF K
    <2> HIDE DEF q
    <2>3. OfPath(q, spot)
      BY <2>2, StepPath
    <2> QED
      BY <2>1, <2>2, <2>3, OfTransitive
  <1>4. i \in DOMAIN OrEmpty(b.asserted_by) /\ AssertionIdentity(OrEmpty(b.asserted_by)[i]) = AssertionGiven(l)
    BY <1>2, PositionFound, PositionIs DEF GoodBinding
  <1>5. /\ Renoted(p, b, c, spot, x, t) /\ b.asserted_by = OrEmpty(b.asserted_by)
        /\ i \in DOMAIN OrEmpty(c.asserted_by)
        /\ OrEmpty(c.asserted_by)[i].strings = b.asserted_by[i].strings
    <2> HIDE DEF b, p
    <2> QED
      BY <1>2, <1>3, <1>4, AssertionNoted
  <1>6. Contents(g) = MapSaid(r) /\ Edits(m, n, l.target, b, c, r)
    BY <1>1 DEF Edits
  <1> HIDE DEF b, c, p, r, x, spot
  <1>7. /\ Swaps(Contents(f), Contents(g), spot, x, t) /\ GoodBinding(c)
        /\ EntriesUnder(f, K(BindingAt(l.target), "asserted_by")) = EntriesOf(OrEmpty(b.asserted_by))
        /\ EntriesUnder(g, K(BindingAt(l.target), "asserted_by")) = EntriesOf(OrEmpty(c.asserted_by))
    BY <1>3, <1>5, <1>6, InBinding DEF p
  <1>8. AssertionIdentity(OrEmpty(c.asserted_by)[i]) = AssertionGiven(l)
    BY <1>4, <1>5 DEF AssertionIdentity, StringAt
  <1>9. Places(f, l) = {spot}
    BY <1>2, <1>4, <1>7, AssertionPlace DEF spot, q, p
  <1>10. Places(g, l) = {spot}
    BY <1>5, <1>7, <1>8, AssertionPlace DEF spot, q, p
  <1> QED
    BY <1>1, <1>7, <1>9, <1>10 DEF SwapsAt

LEMMA FieldRemarked ==
  ASSUME NEW m, Good(m), NEW n \in DOMAIN m.bindings, NEW l, l.anchor = "field",
         l.target = m.bindings[n].key, NEW i, i = Position(m.bindings[n].value, "field", l), i # 0,
         NEW t \in Note, CommentRules(t, FALSE),
         NEW f, Contents(f) = MapSaid(m), NEW g, Contents(g) = MapSaid(WithText(m, <<"field", n, i>>, t))
  PROVE  SwapsAt(f, g, l, TextOf(m, <<"field", n, i>>), t)
  <1> DEFINE b == m.bindings[n].value
             c == [b EXCEPT !.fields[i].value.comment = t]
             r == [m EXCEPT !.bindings[n].value = c]
             p == BindingAt(l.target)
             q == K(p, "fields")
             spot == K(q, l.name)
             x == b.fields[i].value.comment
  <1>1. /\ WithText(m, <<"field", n, i>>, t) = [m EXCEPT !.bindings[n].value = c]
        /\ TextOf(m, <<"field", n, i>>) = x
    BY DEF WithText, TextOf
  <1>2. GoodBinding(b)
    BY GoodBindingOf
  <1>3. IsPath(p) /\ OfPath(p, spot)
    <2>1. IsPath(p)
      BY RootPaths
    <2> HIDE DEF p
    <2>2. IsPath(q) /\ OfPath(p, q)
      BY <2>1, StepPath DEF K
    <2> HIDE DEF q
    <2>3. OfPath(q, spot)
      BY <2>2, StepPath DEF K
    <2> QED
      BY <2>1, <2>2, <2>3, OfTransitive
  <1>4. i \in DOMAIN OrEmpty(b.fields) /\ OrEmpty(b.fields)[i].key = l.name
    BY <1>2, PositionFound, PositionIs DEF GoodBinding
  <1>5. Renoted(p, b, c, spot, x, t)
    <2> HIDE DEF b, p
    <2>1. /\ Renoted(p, b, c, K(K(p, "fields"), b.fields[i].key), b.fields[i].value.comment, t)
          /\ b.fields = OrEmpty(b.fields)
      BY <1>2, <1>3, <1>4, FieldNoted
    <2>2. b.fields[i].key = l.name
      BY <1>4, <2>1
    <2> HIDE DEF c
    <2> QED
      BY <2>1, <2>2
  <1>6. Contents(g) = MapSaid(r) /\ Edits(m, n, l.target, b, c, r)
    BY <1>1 DEF Edits
  <1>9. Places(f, l) = {spot} /\ Places(g, l) = {spot}
    BY PlainPlaces
  <1> HIDE DEF b, c, p, r, x, spot
  <1>7. Swaps(Contents(f), Contents(g), spot, x, t)
    BY <1>3, <1>5, <1>6, InBinding DEF p
  <1> QED
    BY <1>1, <1>7, <1>9 DEF SwapsAt

(* The comment at an anchor is at the one place that the line describes.   *)
LEMMA CommentSwapped ==
  ASSUME NEW m, Good(m), NEW l, l.anchor \in Anchors, Optioned(l), AnchorAccepted(l),
         NEW at, at = Resolve(m, l), at # <<>>, NEW t \in Note, CommentRules(t, FALSE),
         NEW f, Contents(f) = MapSaid(m), NEW g, Contents(g) = MapSaid(WithText(m, at, t))
  PROVE  SwapsAt(f, g, l, TextOf(m, at), t)
  <1>0. l.anchor = "assertion" => AssertionShaped(l, {"path", "symbol"})
    BY DEF AnchorAccepted
  <1>1. /\ l.anchor = "header" => at = <<"header">>
        /\ l.anchor = "coverage" => at = <<"coverage">> /\ m.coverage # None
        /\ l.anchor = "curated" =>
             /\ m.coverage # None
             /\ \E k \in DOMAIN OrEmpty(m.coverage.curated) :
                  at = <<"curated", k>> /\ OrEmpty(m.coverage.curated)[k].key = l.target
        /\ l.anchor \in {"binding", "locator", "field", "assertion"} =>
             \E n \in DOMAIN m.bindings :
               /\ m.bindings[n].key = l.target
               /\ l.anchor = "binding" => at = <<"binding", n>>
               /\ l.anchor # "binding" =>
                    \E i : /\ i = Position(m.bindings[n].value, l.anchor, l) /\ i # 0
                           /\ at = <<l.anchor, n, i>>
    BY ResolveIs
  <1>2. CASE l.anchor = "header"
    BY <1>1, <1>2, HeaderRemarked
  <1>3. CASE l.anchor = "coverage"
    BY <1>1, <1>3, CoverageRemarked
  <1>4. CASE l.anchor = "curated"
    BY <1>1, <1>4, CuratedRemarked
  <1>5. CASE l.anchor \in {"binding", "locator", "field", "assertion"}
    <2>1. PICK n \in DOMAIN m.bindings :
               /\ m.bindings[n].key = l.target
               /\ l.anchor = "binding" => at = <<"binding", n>>
               /\ l.anchor # "binding" =>
                    \E i : /\ i = Position(m.bindings[n].value, l.anchor, l) /\ i # 0
                           /\ at = <<l.anchor, n, i>>
      BY <1>1, <1>5
    <2>2. CASE l.anchor = "binding"
      BY <2>1, <2>2, BindingRemarked
    <2>3. CASE l.anchor # "binding"
      <3>1. PICK i : /\ i = Position(m.bindings[n].value, l.anchor, l) /\ i # 0
                     /\ at = <<l.anchor, n, i>>
        BY <2>1, <2>3
      <3>2. CASE l.anchor = "locator"
        <4>1. i = Position(m.bindings[n].value, "locator", l) /\ at = <<"locator", n, i>>
          BY <3>1, <3>2
        <4> QED
          BY <2>1, <3>1, <3>2, <4>1, LocatorRemarked
      <3>3. CASE l.anchor = "field"
        <4>1. i = Position(m.bindings[n].value, "field", l) /\ at = <<"field", n, i>>
          BY <3>1, <3>3
        <4> QED
          BY <2>1, <3>1, <3>3, <4>1, FieldRemarked
      <3>4. CASE l.anchor = "assertion"
        <4>1. i = Position(m.bindings[n].value, "assertion", l) /\ at = <<"assertion", n, i>>
          BY <3>1, <3>4
        <4> QED
          BY <1>0, <2>1, <3>1, <3>4, <4>1, AssertionRemarked
      <3> QED
        BY <1>5, <2>3, <3>2, <3>3, <3>4
    <2> QED
      BY <2>2, <2>3
  <1> QED
    BY <1>2, <1>3, <1>4, <1>5 DEF Anchors

(***************************************************************************)
(* What `comment` answers and writes.                                      *)
(***************************************************************************)
Told(x) == IF x = None THEN {} ELSE {String(x)}

LEMMA NotedIs ==
  ASSUME NEW p, NEW x
  PROVE  /\ \A z \in Noted(p, x) : z[1] = Append(p, AtKey("comment"))
         /\ {z[2] : z \in Noted(p, x)} = Told(x)
  <1>1. CASE x = None
    BY <1>1 DEF Noted, Told
  <1>2. CASE x # None
    <2> DEFINE at == Append(p, AtKey("comment"))
               s == String(x)
    <2>1. Noted(p, x) = {<<at, s>>} /\ Told(x) = {s}
      BY <1>2 DEF Noted, Told
    <2> HIDE DEF at, s
    <2>2. <<at, s>>[1] = at /\ <<at, s>>[2] = s
      OBVIOUS
    <2>3. \A z \in Noted(p, x) : z[1] = at
      BY <2>1, <2>2
    <2>4. {z[2] : z \in Noted(p, x)} = {s}
      BY <2>1, <2>2
    <2> QED
      BY <2>1, <2>3, <2>4 DEF at
  <1> QED
    BY <1>1, <1>2

LEMMA DenialTells ==
  ASSUME NEW op, NEW id, NEW code, Deny(op, id, code)
  PROVE  reply'.code = code
  BY DEF Deny, Refuse, Answer

LEMMA SwappedComments ==
  ASSUME NEW f, NEW g, NEW l, NEW x, NEW y, SwapsAt(f, g, l, x, y)
  PROVE  /\ {z[2] : z \in CommentsThere(f, l)} = Told(x)
         /\ {z[2] : z \in CommentsThere(g, l)} = Told(y)
         /\ Contents(f) \ CommentsThere(f, l) = Contents(g) \ CommentsThere(g, l)
  <1>1. PICK spot : /\ Places(f, l) = {spot} /\ Places(g, l) = {spot}
                    /\ Swaps(Contents(f), Contents(g), spot, x, y)
    BY DEF SwapsAt
  <1> DEFINE at == Append(spot, AtKey("comment"))
             A == Contents(f)
             B == Contents(g)
             X == Noted(spot, x)
             Y == Noted(spot, y)
  <1>2. PICK O : (\A z \in O : z[1] # at) /\ A = X \cup O /\ B = Y \cup O
    BY <1>1 DEF Swaps, K
  <1>3. (\A z \in X \cup Y : z[1] = at) /\ {z[2] : z \in X} = Told(x) /\ {z[2] : z \in Y} = Told(y)
    BY NotedIs
  <1>4. CommentsThere(f, l) = {z \in A : z[1] = at} /\ CommentsThere(g, l) = {z \in B : z[1] = at}
    BY <1>1 DEF CommentsThere
  <1> HIDE DEF at, A, B, X, Y
  <1>5. {z \in A : z[1] = at} = X /\ {z \in B : z[1] = at} = Y /\ A \ X = O /\ B \ Y = O
    BY <1>2, <1>3
  <1>6. CommentsThere(f, l) = X /\ CommentsThere(g, l) = Y
    BY <1>4, <1>5
  <1>7. Contents(f) \ X = Contents(g) \ Y
    BY <1>5 DEF A, B
  <1> QED
    BY <1>3, <1>6, <1>7

LEMMA CommentLine ==
  ASSUME TextsReadBack, file \in ParsedFiles, Load.write = "ok", ~NamesConfused, NEW l \in Remarks, AnchorAccepted(l),
         NEW m, m = Load.map, NEW at, at = Resolve(m, l), at # <<>>, NEW t \in Note, CommentRules(t, FALSE),
         NEW n, n = WithText(m, at, t)
  PROVE  MapCodes(n) = {} /\ SwapsAt(file, Emit(n), l, TextOf(m, at), t)
  <1>1. Good(m) /\ Contents(file) = MapSaid(m)
    BY Writable
  <1>2. l.anchor \in Anchors
    BY ArgumentsAssumption DEF Anchors
  <1>3. Optioned(l)
    BY LinesAssumption, NotesAreTexts DEF Optioned
  <1>4. Good(n)
    BY <1>1, <1>2, Commenting
  <1>5. MapCodes(n) = {} /\ Contents(Emit(n)) = MapSaid(n)
    BY <1>4, Emitted
  <1> DEFINE f == file
             g == Emit(n)
  <1>6. Contents(f) = MapSaid(m) /\ Contents(g) = MapSaid(WithText(m, at, t))
    BY <1>1, <1>5
  <1> HIDE DEF f, g
  <1>7. SwapsAt(f, g, l, TextOf(m, at), t)
    BY <1>1, <1>2, <1>3, <1>6, CommentSwapped
  <1> QED
    BY <1>5, <1>7 DEF f, g

LEMMA CommentGot ==
  ASSUME TextsReadBack, file \in ParsedFiles, Clean, ~NamesConfused, NEW l \in Remarks, CommentGet(Load, l),
         reply'.code = "ok"
  PROVE  {x[2] : x \in CommentsThere(file, reply'.doc)} = {String(reply'.out)}
  <1> DEFINE m == Load.map
             at == Resolve(m, l)
             x == TextOf(m, at)
             n == WithText(m, at, None)
  <1>1. \/ \E code \in {"ERR-USAGE", "ERR-NOT-FOUND"} : Deny("comment get", None, code)
        \/ Load.read # "ok" /\ Deny("comment get", None, Load.read)
        \/ AnchorAccepted(l) /\ at # <<>> /\ x # None /\ Answer("comment get", None, l, "ok", x)
    BY DEF CommentGet
  <1>2. \A code : Deny("comment get", None, code) => reply'.code = code
    BY DenialTells
  <1>3. AnchorAccepted(l) /\ at # <<>> /\ x # None /\ Answer("comment get", None, l, "ok", x)
    BY <1>1, <1>2
  <1>4. reply'.doc = l /\ reply'.out = x
    BY <1>3 DEF Answer
  <1>5. Load.write = "ok"
    BY CleanIsGood DEF ParsedFiles
  <1>6. None \in Note /\ CommentRules(None, FALSE)
    BY NotesAreTexts DEF CommentRules
  <1> HIDE DEF m, at, x, n
  <1>7. SwapsAt(file, Emit(n), l, x, None)
    BY <1>3, <1>5, <1>6, CommentLine DEF m, at, x, n
  <1>8. {z[2] : z \in CommentsThere(file, l)} = Told(x)
    BY <1>7, SwappedComments
  <1> QED
    BY <1>3, <1>4, <1>8 DEF Told

LEMMA CommentWritten ==
  ASSUME TextsReadBack, file \in ParsedFiles, ~NamesConfused, NEW l \in Remarks, NEW text \in Notes,
         CommentWrite(Load, l, text), reply'.code = "ok"
  PROVE  /\ {x[2] : x \in CommentsThere(file', reply'.doc)} =
              IF reply'.out = None THEN {} ELSE {String(reply'.out)}
         /\ Contents(file) \ CommentsThere(file, reply'.doc) =
              Contents(file') \ CommentsThere(file', reply'.doc)
  <1> DEFINE op == IF text = None THEN "comment unset" ELSE "comment set"
             m == Load.map
             at == Resolve(m, l)
             x == TextOf(m, at)
             n == WithText(m, at, text)
  <1>1. \/ \E code \in {"ERR-USAGE", "ERR-NOT-FOUND", "ERR-INPUT-INVALID"} : Deny(op, None, code)
        \/ Load.write # "ok" /\ Deny(op, None, Load.write)
        \/ /\ AnchorAccepted(l) /\ Load.write = "ok" /\ at # <<>> /\ CommentCodes(text, TRUE) = {}
           /\ Install(op, None, l, n, text)
    BY DEF CommentWrite
  <1>2. \A code : Deny(op, None, code) => reply'.code = code
    BY DenialTells
  <1>3. /\ AnchorAccepted(l) /\ Load.write = "ok" /\ at # <<>> /\ CommentCodes(text, TRUE) = {}
        /\ Install(op, None, l, n, text)
    BY <1>1, <1>2
  <1>4. text \in Note /\ CommentRules(text, FALSE)
    BY <1>3, CommentsFine, AcceptedComment, ArgumentsAssumption
  <1> HIDE DEF op, m, at, x, n
  <1>5. MapCodes(n) = {} /\ SwapsAt(file, Emit(n), l, x, text)
    BY <1>3, <1>4, CommentLine DEF m, at, x, n
  <1>6. file' = Emit(n) /\ reply'.doc = l /\ reply'.out = text
    BY <1>3, <1>5 DEF Install
  <1> DEFINE f == file
             g == Emit(n)
  <1> HIDE DEF f, g
  <1>7. /\ {z[2] : z \in CommentsThere(g, l)} = Told(text)
        /\ Contents(f) \ CommentsThere(f, l) = Contents(g) \ CommentsThere(g, l)
    BY <1>5, SwappedComments DEF f, g
  <1>8. file' = g /\ file = f
    BY <1>6 DEF f, g
  <1> QED
    BY <1>6, <1>7, <1>8 DEF Told

(* `comment get` answers what is written at the one place that its line    *)
(* describes, and `comment set` and `unset` change the comment there and   *)
(* nothing else in the file, for any anchor, any text, and any valid file  *)
(* with the provisos of `remove`.                                          *)
THEOREM CommentStaysWithTheDescribed == TextsReadBack => (Spec => CommentsTheDescribed)
  <1> DEFINE A == /\ reply'.op = "comment get" =>
                      {x[2] : x \in CommentsThere(file, reply'.doc)} = {String(reply'.out)}
                  /\ reply'.op \in {"comment set", "comment unset"} =>
                      /\ {x[2] : x \in CommentsThere(file', reply'.doc)} =
                           IF reply'.out = None THEN {} ELSE {String(reply'.out)}
                      /\ Contents(file) \ CommentsThere(file, reply'.doc) =
                           Contents(file') \ CommentsThere(file', reply'.doc)
  <1> SUFFICES ASSUME TextsReadBack
               PROVE  Spec => CommentsTheDescribed
    OBVIOUS
  <1>1. Parsed /\ [Next]_vars => [reply'.code = "ok" /\ Clean /\ ~NamesConfused => A]_vars
    <2> SUFFICES ASSUME Parsed, Next, reply'.code = "ok", Clean, ~NamesConfused
                 PROVE  A
      OBVIOUS
    <2>1. CASE reply'.op = "comment get"
      <3>1. reply'.op \in Lines
        BY <2>1 DEF Lines
      <3>2. PICK l \in Remarks : CommentGet(Load, l)
        BY <2>1, <3>1, LineAnswers
      <3> QED
        BY <2>1, <3>2, CommentGot DEF Parsed
    <2>2. CASE reply'.op \in {"comment set", "comment unset"}
      <3>1. reply'.op \in Lines
        BY <2>2 DEF Lines
      <3>2. PICK l \in Remarks : \E text \in Notes : CommentWrite(Load, l, text)
        BY <2>2, <3>1, LineAnswers
      <3>3. PICK text \in Notes : CommentWrite(Load, l, text)
        BY <3>2
      <3> HIDE DEF A
      <3>4. A
        BY <2>2, <3>3, CommentWritten DEF Parsed, A
      <3> QED
        BY <3>4
    <2>3. CASE reply'.op \notin {"comment get", "comment set", "comment unset"}
      BY <2>3
    <2> QED
      BY <2>1, <2>2, <2>3
  <1>2. Spec => []Parsed
    BY FileParsed
  <1> QED
    BY <1>1, <1>2, PTL DEF Spec, CommentsTheDescribed
=============================================================================
