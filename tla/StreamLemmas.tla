---------------------------- MODULE StreamLemmas ----------------------------
(***************************************************************************)
(* What the proofs about streams of bytes, chunks and packets need of      *)
(* sequences: concatenation, cutting, and the joining of many sequences.   *)
(***************************************************************************)
EXTENDS Varint, SequenceTheorems, WellFoundedInduction, TLAPS

-----------------------------------------------------------------------------
(* Concatenation and queues.                                               *)

\* Concatenation, as a name: the facts about it are stated once, for
\* variables.
Cat(s, t) == s \o t

LEMMA CatType ==
  ASSUME NEW S, NEW s \in Seq(S), NEW t \in Seq(S)
  PROVE  Cat(s, t) \in Seq(S)
BY DEF Cat

LEMMA CatLen ==
  ASSUME NEW S, NEW s \in Seq(S), NEW t \in Seq(S)
  PROVE  Len(Cat(s, t)) = Len(s) + Len(t)
BY DEF Cat

LEMMA CatFront ==
  ASSUME NEW S, NEW s \in Seq(S), NEW t \in Seq(S), NEW i \in 1..Len(s)
  PROVE  Cat(s, t)[i] = s[i]
BY DEF Cat

LEMMA CatAssoc ==
  ASSUME NEW S, NEW s \in Seq(S), NEW t \in Seq(S), NEW u \in Seq(S)
  PROVE  Cat(Cat(s, t), u) = Cat(s, Cat(t, u))
BY DEF Cat

LEMMA CatEmpty ==
  ASSUME NEW S, NEW s \in Seq(S)
  PROVE  Cat(s, <<>>) = s /\ Cat(<<>>, s) = s
BY DEF Cat

LEMMA SeqSubset ==
  ASSUME NEW S, NEW T, S \subseteq T, NEW s \in Seq(S)
  PROVE  s \in Seq(T)
OBVIOUS

LEMMA EmptyByLen ==
  ASSUME NEW S, NEW s \in Seq(S)
  PROVE  Len(s) \in Nat /\ (Len(s) = 0 <=> s = <<>>)
OBVIOUS

\* Two parts make up t.
LEMMA Glue ==
  ASSUME NEW S, NEW s \in Seq(S), NEW r \in Seq(S), NEW t \in Seq(S),
         Len(t) = Len(s) + Len(r),
         \A i \in 1..Len(s) : s[i] = t[i],
         \A i \in 1..Len(r) : r[i] = t[Len(s) + i]
  PROVE  Cat(s, r) = t
<1> DEFINE u == Cat(s, r)
<1>1. /\ u \in Seq(S) /\ Len(u) = Len(t) /\ Len(s) \in Nat /\ Len(r) \in Nat
      /\ \A i \in 1..Len(s) : u[i] = s[i]
      /\ \A i \in 1..Len(r) : u[Len(s) + i] = r[i]
  <2>1. u \in Seq(S)
    BY CatType
  <2>2. Len(u) = Len(t)
    BY CatLen
  <2>3. \A i \in 1..Len(s) : u[i] = s[i]
    BY CatFront, Zenon
  <2>4. \A i \in 1..Len(r) : u[Len(s) + i] = r[i]
    BY DEF Cat
  <2> HIDE DEF u
  <2> QED
    BY <2>1, <2>2, <2>3, <2>4
<1> HIDE DEF u
<1>2. ASSUME NEW i \in 1..Len(t) PROVE u[i] = t[i]
  <2>1. CASE i <= Len(s)
    BY <1>1, <2>1
  <2>2. CASE i > Len(s)
    <3>1. i - Len(s) \in 1..Len(r) /\ Len(s) + (i - Len(s)) = i
      BY <1>1, <2>2
    <3> QED
      BY <1>1, <3>1
  <2> QED
    BY <1>1, <2>1, <2>2
<1> QED
  BY <1>1, <1>2, SeqEqual DEF u

\* A chunk that moves from the front of t to the end of s.
LEMMA MoveOneType ==
  ASSUME NEW S, NEW s \in Seq(S), NEW t \in Seq(S), t # <<>>
  PROVE  /\ Append(s, Head(t)) \in Seq(S) /\ Tail(t) \in Seq(S)
         /\ Len(Tail(t)) = Len(t) - 1 /\ Len(t) \in Nat
OBVIOUS

LEMMA MoveOne ==
  ASSUME NEW S, NEW s \in Seq(S), NEW t \in Seq(S), t # <<>>
  PROVE  Cat(Append(s, Head(t)), Tail(t)) = Cat(s, t)
<1>1. /\ Append(s, Head(t)) \in Seq(S) /\ Tail(t) \in Seq(S)
      /\ Len(Tail(t)) = Len(t) - 1
  OBVIOUS
<1>2. Len(Append(s, Head(t)) \o Tail(t)) = Len(s \o t)
  OBVIOUS
<1>3. \A i \in 1..Len(s \o t) : (Append(s, Head(t)) \o Tail(t))[i] = (s \o t)[i]
  OBVIOUS
<1>4. Append(s, Head(t)) \o Tail(t) \in Seq(S) /\ s \o t \in Seq(S)
  BY <1>1
<1> QED
  BY <1>1, <1>2, <1>3, <1>4, SeqEqual DEF Cat

LEMMA CatAppend ==
  ASSUME NEW S, NEW s \in Seq(S), NEW t \in Seq(S), NEW x \in S
  PROVE  Cat(s, Append(t, x)) = Append(Cat(s, t), x)
<1>1. /\ s \o Append(t, x) \in Seq(S) /\ Append(s \o t, x) \in Seq(S)
      /\ Len(s \o Append(t, x)) = Len(Append(s \o t, x))
  OBVIOUS
<1>2. \A i \in 1..Len(s \o Append(t, x)) :
        (s \o Append(t, x))[i] = Append(s \o t, x)[i]
  OBVIOUS
<1> QED
  BY <1>1, <1>2, SeqEqual DEF Cat

\* A queue that loses its first entry, or gets another one.
LEMMA TailEntries ==
  ASSUME NEW S, NEW s \in Seq(S), s # <<>>
  PROVE  /\ Tail(s) \in Seq(S) /\ Head(s) = s[1] /\ Head(s) \in S /\ 1 \in DOMAIN s
         /\ \A i \in DOMAIN Tail(s) : /\ i + 1 \in DOMAIN s /\ i + 1 # 1
                                      /\ Tail(s)[i] = s[i + 1]
         /\ \A i \in DOMAIN s : i = 1 \/ /\ i - 1 \in DOMAIN Tail(s)
                                         /\ Tail(s)[i - 1] = s[i]
OBVIOUS

LEMMA AppendEntries ==
  ASSUME NEW S, NEW s \in Seq(S), NEW x \in S
  PROVE  /\ Append(s, x) \in Seq(S)
         /\ \A i \in DOMAIN Append(s, x) :
              \/ i \in DOMAIN s /\ Append(s, x)[i] = s[i] /\ i < Len(s) + 1
              \/ i = Len(s) + 1 /\ Append(s, x)[i] = x
         /\ \A i \in DOMAIN s : i \in DOMAIN Append(s, x) /\ Append(s, x)[i] = s[i]
         /\ Len(s) + 1 \in DOMAIN Append(s, x) /\ Append(s, x)[Len(s) + 1] = x
         /\ Len(s) \in Nat
OBVIOUS

\* What is left of s after its first n entries, and these.
LEMMA RestOf ==
  ASSUME NEW S, NEW s \in Seq(S), NEW n \in 0..Len(s)
  PROVE  /\ SubSeq(s, n + 1, Len(s)) \in Seq(S)
         /\ Len(SubSeq(s, n + 1, Len(s))) = Len(s) - n
         /\ \A i \in 1..(Len(s) - n) : SubSeq(s, n + 1, Len(s))[i] = s[n + i]
OBVIOUS

LEMMA PartOf ==
  ASSUME NEW S, NEW s \in Seq(S), NEW h \in Nat, NEW n \in Nat, h + n <= Len(s)
  PROVE  /\ SubSeq(s, h + 1, h + n) \in Seq(S)
         /\ Len(SubSeq(s, h + 1, h + n)) = n
         /\ \A i \in 1..n : SubSeq(s, h + 1, h + n)[i] = s[h + i]
OBVIOUS

LEMMA FrontOf ==
  ASSUME NEW S, NEW s \in Seq(S), NEW n \in 0..Len(s)
  PROVE  /\ SubSeq(s, 1, n) \in Seq(S)
         /\ Len(SubSeq(s, 1, n)) = n
         /\ \A i \in 1..n : SubSeq(s, 1, n)[i] = s[i]
OBVIOUS

\* Concatenation, entry by entry.
LEMMA CatEntries ==
  ASSUME NEW S, NEW s \in Seq(S), NEW t \in Seq(S)
  PROVE  /\ \A i \in 1..Len(s) : Cat(s, t)[i] = s[i]
         /\ \A i \in 1..Len(t) : Cat(s, t)[Len(s) + i] = t[i]
BY DEF Cat

\* s starts with t: what is left is the rest.
LEMMA CutFront ==
  ASSUME NEW S, NEW s \in Seq(S), NEW t \in Seq(S), Len(t) <= Len(s),
         \A i \in 1..Len(t) : s[i] = t[i]
  PROVE  s = Cat(t, SubSeq(s, Len(t) + 1, Len(s)))
<1> DEFINE r == SubSeq(s, Len(t) + 1, Len(s))
<1>1. Len(t) \in 0..Len(s) /\ Len(t) \in Nat /\ Len(s) \in Nat
  OBVIOUS
<1>2. /\ r \in Seq(S) /\ Len(r) = Len(s) - Len(t)
      /\ \A i \in 1..(Len(s) - Len(t)) : r[i] = s[Len(t) + i]
  BY <1>1, RestOf
<1> HIDE DEF r
<1>3. Len(s) = Len(t) + Len(r)
  BY <1>1, <1>2
<1>4. \A i \in 1..Len(t) : t[i] = s[i]
  BY Zenon
<1>5. \A i \in 1..Len(r) : r[i] = s[Len(t) + i]
  BY <1>2, Zenon
<1>6. Cat(t, r) = s
  BY <1>2, <1>3, <1>4, <1>5, Glue, Zenon
<1> QED
  BY <1>6 DEF r

-----------------------------------------------------------------------------
(* Joining many sequences.  What Joined computes is shown by induction,    *)
(* in the form of a least counterexample.                                  *)

LEMMA Least ==
  ASSUME NEW T, T \subseteq Nat, T # {}
  PROVE  \E x \in T : \A y \in T : x <= y
<1>1. IsWellFoundedOn(OpToRel(<, Nat), Nat)
  BY NatLessThanWellFounded
<1>2. \E x \in T : \A y \in T : ~(<<y, x>> \in OpToRel(<, Nat))
  BY <1>1, WFMin
<1>3. \A x \in Nat, y \in Nat : y < x => <<y, x>> \in OpToRel(<, Nat)
  BY DEF OpToRel
<1>4. \E x \in T : \A y \in T : ~(y < x)
  BY <1>2, <1>3, Zenon
<1> QED
  BY <1>4

\* The function that Joined defines, the first k of f being sequences over S,
\* and f and g alike as far as n.
JoinsUp(u, f, k) == u = [i \in 0..k |-> IF i = 0 THEN <<>> ELSE u[i - 1] \o f[i]]
Pieces(f, k, S) == \A i \in 1..k : f[i] \in Seq(S)
Alike(f, g, n) == \A i \in 1..n : f[i] = g[i]
Shifted(f, g, n) == \A i \in 1..n : g[i] = f[i + 1]
Agree(u, v, n) == \A i \in 0..n : u[i] = v[i]
JoinedBy(u, f, k) == JoinsUp(u, f, k) /\ Joined(f, k) = u[k]

LEMMA JoinsUpValues ==
  ASSUME NEW u, NEW f, NEW k \in Nat, JoinsUp(u, f, k)
  PROVE  /\ u[0] = <<>>
         /\ \A i \in 1..k : u[i] = Cat(u[i - 1], f[i])
BY DEF JoinsUp, Cat

\* Longer by one.
LEMMA JoinsUpNext ==
  ASSUME NEW S, NEW f, NEW k \in Nat, f[k + 1] \in Seq(S),
         NEW u \in [0..k -> Seq(S)], JoinsUp(u, f, k)
  PROVE  \E v \in [0..(k + 1) -> Seq(S)] : JoinsUp(v, f, k + 1)
<1> DEFINE v == [i \in 0..(k + 1) |-> IF i = k + 1 THEN u[k] \o f[k + 1] ELSE u[i]]
<1>1. \A i \in 0..(k + 1) : i # k + 1 => i \in 0..k
  OBVIOUS
<1>2. v \in [0..(k + 1) -> Seq(S)]
  <2>1. u[k] \o f[k + 1] \in Seq(S)
    OBVIOUS
  <2> QED
    BY <1>1, <2>1
<1>3. ASSUME NEW i \in 0..(k + 1)
      PROVE  v[i] = IF i = 0 THEN <<>> ELSE v[i - 1] \o f[i]
  <2>1. CASE i = k + 1
    <3>1. k \in 0..(k + 1) /\ k # k + 1 /\ i - 1 = k /\ i # 0
      BY <2>1
    <3>2. v[k] = u[k] /\ v[i] = u[k] \o f[k + 1]
      BY <2>1, <3>1
    <3> QED
      BY <2>1, <3>1, <3>2, Zenon
  <2>2. CASE i # k + 1
    <3>1. i \in 0..k /\ (i # 0 => i - 1 \in 0..(k + 1) /\ i - 1 # k + 1)
      BY <2>2
    <3>2. v[i] = u[i] /\ (i # 0 => v[i - 1] = u[i - 1])
      BY <2>2, <3>1
    <3>3. u[i] = IF i = 0 THEN <<>> ELSE u[i - 1] \o f[i]
      BY <3>1 DEF JoinsUp
    <3> QED
      BY <3>2, <3>3
  <2> QED
    BY <2>1, <2>2
<1> HIDE DEF v
<1>4. v = [i \in 0..(k + 1) |-> v[i]]
  BY <1>2
<1>5. JoinsUp(v, f, k + 1)
  BY <1>3, <1>4, Zenon DEF JoinsUp
<1> QED
  BY <1>2, <1>5

LEMMA JoinsUpExists ==
  ASSUME NEW S, NEW f, NEW n \in Nat, Pieces(f, n, S)
  PROVE  \E u \in [0..n -> Seq(S)] : JoinsUp(u, f, n)
<1> DEFINE Has(k) == \E u \in [0..k -> Seq(S)] : JoinsUp(u, f, k)
           T == {k \in 0..n : ~Has(k)}
<1>1. SUFFICES ASSUME T # {} PROVE FALSE
  OBVIOUS
<1>4. Has(0)
  <2> DEFINE u == [i \in 0..0 |-> <<>>]
  <2>1. u \in [0..0 -> Seq(S)]
    OBVIOUS
  <2>2. JoinsUp(u, f, 0)
    BY DEF JoinsUp
  <2> QED
    BY <2>1, <2>2
<1>7. ASSUME NEW k \in Nat, k < n, Has(k) PROVE Has(k + 1)
  <2>1. f[k + 1] \in Seq(S)
    <3>1. k + 1 \in 1..n
      BY <1>7
    <3> QED
      BY <3>1, Zenon DEF Pieces
  <2>2. PICK u \in [0..k -> Seq(S)] : JoinsUp(u, f, k)
    BY <1>7, Zenon
  <2> QED
    BY <2>1, <2>2, JoinsUpNext, Zenon
<1> HIDE DEF Has
<1>8. T \subseteq Nat
  OBVIOUS
<1>9. \A k \in T : k \in 0..n /\ ~Has(k)
  OBVIOUS
<1>10. \A k \in 0..n : k \in T \/ Has(k)
  OBVIOUS
<1> HIDE DEF T
<1>2. PICK m \in T : \A y \in T : m <= y
  BY <1>1, <1>8, Least, Zenon
<1>3. m \in 0..n /\ ~Has(m)
  BY <1>9, Zenon
<1>5. m # 0
  BY <1>3, <1>4, Zenon
<1>6. PICK k \in Nat : m = k + 1 /\ k < n /\ k \in 0..n /\ ~(m <= k)
  <2>1. m - 1 \in Nat /\ m = (m - 1) + 1 /\ m - 1 < n /\ m - 1 \in 0..n /\ ~(m <= m - 1)
    BY <1>3, <1>5
  <2> QED
    BY <2>1
<1>11. Has(k)
  BY <1>2, <1>6, <1>10, Zenon
<1> QED
  BY <1>3, <1>6, <1>7, <1>11, Zenon

\* Two such functions agree as far as what they join does.
LEMMA JoinsUpSame ==
  ASSUME NEW f, NEW g, NEW k \in Nat, NEW l \in Nat, NEW n \in Nat, n <= k, n <= l,
         NEW u, JoinsUp(u, f, k), NEW v, JoinsUp(v, g, l), Alike(f, g, n)
  PROVE  Agree(u, v, n)
<1> DEFINE T == {i \in 0..n : u[i] # v[i]}
<1>1. SUFFICES ASSUME T # {} PROVE FALSE
  BY Zenon DEF Agree
<1>2. T \subseteq Nat
  OBVIOUS
<1>3. \A i \in T : i \in 0..n /\ u[i] # v[i]
  BY Zenon
<1>4. \A i \in 0..n : i \in T \/ u[i] = v[i]
  BY Zenon
<1> HIDE DEF T
<1>5. PICK m \in T : \A y \in T : m <= y
  BY <1>1, <1>2, Least, Zenon
<1>6. m \in 0..n /\ u[m] # v[m]
  BY <1>3, Zenon
<1>7. u[0] = <<>> /\ v[0] = <<>>
  BY JoinsUpValues, Zenon
<1>8. m # 0
  BY <1>6, <1>7, Zenon
<1>9. m - 1 \in 0..n /\ ~(m <= m - 1) /\ m \in 1..n /\ m \in 1..k /\ m \in 1..l
  BY <1>6, <1>8
<1>10. u[m - 1] = v[m - 1]
  BY <1>4, <1>5, <1>9, Zenon
<1>11. u[m] = Cat(u[m - 1], f[m])
  BY <1>9, JoinsUpValues, ZenonT(40)
<1>12. v[m] = Cat(v[m - 1], g[m])
  BY <1>9, JoinsUpValues, ZenonT(40)
<1>13. f[m] = g[m]
  BY <1>9, Zenon DEF Alike
<1> QED
  BY <1>6, <1>10, <1>11, <1>12, <1>13, Zenon

LEMMA JoinedIs ==
  ASSUME NEW S, NEW f, NEW k \in Nat, Pieces(f, k, S)
  PROVE  \E u \in [0..k -> Seq(S)] : JoinedBy(u, f, k)
<1> DEFINE w == CHOOSE u : u = [i \in 0..k |-> IF i = 0 THEN <<>> ELSE u[i - 1] \o f[i]]
<1>1. PICK u \in [0..k -> Seq(S)] : JoinsUp(u, f, k)
  BY JoinsUpExists, Zenon
<1>2. \E x : x = [i \in 0..k |-> IF i = 0 THEN <<>> ELSE x[i - 1] \o f[i]]
  BY <1>1, Zenon DEF JoinsUp
<1>3. w = [i \in 0..k |-> IF i = 0 THEN <<>> ELSE w[i - 1] \o f[i]]
  BY <1>2, Zenon
<1>4. Joined(f, k) = w[k]
  BY DEF Joined
<1> HIDE DEF w
<1>5. JoinsUp(w, f, k)
  BY <1>3, Zenon DEF JoinsUp
<1>6. k <= k /\ k \in 0..k
  OBVIOUS
<1>7. Alike(f, f, k)
  BY Zenon DEF Alike
<1>8. Agree(w, u, k)
  BY <1>1, <1>5, <1>6, <1>7, JoinsUpSame, Zenon
<1>9. w[k] = u[k]
  BY <1>6, <1>8, Zenon DEF Agree
<1> QED
  BY <1>1, <1>4, <1>9, Zenon DEF JoinedBy

\* What Joined computes.
LEMMA JoinedType ==
  ASSUME NEW S, NEW f, NEW k \in Nat, Pieces(f, k, S)
  PROVE  Joined(f, k) \in Seq(S)
<1>1. PICK u \in [0..k -> Seq(S)] : JoinedBy(u, f, k)
  BY JoinedIs, Zenon
<1>2. u[k] \in Seq(S)
  OBVIOUS
<1> QED
  BY <1>1, <1>2, Zenon DEF JoinedBy

LEMMA JoinedNone == ASSUME NEW f PROVE Joined(f, 0) = <<>>
<1>1. Pieces(f, 0, {})
  <2>1. \A i \in 1..0 : FALSE
    OBVIOUS
  <2> QED
    BY <2>1, Zenon DEF Pieces
<1>2. 0 \in Nat
  OBVIOUS
<1>3. PICK u \in [0..0 -> Seq({})] : JoinedBy(u, f, 0)
  BY <1>1, <1>2, JoinedIs, Zenon
<1> QED
  BY <1>2, <1>3, JoinsUpValues, Zenon DEF JoinedBy

LEMMA JoinedSame ==
  ASSUME NEW S, NEW f, NEW g, NEW k \in Nat, Pieces(f, k, S), Alike(f, g, k)
  PROVE  Joined(f, k) = Joined(g, k)
<1>1. PICK u \in [0..k -> Seq(S)] : JoinedBy(u, f, k)
  BY JoinedIs, Zenon
<1>2. Pieces(g, k, S)
  BY Zenon DEF Pieces, Alike
<1>3. PICK v \in [0..k -> Seq(S)] : JoinedBy(v, g, k)
  BY <1>2, JoinedIs, Zenon
<1>4. k <= k /\ k \in 0..k
  OBVIOUS
<1>5. JoinsUp(u, f, k) /\ JoinsUp(v, g, k)
  BY <1>1, <1>3, Zenon DEF JoinedBy
<1>6. Agree(u, v, k)
  BY <1>4, <1>5, JoinsUpSame, Zenon
<1>7. u[k] = v[k]
  BY <1>4, <1>6, Zenon DEF Agree
<1> QED
  BY <1>1, <1>3, <1>7, Zenon DEF JoinedBy

LEMMA JoinedNext ==
  ASSUME NEW S, NEW f, NEW k \in Nat, Pieces(f, k + 1, S)
  PROVE  Joined(f, k + 1) = Cat(Joined(f, k), f[k + 1])
<1>1. /\ k + 1 \in Nat /\ k <= k /\ k <= k + 1 /\ k \in 0..k /\ k + 1 \in 1..(k + 1)
      /\ (k + 1) - 1 = k
  OBVIOUS
<1>2. PICK u \in [0..(k + 1) -> Seq(S)] : JoinedBy(u, f, k + 1)
  BY <1>1, JoinedIs, Zenon
<1>3. Pieces(f, k, S)
  <2>1. \A i \in 1..k : i \in 1..(k + 1)
    OBVIOUS
  <2> QED
    BY <2>1, Zenon DEF Pieces
<1>4. PICK v \in [0..k -> Seq(S)] : JoinedBy(v, f, k)
  BY <1>3, JoinedIs, Zenon
<1>5. Alike(f, f, k)
  BY Zenon DEF Alike
<1>6. JoinsUp(u, f, k + 1) /\ JoinsUp(v, f, k)
  BY <1>2, <1>4, Zenon DEF JoinedBy
<1>7. Agree(u, v, k)
  BY <1>1, <1>5, <1>6, JoinsUpSame, Zenon
<1>8. u[k] = v[k]
  BY <1>1, <1>7, Zenon DEF Agree
<1>9. u[k + 1] = Cat(u[(k + 1) - 1], f[k + 1])
  BY <1>1, <1>6, JoinsUpValues, ZenonT(40)
<1>10. u[k + 1] = Cat(v[k], f[k + 1])
  BY <1>1, <1>8, <1>9, Zenon
<1> QED
  BY <1>2, <1>4, <1>10, Zenon DEF JoinedBy

\* The first of them in front, and g the others.
LEMMA JoinedShift ==
  ASSUME NEW S, NEW f, NEW g, NEW n \in Nat, Pieces(f, n + 1, S), Shifted(f, g, n)
  PROVE  Joined(f, n + 1) = Cat(f[1], Joined(g, n))
<1> DEFINE P(k) == Joined(f, k + 1) = Cat(f[1], Joined(g, k))
           T == {k \in 0..n : ~P(k)}
<1>1. SUFFICES ASSUME T # {} PROVE FALSE
  <2>1. n \in 0..n
    OBVIOUS
  <2> QED
    BY <2>1, Zenon
<1>2. \A k \in 1..(n + 1) : f[k] \in Seq(S)
  BY Zenon DEF Pieces
<1>3. \A k \in 1..n : g[k] \in Seq(S)
  <2>1. \A k \in 1..n : k + 1 \in 1..(n + 1)
    OBVIOUS
  <2> QED
    BY <1>2, <2>1, Zenon DEF Shifted
<1>4. ASSUME NEW k \in 0..n PROVE k \in Nat /\ k + 1 \in Nat /\ Pieces(f, k + 1, S) /\ Pieces(g, k, S)
  <2>1. /\ k \in Nat /\ k + 1 \in Nat
        /\ \A i \in 1..(k + 1) : i \in 1..(n + 1)
        /\ \A i \in 1..k : i \in 1..n
    OBVIOUS
  <2> QED
    BY <1>2, <1>3, <2>1, Zenon DEF Pieces
<1>5. f[1] \in Seq(S)
  <2>1. 1 \in 1..(n + 1)
    OBVIOUS
  <2> QED
    BY <1>2, <2>1, Zenon
<1>6. P(0)
  <2>1. Joined(f, 0) = <<>> /\ Joined(g, 0) = <<>>
    BY JoinedNone, Zenon
  <2>2. 0 \in 0..n /\ 0 + 1 = 1 /\ 0 \in Nat
    OBVIOUS
  <2>3. Joined(f, 0 + 1) = Cat(Joined(f, 0), f[0 + 1])
    BY <1>4, <2>2, JoinedNext, Zenon
  <2>4. Cat(<<>>, f[1]) = f[1] /\ Cat(f[1], <<>>) = f[1]
    BY <1>5, CatEmpty, Zenon
  <2> QED
    BY <2>1, <2>2, <2>3, <2>4, Zenon
<1>7. ASSUME NEW k \in Nat, k < n, P(k) PROVE P(k + 1)
  <2>1. k \in 0..n /\ k + 1 \in 0..n /\ k + 1 \in 1..n
    BY <1>7
  <2>2. Joined(f, (k + 1) + 1) = Cat(Joined(f, k + 1), f[(k + 1) + 1])
    BY <1>4, <2>1, JoinedNext, Zenon
  <2>3. Joined(g, k + 1) = Cat(Joined(g, k), g[k + 1])
    BY <1>4, <2>1, JoinedNext, Zenon
  <2>4. g[k + 1] = f[(k + 1) + 1] /\ g[k + 1] \in Seq(S)
    BY <1>3, <2>1, Zenon DEF Shifted
  <2>5. Joined(g, k) \in Seq(S)
    BY <1>4, <2>1, JoinedType, Zenon
  <2>6. Cat(Cat(f[1], Joined(g, k)), g[k + 1]) = Cat(f[1], Cat(Joined(g, k), g[k + 1]))
    BY <1>5, <2>4, <2>5, CatAssoc
  <2> QED
    BY <1>7, <2>2, <2>3, <2>4, <2>6, Zenon
<1>8. /\ T \subseteq Nat
      /\ \A k \in T : k \in 0..n /\ ~P(k)
      /\ \A k \in 0..n : k \in T \/ P(k)
  <2> HIDE DEF P
  <2>1. T \subseteq 0..n
    BY Zenon
  <2>2. 0..n \subseteq Nat
    OBVIOUS
  <2>3. \A k \in T : k \in 0..n /\ ~P(k)
    BY Zenon
  <2>4. \A k \in 0..n : k \in T \/ P(k)
    BY Zenon
  <2> HIDE DEF T
  <2> QED
    BY <2>1, <2>2, <2>3, <2>4, Zenon
<1> HIDE DEF P, T
<1>9. PICK m \in T : \A y \in T : m <= y
  BY <1>1, <1>8, Least, Zenon
<1>10. m \in 0..n /\ ~P(m)
  BY <1>8, Zenon
<1>11. m # 0
  BY <1>6, <1>10, Zenon
<1>12. PICK k \in Nat : m = k + 1 /\ k < n /\ k \in 0..n /\ ~(m <= k)
  <2>1. m - 1 \in Nat /\ m = (m - 1) + 1 /\ m - 1 < n /\ m - 1 \in 0..n /\ ~(m <= m - 1)
    BY <1>10, <1>11
  <2> QED
    BY <2>1
<1>13. P(k)
  BY <1>8, <1>9, <1>12, Zenon
<1> QED
  BY <1>7, <1>10, <1>12, <1>13, Zenon

\* More of them are a longer sequence, that starts like the shorter one.
LEMMA JoinedStarts ==
  ASSUME NEW S, NEW f, NEW n \in Nat, Pieces(f, n, S), NEW k \in 0..n
  PROVE  \E r \in Seq(S) : Joined(f, n) = Cat(Joined(f, k), r)
<1> DEFINE P(m) == \E r \in Seq(S) : Joined(f, m) = Cat(Joined(f, k), r)
           T == {m \in k..n : ~P(m)}
<1>0. \A m \in k..n : m \in Nat /\ Pieces(f, m, S)
  <2>1. \A m \in k..n : m \in Nat /\ \A i \in 1..m : i \in 1..n
    OBVIOUS
  <2> QED
    BY <2>1, Zenon DEF Pieces
<1>1. SUFFICES ASSUME T # {} PROVE FALSE
  <2>1. n \in k..n
    OBVIOUS
  <2> QED
    BY <2>1, Zenon
<1>2. k \in k..n /\ k \in Nat
  OBVIOUS
<1>3. Joined(f, k) \in Seq(S)
  BY <1>0, <1>2, JoinedType, Zenon
<1>4. P(k)
  <2>1. <<>> \in Seq(S)
    OBVIOUS
  <2>2. Cat(Joined(f, k), <<>>) = Joined(f, k)
    BY <1>3, CatEmpty, Zenon
  <2> QED
    BY <2>1, <2>2, Zenon
<1>5. ASSUME NEW m \in Nat, m >= k, m < n, P(m) PROVE P(m + 1)
  <2>1. m \in k..n /\ m + 1 \in k..n /\ m + 1 \in 1..n /\ m + 1 \in Nat
    BY <1>5
  <2>2. Joined(f, m + 1) = Cat(Joined(f, m), f[m + 1])
    BY <1>0, <2>1, JoinedNext, Zenon
  <2>3. f[m + 1] \in Seq(S)
    BY <2>1, Zenon DEF Pieces
  <2>4. PICK r \in Seq(S) : Joined(f, m) = Cat(Joined(f, k), r)
    BY <1>5, Zenon
  <2>5. Cat(Cat(Joined(f, k), r), f[m + 1]) = Cat(Joined(f, k), Cat(r, f[m + 1]))
    BY <1>3, <2>3, CatAssoc
  <2>6. Cat(r, f[m + 1]) \in Seq(S)
    BY <2>3, CatType, Zenon
  <2> QED
    BY <2>2, <2>4, <2>5, <2>6, Zenon
<1>6. /\ T \subseteq Nat
      /\ \A m \in T : m \in k..n /\ ~P(m)
      /\ \A m \in k..n : m \in T \/ P(m)
  <2> HIDE DEF P
  <2>1. T \subseteq k..n
    BY Zenon
  <2>2. k..n \subseteq Nat
    OBVIOUS
  <2>3. \A m \in T : m \in k..n /\ ~P(m)
    BY Zenon
  <2>4. \A m \in k..n : m \in T \/ P(m)
    BY Zenon
  <2> HIDE DEF T
  <2> QED
    BY <2>1, <2>2, <2>3, <2>4, Zenon
<1> HIDE DEF P, T
<1>7. PICK m \in T : \A y \in T : m <= y
  BY <1>1, <1>6, Least, Zenon
<1>8. m \in k..n /\ ~P(m)
  BY <1>6, Zenon
<1>9. m # k
  BY <1>4, <1>8, Zenon
<1>10. PICK l \in Nat : m = l + 1 /\ l >= k /\ l < n /\ l \in k..n /\ ~(m <= l)
  <2>1. m - 1 \in Nat /\ m = (m - 1) + 1 /\ m - 1 >= k /\ m - 1 < n /\ m - 1 \in k..n
        /\ ~(m <= m - 1)
    BY <1>8, <1>9
  <2> QED
    BY <2>1
<1>11. P(l)
  BY <1>6, <1>7, <1>10, Zenon
<1> QED
  BY <1>5, <1>8, <1>10, <1>11, Zenon

\* A sequence of sequences.
LEMMA PiecesOf ==
  ASSUME NEW S, NEW f \in Seq(Seq(S))
  PROVE  Len(f) \in Nat /\ Pieces(f, Len(f), S)
<1>1. \A i \in 1..Len(f) : f[i] \in Seq(S)
  BY ElementOfSeq
<1> QED
  BY <1>1 DEF Pieces

\* One more at its end, and one less in front.
LEMMA JoinedAppend ==
  ASSUME NEW S, NEW f \in Seq(Seq(S)), NEW x \in Seq(S)
  PROVE  /\ Append(f, x) \in Seq(Seq(S)) /\ Len(Append(f, x)) = Len(f) + 1
         /\ Joined(Append(f, x), Len(Append(f, x))) = Cat(Joined(f, Len(f)), x)
<1>1. PICK n \in Nat : n = Len(f)
  OBVIOUS
<1>2. PICK g \in Seq(Seq(S)) : g = Append(f, x)
  <2>1. Append(f, x) \in Seq(Seq(S))
    OBVIOUS
  <2> QED
    BY <2>1, Zenon
<1>3. Len(g) = n + 1 /\ g[n + 1] = x /\ \A i \in 1..n : f[i] = g[i]
  BY <1>1, <1>2, AppendProperties
<1>4. Pieces(g, n + 1, S) /\ Pieces(f, n, S)
  <2>1. Pieces(g, Len(g), S) /\ Pieces(f, Len(f), S)
    BY PiecesOf, Zenon
  <2> QED
    BY <1>1, <1>3, <2>1, Zenon
<1>5. Alike(f, g, n)
  BY <1>3, Zenon DEF Alike
<1>6. Joined(f, n) = Joined(g, n)
  BY <1>4, <1>5, JoinedSame
<1>7. Joined(g, n + 1) = Cat(Joined(g, n), g[n + 1])
  BY <1>4, JoinedNext, Zenon
<1> QED
  BY <1>1, <1>2, <1>3, <1>6, <1>7, Zenon

LEMMA JoinedTail ==
  ASSUME NEW S, NEW f \in Seq(Seq(S)), f # <<>>
  PROVE  /\ Tail(f) \in Seq(Seq(S)) /\ Head(f) \in Seq(S) /\ Len(Tail(f)) = Len(f) - 1
         /\ Joined(f, Len(f)) = Cat(Head(f), Joined(Tail(f), Len(Tail(f))))
<1>1. PICK n \in Nat : Len(f) = n + 1
  <2>1. Len(f) - 1 \in Nat /\ Len(f) = (Len(f) - 1) + 1
    OBVIOUS
  <2> QED
    BY <2>1
<1>2. PICK g \in Seq(Seq(S)) : g = Tail(f)
  <2>1. Tail(f) \in Seq(Seq(S))
    OBVIOUS
  <2> QED
    BY <2>1, Zenon
<1>3. Len(g) = n /\ Head(f) = f[1] /\ Head(f) \in Seq(S) /\ \A i \in 1..n : g[i] = f[i + 1]
  BY <1>1, <1>2, HeadTailProperties
<1>4. Pieces(f, n + 1, S)
  BY <1>1, PiecesOf, Zenon
<1>5. Joined(f, n + 1) = Cat(f[1], Joined(g, n))
  <2>1. Shifted(f, g, n)
    BY <1>3, Zenon DEF Shifted
  <2> QED
    BY <1>4, <2>1, JoinedShift
<1>6. Len(Tail(f)) = Len(f) - 1 /\ Tail(f) \in Seq(Seq(S))
  BY <1>1, <1>2, <1>3
<1> QED
  BY <1>1, <1>2, <1>3, <1>5, <1>6, Zenon

\* The middle of three parts.
Middle(a, b, c) ==
  /\ Len(Cat(Cat(a, b), c)) = Len(a) + Len(b) + Len(c)
  /\ \A i \in 1..Len(b) : Cat(Cat(a, b), c)[Len(a) + i] = b[i]

LEMMA CatMiddle ==
  ASSUME NEW S, NEW a \in Seq(S), NEW b \in Seq(S), NEW c \in Seq(S)
  PROVE  Cat(Cat(a, b), c) \in Seq(S) /\ Middle(a, b, c)
<1>1. PICK h \in Seq(S) : h = Cat(a, b)
  BY CatType
<1>2. Len(h) = Len(a) + Len(b)
  BY <1>1, CatLen
<1>3. Cat(h, c) \in Seq(S) /\ Len(Cat(h, c)) = Len(h) + Len(c)
  BY CatType, CatLen
<1>4. \A i \in 1..Len(h) : Cat(h, c)[i] = h[i]
  BY CatEntries
<1>5. \A i \in 1..Len(b) : Cat(a, b)[Len(a) + i] = b[i]
  BY CatEntries
<1>6. \A i \in 1..Len(b) : Len(a) + i \in 1..Len(h)
  BY <1>2
<1>7. Len(Cat(h, c)) = Len(a) + Len(b) + Len(c)
  BY <1>2, <1>3
<1> QED
  BY <1>1, <1>3, <1>4, <1>5, <1>6, <1>7, Zenon DEF Middle

\* b starts with m, or is the beginning of it.
Matches(b, m) == \A i \in 1..Len(b) : i <= Len(m) => b[i] = m[i]

\* A stream t goes on with m after a, and of it b was read after a: b and m
\* start alike.
LEMMA SameStream ==
  ASSUME NEW S, NEW a \in Seq(S), NEW b \in Seq(S), NEW c \in Seq(S), NEW m \in Seq(S),
         NEW r \in Seq(S), NEW t \in Seq(S), NEW p \in 0..Len(t),
         t = Cat(Cat(a, m), r), SubSeq(t, 1, p) = Cat(Cat(a, b), c)
  PROVE  Matches(b, m)
<1>1. /\ Len(SubSeq(t, 1, p)) = p /\ \A i \in 1..p : SubSeq(t, 1, p)[i] = t[i]
  BY FrontOf
<1>2. /\ p = Len(a) + Len(b) + Len(c)
      /\ \A i \in 1..Len(b) : SubSeq(t, 1, p)[Len(a) + i] = b[i]
  <2>1. /\ Len(Cat(Cat(a, b), c)) = Len(a) + Len(b) + Len(c)
        /\ \A i \in 1..Len(b) : Cat(Cat(a, b), c)[Len(a) + i] = b[i]
    <3>1. Middle(a, b, c)
      BY CatMiddle, Zenon
    <3> QED
      BY <3>1, Zenon DEF Middle
  <2> QED
    BY <1>1, <2>1, Zenon
<1>3. \A i \in 1..Len(m) : t[Len(a) + i] = m[i]
  <2>1. \A i \in 1..Len(m) : Cat(Cat(a, m), r)[Len(a) + i] = m[i]
    <3>1. Middle(a, m, r)
      BY CatMiddle, Zenon
    <3> QED
      BY <3>1, Zenon DEF Middle
  <2> QED
    BY <2>1, Zenon
<1> SUFFICES ASSUME NEW i \in 1..Len(b), i <= Len(m) PROVE b[i] = m[i]
  BY Zenon DEF Matches
<1>4. i \in 1..Len(m) /\ Len(a) + i \in 1..p
  <2>1. Len(a) \in Nat /\ Len(b) \in Nat /\ Len(c) \in Nat /\ Len(m) \in Nat
    OBVIOUS
  <2> QED
    BY <1>2, <2>1
<1> QED
  BY <1>1, <1>2, <1>3, <1>4, Zenon

-----------------------------------------------------------------------------
(* Integers of variable length.                                            *)

\* The bytes of a field.
LEMMA Powers ==
  /\ 256^0 = 1 /\ 256^1 = 256 /\ 256^2 = 65536 /\ 256^3 = 16777216
  /\ 2^0 = 1 /\ 2^1 = 2 /\ 2^2 = 4 /\ 2^3 = 8
  /\ 2^6 = 64 /\ 2^14 = 16384 /\ 2^30 = 1073741824
OBVIOUS

LEMMA ByteIsNat == \A b \in Byte : b \in Nat
BY DEF Byte

LEMMA ByteOfType ==
  ASSUME NEW v \in Nat, NEW k \in Nat
  PROVE  ByteOf(v, k) \in Byte
<1>1. CASE k > 3
  BY <1>1 DEF ByteOf, Byte
<1>2. CASE k \in {0, 1, 2, 3}
  BY <1>2, Powers DEF ByteOf, Byte
<1> QED
  BY <1>1, <1>2

\* What the first byte of a field is, for a value that it holds.
LEMMA FirstByte ==
  ASSUME NEW v \in Nat, NEW n \in {1, 2, 4, 8}, Holds(n, v)
  PROVE  /\ Tag(n) + ByteOf(v, n - 1) \in Byte
         /\ Width(Tag(n) + ByteOf(v, n - 1)) = n
<1>1. ByteOf(v, n - 1) \in 0..63
  <2>1. CASE n = 1
    <3>1. v < 64
      BY <2>1, Powers DEF Holds
    <3>2. ByteOf(v, n - 1) = (v \div 1) % 256
      BY <2>1, Powers DEF ByteOf
    <3> QED
      BY <3>1, <3>2
  <2>2. CASE n = 2
    <3>1. v < 16384
      BY <2>2, Powers DEF Holds
    <3>2. ByteOf(v, n - 1) = (v \div 256) % 256
      BY <2>2, Powers DEF ByteOf
    <3> QED
      BY <3>1, <3>2
  <2>3. CASE n = 4
    <3>1. v < 1073741824
      BY <2>3, Powers DEF Holds
    <3>2. ByteOf(v, n - 1) = (v \div 16777216) % 256
      BY <2>3, Powers DEF ByteOf
    <3> QED
      BY <3>1, <3>2
  <2>4. CASE n = 8
    BY <2>4 DEF ByteOf
  <2> QED
    BY <2>1, <2>2, <2>3, <2>4
<1>2. PICK q \in 0..63 : q = ByteOf(v, n - 1)
  BY <1>1
<1>3. /\ (0 + q) \div 64 = 0 /\ (64 + q) \div 64 = 1
      /\ (128 + q) \div 64 = 2 /\ (192 + q) \div 64 = 3
  OBVIOUS
<1>4. /\ Tag(1) = 0 /\ Tag(2) = 64 /\ Tag(4) = 128 /\ Tag(8) = 192
      /\ 2^0 = 1 /\ 2^1 = 2 /\ 2^2 = 4 /\ 2^3 = 8
  BY Powers DEF Tag
<1>5. Tag(n) + q \in Byte
  BY <1>4 DEF Byte
<1>6. Width(Tag(n) + q) = n
  <2>1. Width(Tag(n) + q) = 2^((Tag(n) + q) \div 64)
    BY Zenon DEF Width
  <2>2. \/ n = 1 /\ Tag(n) = 0
        \/ n = 2 /\ Tag(n) = 64
        \/ n = 4 /\ Tag(n) = 128
        \/ n = 8 /\ Tag(n) = 192
    BY DEF Tag
  <2> QED
    BY <1>3, <1>4, <2>1, <2>2, ZenonT(40)
<1> QED
  BY <1>2, <1>5, <1>6, Zenon

LEMMA FieldType ==
  ASSUME NEW v \in Nat, NEW n \in {1, 2, 4, 8}, Holds(n, v)
  PROVE  InBytes(v, n) \in Seq(Byte) /\ Len(InBytes(v, n)) = n
<1>1. \A i \in 1..n : InBytes(v, n)[i] \in Byte
  <2> SUFFICES ASSUME NEW i \in 1..n PROVE InBytes(v, n)[i] \in Byte
    BY Zenon
  <2>1. CASE i = 1
    BY <2>1, FirstByte DEF InBytes
  <2>2. CASE i # 1
    BY <2>2, ByteOfType DEF InBytes
  <2> QED
    BY <2>1, <2>2
<1>2. InBytes(v, n) \in [1..n -> Byte]
  BY <1>1 DEF InBytes
<1>3. n \in Nat
  OBVIOUS
<1> QED
  BY <1>2, <1>3, LenProperties, IsASeq

\* The function that decode_varint defines.
Digits(u, buf, i) == IF i = 1 THEN Head(buf) % 64 ELSE 256 * u[i - 1] + buf[i]
DecodesUp(u, buf, n) == u = [i \in 1..n |-> Digits(u, buf, i)]

LEMMA DecodesUpNext ==
  ASSUME NEW buf \in Seq(Byte), NEW k \in Nat, k >= 1, k + 1 <= Len(buf),
         NEW u \in [1..k -> Nat], DecodesUp(u, buf, k)
  PROVE  \E v \in [1..(k + 1) -> Nat] : DecodesUp(v, buf, k + 1)
<1> DEFINE v == [i \in 1..(k + 1) |-> IF i = k + 1 THEN 256 * u[k] + buf[k + 1] ELSE u[i]]
<1>1. \A i \in 1..(k + 1) : i # k + 1 => i \in 1..k
  OBVIOUS
<1>2. v \in [1..(k + 1) -> Nat]
  <2>1. buf[k + 1] \in Byte /\ u[k] \in Nat
    BY ElementOfSeq
  <2>2. \A x \in Nat, y \in Byte : 256 * x + y \in Nat
    BY DEF Byte
  <2>3. 256 * u[k] + buf[k + 1] \in Nat
    BY <2>1, <2>2, Zenon
  <2> QED
    BY <1>1, <2>3
<1>3. ASSUME NEW i \in 1..(k + 1)
      PROVE  v[i] = Digits(v, buf, i)
  <2>1. CASE i = k + 1
    <3>1. k \in 1..(k + 1) /\ k # k + 1 /\ i - 1 = k /\ i # 1
      BY <2>1
    <3>2. v[k] = u[k] /\ v[i] = 256 * u[k] + buf[k + 1]
      BY <2>1, <3>1
    <3> QED
      BY <2>1, <3>1, <3>2 DEF Digits
  <2>2. CASE i # k + 1
    <3>1. i \in 1..k /\ (i # 1 => i - 1 \in 1..(k + 1) /\ i - 1 # k + 1)
      BY <2>2
    <3>2. v[i] = u[i] /\ (i # 1 => v[i - 1] = u[i - 1])
      BY <2>2, <3>1
    <3>3. u[i] = Digits(u, buf, i)
      BY <3>1, Zenon DEF DecodesUp
    <3> QED
      BY <3>2, <3>3 DEF Digits
  <2> QED
    BY <2>1, <2>2
<1> HIDE DEF v
<1>4. v = [i \in 1..(k + 1) |-> v[i]]
  BY <1>2
<1>5. DecodesUp(v, buf, k + 1)
  BY <1>3, <1>4, Zenon DEF DecodesUp
<1> QED
  BY <1>2, <1>5

LEMMA DecodesUpExists ==
  ASSUME NEW buf \in Seq(Byte), NEW n \in 1..Len(buf)
  PROVE  \E u \in [1..n -> Nat] : DecodesUp(u, buf, n)
<1> DEFINE P(k) == \E u \in [1..k -> Nat] : DecodesUp(u, buf, k)
           T == {k \in 1..n : ~P(k)}
<1>1. SUFFICES ASSUME T # {} PROVE FALSE
  <2>1. n \in 1..n
    OBVIOUS
  <2> QED
    BY <2>1, Zenon
<1>2. P(1)
  <2> DEFINE u == [i \in 1..1 |-> Head(buf) % 64]
  <2>0. Head(buf) \in Byte
    OBVIOUS
  <2>1. u \in [1..1 -> Nat]
    <3>1. \A x \in Byte : x % 64 \in Nat
      BY DEF Byte
    <3>2. Head(buf) % 64 \in Nat
      BY <2>0, <3>1, Zenon
    <3> QED
      BY <3>2
  <2>2. DecodesUp(u, buf, 1)
    BY DEF DecodesUp, Digits
  <2> QED
    BY <2>1, <2>2
<1>3. ASSUME NEW k \in Nat, k >= 1, k < n, P(k) PROVE P(k + 1)
  <2>1. k + 1 <= Len(buf)
    BY <1>3
  <2>2. PICK u \in [1..k -> Nat] : DecodesUp(u, buf, k)
    BY <1>3, Zenon
  <2> QED
    BY <1>3, <2>1, <2>2, DecodesUpNext, Zenon
<1>4. /\ T \subseteq Nat
      /\ \A k \in T : k \in 1..n /\ ~P(k)
      /\ \A k \in 1..n : k \in T \/ P(k)
  <2> HIDE DEF P
  <2>1. T \subseteq 1..n
    BY Zenon
  <2>2. 1..n \subseteq Nat
    OBVIOUS
  <2>3. \A k \in T : k \in 1..n /\ ~P(k)
    BY Zenon
  <2>4. \A k \in 1..n : k \in T \/ P(k)
    BY Zenon
  <2> HIDE DEF T
  <2> QED
    BY <2>1, <2>2, <2>3, <2>4, Zenon
<1> HIDE DEF P, T
<1>5. PICK m \in T : \A y \in T : m <= y
  BY <1>1, <1>4, Least, Zenon
<1>6. m \in 1..n /\ ~P(m)
  BY <1>4, Zenon
<1>7. m # 1
  BY <1>2, <1>6, Zenon
<1>8. PICK k \in Nat : m = k + 1 /\ k >= 1 /\ k < n /\ k \in 1..n /\ ~(m <= k)
  <2>1. m - 1 \in Nat /\ m = (m - 1) + 1 /\ m - 1 >= 1 /\ m - 1 < n /\ m - 1 \in 1..n
        /\ ~(m <= m - 1)
    BY <1>6, <1>7
  <2> QED
    BY <2>1
<1>9. P(k)
  BY <1>4, <1>5, <1>8, Zenon
<1> QED
  BY <1>3, <1>6, <1>8, <1>9, Zenon

\* decode_varint on a buffer with a whole field of n bytes.
LEMMA DecodeIs ==
  ASSUME NEW buf \in Seq(Byte), buf # <<>>, NEW n \in 1..Len(buf),
         Width(Head(buf)) = n
  PROVE  \E u : DecodesUp(u, buf, n) /\ decode_varint(buf) = [v |-> u[n], len |-> n]
<1> DEFINE w == CHOOSE u : u = [i \in 1..n |-> IF i = 1 THEN Head(buf) % 64
                                              ELSE 256 * u[i - 1] + buf[i]]
<1>1. PICK u \in [1..n -> Nat] : DecodesUp(u, buf, n)
  BY DecodesUpExists, Zenon
<1>2. \E x : x = [i \in 1..n |-> IF i = 1 THEN Head(buf) % 64
                                 ELSE 256 * x[i - 1] + buf[i]]
  BY <1>1 DEF DecodesUp, Digits
<1>3. w = [i \in 1..n |-> IF i = 1 THEN Head(buf) % 64 ELSE 256 * w[i - 1] + buf[i]]
  BY <1>2, Zenon
<1>4. ~(Len(buf) < n)
  OBVIOUS
<1>5. decode_varint(buf) = [v |-> w[n], len |-> n]
  BY <1>4 DEF decode_varint
<1> HIDE DEF w
<1>6. DecodesUp(w, buf, n)
  BY <1>3 DEF DecodesUp, Digits
<1> QED
  BY <1>5, <1>6, Zenon

\* The bytes of a field make up its value.
LEMMA FieldBytes ==
  ASSUME NEW v \in Nat, NEW n \in {1, 2, 4, 8}, Holds(n, v)
  PROVE  /\ InBytes(v, n)[1] = Tag(n) + ByteOf(v, n - 1)
         /\ \A i \in 2..n : InBytes(v, n)[i] = ByteOf(v, n - i)
BY DEF InBytes

LEMMA Width1 ==
  ASSUME NEW v \in Nat, Holds(1, v)
  PROVE  (Tag(1) + ByteOf(v, 0)) % 64 = v
<1>1. v < 64
  BY Powers DEF Holds
<1>2. ByteOf(v, 0) = (v \div 1) % 256
  BY Powers DEF ByteOf
<1> QED
  BY <1>1, <1>2 DEF Tag

LEMMA Width2 ==
  ASSUME NEW v \in Nat, Holds(2, v)
  PROVE  256 * ((Tag(2) + ByteOf(v, 1)) % 64) + ByteOf(v, 0) = v
<1>1. v < 16384
  BY Powers, SMT DEF Holds
<1>2. ByteOf(v, 0) = (v \div 1) % 256 /\ ByteOf(v, 1) = (v \div 256) % 256
  BY Powers, SMT DEF ByteOf
<1>3. PICK q \in Nat, r \in 0..255 : v = 256 * q + r
  <2>1. v \div 256 \in Nat /\ v % 256 \in 0..255 /\ v = 256 * (v \div 256) + (v % 256)
    BY SMT
  <2> QED
    BY <2>1, SMT
<1>4. q < 64
  BY <1>1, <1>3, SMT
<1>5. ByteOf(v, 0) = r /\ ByteOf(v, 1) = q
  BY <1>2, <1>3, <1>4, SMT
<1>6. (64 + q) % 64 = q /\ Tag(2) = 64
  BY <1>4, SMT DEF Tag
<1>7. (Tag(2) + ByteOf(v, 1)) % 64 = q
  BY <1>5, <1>6, Zenon
<1> QED
  BY <1>3, <1>5, <1>7, SMT

\* The four bytes of v.
LEMMA FourBytes ==
  ASSUME NEW v \in Nat, v < 1073741824
  PROVE  /\ ByteOf(v, 3) \in 0..63 /\ ByteOf(v, 2) \in 0..255
         /\ ByteOf(v, 1) \in 0..255 /\ ByteOf(v, 0) \in 0..255
         /\ v = 256 * (256 * (256 * ByteOf(v, 3) + ByteOf(v, 2)) + ByteOf(v, 1)) + ByteOf(v, 0)
<1>1. /\ ByteOf(v, 0) = (v \div 1) % 256 /\ ByteOf(v, 1) = (v \div 256) % 256
      /\ ByteOf(v, 2) = (v \div 65536) % 256 /\ ByteOf(v, 3) = (v \div 16777216) % 256
  BY Powers, SMT DEF ByteOf
<1>2. PICK a \in Nat, r \in 0..255 : v = 256 * a + r
  <2>1. v \div 256 \in Nat /\ v % 256 \in 0..255 /\ v = 256 * (v \div 256) + (v % 256)
    BY SMT
  <2> QED
    BY <2>1, SMT
<1>3. PICK b \in Nat, s \in 0..255 : a = 256 * b + s
  <2>1. a \div 256 \in Nat /\ a % 256 \in 0..255 /\ a = 256 * (a \div 256) + (a % 256)
    BY SMT
  <2> QED
    BY <2>1, SMT
<1>4. PICK c \in Nat, t \in 0..255 : b = 256 * c + t
  <2>1. b \div 256 \in Nat /\ b % 256 \in 0..255 /\ b = 256 * (b \div 256) + (b % 256)
    BY SMT
  <2> QED
    BY <2>1, SMT
<1>5. c < 64
  BY <1>2, <1>3, <1>4, SMT
<1>6. (v \div 1) % 256 = r
  BY <1>2, SMT
<1>7. (v \div 256) % 256 = s
  BY <1>2, <1>3, SMT
<1>8. (v \div 65536) % 256 = t
  <2>1. v = 65536 * b + (256 * s + r) /\ 256 * s + r < 65536
    BY <1>2, <1>3, SMT
  <2>2. v \div 65536 = b
    BY <2>1, SMT
  <2> QED
    BY <2>2, <1>4, SMT
<1>9. (v \div 16777216) % 256 = c
  <2>1. v = 16777216 * c + (65536 * t + 256 * s + r) /\ 65536 * t + 256 * s + r < 16777216
    BY <1>2, <1>3, <1>4, SMT
  <2>2. v \div 16777216 = c
    BY <2>1, SMT
  <2> QED
    BY <2>2, <1>5, SMT
<1> QED
  BY <1>1, <1>2, <1>3, <1>4, <1>5, <1>6, <1>7, <1>8, <1>9, SMT

LEMMA Width4 ==
  ASSUME NEW v \in Nat, Holds(4, v)
  PROVE  256 * (256 * (256 * ((Tag(4) + ByteOf(v, 3)) % 64) + ByteOf(v, 2)) + ByteOf(v, 1))
           + ByteOf(v, 0) = v
<1>1. v < 1073741824
  BY Powers, SMT DEF Holds
<1>2. PICK q \in 0..63 : q = ByteOf(v, 3)
  BY <1>1, FourBytes, SMT
<1>3. (128 + q) % 64 = q /\ Tag(4) = 128
  BY SMT DEF Tag
<1> QED
  BY <1>1, <1>2, <1>3, FourBytes, SMT

LEMMA Width8 ==
  ASSUME NEW v \in Nat, Holds(8, v)
  PROVE  /\ (Tag(8) + ByteOf(v, 7)) % 64 = 0
         /\ ByteOf(v, 4) = 0 /\ ByteOf(v, 5) = 0 /\ ByteOf(v, 6) = 0
         /\ 256 * (256 * (256 * ByteOf(v, 3) + ByteOf(v, 2)) + ByteOf(v, 1)) + ByteOf(v, 0) = v
<1>1. v < 1073741824
  BY Powers, SMT DEF Holds
<1>2. ByteOf(v, 4) = 0 /\ ByteOf(v, 5) = 0 /\ ByteOf(v, 6) = 0 /\ ByteOf(v, 7) = 0
  BY SMT DEF ByteOf
<1>3. (192 + 0) % 64 = 0 /\ Tag(8) = 192
  BY SMT DEF Tag
<1> QED
  BY <1>1, <1>2, <1>3, FourBytes, SMT

LEMMA DecodesUpValues ==
  ASSUME NEW u, NEW buf, NEW n \in Nat, DecodesUp(u, buf, n)
  PROVE  \A i \in 1..n : u[i] = Digits(u, buf, i)
BY Zenon DEF DecodesUp

\* What the function computes for a field.
LEMMA FieldValue ==
  ASSUME NEW v \in Nat, NEW n \in {1, 2, 4, 8}, Holds(n, v), NEW buf \in Seq(Byte),
         n <= Len(buf), \A i \in 1..n : buf[i] = InBytes(v, n)[i],
         NEW u, DecodesUp(u, buf, n)
  PROVE  u[n] = v
<1>1. Head(buf) = buf[1] /\ n \in Nat /\ 1 \in 1..n
  OBVIOUS
<1>2. buf[1] = Tag(n) + ByteOf(v, n - 1) /\ \A i \in 2..n : buf[i] = ByteOf(v, n - i)
  BY <1>1, FieldBytes
<1>3. u[1] = (Tag(n) + ByteOf(v, n - 1)) % 64
  BY <1>1, <1>2, DecodesUpValues DEF Digits
<1>4. \A i \in 2..n : u[i] = 256 * u[i - 1] + ByteOf(v, n - i)
  <2> SUFFICES ASSUME NEW i \in 2..n PROVE u[i] = 256 * u[i - 1] + ByteOf(v, n - i)
    OBVIOUS
  <2>1. i \in 1..n /\ i # 1
    OBVIOUS
  <2>2. u[i] = Digits(u, buf, i)
    BY <1>1, <2>1, DecodesUpValues
  <2> QED
    BY <1>2, <2>1, <2>2 DEF Digits
<1>5. CASE n = 1
  BY <1>3, <1>5, Width1
<1>6. CASE n = 2
  BY <1>3, <1>4, <1>6, Width2
<1>7. CASE n = 4
  <2>1. /\ u[1] = (Tag(4) + ByteOf(v, 3)) % 64 /\ u[2] = 256 * u[1] + ByteOf(v, 2)
        /\ u[3] = 256 * u[2] + ByteOf(v, 1) /\ u[4] = 256 * u[3] + ByteOf(v, 0)
    BY <1>3, <1>4, <1>7, SMT
  <2> QED
    BY <2>1, <1>7, Width4, SMT
<1>8. CASE n = 8
  <2>1. /\ u[1] = (Tag(8) + ByteOf(v, 7)) % 64 /\ u[2] = 256 * u[1] + ByteOf(v, 6)
        /\ u[3] = 256 * u[2] + ByteOf(v, 5) /\ u[4] = 256 * u[3] + ByteOf(v, 4)
        /\ u[5] = 256 * u[4] + ByteOf(v, 3) /\ u[6] = 256 * u[5] + ByteOf(v, 2)
        /\ u[7] = 256 * u[6] + ByteOf(v, 1) /\ u[8] = 256 * u[7] + ByteOf(v, 0)
    BY <1>3, <1>4, <1>8, SMT
  <2>2. u[1] = 0 /\ ByteOf(v, 4) = 0 /\ ByteOf(v, 5) = 0 /\ ByteOf(v, 6) = 0
    BY <2>1, <1>8, Width8, SMT
  <2>3. u[2] = 0 /\ u[3] = 0 /\ u[4] = 0
    BY <2>1, <2>2, SMT
  <2>4. ByteOf(v, 3) \in Nat
    <3>1. ByteOf(v, 3) \in Byte
      BY ByteOfType
    <3> QED
      BY <3>1, ByteIsNat, Zenon
  <2>5. u[5] = ByteOf(v, 3)
    BY <2>1, <2>3, <2>4, SMT
  <2> QED
    BY <2>1, <2>5, <1>8, Width8, SMT
<1> QED
  BY <1>5, <1>6, <1>7, <1>8

\* A whole field at the front of buf, and the beginning of one.
LEMMA DecodeField ==
  ASSUME NEW v \in Nat, NEW n \in {1, 2, 4, 8}, Holds(n, v), NEW buf \in Seq(Byte),
         n <= Len(buf), \A i \in 1..n : buf[i] = InBytes(v, n)[i]
  PROVE  decode_varint(buf).v = v /\ decode_varint(buf).len = n
<1>1. buf # <<>> /\ n \in 1..Len(buf) /\ Head(buf) = buf[1] /\ 1 \in 1..n
  OBVIOUS
<1>2. Head(buf) = Tag(n) + ByteOf(v, n - 1)
  BY <1>1, FieldBytes
<1>3. Width(Head(buf)) = n
  BY <1>2, FirstByte
<1>4. PICK u : DecodesUp(u, buf, n) /\ decode_varint(buf) = [v |-> u[n], len |-> n]
  BY <1>1, <1>3, DecodeIs
<1>5. u[n] = v
  BY <1>4, FieldValue, SMTT(30)
<1> QED
  BY <1>4, <1>5

LEMMA DecodePart ==
  ASSUME NEW v \in Nat, NEW n \in {1, 2, 4, 8}, Holds(n, v), NEW buf \in Seq(Byte),
         Len(buf) < n, \A i \in 1..Len(buf) : buf[i] = InBytes(v, n)[i]
  PROVE  decode_varint(buf).len = 0
<1>1. CASE buf = <<>>
  BY <1>1 DEF decode_varint
<1>2. CASE buf # <<>>
  <2>1. Head(buf) = buf[1] /\ 1 \in 1..Len(buf)
    BY <1>2
  <2>2. Head(buf) = Tag(n) + ByteOf(v, n - 1)
    BY <2>1, FieldBytes
  <2>3. Width(Head(buf)) = n
    BY <2>2, FirstByte
  <2> QED
    BY <1>2, <2>3 DEF decode_varint
<1> QED
  BY <1>1, <1>2

\* A field at the front of buf, and what decode_varint makes of it.
FieldAt(buf, v, n) == n <= Len(buf) /\ \A i \in 1..n : buf[i] = InBytes(v, n)[i]
Decodes(buf, v, n) == decode_varint(buf).v = v /\ decode_varint(buf).len = n

LEMMA DecodeAt ==
  ASSUME NEW v \in Nat, NEW n \in {1, 2, 4, 8}, Holds(n, v), NEW buf \in Seq(Byte),
         FieldAt(buf, v, n)
  PROVE  Decodes(buf, v, n)
<1>1. n <= Len(buf) /\ \A i \in 1..n : buf[i] = InBytes(v, n)[i]
  BY Zenon DEF FieldAt
<1>2. decode_varint(buf).v = v /\ decode_varint(buf).len = n
  BY <1>1, DecodeField
<1> QED
  BY <1>2, Zenon DEF Decodes

\* decode_varint undoes encode_varint, for every value of the model and
\* whatever follows it in the buffer.
THEOREM VarintRoundTrip ==
  ASSUME NEW v \in Nat, v < 2^30, NEW rest \in Seq(Byte)
  PROVE  /\ decode_varint(encode_varint(v) \o rest).v = v
         /\ decode_varint(encode_varint(v) \o rest).len = varint_len(v)
<1>1. varint_len(v) \in {1, 2, 4, 8} /\ Holds(varint_len(v), v)
  BY Powers, SMT DEF varint_len, Holds
<1>2. PICK n \in {1, 2, 4, 8} : n = varint_len(v) /\ Holds(n, v)
  BY <1>1, Zenon
<1>3. PICK f \in Seq(Byte) : f = InBytes(v, n) /\ Len(f) = n
  BY <1>2, FieldType
<1>4. PICK buf \in Seq(Byte) : buf = Cat(f, rest)
  BY CatType
<1>5. n <= Len(buf) /\ \A i \in 1..n : buf[i] = InBytes(v, n)[i]
  <2>1. Len(Cat(f, rest)) = n + Len(rest)
    BY <1>3, CatLen
  <2>2. n <= n + Len(rest)
    OBVIOUS
  <2>3. \A i \in 1..Len(f) : Cat(f, rest)[i] = f[i]
    BY CatEntries
  <2> QED
    BY <1>3, <1>4, <2>1, <2>2, <2>3, Zenon
<1>6. decode_varint(buf).v = v /\ decode_varint(buf).len = n
  <2>1. FieldAt(buf, v, n)
    BY <1>5, Zenon DEF FieldAt
  <2>2. Decodes(buf, v, n)
    BY <1>2, <2>1, DecodeAt, Zenon
  <2> QED
    BY <2>2, Zenon DEF Decodes
<1> QED
  BY <1>2, <1>3, <1>4, <1>6, Zenon DEF encode_varint, Cat
=============================================================================
