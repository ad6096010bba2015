----------------------------- MODULE FoldProofs -----------------------------
(***************************************************************************)
(* Induction over sequences, for the replays, sums and concatenations that *)
(* the models write as FoldLeft: what the fold of a sequence is when one   *)
(* element is added, at either end, and which set it stays in.  The        *)
(* operator is a constant of the module, so that an INSTANCE gives the     *)
(* lemmas for each operator that is folded.                                *)
(***************************************************************************)
EXTENDS Integers, Sequences, TLAPS

LOCAL INSTANCE WellFoundedInduction

CONSTANT Op(_, _)

Greatest(T) == CHOOSE x \in T : \A y \in T : x >= y

\* FoldLeft(Op, b, s) of the community modules, written out: a recursive function
\* on the sets of indices, which takes the greatest index of a set last.
Fold(b, s) ==
  (CHOOSE it : it = [t \in SUBSET DOMAIN s |->
                       IF t = {} THEN b ELSE Op(it[t \ {Greatest(t)}], s[Greatest(t)])])[DOMAIN s]
-----------------------------------------------------------------------------
\* A non-empty set of naturals has a least element.
LEMMA NatMin ==
  ASSUME NEW T, T \subseteq Nat, T # {}
  PROVE  \E x \in T : \A y \in T : x <= y
<1> DEFINE R == OpToRel(<, Nat)
<1>1. IsWellFoundedOn(R, Nat)
  BY NatLessThanWellFounded
<1>2. \A x, y \in Nat : x < y => <<x, y>> \in R
  BY DEF OpToRel
<1> HIDE DEF R
<1>3. PICK x \in T : \A y \in T : ~(<<y, x>> \in R)
  BY <1>1, WFMin
<1>4. ASSUME NEW y \in T PROVE x <= y
  <2>1. x \in Nat /\ y \in Nat /\ ~(y < x)
    BY <1>2, <1>3
  <2> QED
    BY <2>1
<1> QED
  BY <1>4

\* Induction over the naturals, for a set of them.
LEMMA NatsBySuccessor ==
  ASSUME NEW T, 0 \in T, \A n \in T \cap Nat : n + 1 \in T
  PROVE  Nat \subseteq T
<1> SUFFICES ASSUME Nat \ T # {} PROVE FALSE
  OBVIOUS
<1>1. PICK m \in Nat \ T : \A n \in Nat \ T : m <= n
  BY NatMin
<1>2. m # 0 /\ m \in Nat
  BY <1>1
<1>3. m - 1 \in Nat /\ ~(m <= m - 1) /\ (m - 1) + 1 = m
  BY <1>2
<1>4. m - 1 \in T
  BY <1>1, <1>3
<1> QED
  BY <1>1, <1>3, <1>4

\* A bounded set of naturals has a greatest element.
LEMMA BoundedMax ==
  ASSUME NEW N \in Nat, NEW T, T \subseteq 0..N, T # {}
  PROVE  \E x \in T : \A y \in T : y <= x
<1> DEFINE U == {n \in Nat : \A y \in T : y <= n}
<1>1. N \in U
  OBVIOUS
<1>2. PICK u \in U : \A v \in U : u <= v
  BY <1>1, NatMin
<1>3. CASE u \in T
  BY <1>2, <1>3
<1>4. CASE u \notin T
  <2>1. PICK y \in T : TRUE
    OBVIOUS
  <2>2. y \in Nat /\ y <= u /\ y # u /\ u \in Nat
    BY <1>2, <1>4, <2>1
  <2>3. u - 1 \in Nat /\ ~(u <= u - 1)
    BY <2>2
  <2>4. ASSUME NEW z \in T PROVE z <= u - 1
    <3>1. z \in Nat /\ z <= u /\ z # u
      BY <1>2, <1>4, <2>4
    <3> QED
      BY <2>2, <3>1
  <2>5. u - 1 \in U
    BY <2>3, <2>4
  <2> QED
    BY <1>2, <2>3, <2>5
<1> QED
  BY <1>3, <1>4
-----------------------------------------------------------------------------
(***************************************************************************)
(* FoldLeft is a recursive function on the sets of indices, which takes    *)
(* the greatest index off.  That there is such a function is shown by      *)
(* induction on the length.                                                *)
(***************************************************************************)
Steps(it, b, s, n) ==
  it = [t \in SUBSET (1..n) |-> IF t = {} THEN b ELSE Op(it[t \ {Greatest(t)}], s[Greatest(t)])]

Iter(b, s, n) == CHOOSE it : Steps(it, b, s, n)

\* The definition of FoldLeft.
LEMMA FoldIter ==
  ASSUME NEW S, NEW s \in Seq(S), NEW b
  PROVE  Fold(b, s) = Iter(b, s, Len(s))[1..Len(s)]
<1>1. DOMAIN s = 1..Len(s)
  OBVIOUS
<1> QED
  BY <1>1, Zenon DEF Fold, Iter, Steps

\* The greatest element of a set of indices, when it is known.
LEMMA MaxIs ==
  ASSUME NEW T, T \subseteq Nat, NEW m \in T, \A x \in T : x <= m
  PROVE  Greatest(T) = m
<1>1. \E x \in T : \A y \in T : x >= y
  OBVIOUS
<1>2. Greatest(T) \in T /\ \A y \in T : Greatest(T) >= y
  BY <1>1 DEF Greatest
<1>3. Greatest(T) \in Nat /\ m \in Nat /\ Greatest(T) <= m /\ Greatest(T) >= m
  BY <1>2
<1> QED
  BY <1>3

\* The recursion has a solution for every length.
LEMMA IterExists ==
  ASSUME NEW b, NEW s, NEW n \in Nat
  PROVE  \E it : Steps(it, b, s, n)
<1> DEFINE T == {m \in Nat : \E it : Steps(it, b, s, m)}
<1>1. 0 \in T
  <2> DEFINE it == [t \in SUBSET (1..0) |-> b]
  <2>1. Steps(it, b, s, 0)
    <3>1. \A t \in SUBSET (1..0) : t = {}
      OBVIOUS
    <3> QED
      BY <3>1 DEF Steps
  <2> QED
    BY <2>1
<1>2. ASSUME NEW m \in T \cap Nat PROVE m + 1 \in T
  <2>1. PICK g : Steps(g, b, s, m)
    OBVIOUS
  <2> DEFINE it == [t \in SUBSET (1..(m + 1)) |->
                      IF m + 1 \in t THEN Op(g[t \ {m + 1}], s[m + 1]) ELSE g[t]]
             body(t) == IF t = {} THEN b ELSE Op(it[t \ {Greatest(t)}], s[Greatest(t)])
  <2>2. ASSUME NEW t \in SUBSET (1..m) PROVE it[t] = g[t] /\ t \in SUBSET (1..(m + 1))
    <3>1. m + 1 \notin t /\ t \in SUBSET (1..(m + 1))
      OBVIOUS
    <3> QED
      BY <3>1
  <2>3. ASSUME NEW t \in SUBSET (1..(m + 1)) PROVE it[t] = body(t)
    <3>1. CASE m + 1 \in t
      <4>1. Greatest(t) = m + 1
        <5>1. t \subseteq Nat /\ \A x \in t : x <= m + 1
          OBVIOUS
        <5> QED
          BY <3>1, <5>1, MaxIs
      <4>2. t \ {m + 1} \in SUBSET (1..m)
        OBVIOUS
      <4>3. it[t \ {m + 1}] = g[t \ {m + 1}]
        BY <2>2, <4>2
      <4>4. it[t] = Op(g[t \ {m + 1}], s[m + 1])
        BY <3>1
      <4> HIDE DEF it
      <4> QED
        BY <3>1, <4>1, <4>3, <4>4
    <3>2. CASE m + 1 \notin t
      <4>0. ASSUME NEW x \in t PROVE x \in 1..m
        <5>1. x \in 1..(m + 1) /\ x # m + 1
          BY <3>2
        <5> QED
          BY <5>1
      <4>1. t \in SUBSET (1..m) /\ t \ {Greatest(t)} \in SUBSET (1..m)
        BY <4>0, Zenon
      <4>2. it[t] = g[t] /\ it[t \ {Greatest(t)}] = g[t \ {Greatest(t)}]
        BY <2>2, <4>1
      <4> HIDE DEF it
      <4>3. g[t] = IF t = {} THEN b ELSE Op(g[t \ {Greatest(t)}], s[Greatest(t)])
        BY <2>1, <4>1 DEF Steps
      <4> QED
        BY <4>2, <4>3
    <3> QED
      BY <3>1, <3>2
  <2>4. it = [t \in SUBSET (1..(m + 1)) |-> it[t]]
    OBVIOUS
  <2> HIDE DEF it
  <2>5. Steps(it, b, s, m + 1)
    BY <2>3, <2>4 DEF Steps
  <2> QED
    BY <2>5
<1> HIDE DEF T
<1>3. n \in T
  BY <1>1, <1>2, NatsBySuccessor
<1> QED
  BY <1>3 DEF T

\* One step of the recursion, along the prefixes of the indices.
LEMMA IterSteps ==
  ASSUME NEW b, NEW s, NEW n \in Nat
  PROVE  /\ Iter(b, s, n)[1..0] = b
         /\ \A k \in 1..n : Iter(b, s, n)[1..k] = Op(Iter(b, s, n)[1..(k - 1)], s[k])
<1> DEFINE it == Iter(b, s, n)
<1>1. Steps(it, b, s, n)
  BY IterExists DEF Iter
<1> HIDE DEF it
<1>2. it[1..0] = b
  <2>1. 1..0 = {} /\ {} \in SUBSET (1..n)
    OBVIOUS
  <2> QED
    BY <1>1, <2>1 DEF Steps
<1>3. ASSUME NEW k \in 1..n PROVE it[1..k] = Op(it[1..(k - 1)], s[k])
  <2>1. 1..k \in SUBSET (1..n) /\ 1..k # {} /\ (1..k) \ {k} = 1..(k - 1)
    OBVIOUS
  <2>2. Greatest(1..k) = k
    <3>1. 1..k \subseteq Nat /\ k \in 1..k /\ \A x \in 1..k : x <= k
      OBVIOUS
    <3> HIDE DEF it
    <3> QED
      BY <3>1, MaxIs, Zenon
  <2> QED
    BY <1>1, <2>1, <2>2 DEF Steps
<1> QED
  BY <1>2, <1>3 DEF it

\* Two sequences that agree up to j have the same fold up to j.
LEMMA IterAgree ==
  ASSUME NEW b, NEW s, NEW u, NEW n \in Nat, NEW m \in Nat, NEW j \in Nat, j <= n, j <= m,
         \A i \in 1..j : s[i] = u[i]
  PROVE  Iter(b, s, n)[1..j] = Iter(b, u, m)[1..j]
<1> DEFINE T == {k \in Nat : k <= j => Iter(b, s, n)[1..k] = Iter(b, u, m)[1..k]}
<1>1. 0 \in T
  BY IterSteps
<1>2. ASSUME NEW k \in T \cap Nat PROVE k + 1 \in T
  <2> SUFFICES ASSUME k + 1 <= j PROVE Iter(b, s, n)[1..(k + 1)] = Iter(b, u, m)[1..(k + 1)]
    OBVIOUS
  <2>1. Iter(b, s, n)[1..k] = Iter(b, u, m)[1..k]
    OBVIOUS
  <2>2. k + 1 \in 1..n /\ k + 1 \in 1..m /\ k + 1 \in 1..j /\ (k + 1) - 1 = k
    OBVIOUS
  <2>3. Iter(b, s, n)[1..(k + 1)] = Op(Iter(b, s, n)[1..k], s[k + 1])
    BY <2>2, IterSteps
  <2>4. Iter(b, u, m)[1..(k + 1)] = Op(Iter(b, u, m)[1..k], u[k + 1])
    BY <2>2, IterSteps
  <2> QED
    BY <2>1, <2>2, <2>3, <2>4
<1> HIDE DEF T
<1>3. j \in T
  BY <1>1, <1>2, NatsBySuccessor
<1> QED
  BY <1>3 DEF T
-----------------------------------------------------------------------------
(***************************************************************************)
(* What the models use.                                                    *)
(***************************************************************************)
\* Nothing to fold.
LEMMA FoldEmpty == ASSUME NEW b PROVE Fold(b, <<>>) = b
<1>1. <<>> \in Seq({}) /\ Len(<<>>) = 0
  OBVIOUS
<1>2. Fold(b, <<>>) = Iter(b, <<>>, 0)[1..0]
  BY <1>1, FoldIter
<1> QED
  BY <1>2, IterSteps

\* One more element at the end.
LEMMA FoldAppend ==
  ASSUME NEW S, NEW s \in Seq(S), NEW e \in S, NEW b
  PROVE  Fold(b, Append(s, e)) = Op(Fold(b, s), e)
<1> DEFINE a == Append(s, e)
           n == Len(s)
<1>1. /\ a \in Seq(S) /\ Len(a) = n + 1 /\ n \in Nat /\ a[n + 1] = e
      /\ \A i \in 1..n : s[i] = a[i]
  OBVIOUS
<1>2. Fold(b, a) = Iter(b, a, Len(a))[1..Len(a)] /\ Fold(b, s) = Iter(b, s, n)[1..n]
  BY <1>1, FoldIter
<1> HIDE DEF a, n
<1>3. n + 1 \in Nat /\ n + 1 \in 1..(n + 1) /\ (n + 1) - 1 = n /\ n <= n + 1 /\ n <= n
  BY <1>1
<1>4. Iter(b, a, n + 1)[1..(n + 1)] = Op(Iter(b, a, n + 1)[1..((n + 1) - 1)], a[n + 1])
  BY <1>3, IterSteps
<1>5. Iter(b, s, n)[1..n] = Iter(b, a, n + 1)[1..n]
  BY <1>1, <1>3, IterAgree
<1>6. Fold(b, a) = Op(Fold(b, s), e)
  BY <1>1, <1>2, <1>3, <1>4, <1>5
<1> QED
  BY <1>6 DEF a

\* A non-empty sequence is one more element at the end of another.
LEMMA SplitLast ==
  ASSUME NEW S, NEW n \in Nat, NEW s \in Seq(S), Len(s) = n + 1
  PROVE  \E r \in Seq(S), e \in S : s = Append(r, e) /\ Len(r) = n
<1> DEFINE r == SubSeq(s, 1, n)
<1>1. r \in Seq(S) /\ Len(r) = n /\ \A i \in 1..n : r[i] = s[i]
  OBVIOUS
<1>2. n + 1 \in 1..Len(s)
  OBVIOUS
<1>3. s[n + 1] \in S
  BY <1>2
<1> DEFINE a == Append(r, s[n + 1])
<1> HIDE DEF r
<1>4. a \in Seq(S) /\ Len(a) = n + 1 /\ a[n + 1] = s[n + 1] /\ \A i \in 1..n : a[i] = r[i]
  BY <1>1, <1>3
<1> HIDE DEF a
<1>5. ASSUME NEW i \in 1..Len(s) PROVE s[i] = a[i]
  <2>1. i \in 1..n \/ i = n + 1
    OBVIOUS
  <2> QED
    BY <1>1, <1>4, <2>1
<1>6. s = a
  BY <1>4, <1>5
<1> QED
  BY <1>1, <1>3, <1>6 DEF a

\* The fold stays in a set that its operator does not leave.
LEMMA FoldType ==
  ASSUME NEW S, NEW V, NEW b \in V, \A v \in V, e \in S : Op(v, e) \in V, NEW s \in Seq(S)
  PROVE  Fold(b, s) \in V
<1> DEFINE T == {n \in Nat : \A r \in Seq(S) : Len(r) = n => Fold(b, r) \in V}
<1>1. 0 \in T
  <2>1. \A r \in Seq(S) : Len(r) = 0 => r = <<>>
    OBVIOUS
  <2> QED
    BY <2>1, FoldEmpty
<1>2. ASSUME NEW n \in T \cap Nat PROVE n + 1 \in T
  <2> SUFFICES ASSUME NEW r \in Seq(S), Len(r) = n + 1 PROVE Fold(b, r) \in V
    OBVIOUS
  <2>1. PICK q \in Seq(S), e \in S : r = Append(q, e) /\ Len(q) = n
    BY SplitLast
  <2>2. Fold(b, r) = Op(Fold(b, q), e)
    BY <2>1, FoldAppend
  <2> QED
    BY <2>1, <2>2
<1> HIDE DEF T
<1>3. Len(s) \in Nat
  OBVIOUS
<1>4. Len(s) \in T
  BY <1>1, <1>2, <1>3, NatsBySuccessor
<1> QED
  BY <1>4 DEF T

\* To fold two sequences is to fold the second one from where the first ends.
LEMMA FoldConcat ==
  ASSUME NEW S, NEW s \in Seq(S), NEW t \in Seq(S), NEW b
  PROVE  Fold(b, s \o t) = Fold(Fold(b, s), t)
<1> DEFINE T == {n \in Nat : \A r \in Seq(S) : Len(r) = n => Fold(b, s \o r) = Fold(Fold(b, s), r)}
<1>1. 0 \in T
  <2>1. \A r \in Seq(S) : Len(r) = 0 => r = <<>>
    OBVIOUS
  <2>2. s \o <<>> = s
    OBVIOUS
  <2> QED
    BY <2>1, <2>2, FoldEmpty
<1>2. ASSUME NEW n \in T \cap Nat PROVE n + 1 \in T
  <2> SUFFICES ASSUME NEW r \in Seq(S), Len(r) = n + 1
               PROVE  Fold(b, s \o r) = Fold(Fold(b, s), r)
    OBVIOUS
  <2>1. PICK q \in Seq(S), e \in S : r = Append(q, e) /\ Len(q) = n
    BY SplitLast
  <2>2. s \o r = Append(s \o q, e) /\ s \o q \in Seq(S)
    <3>1. <<e>> \in Seq(S) /\ s \o q \in Seq(S)
      OBVIOUS
    <3>2. r = q \o <<e>> /\ Append(s \o q, e) = (s \o q) \o <<e>>
      BY <2>1, <3>1
    <3> QED
      BY <3>1, <3>2
  <2>3. Fold(b, Append(s \o q, e)) = Op(Fold(b, s \o q), e)
    BY <2>2, FoldAppend, Zenon
  <2>4. Fold(Fold(b, s), r) = Op(Fold(Fold(b, s), q), e)
    BY <2>1, FoldAppend
  <2>5. Fold(b, s \o q) = Fold(Fold(b, s), q)
    BY <2>1
  <2> QED
    BY <2>2, <2>3, <2>4, <2>5, Zenon
<1> HIDE DEF T
<1>3. Len(t) \in Nat
  OBVIOUS
<1>4. Len(t) \in T
  BY <1>1, <1>2, <1>3, NatsBySuccessor
<1> QED
  BY <1>4 DEF T

\* The first element is folded first.
LEMMA FoldHead ==
  ASSUME NEW S, NEW s \in Seq(S), s # <<>>, NEW b
  PROVE  Fold(b, s) = Fold(Op(b, Head(s)), Tail(s))
<1> DEFINE h == Head(s)
<1>1. h \in S /\ Tail(s) \in Seq(S) /\ <<h>> \in Seq(S) /\ <<>> \in Seq(S)
  OBVIOUS
<1> HIDE DEF h
<1>2. <<h>> \o Tail(s) = s
  BY <1>1 DEF h
<1>3. Append(<<>>, h) = <<h>>
  BY <1>1
<1>4. Fold(b, <<h>>) = Op(b, h)
  <2>1. Fold(b, Append(<<>>, h)) = Op(Fold(b, <<>>), h)
    BY <1>1, FoldAppend, Zenon
  <2> QED
    BY <1>3, <2>1, FoldEmpty, Zenon
<1>5. Fold(b, <<h>> \o Tail(s)) = Fold(Fold(b, <<h>>), Tail(s))
  BY <1>1, FoldConcat
<1> QED
  BY <1>2, <1>4, <1>5 DEF h
=============================================================================
