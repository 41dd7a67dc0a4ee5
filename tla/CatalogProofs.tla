------------------------------ MODULE CatalogProofs ------------------------------
(***************************************************************************)
(* Proofs about Catalog: that a listing comes back from its split as it was *)
(* (split_listing, render_listing), and what every event that a relay or a  *)
(* reader holds still has of the publication it belongs to.  The folds of   *)
(* Listing are given the form of loops first, as in HandoffProofs.          *)
(***************************************************************************)
EXTENDS Catalog, SequenceTheorems, NaturalsInduction, WellFoundedInduction, TLAPS

(* induction up to n, of a set of numbers *)
LEMMA UpTo ==
    ASSUME NEW n \in Nat, NEW P, 0 \in P, \A k \in 1..n : k - 1 \in P => k \in P
    PROVE  \A k \in 0..n : k \in P
<1> DEFINE R == OpToRel(<, Nat)
           T == {k \in 0..n : k \notin P}
<1> SUFFICES ASSUME T # {} PROVE FALSE
    OBVIOUS
<1>1. IsWellFoundedOn(R, Nat) /\ \A x, y \in Nat : <<y, x>> \in R <=> y < x
    BY NatLessThanWellFounded DEF OpToRel
<1> HIDE DEF R
<1>2. T \subseteq Nat
    OBVIOUS
<1>3. PICK x \in T : \A y \in T : <<y, x>> \notin R
    BY <1>1, <1>2, WFMin
<1>4. x \in 1..n /\ x - 1 \in 0..n /\ x - 1 \in Nat /\ x - 1 < x
    BY <1>3
<1>5. x - 1 \in P
  <2>1. <<x - 1, x>> \in R
      BY <1>1, <1>4
  <2>2. x - 1 \notin T
      BY <1>3, <2>1, Zenon
  <2> QED
      BY <1>4, <2>2
<1> QED
    BY <1>3, <1>4, <1>5

LEMMA MaxIs ==
    ASSUME NEW k \in Nat, NEW s \in SUBSET (1..k), k \in s
    PROVE  Max(s) = k
<1>1. \A y \in s : k >= y
    OBVIOUS
<1>2. \A x \in s : (\A y \in s : x >= y) => x = k
    OBVIOUS
<1> QED
    BY <1>1, <1>2 DEF Max

LEMMA LastOf ==
    ASSUME NEW k \in Nat, NEW s \in SUBSET (1..k)
    PROVE  \/ k \in s /\ Max(s) = k /\ s # {} /\ s \ {k} \in SUBSET (1..(k - 1)) /\ k \in 1..k
           \/ s \in SUBSET (1..(k - 1))
BY MaxIs

LEMMA MaxWithin ==
    ASSUME NEW n \in Nat, NEW s \in SUBSET (1..n), s # {}
    PROVE  Max(s) \in s /\ Max(s) \in 1..n
<1> DEFINE P == {k \in 0..n : \A t \in SUBSET (1..k) : t # {} => Max(t) \in t}
<1>1. 0 \in P
  <2>1. 0 \in 0..n /\ \A t \in SUBSET (1..0) : t = {}
      OBVIOUS
  <2> QED
      BY <2>1
<1>2. ASSUME NEW k \in 1..n, k - 1 \in P PROVE k \in P
    BY <1>2, LastOf
<1> HIDE DEF P
<1>3. n \in P
    BY <1>1, <1>2, UpTo
<1> QED
    BY <1>3 DEF P

LEMMA UpToMax ==
    ASSUME NEW k \in Nat \ {0}
    PROVE  1..k # {} /\ Max(1..k) = k /\ (1..k) \ {k} = 1..(k - 1)
<1>1. k \in 1..k /\ (1..k) \ {k} = 1..(k - 1)
    OBVIOUS
<1> QED
    BY <1>1, MaxIs

(* g is the function over sets of indices that a fold from the left evaluates *)
Folds(g, n, y0, G) ==
    \A s \in SUBSET (1..n) : g[s] = IF s = {} THEN y0 ELSE G[<<Max(s), g[s \ {Max(s)}]>>]

LEMMA FoldExists ==
    ASSUME NEW n \in Nat, NEW Y, NEW y0 \in Y, NEW G \in [(1..n) \X Y -> Y]
    PROVE  \E g \in [SUBSET (1..n) -> Y] : Folds(g, n, y0, G)
<1> DEFINE Step(g, s) == g[s] = IF s = {} THEN y0 ELSE G[<<Max(s), g[s \ {Max(s)}]>>]
           P == {k \in 0..n : \E g \in [SUBSET (1..n) -> Y] : \A s \in SUBSET (1..k) : Step(g, s)}
<1>1. 0 \in P
  <2> DEFINE g == [s \in SUBSET (1..n) |-> y0]
  <2>1. g \in [SUBSET (1..n) -> Y]
      OBVIOUS
  <2>2. ASSUME NEW s \in SUBSET (1..0) PROVE Step(g, s)
    <3>1. s = {} /\ s \in SUBSET (1..n)
        OBVIOUS
    <3> QED
        BY <3>1
  <2> HIDE DEF g, Step
  <2>3. 0 \in 0..n
      OBVIOUS
  <2> QED
      BY <2>1, <2>2, <2>3, Zenon
<1>2. ASSUME NEW k \in 1..n, k - 1 \in P PROVE k \in P
  <2>1. PICK g \in [SUBSET (1..n) -> Y] : \A s \in SUBSET (1..(k - 1)) : Step(g, s)
      BY <1>2
  <2> DEFINE h == [s \in SUBSET (1..n) |->
                       IF s \in SUBSET (1..(k - 1)) THEN g[s] ELSE G[<<k, g[s \ {k}]>>]]
  <2>2. h \in [SUBSET (1..n) -> Y]
    <3> SUFFICES ASSUME NEW s \in SUBSET (1..n) PROVE G[<<k, g[s \ {k}]>>] \in Y
        OBVIOUS
    <3>1. s \ {k} \in SUBSET (1..n)
        OBVIOUS
    <3> QED
        BY <3>1
  <2>3. ASSUME NEW s \in SUBSET (1..k) PROVE Step(h, s)
    <3>1. k \in Nat /\ s \in SUBSET (1..n)
        OBVIOUS
    <3>2. CASE s \in SUBSET (1..(k - 1))
      <4>1. h[s] = g[s] /\ Step(g, s)
          BY <2>1, <3>1, <3>2
      <4>2. CASE s = {}
          BY <4>1, <4>2
      <4>3. CASE s # {}
        <5>1. s \ {Max(s)} \in SUBSET (1..(k - 1)) /\ s \ {Max(s)} \in SUBSET (1..n)
            BY <3>1, <3>2
        <5>2. h[s \ {Max(s)}] = g[s \ {Max(s)}]
            BY <5>1
        <5> QED
            BY <4>1, <4>3, <5>2
      <4> QED
          BY <4>2, <4>3
    <3>3. CASE s \notin SUBSET (1..(k - 1))
      <4>1. k \in s /\ Max(s) = k /\ s # {} /\ s \ {k} \in SUBSET (1..(k - 1))
          BY <3>1, <3>3, LastOf
      <4>2. s \ {k} \in SUBSET (1..n)
          BY <3>1
      <4>3. h[s] = G[<<k, g[s \ {k}]>>] /\ h[s \ {k}] = g[s \ {k}]
          BY <3>1, <3>3, <4>1, <4>2
      <4> QED
          BY <4>1, <4>3
    <3> QED
        BY <3>2, <3>3
  <2> HIDE DEF h, Step
  <2>4. k \in 0..n
      OBVIOUS
  <2> QED
      BY <2>2, <2>3, <2>4, Zenon
<1> HIDE DEF P
<1>3. n \in P
    BY <1>1, <1>2, UpTo
<1> QED
    BY <1>3, Zenon DEF P, Folds

(* J[1..k] goes on as a loop does, and w is that loop *)
Iterates(J, n, Y, y0, G) ==
    J[{}] = y0 /\ \A k \in 1..n : J[1..(k - 1)] \in Y => J[1..k] = G[<<k, J[1..(k - 1)]>>]

Loops(w, n, Y, y0, G) ==
    w \in [0..n -> Y] /\ w[0] = y0 /\ \A k \in 1..n : w[k] = G[<<k, w[k - 1]>>]

LoopOf(J, n) == [k \in 0..n |-> J[1..k]]

LEMMA LoopIs ==
    ASSUME NEW n \in Nat, NEW Y, NEW y0 \in Y, NEW G \in [(1..n) \X Y -> Y], NEW J,
           Iterates(J, n, Y, y0, G)
    PROVE  Loops(LoopOf(J, n), n, Y, y0, G)
<1> DEFINE P == {k \in 0..n : J[1..k] \in Y}
           w == [k \in 0..n |-> J[1..k]]
<1>1. \A k \in 0..n : k \in P
  <2>1. 1..0 = {} /\ 0 \in 0..n
      OBVIOUS
  <2>2. 0 \in P
      BY <2>1 DEF Iterates
  <2>3. ASSUME NEW k \in 1..n, k - 1 \in P PROVE k \in P
    <3>1. k \in 0..n /\ J[1..(k - 1)] \in Y /\ <<k, J[1..(k - 1)]>> \in (1..n) \X Y
        BY <2>3
    <3> QED
        BY <3>1 DEF Iterates
  <2> HIDE DEF P
  <2> QED
      BY <2>2, <2>3, UpTo
<1>2. w \in [0..n -> Y] /\ w[0] = y0
  <2>1. 0 \in 0..n /\ n \in 0..n /\ 1..0 = {}
      OBVIOUS
  <2> QED
      BY <1>1, <2>1 DEF Iterates
<1>3. \A k \in 1..n : w[k] = G[<<k, w[k - 1]>>]
    BY <1>1 DEF Iterates
<1> QED
    BY <1>2, <1>3 DEF Loops, LoopOf

-----------------------------------------------------------------------------
(* Concatenation *)

Items(s) == {s[i] : i \in 1..Len(s)}

LEMMA ItemsConcat ==
    ASSUME NEW S, NEW s \in Seq(S), NEW t \in Seq(S)
    PROVE  Items(s \o t) = Items(s) \cup Items(t)
<1>1. /\ Len(s) \in Nat /\ Len(t) \in Nat /\ Len(s \o t) = Len(s) + Len(t)
      /\ \A i \in 1..(Len(s) + Len(t)) : (s \o t)[i] = IF i <= Len(s) THEN s[i] ELSE t[i - Len(s)]
    BY LenProperties, ConcatProperties
<1> DEFINE both == s \o t
           a == Len(s)
           b == Len(t)
<1> HIDE DEF both, a, b
<1>2. /\ a \in Nat /\ b \in Nat /\ Len(both) = a + b
      /\ \A i \in 1..(a + b) : both[i] = IF i <= a THEN s[i] ELSE t[i - a]
    BY <1>1, Zenon DEF both, a, b
<1>3. ASSUME NEW i \in 1..(a + b)
      PROVE  (\E j \in 1..a : both[i] = s[j]) \/ (\E j \in 1..b : both[i] = t[j])
  <2>1. CASE i <= a
    <3>1. i \in 1..a
        BY <1>2, <2>1
    <3> QED
        BY <1>2, <2>1, <3>1
  <2>2. CASE ~(i <= a)
    <3>1. i - a \in 1..b
        BY <1>2, <2>2
    <3> QED
        BY <1>2, <2>2, <3>1
  <2> QED
      BY <2>1, <2>2
<1>4. ASSUME NEW j \in 1..a PROVE \E i \in 1..(a + b) : both[i] = s[j]
  <2>1. j \in 1..(a + b) /\ j <= a
      BY <1>2
  <2> QED
      BY <1>2, <2>1
<1>5. ASSUME NEW j \in 1..b PROVE \E i \in 1..(a + b) : both[i] = t[j]
  <2>1. a + j \in 1..(a + b) /\ ~(a + j <= a) /\ (a + j) - a = j
      BY <1>2
  <2>2. both[a + j] = t[(a + j) - a]
      BY <1>2, <2>1
  <2> QED
      BY <2>1, <2>2
<1>6. {both[i] : i \in 1..(a + b)} = {s[j] : j \in 1..a} \cup {t[j] : j \in 1..b}
    BY <1>3, <1>4, <1>5
<1> QED
    BY <1>2, <1>6, Zenon DEF Items, both, a, b

LEMMA ConcatSteps ==
    ASSUME NEW S, NEW seqs \in Seq(Seq(S))
    PROVE  \E w \in [0..Len(seqs) -> Seq(S)] :
               /\ w[0] = <<>> /\ Concat(seqs) = w[Len(seqs)]
               /\ \A k \in 1..Len(seqs) : w[k] = w[k - 1] \o seqs[k]
<1> DEFINE n == Len(seqs)
           Y == Seq(S)
           G == [a \in (1..n) \X Y |-> a[2] \o seqs[a[1]]]
<1>1. n \in Nat /\ DOMAIN seqs = 1..n /\ (\A i \in 1..n : seqs[i] \in Y) /\ <<>> \in Y
    BY EmptySeq
<1>2. G \in [(1..n) \X Y -> Y]
    BY <1>1, ConcatProperties
<1>3. PICK g \in [SUBSET (1..n) -> Y] :
          \A s \in SUBSET (1..n) : g[s] = IF s = {} THEN <<>> ELSE G[<<Max(s), g[s \ {Max(s)}]>>]
  <2>1. \E g \in [SUBSET (1..n) -> Y] : Folds(g, n, <<>>, G)
    <3> HIDE DEF G, n, Y
    <3> QED
        BY <1>1, <1>2, FoldExists
  <2> QED
      BY <2>1, Zenon DEF Folds
<1> DEFINE Loop(h) == h = [s \in SUBSET (DOMAIN seqs) |->
                               IF s = {} THEN <<>>
                               ELSE LET x == Max(s) IN h[s \ {x}] \o seqs[x]]
           J == CHOOSE h : Loop(h)
<1>4. Concat(seqs) = J[DOMAIN seqs]
    BY Zenon DEF Concat, FoldLeft, MapThenFoldSet
<1>5. Loop(J)
  <2>1. ASSUME NEW s \in SUBSET (1..n)
        PROVE  g[s] = IF s = {} THEN <<>> ELSE g[s \ {Max(s)}] \o seqs[Max(s)]
    <3>1. CASE s = {}
        BY <1>3, <3>1
    <3>2. CASE s # {}
      <4>1. Max(s) \in 1..n
          BY <1>1, <3>2, MaxWithin
      <4>2. s \ {Max(s)} \in SUBSET (1..n)
          OBVIOUS
      <4>3. g[s \ {Max(s)}] \in Y
          BY <1>3, <4>2
      <4>4. G[<<Max(s), g[s \ {Max(s)}]>>] = g[s \ {Max(s)}] \o seqs[Max(s)]
          BY <4>1, <4>3
      <4> QED
          BY <1>3, <3>2, <4>4
    <3> QED
        BY <3>1, <3>2
  <2>2. g = [s \in SUBSET (1..n) |-> g[s]]
      BY <1>3
  <2>3. Loop(g)
      BY <1>1, <2>1, <2>2
  <2> QED
      BY <2>3
<1> HIDE DEF J
<1>6. \A s \in SUBSET (1..n) : J[s] = IF s = {} THEN <<>> ELSE J[s \ {Max(s)}] \o seqs[Max(s)]
    BY <1>1, <1>5
<1>7. J[{}] = <<>> /\ J[1..n] = Concat(seqs)
    BY <1>1, <1>4, <1>6
<1>8. ASSUME NEW k \in 1..n PROVE J[1..k] = J[1..(k - 1)] \o seqs[k]
  <2>1. k \in Nat \ {0} /\ 1..k \in SUBSET (1..n)
      BY <1>1
  <2>2. 1..k # {} /\ Max(1..k) = k /\ (1..k) \ {k} = 1..(k - 1)
      BY <2>1, UpToMax
  <2> QED
      BY <1>6, <2>1, <2>2
<1>9. Iterates(J, n, Y, <<>>, G)
    BY <1>7, <1>8 DEF Iterates
<1> DEFINE w == LoopOf(J, n)
<1>10. Loops(w, n, Y, <<>>, G)
  <2> HIDE DEF G, n, Y
  <2>1. n \in Nat /\ <<>> \in Y
      BY <1>1
  <2> QED
      BY <1>2, <1>9, <2>1, LoopIs
<1>11. w[n] = J[1..n]
    BY <1>1 DEF LoopOf
<1> HIDE DEF w
<1>12. ASSUME NEW k \in 1..n PROVE w[k] = w[k - 1] \o seqs[k]
  <2>1. k - 1 \in 0..n
      BY <1>1
  <2>2. <<k, w[k - 1]>> \in (1..n) \X Y
      BY <1>10, <2>1 DEF Loops
  <2> QED
      BY <1>10, <2>2 DEF Loops
<1> QED
    BY <1>7, <1>10, <1>12, <1>11 DEF Loops

LEMMA ConcatType ==
    ASSUME NEW S, NEW seqs \in Seq(Seq(S))
    PROVE  Concat(seqs) \in Seq(S)
<1>1. PICK w \in [0..Len(seqs) -> Seq(S)] : Concat(seqs) = w[Len(seqs)]
    BY ConcatSteps, Zenon
<1>2. Len(seqs) \in 0..Len(seqs)
    BY LenProperties
<1> QED
    BY <1>1, <1>2

LEMMA ConcatNothing == ASSUME NEW S PROVE Concat(<<>>) = <<>>
<1>1. <<>> \in Seq(Seq(S)) /\ Len(<<>>) = 0
    BY EmptySeq
<1> DEFINE none == <<>>
<1>2. \E w \in [0..Len(none) -> Seq(S)] : w[0] = <<>> /\ Concat(none) = w[Len(none)]
  <2>1. none \in Seq(Seq(S))
      BY <1>1
  <2> HIDE DEF none
  <2> QED
      BY <2>1, ConcatSteps, Zenon
<1> QED
    BY <1>1, <1>2

(* one more sequence at the end *)
LEMMA ConcatAppend ==
    ASSUME NEW S, NEW seqs \in Seq(Seq(S)), NEW s \in Seq(S)
    PROVE  Concat(Append(seqs, s)) = Concat(seqs) \o s
<1> DEFINE n == Len(seqs)
           more == Append(seqs, s)
<1>1. /\ n \in Nat /\ more \in Seq(Seq(S)) /\ Len(more) = n + 1 /\ more[n + 1] = s
      /\ \A k \in 1..n : more[k] = seqs[k]
    BY LenProperties, AppendProperties
<1>2. PICK w \in [0..n -> Seq(S)] : /\ w[0] = <<>> /\ Concat(seqs) = w[n]
                                    /\ \A k \in 1..n : w[k] = w[k - 1] \o seqs[k]
    BY ConcatSteps, Zenon
<1>3. PICK v \in [0..Len(more) -> Seq(S)] :
          /\ v[0] = <<>> /\ Concat(more) = v[Len(more)]
          /\ \A k \in 1..Len(more) : v[k] = v[k - 1] \o more[k]
  <2> HIDE DEF more
  <2> QED
      BY <1>1, ConcatSteps, Zenon
<1> HIDE DEF more
<1> DEFINE P == {k \in 0..n : v[k] = w[k]}
<1>4. n \in P
  <2>1. 0 \in P
      BY <1>1, <1>2, <1>3
  <2>2. ASSUME NEW k \in 1..n, k - 1 \in P PROVE k \in P
    <3>1. k \in 1..Len(more) /\ k \in 0..n /\ more[k] = seqs[k] /\ v[k - 1] = w[k - 1]
        BY <1>1, <2>2
    <3>2. v[k] = v[k - 1] \o more[k] /\ w[k] = w[k - 1] \o seqs[k]
        BY <1>2, <1>3, <3>1
    <3> QED
        BY <3>1, <3>2
  <2> HIDE DEF P
  <2>3. \A k \in 0..n : k \in P
      BY <1>1, <2>1, <2>2, UpTo
  <2> QED
      BY <1>1, <2>3
<1>5. v[n + 1] = v[n] \o s
  <2>1. n + 1 \in 1..Len(more) /\ (n + 1) - 1 = n
      BY <1>1
  <2> QED
      BY <1>1, <1>3, <2>1
<1> QED
    BY <1>1, <1>2, <1>3, <1>4, <1>5 DEF more

(* what a concatenation has is in one of its sequences, and the other way round *)
LEMMA ConcatItems ==
    ASSUME NEW S, NEW seqs \in Seq(Seq(S))
    PROVE  Items(Concat(seqs)) = UNION {Items(seqs[k]) : k \in 1..Len(seqs)}
<1> DEFINE n == Len(seqs)
           Of(k) == UNION {Items(seqs[m]) : m \in 1..k}
<1>1. n \in Nat /\ \A k \in 1..n : seqs[k] \in Seq(S)
    BY LenProperties, ElementOfSeq
<1>2. PICK w \in [0..n -> Seq(S)] : /\ w[0] = <<>> /\ Concat(seqs) = w[n]
                                    /\ \A k \in 1..n : w[k] = w[k - 1] \o seqs[k]
    BY ConcatSteps, Zenon
<1> DEFINE P == {k \in 0..n : Items(w[k]) = Of(k)}
<1> HIDE DEF n
<1>3. 0 \in P
  <2>1. Items(<<>>) = {} /\ 1..0 = {} /\ 0 \in 0..n
      BY <1>1 DEF Items
  <2> QED
      BY <1>2, <2>1
<1>4. ASSUME NEW k \in 1..n, k - 1 \in P PROVE k \in P
  <2>1. k \in 0..n /\ k - 1 \in 0..n /\ 1..k = (1..(k - 1)) \cup {k}
      BY <1>1
  <2>2. w[k - 1] \in Seq(S) /\ seqs[k] \in Seq(S) /\ w[k] = w[k - 1] \o seqs[k]
      BY <1>1, <1>2, <2>1
  <2>3. Items(w[k]) = Items(w[k - 1]) \cup Items(seqs[k])
      BY <2>2, ItemsConcat
  <2>4. Of(k) = Of(k - 1) \cup Items(seqs[k])
      BY <2>1
  <2> QED
      BY <1>4, <2>1, <2>3, <2>4
<1> HIDE DEF P
<1>5. n \in P
  <2>1. \A k \in 0..n : k \in P
      BY <1>1, <1>3, <1>4, UpTo
  <2> QED
      BY <1>1, <2>1
<1> QED
    BY <1>2, <1>5 DEF P, n

-----------------------------------------------------------------------------
(* Splitting *)

Acc == [chunks : Seq(Seq(Entry)), current : Seq(Entry)]

LEMMA ChangeCurrent ==
    ASSUME NEW A, NEW B, NEW acc \in [chunks : A, current : B], NEW x
    PROVE  [acc EXCEPT !.current = x] = [chunks |-> acc.chunks, current |-> x]
OBVIOUS

LEMMA AddEntryType ==
    ASSUME NEW acc \in Acc, NEW e \in Entry
    PROVE  /\ AddEntry(acc, e) \in Acc
           /\ \/ AddEntry(acc, e) = [chunks |-> Append(acc.chunks, acc.current), current |-> <<e>>]
              \/ AddEntry(acc, e) = [chunks |-> acc.chunks, current |-> Append(acc.current, e)]
<1> DEFINE next == [chunks |-> Append(acc.chunks, acc.current), current |-> <<e>>]
           same == [chunks |-> acc.chunks, current |-> Append(acc.current, e)]
<1>1. acc.chunks \in Seq(Seq(Entry)) /\ acc.current \in Seq(Entry)
    BY DEF Acc
<1>2. /\ Append(acc.chunks, acc.current) \in Seq(Seq(Entry)) /\ <<e>> \in Seq(Entry)
      /\ Append(acc.current, e) \in Seq(Entry)
    BY <1>1, AppendProperties
<1>3. next \in Acc /\ same \in Acc
    BY <1>1, <1>2 DEF Acc
<1>4. [acc EXCEPT !.current = Append(@, e)] = same
  <2> DEFINE one == Append(acc.current, e)
  <2>1. acc \in [chunks : Seq(Seq(Entry)), current : Seq(Entry)]
      BY DEF Acc
  <2> HIDE DEF one
  <2>2. [acc EXCEPT !.current = one] = [chunks |-> acc.chunks, current |-> one]
      BY <2>1, ChangeCurrent
  <2> QED
      BY <2>2, Zenon DEF one
<1> QED
    BY <1>3, <1>4 DEF AddEntry

LEMMA ChunkSteps ==
    ASSUME NEW entries \in Seq(Entry)
    PROVE  \E w \in [0..Len(entries) -> Acc] :
               /\ w[0] = [chunks |-> <<>>, current |-> <<>>]
               /\ \A k \in 1..Len(entries) : w[k] = AddEntry(w[k - 1], entries[k])
               /\ FoldLeft(AddEntry, [chunks |-> <<>>, current |-> <<>>], entries) = w[Len(entries)]
<1> DEFINE n == Len(entries)
           y0 == [chunks |-> <<>>, current |-> <<>>]
           G == [a \in (1..n) \X Acc |-> AddEntry(a[2], entries[a[1]])]
<1>1. n \in Nat /\ DOMAIN entries = 1..n /\ (\A i \in 1..n : entries[i] \in Entry) /\ y0 \in Acc
    BY EmptySeq DEF Acc
<1>2. G \in [(1..n) \X Acc -> Acc]
    BY <1>1, AddEntryType
<1> HIDE DEF y0
<1>3. PICK g \in [SUBSET (1..n) -> Acc] :
          \A s \in SUBSET (1..n) : g[s] = IF s = {} THEN y0 ELSE G[<<Max(s), g[s \ {Max(s)}]>>]
  <2>1. \E g \in [SUBSET (1..n) -> Acc] : Folds(g, n, y0, G)
    <3> HIDE DEF G, n
    <3> QED
        BY <1>1, <1>2, FoldExists
  <2> QED
      BY <2>1, Zenon DEF Folds
<1> DEFINE Loop(h) == h = [s \in SUBSET (DOMAIN entries) |->
                               IF s = {} THEN y0
                               ELSE LET x == Max(s) IN AddEntry(h[s \ {x}], entries[x])]
           J == CHOOSE h : Loop(h)
<1>4. FoldLeft(AddEntry, y0, entries) = J[DOMAIN entries]
    BY Zenon DEF FoldLeft, MapThenFoldSet
<1>5. Loop(J)
  <2>1. ASSUME NEW s \in SUBSET (1..n)
        PROVE  g[s] = IF s = {} THEN y0 ELSE AddEntry(g[s \ {Max(s)}], entries[Max(s)])
    <3>1. CASE s = {}
        BY <1>3, <3>1
    <3>2. CASE s # {}
      <4>1. Max(s) \in 1..n
          BY <1>1, <3>2, MaxWithin
      <4>2. s \ {Max(s)} \in SUBSET (1..n)
          OBVIOUS
      <4>3. g[s \ {Max(s)}] \in Acc
          BY <1>3, <4>2
      <4>4. G[<<Max(s), g[s \ {Max(s)}]>>] = AddEntry(g[s \ {Max(s)}], entries[Max(s)])
          BY <4>1, <4>3
      <4> QED
          BY <1>3, <3>2, <4>4
    <3> QED
        BY <3>1, <3>2
  <2>2. g = [s \in SUBSET (1..n) |-> g[s]]
      BY <1>3
  <2>3. Loop(g)
      BY <1>1, <2>1, <2>2
  <2> QED
      BY <2>3
<1> HIDE DEF J
<1>6. \A s \in SUBSET (1..n) :
          J[s] = IF s = {} THEN y0 ELSE AddEntry(J[s \ {Max(s)}], entries[Max(s)])
    BY <1>1, <1>5
<1>7. J[{}] = y0 /\ J[1..n] = FoldLeft(AddEntry, y0, entries)
    BY <1>1, <1>4, <1>6
<1>8. ASSUME NEW k \in 1..n PROVE J[1..k] = AddEntry(J[1..(k - 1)], entries[k])
  <2>1. k \in Nat \ {0} /\ 1..k \in SUBSET (1..n)
      BY <1>1
  <2>2. 1..k # {} /\ Max(1..k) = k /\ (1..k) \ {k} = 1..(k - 1)
      BY <2>1, UpToMax
  <2> QED
      BY <1>6, <2>1, <2>2
<1>9. Iterates(J, n, Acc, y0, G)
    BY <1>7, <1>8 DEF Iterates
<1> DEFINE w == LoopOf(J, n)
<1>10. Loops(w, n, Acc, y0, G)
  <2> HIDE DEF G, n
  <2>1. n \in Nat /\ y0 \in Acc
      BY <1>1
  <2> QED
      BY <1>2, <1>9, <2>1, LoopIs
<1>11. w[n] = J[1..n]
    BY <1>1 DEF LoopOf
<1> HIDE DEF w
<1>12. ASSUME NEW k \in 1..n PROVE w[k] = AddEntry(w[k - 1], entries[k])
  <2>1. k - 1 \in 0..n
      BY <1>1
  <2>2. <<k, w[k - 1]>> \in (1..n) \X Acc
      BY <1>10, <2>1 DEF Loops
  <2> QED
      BY <1>10, <2>2 DEF Loops
<1> QED
    BY <1>7, <1>10, <1>12, <1>11 DEF Loops, y0

(* The chunks are the listing, cut *)
LEMMA ChunksWhole ==
    ASSUME NEW entries \in Seq(Entry)
    PROVE  Chunks(entries) \in Seq(Seq(Entry)) /\ Concat(Chunks(entries)) = entries
<1> DEFINE n == Len(entries)
           Upto(k) == SubSeq(entries, 1, k)
<1>1. n \in Nat /\ \A k \in 1..n : entries[k] \in Entry
    OBVIOUS
<1>2. PICK w \in [0..n -> Acc] :
          /\ w[0] = [chunks |-> <<>>, current |-> <<>>]
          /\ \A k \in 1..n : w[k] = AddEntry(w[k - 1], entries[k])
          /\ FoldLeft(AddEntry, [chunks |-> <<>>, current |-> <<>>], entries) = w[n]
    BY ChunkSteps, Zenon
<1> DEFINE P == {k \in 0..n : Concat(w[k].chunks) \o w[k].current = Upto(k)}
<1>3. 0 \in P
  <2>1. Concat(<<>>) = <<>>
      BY ConcatNothing
  <2>2. Upto(0) = <<>>
      BY SubSeqEmpty
  <2>3. <<>> \o <<>> = <<>>
      BY ConcatEmptySeq, EmptySeq
  <2> QED
      BY <1>1, <1>2, <2>1, <2>2, <2>3
<1> HIDE DEF n
<1>4. ASSUME NEW k \in 1..n, k - 1 \in P PROVE k \in P
  <2> DEFINE acc == w[k - 1]
             next == w[k]
             e == entries[k]
  <2>1. k - 1 \in 0..n /\ k \in 0..n
      BY <1>1
  <2>2. /\ acc \in Acc /\ e \in Entry /\ next = AddEntry(acc, e)
        /\ Concat(acc.chunks) \o acc.current = Upto(k - 1)
      BY <1>1, <1>2, <1>4, <2>1
  <2>3. Upto(k) = Upto(k - 1) \o <<e>>
    <3>1. 1 \in 1..n /\ k \in 1..n
        BY <1>1
    <3> QED
        BY <3>1, SubSeqRecursiveSecond DEF n
  <2> DEFINE chunks == acc.chunks
             current == acc.current
  <2> HIDE DEF acc, next, e, Upto, P
  <2>4. chunks \in Seq(Seq(Entry)) /\ current \in Seq(Entry)
      BY <2>2 DEF Acc
  <2>5. Concat(chunks) \in Seq(Entry) /\ <<e>> \in Seq(Entry)
      BY <2>2, <2>4, ConcatType
  <2>6. k \in P <=> Concat(next.chunks) \o next.current = Upto(k)
      BY <2>1 DEF P, next
  <2>7. Concat(chunks) \o current = Upto(k - 1)
      BY <2>2
  <2> HIDE DEF chunks, current
  <2>8. CASE next = [chunks |-> Append(chunks, current), current |-> <<e>>]
    <3>1. Concat(Append(chunks, current)) = Concat(chunks) \o current
        BY <2>4, ConcatAppend
    <3> QED
        BY <2>3, <2>8, <2>6, <2>7, <3>1
  <2>9. CASE next = [chunks |-> chunks, current |-> Append(current, e)]
    <3>1. Append(current, e) = current \o <<e>>
      <4>1. e \in Entry /\ current \in Seq(Entry)
          BY <2>2, <2>4
      <4> QED
          BY <4>1, AppendIsConcat, Zenon
    <3>2. (Concat(chunks) \o current) \o <<e>> = Concat(chunks) \o (current \o <<e>>)
      <4>1. Concat(chunks) \in Seq(Entry) /\ current \in Seq(Entry) /\ <<e>> \in Seq(Entry)
          BY <2>4, <2>5
      <4> HIDE DEF e
      <4> QED
          BY <4>1, ConcatAssociative
    <3>3. Concat(chunks) \o (current \o <<e>>) = Upto(k)
        BY <2>3, <2>7, <3>2, Zenon
    <3> QED
        BY <2>9, <2>6, <3>1, <3>3
  <2> QED
      BY <2>2, <2>8, <2>9, AddEntryType DEF chunks, current
<1> DEFINE acc == w[n]
<1>5. /\ acc \in Acc /\ acc.chunks \in Seq(Seq(Entry)) /\ acc.current \in Seq(Entry)
      /\ Concat(acc.chunks) \o acc.current = entries
  <2> HIDE DEF P
  <2>1. \A k \in 0..n : k \in P
      BY <1>1, <1>3, <1>4, UpTo
  <2>2. n \in P
      BY <1>1, <2>1
  <2>3. Upto(n) = entries
      BY SubSeqFull DEF n
  <2>4. acc \in Acc
      BY <1>1, <1>2
  <2> QED
      BY <2>2, <2>3, <2>4 DEF P, Acc
<1>6. Chunks(entries) = IF acc.current = <<>> THEN acc.chunks ELSE Append(acc.chunks, acc.current)
    BY <1>2, Zenon DEF Chunks
<1> HIDE DEF acc
<1>7. CASE acc.current = <<>>
  <2>1. Concat(acc.chunks) \o <<>> = Concat(acc.chunks)
      BY <1>5, ConcatType, ConcatEmptySeq
  <2> QED
      BY <1>5, <1>6, <1>7, <2>1
<1>8. CASE acc.current # <<>>
  <2>1. Append(acc.chunks, acc.current) \in Seq(Seq(Entry))
      BY <1>5, AppendProperties
  <2>2. Concat(Append(acc.chunks, acc.current)) = entries
      BY <1>5, ConcatAppend
  <2> QED
      BY <1>6, <1>8, <2>1, <2>2
<1> QED
    BY <1>7, <1>8

(* what a split is: a single event, or an index and the chunks *)
SplitSound(entries, S) ==
    /\ Len(S) \in Nat \ {0} /\ DOMAIN S = 1..Len(S)
    /\ \A j \in 1..Len(S) : S[j].d = j - 1
    /\ \/ Len(S) = 1 /\ S[1].json = Plain(entries)
       \/ /\ S[1].json = Index(Len(S) - 1)
          /\ Len(Chunks(entries)) = Len(S) - 1
          /\ \A j \in 2..Len(S) : S[j].json = Part(Chunks(entries)[j - 1], j - 2, Len(S) - 1)

LEMMA SplitIs ==
    ASSUME NEW entries \in Seq(Entry)
    PROVE  SplitListing(entries) \in Seq([d : Nat, json : Payload])
           /\ SplitSound(entries, SplitListing(entries))
<1> DEFINE S == SplitListing(entries)
           T == [d : Nat, json : Payload]
           chunks == Chunks(entries)
           n == Len(chunks)
           head == <<[d |-> IndexTag, json |-> Index(n)]>>
           tail == [i \in 1..n |-> [d |-> PartTag(i - 1), json |-> Part(chunks[i], i - 1, n)]]
<1>1. chunks \in Seq(Seq(Entry)) /\ n \in Nat /\ \A i \in 1..n : chunks[i] \in Seq(Entry)
  <2>1. chunks \in Seq(Seq(Entry))
      BY ChunksWhole
  <2> HIDE DEF chunks
  <2> QED
      BY <2>1, LenProperties, ElementOfSeq
<1> HIDE DEF chunks
<1>2. CASE S = <<[d |-> IndexTag, json |-> Plain(entries)]>>
  <2>1. Plain(entries) \in Payload
      BY DEF Plain, Payload
  <2> QED
      BY <1>2, <2>1 DEF IndexTag, SplitSound
<1>3. CASE S = head \o tail
  <2>1. head \in Seq(T) /\ Len(head) = 1
    <3>1. Index(n) \in Payload
        BY <1>1, EmptySeq DEF Index, Payload
    <3> QED
        BY <3>1 DEF IndexTag
  <2>2. tail \in Seq(T) /\ Len(tail) = n
    <3>1. ASSUME NEW i \in 1..n PROVE tail[i] \in T
      <4>1. Part(chunks[i], i - 1, n) \in Payload /\ PartTag(i - 1) \in Nat
          BY <1>1 DEF Part, Payload, PartTag
      <4> QED
          BY <4>1
    <3> QED
        BY <1>1, <3>1
  <2>3. /\ S \in Seq(T) /\ Len(S) = n + 1
        /\ \A j \in 1..(n + 1) : S[j] = IF j <= 1 THEN head[j] ELSE tail[j - 1]
    <3>1. head \o tail \in Seq(T) /\ Len(head \o tail) = 1 + n
          /\ \A j \in 1..(1 + n) : (head \o tail)[j] = IF j <= 1 THEN head[j] ELSE tail[j - 1]
      <4> HIDE DEF head, tail, T, n
      <4>1. /\ head \o tail \in Seq(T) /\ Len(head \o tail) = Len(head) + Len(tail)
            /\ \A j \in 1..(Len(head) + Len(tail)) :
                   (head \o tail)[j] = IF j <= Len(head) THEN head[j] ELSE tail[j - Len(head)]
          BY <2>1, <2>2, ConcatProperties
      <4> DEFINE both == head \o tail
      <4> HIDE DEF both
      <4> QED
          BY <2>1, <2>2, <4>1 DEF both
    <3>2. 1 + n = n + 1
        BY <1>1
    <3> HIDE DEF head, tail, T, n, S
    <3> QED
        BY <1>3, <3>1, <3>2
  <2>4. ASSUME NEW j \in 2..Len(S)
        PROVE  S[j].d = j - 1 /\ S[j].json = Part(chunks[j - 1], j - 2, Len(S) - 1)
    <3>1. j \in 1..(n + 1) /\ ~(j <= 1) /\ j - 1 \in 1..n /\ (j - 1) - 1 = j - 2 /\ (j - 2) + 1 = j - 1
          /\ Len(S) - 1 = n
        BY <1>1, <2>3
    <3>2. S[j] = [d |-> PartTag((j - 1) - 1), json |-> Part(chunks[j - 1], (j - 1) - 1, n)]
        BY <2>3, <3>1
    <3> QED
        BY <3>1, <3>2 DEF PartTag
  <2>5. S[1].d = 0 /\ S[1].json = Index(Len(S) - 1)
    <3>1. S[1] = head[1] /\ Len(S) - 1 = n
      <4> HIDE DEF head, tail, T, n, S
      <4> QED
          BY <1>1, <2>3
    <3> QED
        BY <3>1 DEF IndexTag
  <2>6. \A j \in 1..Len(S) : j = 1 \/ j \in 2..Len(S)
      BY <1>1, <2>3
  <2>7. Len(S) \in Nat \ {0} /\ DOMAIN S = 1..Len(S) /\ n = Len(S) - 1
      BY <1>1, <2>3, LenProperties
  <2> HIDE DEF S
  <2>8. SplitSound(entries, S)
      BY <2>4, <2>5, <2>6, <2>7 DEF SplitSound, chunks
  <2> QED
      BY <2>3, <2>8 DEF S
<1>4. S = <<[d |-> IndexTag, json |-> Plain(entries)]>> \/ S = head \o tail
    BY Zenon DEF SplitListing, chunks
<1> QED
    BY <1>2, <1>3, <1>4

-----------------------------------------------------------------------------
(* Rendering *)

OfForm(found, form) == {d \in DOMAIN found : found[d].form = form}

SlotOf(found, i) == {d \in OfForm(found, "part") : found[d].part = i}

ChunkOf(found, i) ==
    IF SlotOf(found, i) = {} THEN <<>> ELSE found[CHOOSE d \in SlotOf(found, i) : TRUE].entries

WholeOf(found) == CHOOSE d \in OfForm(found, "plain") : TRUE

PartsIn(found) == found[CHOOSE d \in OfForm(found, "index") : TRUE].parts

Refused(found, n) ==
    \/ n > MaxListingParts
    \/ \E d \in OfForm(found, "part") : ~FitsIndex(found[d], n)
    \/ \E d, e \in OfForm(found, "part") : d # e /\ found[d].part = found[e].part

LEMMA RenderIs ==
    ASSUME NEW found
    PROVE  /\ OfForm(found, "plain") # {} /\ DOMAIN found = {WholeOf(found)}
              => RenderListing(found) = Rendered(found[WholeOf(found)].entries, 1, {})
           /\ OfForm(found, "plain") # {} /\ DOMAIN found # {WholeOf(found)}
              => RenderListing(found) = Failed
           /\ OfForm(found, "plain") = {} /\ OfForm(found, "index") = {}
              => RenderListing(found) = Failed
           /\ /\ OfForm(found, "plain") = {} /\ OfForm(found, "index") # {}
              /\ Refused(found, PartsIn(found))
              => RenderListing(found) = Failed
           /\ /\ OfForm(found, "plain") = {} /\ OfForm(found, "index") # {}
              /\ ~Refused(found, PartsIn(found))
              => RenderListing(found)
                 = Rendered(Concat([i \in 1..PartsIn(found) |-> ChunkOf(found, i - 1)]), PartsIn(found),
                            {i \in 0..(PartsIn(found) - 1) : SlotOf(found, i) = {}})
BY Zenon DEF RenderListing, OfForm, SlotOf, ChunkOf, WholeOf, PartsIn, Refused

(* An entry is shown only out of a whole listing, or out of a part that      *)
(* counts the parts as the index does                                       *)
LEMMA ShownFrom ==
    ASSUME NEW found, found \in [DOMAIN found -> Payload],
           NEW e \in Items(RenderListing(found).entries)
    PROVE  \E d \in DOMAIN found :
               /\ e \in Items(found[d].entries)
               /\ \/ found[d].form = "plain" /\ RenderListing(found).total = 1
                  \/ found[d].form = "part" /\ found[d].parts = RenderListing(found).total
<1> DEFINE D == DOMAIN found
           R == RenderListing(found)
           n == PartsIn(found)
           plain == OfForm(found, "plain")
           chunks == [i \in 1..n |-> ChunkOf(found, i - 1)]
<1>1. DOMAIN found = D /\ \A d \in D : found[d] \in Payload
    OBVIOUS
<1>2. R = RenderListing(found) /\ e \in Items(R.entries)
    OBVIOUS
<1> HIDE DEF R
<1>3. R # Failed
    BY <1>2 DEF Failed, Items
<1>4. CASE plain # {} /\ DOMAIN found = {WholeOf(found)}
  <2>1. R = Rendered(found[WholeOf(found)].entries, 1, {})
      BY <1>2, <1>4, RenderIs, Zenon
  <2>2. WholeOf(found) \in plain
      BY <1>4 DEF WholeOf
  <2>3. WholeOf(found) \in D /\ found[WholeOf(found)].form = "plain"
      BY <2>2 DEF OfForm
  <2>4. R.entries = found[WholeOf(found)].entries /\ R.total = 1
      BY <2>1 DEF Rendered
  <2> QED
      BY <1>2, <2>3, <2>4
<1>5. CASE plain = {} /\ OfForm(found, "index") # {} /\ ~Refused(found, n)
  <2>1. R = Rendered(Concat(chunks), n, {i \in 0..(n - 1) : SlotOf(found, i) = {}})
    <3> HIDE DEF plain
    <3> QED
        BY <1>2, <1>5, RenderIs, Zenon DEF plain, n, chunks
  <2>2. R.entries = Concat(chunks) /\ R.total = n
      BY <2>1 DEF Rendered
  <2>3. n \in Nat
    <3>1. (CHOOSE d \in OfForm(found, "index") : TRUE) \in OfForm(found, "index")
        BY <1>5
    <3>2. (CHOOSE d \in OfForm(found, "index") : TRUE) \in D
        BY <3>1 DEF OfForm
    <3> QED
        BY <1>1, <3>2 DEF PartsIn, Payload
  <2>4. ASSUME NEW i \in 1..n PROVE ChunkOf(found, i - 1) \in Seq(Entry)
    <3>1. CASE SlotOf(found, i - 1) = {}
        BY <3>1, EmptySeq DEF ChunkOf
    <3>2. CASE SlotOf(found, i - 1) # {}
      <4>1. PICK d \in SlotOf(found, i - 1) : ChunkOf(found, i - 1) = found[d].entries
          BY <3>2 DEF ChunkOf
      <4>2. d \in D
          BY <4>1 DEF SlotOf, OfForm
      <4> QED
          BY <1>1, <4>1, <4>2 DEF Payload
    <3> QED
        BY <3>1, <3>2
  <2>5. chunks \in Seq(Seq(Entry)) /\ Len(chunks) = n
      BY <2>3, <2>4
  <2>6. PICK i \in 1..n : e \in Items(chunks[i])
    <3> HIDE DEF chunks, n
    <3>1. Items(Concat(chunks)) = UNION {Items(chunks[i]) : i \in 1..n}
        BY <2>5, ConcatItems, Zenon
    <3> QED
        BY <1>2, <2>2, <3>1
  <2>7. e \in Items(ChunkOf(found, i - 1))
      BY <2>6
  <2>8. SlotOf(found, i - 1) # {}
      BY <2>7 DEF ChunkOf, Items
  <2>9. PICK d \in SlotOf(found, i - 1) : ChunkOf(found, i - 1) = found[d].entries
      BY <2>8 DEF ChunkOf
  <2>10. d \in OfForm(found, "part")
      BY <2>9 DEF SlotOf
  <2>11. FitsIndex(found[d], n)
      BY <1>5, <2>10 DEF Refused
  <2>12. d \in D /\ found[d].form = "part" /\ found[d].parts = R.total
      BY <2>2, <2>10, <2>11 DEF OfForm, FitsIndex
  <2> QED
      BY <1>2, <2>7, <2>9, <2>12
<1>6. \E d \in D : /\ e \in Items(found[d].entries)
                   /\ \/ found[d].form = "plain" /\ R.total = 1
                      \/ found[d].form = "part" /\ found[d].parts = R.total
    BY <1>3, <1>2, <1>4, <1>5, RenderIs, Zenon
<1> QED
    BY <1>6, Zenon DEF R

(* one payload for every d-tag of a split, and the right one *)
Carries(found, S) ==
    /\ found \in [{S[j].d : j \in 1..Len(S)} -> Payload]
    /\ \A j \in 1..Len(S) : found[S[j].d] = S[j].json

(* A listing that is split into no more parts than a reader accepts comes    *)
(* back as it was, whatever its entries weigh (split_listing and            *)
(* render_listing, each the other's inverse).                               *)
THEOREM SplitComesBack ==
    ASSUME NEW entries \in Seq(Entry), Len(SplitListing(entries)) - 1 <= MaxListingParts,
           NEW found, Carries(found, SplitListing(entries))
    PROVE  /\ RenderListing(found).ok /\ RenderListing(found).entries = entries
           /\ RenderListing(found).missing = {}
<1> DEFINE S == SplitListing(entries)
           D == {S[j].d : j \in 1..Len(S)}
           R == RenderListing(found)
           n == Len(S) - 1
           chunks == Chunks(entries)
<1>1. /\ S = SplitListing(entries) /\ Len(S) - 1 <= MaxListingParts
      /\ found \in [D -> Payload] /\ \A j \in 1..Len(S) : found[S[j].d] = S[j].json
    BY Zenon DEF Carries
<1>2. D = {S[j].d : j \in 1..Len(S)}
    OBVIOUS
<1> HIDE DEF S, D
<1>3. \/ Len(S) = 1 /\ S[1].json = Plain(entries)
      \/ /\ S[1].json = Index(n) /\ Len(chunks) = n
         /\ \A j \in 2..Len(S) : S[j].json = Part(chunks[j - 1], j - 2, n)
    BY <1>1, SplitIs, Zenon DEF SplitSound
<1> HIDE DEF chunks
<1>4. Len(S) \in Nat \ {0} /\ \A j \in 1..Len(S) : S[j].d = j - 1
    BY <1>1, SplitIs, Zenon DEF SplitSound
<1>5. n \in Nat /\ Len(S) = n + 1 /\ (Len(S) = 1 => n = 0) /\ ~(n > MaxListingParts)
    BY <1>4, <1>1, ListingAssumption
<1> HIDE DEF n
<1>6. D = 0..n
  <2>1. \A j \in 1..Len(S) : S[j].d = j - 1 /\ j - 1 \in 0..n
      BY <1>4, <1>5
  <2>2. \A d \in 0..n : d + 1 \in 1..Len(S) /\ (d + 1) - 1 = d
      BY <1>5
  <2> QED
      BY <1>2, <2>1, <2>2
<1>7. \A d \in D : found[d] = S[d + 1].json
  <2>1. ASSUME NEW d \in 0..n PROVE found[d] = S[d + 1].json
    <3>1. d + 1 \in 1..Len(S) /\ (d + 1) - 1 = d
        BY <1>5
    <3>2. S[d + 1].d = d
        BY <1>4, <3>1
    <3> QED
        BY <1>1, <3>1, <3>2
  <2> QED
      BY <1>6, <2>1
<1>8. CASE Len(S) = 1 /\ S[1].json = Plain(entries)
  <2>1. D = {0} /\ found[0] = Plain(entries) /\ DOMAIN found = {0}
    <3>1. D = {0}
      <4>1. n = 0
          BY <1>5, <1>8, Zenon
      <4>2. 0..0 = {0}
          OBVIOUS
      <4> QED
          BY <1>6, <4>1, <4>2, Zenon
    <3>2. found[0] = S[0 + 1].json
        BY <1>7, <3>1
    <3> QED
        BY <1>8, <1>1, <3>1, <3>2
  <2>2. OfForm(found, "plain") = {0}
      BY <2>1 DEF OfForm, Plain
  <2>3. WholeOf(found) = 0
      BY <2>2 DEF WholeOf
  <2>4. R = Rendered(entries, 1, {})
    <3>1. R = Rendered(found[WholeOf(found)].entries, 1, {})
        BY <2>1, <2>2, <2>3, RenderIs
    <3> QED
        BY <2>1, <2>3, <3>1 DEF Plain
  <2> QED
      BY <2>4 DEF Rendered
<1>9. CASE /\ S[1].json = Index(n) /\ Len(chunks) = n
           /\ \A j \in 2..Len(S) : S[j].json = Part(chunks[j - 1], j - 2, n)
  <2>1. DOMAIN found = 0..n /\ found[0] = Index(n)
    <3>1. 0 \in 0..n /\ 0 + 1 = 1
        BY <1>5
    <3> QED
        BY <1>6, <1>7, <1>9, <1>1, <3>1
  <2>2. ASSUME NEW d \in 1..n PROVE found[d] = Part(chunks[d], d - 1, n)
    <3>1. d \in 0..n /\ d + 1 \in 2..Len(S) /\ (d + 1) - 1 = d /\ (d + 1) - 2 = d - 1
        BY <1>5
    <3>2. found[d] = S[d + 1].json
        BY <1>6, <1>7, <3>1
    <3>3. S[d + 1].json = Part(chunks[(d + 1) - 1], (d + 1) - 2, n)
        BY <1>9, <3>1
    <3> QED
        BY <3>1, <3>2, <3>3
  <2>3. chunks \in Seq(Seq(Entry)) /\ Concat(chunks) = entries
      BY ChunksWhole DEF chunks
  <2>4. /\ \A d \in 0..n : found[d].form = IF d = 0 THEN "index" ELSE "part"
        /\ \A d \in 1..n : found[d].part = d - 1 /\ found[d].parts = n /\ found[d].entries = chunks[d]
    <3>1. found[0].form = "index"
        BY <2>1 DEF Index
    <3>2. ASSUME NEW d \in 1..n
          PROVE  /\ found[d].form = "part" /\ d # 0
                 /\ found[d].part = d - 1 /\ found[d].parts = n /\ found[d].entries = chunks[d]
      <4>1. d # 0
          BY <1>5
      <4>2. found[d] = Part(chunks[d], d - 1, n)
          BY <2>2
      <4> QED
          BY <4>1, <4>2 DEF Part
    <3>3. \A d \in 0..n : d = 0 \/ d \in 1..n
        BY <1>5
    <3> QED
        BY <3>1, <3>2, <3>3, Zenon
  <2>5. OfForm(found, "plain") = {} /\ OfForm(found, "index") = {0} /\ OfForm(found, "part") = 1..n
    <3>1. 0..n = {0} \cup 1..n /\ 0 \notin 1..n
        BY <1>5
    <3> QED
        BY <2>1, <2>4, <3>1 DEF OfForm
  <2>6. PartsIn(found) = n
    <3>1. (CHOOSE d \in {0} : TRUE) = 0
        OBVIOUS
    <3>2. found[0].parts = n
        BY <2>1 DEF Index
    <3> QED
        BY <2>5, <3>1, <3>2 DEF PartsIn
  <2>7. ~Refused(found, n)
    <3>1. \A d \in 1..n : FitsIndex(found[d], n)
        BY <1>5, <2>4 DEF FitsIndex
    <3>2. ASSUME NEW d \in 1..n, NEW e \in 1..n, found[d].part = found[e].part PROVE d = e
      <4>1. d - 1 = e - 1
          BY <2>4, <3>2
      <4> QED
          BY <1>5, <4>1
    <3> QED
        BY <1>5, <2>5, <2>6, <3>1, <3>2 DEF Refused
  <2>8. ASSUME NEW i \in 1..n PROVE SlotOf(found, i - 1) = {i} /\ ChunkOf(found, i - 1) = chunks[i]
    <3>1. SlotOf(found, i - 1) = {i}
      <4>1. found[i].part = i - 1
          BY <2>4
      <4>2. ASSUME NEW d \in 1..n, found[d].part = i - 1 PROVE d = i
        <5>1. d - 1 = i - 1
            BY <2>4, <4>2
        <5> QED
            BY <1>5, <5>1
      <4>3. SlotOf(found, i - 1) = {d \in 1..n : found[d].part = i - 1}
          BY <2>5, Zenon DEF SlotOf
      <4> QED
          BY <4>1, <4>2, <4>3, Zenon
    <3> QED
        BY <2>4, <3>1 DEF ChunkOf
  <2>9. [i \in 1..n |-> ChunkOf(found, i - 1)] = chunks
    <3>1. chunks = [i \in 1..n |-> chunks[i]]
        BY <1>9, <2>3
    <3>2. [i \in 1..n |-> ChunkOf(found, i - 1)] = [i \in 1..n |-> chunks[i]]
        BY <2>8
    <3> QED
        BY <3>1, <3>2
  <2>10. {i \in 0..(n - 1) : SlotOf(found, i) = {}} = {}
    <3>1. ASSUME NEW i \in 0..(n - 1) PROVE SlotOf(found, i) # {}
      <4>1. i + 1 \in 1..n /\ (i + 1) - 1 = i
          BY <1>5
      <4> QED
          BY <2>8, <4>1
    <3> QED
        BY <3>1
  <2>11. R = Rendered(Concat(chunks), n, {})
    <3>1. R = Rendered(Concat([i \in 1..n |-> ChunkOf(found, i - 1)]), n,
                       {i \in 0..(n - 1) : SlotOf(found, i) = {}})
        BY <2>5, <2>6, <2>7, RenderIs
    <3> QED
        BY <2>9, <2>10, <3>1
  <2> QED
      BY <2>3, <2>11 DEF Rendered
<1> QED
    BY <1>3, <1>8, <1>9

-----------------------------------------------------------------------------
(* The inductive invariant: every event is one of a publication of the log, *)
(* and a publication that no relay has refused a part of is still on every  *)
(* relay, or something newer is.                                            *)

Split(p) == SplitListing(Content[p.version])

Event == [d : Nat, key : BrowseKey, json : Payload, at : Nat, id : Nat, schema : {1}, crypto : {1}]

PublicationType == [version : Version, key : BrowseKey, id : EventId, events : SUBSET Event,
                    sound : BOOLEAN]

(* what an event has of the publication it is of *)
PartOf(p, e) ==
    /\ e \in Event /\ e.key = p.key /\ e.id = p.id
    /\ e.d + 1 \in 1..Len(Split(p)) /\ e.json = Split(p)[e.d + 1].json

Logged == UNION {log[i].events : i \in 1..Len(log)}

ReaderType == [phase : {"idle", "resolve", "teaser", "fetch", "done"},
               key : BrowseKey \cup {NoBrowseKey}, ask : SUBSET Relay, got : SUBSET Event,
               seen : Nat, whole : BOOLEAN]

TypeInv ==
    /\ now \in Nat
    /\ store \in [Relay -> SUBSET Event]
    /\ log \in Seq(PublicationType)
    /\ todo \in Seq([d : Nat, json : Payload])
    /\ reader \in ReaderType

LogInv ==
    /\ \A i \in 1..Len(log) : \A e \in log[i].events : PartOf(log[i], e) /\ e.at <= now
    /\ \E b \in Nat : \A i \in 1..Len(log) : log[i].id <= b

HeldInv == reader.got \subseteq Logged /\ \A r \in Relay : store[r] \subseteq Logged

(* the first k parts are out, each once, and the others are to come *)
OutUpTo(k) ==
    /\ {e.d : e \in Latest.events} = 0..(k - 1)
    /\ \A e, f \in Latest.events : e.d = f.d => e = f
    /\ \/ todo = SubSeq(Split(Latest), k + 1, Len(Split(Latest)))
       \/ todo = <<>> /\ ~Latest.sound

PublishInv ==
    /\ log = <<>> => todo = <<>>
    /\ log # <<>> => \E k \in 0..Len(Split(Latest)) : OutUpTo(k)

Beaten(e) == \E f \in EarlierEvents : f.at >= e.at

SoundInv ==
    log # <<>> /\ Latest.sound
        => \A e \in Latest.events : Beaten(e) \/ \A r \in Relay : e \in store[r]

ReadInv ==
    /\ reader.phase # "idle" /\ reader.whole => todo = <<>> /\ reader.seen = Len(log)
    /\ reader.phase \in {"resolve", "teaser"} => reader.ask # {}
    /\ reader.phase = "fetch" /\ reader.whole
           => reader.ask # {} \/ \E r \in Relay : store[r] \subseteq reader.got
    /\ reader.phase # "done" => shown = Failed

CatalogInv == TypeInv /\ LogInv /\ HeldInv /\ PublishInv /\ SoundInv /\ ReadInv

-----------------------------------------------------------------------------
(* Reading *)

LEMMA Least ==
    ASSUME NEW T \in SUBSET Nat, T # {}
    PROVE  \E x \in T : \A y \in T : x <= y
<1> DEFINE R == OpToRel(<, Nat)
<1>1. IsWellFoundedOn(R, Nat) /\ \A x, y \in Nat : <<y, x>> \in R <=> y < x
    BY NatLessThanWellFounded DEF OpToRel
<1> HIDE DEF R
<1>2. PICK x \in T : \A y \in T : <<y, x>> \notin R
    BY <1>1, WFMin
<1>3. ASSUME NEW y \in T PROVE x <= y
  <2>1. x \in Nat /\ y \in Nat /\ ~(y < x)
      BY <1>1, <1>2
  <2> QED
      BY <2>1
<1> QED
    BY <1>3

(* select_newest finds one where times and ids are bounded *)
LEMMA NewestIs ==
    ASSUME NEW E \in SUBSET Event, E # {}, NEW t \in Nat, NEW b \in Nat,
           \A e \in E : e.at <= t /\ e.id <= b
    PROVE  /\ SelectNewest(E) \in E
           /\ \A other \in E : Newer(SelectNewest(E), other)
<1> DEFINE Ages == {t - e.at : e \in E}
<1>1. \A e \in E : e.at \in Nat /\ e.id \in Nat /\ t - e.at \in Nat /\ b - e.id \in Nat
    BY DEF Event
<1>2. Ages \in SUBSET Nat /\ Ages # {}
    BY <1>1
<1> HIDE DEF Ages
<1>3. PICK x \in Ages : \A y \in Ages : x <= y
    BY <1>2, Least
<1>4. PICK young \in E : x = t - young.at
    BY <1>3 DEF Ages
<1>5. ASSUME NEW e \in E PROVE e.at <= young.at
  <2>1. t - e.at \in Ages
      BY DEF Ages
  <2>2. t - young.at <= t - e.at
      BY <1>3, <1>4, <2>1
  <2> QED
      BY <1>1, <2>2
<1> DEFINE Alike == {e \in E : e.at = young.at}
           Ranks == {b - e.id : e \in Alike}
<1>6. Ranks \in SUBSET Nat /\ Ranks # {}
    BY <1>1
<1> HIDE DEF Ranks
<1>7. PICK z \in Ranks : \A y \in Ranks : z <= y
    BY <1>6, Least
<1>8. PICK first \in Alike : z = b - first.id
    BY <1>7 DEF Ranks
<1>9. ASSUME NEW e \in E PROVE Newer(first, e)
  <2>1. first \in E /\ first.at = young.at
      BY <1>8
  <2>2. CASE e.at = young.at
    <3>1. b - e.id \in Ranks
        BY <2>2 DEF Ranks
    <3>2. b - first.id <= b - e.id
        BY <1>7, <1>8, <3>1
    <3>3. first.id >= e.id
        BY <1>1, <2>1, <3>2
    <3> QED
        BY <2>1, <2>2, <3>3 DEF Newer
  <2>3. CASE e.at # young.at
    <3>1. first.at > e.at
        BY <1>1, <1>5, <2>1, <2>3
    <3> QED
        BY <3>1 DEF Newer
  <2> QED
      BY <2>2, <2>3
<1>10. first \in E
    BY <1>8
<1> QED
    BY <1>9, <1>10, Zenon DEF SelectNewest

(* an event has entries of its publication only, and counts its parts *)
LEMMA PieceIs ==
    ASSUME NEW p \in PublicationType, NEW e, PartOf(p, e)
    PROVE  /\ e.json \in Payload /\ Items(e.json.entries) \subseteq Items(Content[p.version])
           /\ e.json.form = "plain" => Len(Split(p)) = 1
           /\ e.json.form = "part" => e.json.parts = Len(Split(p)) - 1
<1> DEFINE entries == Content[p.version]
           S == SplitListing(entries)
           chunks == Chunks(entries)
           j == e.d + 1
<1>1. entries \in Seq(Entry) /\ Split(p) = S
    BY CatalogAssumption DEF PublicationType, Split
<1> HIDE DEF entries
<1>2. e \in Event /\ j \in 1..Len(S) /\ e.json = S[j].json
    BY <1>1 DEF PartOf
<1>3. e.json \in Payload
    BY <1>2 DEF Event
<1>4. SplitSound(entries, S) /\ chunks \in Seq(Seq(Entry)) /\ Concat(chunks) = entries
    BY <1>1, SplitIs, ChunksWhole
<1> HIDE DEF S, chunks, j
<1>5. Len(S) \in Nat \ {0}
    BY <1>4 DEF SplitSound
<1>6. CASE Len(S) = 1 /\ S[1].json = Plain(entries)
  <2>1. j = 1
      BY <1>2, <1>6
  <2>2. e.json = Plain(entries)
      BY <1>2, <1>6, <2>1
  <2> QED
      BY <1>1, <1>3, <1>6, <2>2 DEF Plain, entries
<1>7. CASE j = 1 /\ S[1].json = Index(Len(S) - 1)
  <2>1. e.json = Index(Len(S) - 1)
      BY <1>2, <1>7
  <2>2. Items(e.json.entries) = {} /\ e.json.form = "index"
      BY <2>1 DEF Index, Items
  <2> QED
      BY <1>3, <2>2
<1>8. CASE /\ j \in 2..Len(S) /\ Len(chunks) = Len(S) - 1
           /\ S[j].json = Part(chunks[j - 1], j - 2, Len(S) - 1)
  <2>1. e.json.form = "part" /\ e.json.parts = Len(S) - 1 /\ e.json.entries = chunks[j - 1]
    <3>1. e.json = Part(chunks[j - 1], j - 2, Len(S) - 1)
        BY <1>2, <1>8
    <3> QED
        BY <3>1 DEF Part
  <2>2. j - 1 \in 1..Len(chunks)
      BY <1>5, <1>8
  <2>3. Items(chunks[j - 1]) \subseteq Items(Concat(chunks))
      BY <1>4, <2>2, ConcatItems
  <2> QED
      BY <1>1, <1>3, <1>4, <2>1, <2>3 DEF entries
<1>9. \/ Len(S) = 1 /\ S[1].json = Plain(entries)
      \/ /\ S[1].json = Index(Len(S) - 1)
         /\ Len(chunks) = Len(S) - 1
         /\ \A i \in 2..Len(S) : S[i].json = Part(chunks[i - 1], i - 2, Len(S) - 1)
    BY <1>4, Zenon DEF SplitSound, chunks
<1>10. j = 1 \/ j \in 2..Len(S)
    BY <1>2, <1>5
<1> QED
    BY <1>6, <1>7, <1>8, <1>9, <1>10

(* the newest event of every d-tag among those fetched *)
NewestOf(events) == [d \in {e.d : e \in events} |-> SelectNewest({e \in events : e.d = d})]

Bounded(events) == \E t, b \in Nat : \A e \in events : e.at <= t /\ e.id <= b

LEMMA NewestOfIs ==
    ASSUME NEW events \in SUBSET Event, Bounded(events),
           NEW d \in {e.d : e \in events}
    PROVE  /\ NewestOf(events)[d] \in events /\ NewestOf(events)[d].d = d
           /\ \A other \in events : other.d = d => Newer(NewestOf(events)[d], other)
<1> DEFINE E == {e \in events : e.d = d}
<1>1. E \in SUBSET Event /\ E # {}
    OBVIOUS
<1>2. NewestOf(events)[d] = SelectNewest(E)
    BY Zenon DEF NewestOf
<1>3. SelectNewest(E) \in E /\ \A other \in E : Newer(SelectNewest(E), other)
  <2>1. PICK t \in Nat, b \in Nat : \A e \in E : e.at <= t /\ e.id <= b
      BY DEF Bounded
  <2> HIDE DEF E
  <2> QED
      BY <1>1, <2>1, NewestIs
<1> QED
    BY <1>2, <1>3

(* what is shown was read with the reader's key, and counted as it says *)
LEMMA ReadIs ==
    ASSUME NEW events \in SUBSET Event, Bounded(events), NEW key,
           NEW x \in Items(FetchListing(events, key).entries)
    PROVE  \E e \in events :
               /\ e.key = key /\ x \in Items(e.json.entries)
               /\ \/ e.json.form = "plain" /\ FetchListing(events, key).total = 1
                  \/ e.json.form = "part" /\ e.json.parts = FetchListing(events, key).total
<1> DEFINE R == FetchListing(events, key)
           newest == NewestOf(events)
           D == {e.d : e \in events}
           found == [d \in D |-> newest[d].json]
<1>1. R = FetchListing(events, key) /\ x \in Items(R.entries)
    OBVIOUS
<1> HIDE DEF R
<1>2. R # Failed
    BY <1>1 DEF Failed, Items
<1>3. DOMAIN newest = D
    BY Zenon DEF NewestOf
<1>4. /\ R = RenderListing([d \in DOMAIN newest |-> newest[d].json])
      /\ \A d \in DOMAIN newest : ParseListingEvent(newest[d], key)
    BY <1>2, <1>1, Zenon DEF FetchListing, NewestOf
<1>5. \A d \in D : newest[d] \in events
    BY NewestOfIs
<1> HIDE DEF newest, D
<1>6. found \in [D -> Payload] /\ R = RenderListing(found)
  <2>1. \A d \in D : newest[d].json \in Payload
      BY <1>5 DEF Event
  <2> QED
      BY <1>3, <1>4, <2>1
<1> HIDE DEF found
<1>7. DOMAIN found = D /\ found \in [DOMAIN found -> Payload] /\ x \in Items(RenderListing(found).entries)
    BY <1>6, <1>1, Zenon
<1>8. PICK d \in D : /\ x \in Items(found[d].entries)
                     /\ \/ found[d].form = "plain" /\ R.total = 1
                        \/ found[d].form = "part" /\ found[d].parts = R.total
    BY <1>6, <1>7, ShownFrom, Zenon
<1>9. found[d] = newest[d].json
    BY DEF found
<1>10. newest[d].key = key
    BY <1>3, <1>4 DEF ParseListingEvent, Decrypts
<1> QED
    BY <1>5, <1>8, <1>9, <1>10, <1>1

(* a whole publication is read as it was written *)
LEMMA ReadWhole ==
    ASSUME NEW events \in SUBSET Event, Bounded(events),
           NEW p \in PublicationType, Acceptable(p.version),
           {e.d : e \in events} = 0..(Len(Split(p)) - 1),
           \A e \in events : PartOf(p, e) \/ \E f \in events : f.d = e.d /\ f.at > e.at
    PROVE  /\ FetchListing(events, p.key).ok /\ FetchListing(events, p.key).missing = {}
           /\ FetchListing(events, p.key).entries = Content[p.version]
<1> DEFINE R == FetchListing(events, p.key)
           newest == NewestOf(events)
           S == SplitListing(Content[p.version])
           D == {S[j].d : j \in 1..Len(S)}
           found == [d \in D |-> newest[d].json]
<1>1. Content[p.version] \in Seq(Entry) /\ Split(p) = S /\ Len(S) - 1 <= MaxListingParts
    BY CatalogAssumption DEF PublicationType, Split, Acceptable, PartsOf
<1>2. Len(S) \in Nat \ {0} /\ \A j \in 1..Len(S) : S[j].d = j - 1
    BY <1>1, SplitIs DEF SplitSound
<1> HIDE DEF S
<1>3. D = {e.d : e \in events}
  <2>1. ASSUME NEW d \in 0..(Len(S) - 1) PROVE d \in D
    <3>1. d + 1 \in 1..Len(S) /\ (d + 1) - 1 = d
        BY <1>2
    <3>2. S[d + 1].d = d
        BY <1>2, <3>1
    <3> QED
        BY <3>1, <3>2
  <2>2. ASSUME NEW j \in 1..Len(S) PROVE S[j].d \in 0..(Len(S) - 1)
      BY <1>2
  <2>3. D = 0..(Len(S) - 1)
      BY <2>1, <2>2, Zenon
  <2> QED
      BY <1>1, <2>3, Zenon
<1> HIDE DEF D
<1>4. DOMAIN newest = D
    BY <1>3, Zenon DEF NewestOf
<1>5. ASSUME NEW d \in D
      PROVE  /\ newest[d] \in events /\ newest[d].d = d
             /\ \A other \in events : other.d = d => Newer(newest[d], other)
  <2>1. d \in {e.d : e \in events}
      BY <1>3
  <2> QED
      BY <2>1, NewestOfIs, Zenon
<1> HIDE DEF newest
<1>6. ASSUME NEW d \in D PROVE PartOf(p, newest[d])
  <2>1. ASSUME NEW f \in events, f.d = d, f.at > newest[d].at PROVE FALSE
    <3>1. f.at \in Nat /\ newest[d].at \in Nat
        BY <1>5 DEF Event
    <3>2. Newer(newest[d], f)
        BY <1>5, <2>1
    <3> QED
        BY <2>1, <3>1, <3>2 DEF Newer
  <2> QED
      BY <1>5, <2>1
<1>7. ASSUME NEW d \in D PROVE ParseListingEvent(newest[d], p.key)
    BY <1>6 DEF PartOf, Event, ParseListingEvent, Decrypts, CheckSchema, CheckCrypto, SchemaV, CryptoV
<1>8. R = RenderListing(found)
  <2>1. events # {}
    <3>1. 0 \in 0..(Len(S) - 1)
        BY <1>2
    <3> QED
        BY <1>1, <3>1
  <2>2. p.key # NoBrowseKey
      BY ListingAssumption DEF PublicationType
  <2>3. R = RenderListing([d \in DOMAIN newest |-> newest[d].json])
      BY <1>4, <1>7, <2>1, <2>2, Zenon DEF FetchListing, NewestOf, newest
  <2> QED
      BY <1>4, <2>3
<1>9. found \in [D -> Payload]
    BY <1>6 DEF PartOf, Event
<1>10. ASSUME NEW j \in 1..Len(S) PROVE found[S[j].d] = S[j].json
  <2>1. S[j].d \in D /\ S[j].d + 1 = j
      BY <1>2 DEF D
  <2>2. newest[S[j].d].d = S[j].d /\ PartOf(p, newest[S[j].d])
      BY <1>5, <1>6, <2>1
  <2>3. newest[S[j].d].json = S[j].json
      BY <1>1, <2>1, <2>2 DEF PartOf
  <2> QED
      BY <2>1, <2>3
<1> HIDE DEF found
<1> DEFINE entries == Content[p.version]
<1>11. entries \in Seq(Entry) /\ S = SplitListing(entries)
    BY <1>1 DEF S
<1>12. Len(S) - 1 <= MaxListingParts
    BY <1>1
<1>13. Carries(found, S)
    BY <1>9, <1>10 DEF Carries, D
<1>14. RenderListing(found).ok /\ RenderListing(found).entries = entries /\ RenderListing(found).missing = {}
  <2> HIDE DEF S, entries
  <2> QED
      BY <1>11, <1>12, <1>13, SplitComesBack, Zenon
<1> QED
    BY <1>8, <1>14

-----------------------------------------------------------------------------
(* The log *)

LEMMA PushIs ==
    ASSUME NEW S, NEW s \in Seq(S), NEW x \in S
    PROVE  /\ <<x>> \o s \in Seq(S) /\ <<x>> \o s # <<>> /\ Head(<<x>> \o s) = x
           /\ Len(<<x>> \o s) = Len(s) + 1 /\ Len(s) \in Nat /\ (<<x>> \o s)[1] = x
           /\ \A i \in 1..Len(s) : (<<x>> \o s)[i + 1] = s[i]
<1> DEFINE t == <<x>> \o s
<1>1. /\ Len(s) \in Nat /\ t \in Seq(S) /\ Len(t) = 1 + Len(s)
      /\ \A i \in 1..(1 + Len(s)) : t[i] = IF i <= 1 THEN <<x>>[i] ELSE s[i - 1]
  <2>1. <<x>> \in Seq(S) /\ Len(<<x>>) = 1
      OBVIOUS
  <2> QED
      BY <2>1, LenProperties, ConcatProperties
<1> HIDE DEF t
<1>2. t[1] = x
    BY <1>1
<1>3. ASSUME NEW i \in 1..Len(s) PROVE t[i + 1] = s[i]
    BY <1>1
<1>4. t # <<>>
    BY <1>1
<1>5. Head(t) = x
    BY <1>1, <1>2, <1>4, HeadTailProperties
<1> QED
    BY <1>1, <1>2, <1>3, <1>4, <1>5 DEF t

LEMMA ReplaceHeadIs ==
    ASSUME NEW S, NEW s \in Seq(S), s # <<>>, NEW x \in S
    PROVE  /\ <<x>> \o Tail(s) \in Seq(S) /\ <<x>> \o Tail(s) # <<>> /\ Head(<<x>> \o Tail(s)) = x
           /\ Len(<<x>> \o Tail(s)) = Len(s) /\ Len(s) \in Nat \ {0} /\ (<<x>> \o Tail(s))[1] = x
           /\ \A i \in 2..Len(s) : (<<x>> \o Tail(s))[i] = s[i]
           /\ Head(s) = s[1] /\ Head(s) \in S
<1> DEFINE t == <<x>> \o Tail(s)
<1>1. /\ Tail(s) \in Seq(S) /\ Len(Tail(s)) = Len(s) - 1 /\ Head(s) = s[1] /\ Head(s) \in S
      /\ \A i \in 1..Len(Tail(s)) : Tail(s)[i] = s[i + 1]
    BY HeadTailProperties
<1>2. Len(s) \in Nat \ {0}
    BY LenProperties, EmptySeq
<1>3. /\ t \in Seq(S) /\ t # <<>> /\ Head(t) = x /\ Len(t) = Len(Tail(s)) + 1 /\ t[1] = x
      /\ \A i \in 1..Len(Tail(s)) : t[i + 1] = Tail(s)[i]
    BY <1>1, PushIs
<1> HIDE DEF t
<1>4. ASSUME NEW i \in 2..Len(s) PROVE t[i] = s[i]
  <2>1. i - 1 \in 1..Len(Tail(s)) /\ (i - 1) + 1 = i
      BY <1>1, <1>2
  <2> QED
      BY <1>1, <1>3, <2>1
<1> QED
    BY <1>1, <1>2, <1>3, <1>4 DEF t

LEMMA LatestIs ==
    ASSUME TypeInv, log # <<>>
    PROVE  /\ Latest = log[1] /\ Latest \in PublicationType /\ Len(log) \in Nat \ {0}
           /\ Logged = Latest.events \cup EarlierEvents
<1>1. log \in Seq(PublicationType)
    BY DEF TypeInv
<1>2. Latest = log[1] /\ Latest \in PublicationType
    BY <1>1, HeadTailProperties DEF Latest
<1>3. Len(log) \in Nat \ {0}
    BY <1>1, LenProperties, EmptySeq
<1>4. 1..Len(log) = {1} \cup 2..Len(log)
    BY <1>3
<1> QED
    BY <1>2, <1>3, <1>4 DEF Logged, EarlierEvents

-----------------------------------------------------------------------------
(* The invariant holds at first, and every step keeps it *)

LEMMA InvInit ==
    ASSUME CatalogInit
    PROVE  CatalogInv
<1>1. log = <<>> /\ todo = <<>> /\ Len(log) = 0 /\ reader.got = {}
    BY DEF CatalogInit, NotReading
<1>2. TypeInv
    BY EmptySeq DEF CatalogInit, NotReading, TypeInv, ReaderType
<1>3. LogInv
    BY <1>1 DEF LogInv
<1>4. HeldInv
    BY <1>1 DEF CatalogInit, HeldInv
<1>5. PublishInv /\ SoundInv
    BY <1>1 DEF PublishInv, SoundInv
<1>6. ReadInv
    BY DEF CatalogInit, NotReading, ReadInv
<1> QED
    BY <1>2, <1>3, <1>4, <1>5, <1>6 DEF CatalogInv

(* a step that publishes nothing *)
LEMMA QuietStep ==
    ASSUME CatalogInv, UNCHANGED <<store, log, todo>>, now' \in Nat, now <= now',
           reader'.got \subseteq reader.got \cup UNION {store[r] : r \in Relay}
    PROVE  LogInv' /\ HeldInv' /\ PublishInv' /\ SoundInv'
<1>1. now \in Nat /\ LogInv /\ HeldInv /\ PublishInv /\ SoundInv
    BY DEF CatalogInv, TypeInv
<1>2. LogInv'
  <2>1. ASSUME NEW i \in 1..Len(log), NEW e \in log[i].events PROVE PartOf(log[i], e) /\ e.at <= now'
    <3>1. PartOf(log[i], e) /\ e.at <= now
        BY <1>1 DEF LogInv
    <3>2. e.at \in Nat
        BY <3>1 DEF PartOf, Event
    <3> QED
        BY <1>1, <3>1, <3>2
  <2> QED
      BY <1>1, <2>1 DEF LogInv
<1>3. HeldInv'
    BY <1>1 DEF HeldInv, Logged
<1>4. PublishInv'
    BY <1>1 DEF PublishInv, OutUpTo, Latest
<1>5. SoundInv'
    BY <1>1 DEF SoundInv, Latest, Beaten, EarlierEvents
<1> QED
    BY <1>2, <1>3, <1>4, <1>5

LEMMA TickKeeps ==
    ASSUME CatalogInv, Tick
    PROVE  CatalogInv'
<1>1. TypeInv /\ now \in Nat
    BY DEF CatalogInv, TypeInv
<1>2. now' \in Nat /\ now <= now' /\ UNCHANGED <<store, log, todo, reader, shown>>
    BY <1>1 DEF Tick
<1>3. TypeInv'
    BY <1>1, <1>2 DEF TypeInv
<1>4. LogInv' /\ HeldInv' /\ PublishInv' /\ SoundInv'
    BY <1>2, QuietStep
<1>5. ReadInv'
    BY <1>2 DEF CatalogInv, ReadInv
<1> QED
    BY <1>3, <1>4, <1>5 DEF CatalogInv

LEMMA ReadsKeep ==
    ASSUME CatalogInv,
           \/ \E key \in BrowseKey \cup {NoBrowseKey} : StartBrowse(key)
           \/ Browse
    PROVE  CatalogInv'
<1>1. TypeInv /\ ReadInv /\ now \in Nat
    BY DEF CatalogInv, TypeInv
<1>2. UNCHANGED <<now, store, log, todo>>
    BY DEF StartBrowse, Browse, ResolveRelays, FetchTeaser, FetchFrom, FetchTimesOut, FinishBrowse
<1>3. SUFFICES /\ reader' \in ReaderType
               /\ reader'.got \subseteq reader.got \cup UNION {store[r] : r \in Relay}
               /\ ReadInv'
  <2>1. LogInv' /\ HeldInv' /\ PublishInv' /\ SoundInv'
      BY <1>1, <1>2, <1>3, QuietStep
  <2>2. TypeInv'
      BY <1>1, <1>2, <1>3 DEF TypeInv
  <2> QED
      BY <1>3, <2>1, <2>2 DEF CatalogInv
<1>4. CASE \E key \in BrowseKey \cup {NoBrowseKey} : StartBrowse(key)
  <2>1. PICK key \in BrowseKey \cup {NoBrowseKey} : StartBrowse(key)
      BY <1>4
  <2>2. Len(log) \in Nat /\ Configured \in SUBSET Relay /\ Configured # {}
      BY <1>1, LenProperties, CatalogAssumption DEF TypeInv
  <2> QED
      BY <1>1, <1>2, <2>1, <2>2 DEF StartBrowse, ReadInv, TypeInv, ReaderType
<1>5. CASE \E reached \in SUBSET Relay : ResolveRelays(reached)
  <2>1. PICK reached \in SUBSET Relay : ResolveRelays(reached)
      BY <1>5
  <2>2. reached # {}
      BY <2>1, CatalogAssumption DEF ResolveRelays
  <2> QED
      BY <1>1, <1>2, <2>1, <2>2 DEF ResolveRelays, ReadInv, TypeInv, ReaderType
<1>6. CASE \E fails \in BOOLEAN : FetchTeaser(fails)
  <2>1. PICK fails \in BOOLEAN : FetchTeaser(fails)
      BY <1>6
  <2>2. /\ reader.phase = "teaser" /\ shown' = shown
        /\ reader' = [reader EXCEPT !.phase = IF fails THEN "done" ELSE "fetch", !.whole = @ /\ ~fails]
      BY <2>1 DEF FetchTeaser
  <2>3. /\ reader' \in ReaderType
        /\ reader'.phase = IF fails THEN "done" ELSE "fetch"
        /\ reader'.whole = (reader.whole /\ ~fails)
        /\ reader'.ask = reader.ask /\ reader'.seen = reader.seen /\ reader'.got = reader.got
      BY <1>1, <2>2 DEF TypeInv, ReaderType
  <2> QED
      BY <1>1, <1>2, <2>2, <2>3 DEF ReadInv
<1>7. CASE \E r \in Relay : FetchFrom(r)
  <2>1. PICK r \in Relay : FetchFrom(r)
      BY <1>7
  <2>2. store[r] \in SUBSET Event
      BY <1>1 DEF TypeInv
  <2>3. /\ reader.phase = "fetch" /\ shown' = shown
        /\ reader' = [reader EXCEPT !.ask = @ \ {r}, !.got = @ \cup store[r]]
      BY <2>1 DEF FetchFrom
  <2>4. /\ reader' \in ReaderType
        /\ reader'.phase = "fetch" /\ reader'.whole = reader.whole
        /\ reader'.seen = reader.seen /\ reader'.got = reader.got \cup store[r]
      BY <1>1, <2>2, <2>3 DEF TypeInv, ReaderType
  <2>5. store[r] \subseteq reader'.got
      BY <2>4
  <2> QED
      BY <1>1, <1>2, <2>3, <2>4, <2>5 DEF ReadInv
<1>8. CASE \E r \in Relay : FetchTimesOut(r)
  <2>1. PICK r \in Relay : FetchTimesOut(r)
      BY <1>8
  <2>2. /\ reader.phase = "fetch" /\ shown' = shown
        /\ reader' = [reader EXCEPT !.ask = @ \ {r}, !.whole = FALSE]
      BY <2>1 DEF FetchTimesOut
  <2>3. /\ reader' \in ReaderType /\ reader'.got = reader.got
        /\ reader'.phase = "fetch" /\ ~reader'.whole
      BY <1>1, <2>2 DEF TypeInv, ReaderType
  <2> QED
      BY <1>1, <1>2, <2>2, <2>3 DEF ReadInv
<1>9. CASE FinishBrowse
    BY <1>1, <1>2, <1>9 DEF FinishBrowse, ReadInv, TypeInv, ReaderType
<1> QED
    BY <1>4, <1>5, <1>6, <1>7, <1>8, <1>9 DEF Browse

LEMMA StartPublishKeeps ==
    ASSUME CatalogInv, NEW version \in Version, NEW key \in BrowseKey, NEW id \in EventId,
           StartPublish(version, key, id)
    PROVE  CatalogInv'
<1> DEFINE P == Publication(version, key, id)
<1>1. TypeInv /\ LogInv /\ HeldInv /\ ReadInv /\ log \in Seq(PublicationType)
    BY DEF CatalogInv, TypeInv
<1>2. /\ log' = <<P>> \o log /\ todo' = SplitListing(Content[version])
      /\ reader' = [reader EXCEPT !.whole = FALSE] /\ UNCHANGED <<now, store, shown>>
    BY DEF StartPublish
<1>3. P \in PublicationType /\ P.events = {} /\ P.id = id /\ P.version = version
    BY DEF Publication, PublicationType
<1> HIDE DEF P
<1>4. /\ log' \in Seq(PublicationType) /\ log' # <<>> /\ Head(log') = P
      /\ Len(log') = Len(log) + 1 /\ Len(log) \in Nat /\ log'[1] = P
      /\ \A i \in 1..Len(log) : log'[i + 1] = log[i]
    BY <1>1, <1>2, <1>3, PushIs
<1>5. \A i \in 1..Len(log') : i = 1 \/ (i - 1 \in 1..Len(log) /\ (i - 1) + 1 = i)
    BY <1>4
<1>6. SplitListing(Content[version]) \in Seq([d : Nat, json : Payload])
    BY SplitIs, CatalogAssumption
<1>7. TypeInv'
    BY <1>1, <1>2, <1>4, <1>6 DEF TypeInv, ReaderType
<1>8. LogInv'
  <2>1. ASSUME NEW i \in 1..Len(log'), NEW e \in log'[i].events
        PROVE  PartOf(log'[i], e) /\ e.at <= now'
    <3>1. i # 1
        BY <1>3, <1>4
    <3>2. i - 1 \in 1..Len(log) /\ log'[i] = log[i - 1]
        BY <1>4, <1>5, <3>1
    <3> QED
        BY <1>1, <1>2, <3>2 DEF LogInv
  <2>2. \E b \in Nat : \A i \in 1..Len(log') : log'[i].id <= b
    <3>1. PICK b \in Nat : \A i \in 1..Len(log) : log[i].id <= b
        BY <1>1 DEF LogInv
    <3>2. \A i \in 1..Len(log) : log[i].id \in Nat
      <4>1. ASSUME NEW i \in 1..Len(log) PROVE log[i].id \in Nat
        <5>1. log[i] \in PublicationType
            BY <1>1, ElementOfSeq
        <5> QED
            BY <5>1, CatalogAssumption DEF PublicationType
      <4> QED
          BY <4>1
    <3> DEFINE c == IF id > b THEN id ELSE b
    <3>3. c \in Nat /\ c >= b /\ c >= id /\ id \in Nat
      <4>1. id \in Nat
          BY CatalogAssumption
      <4> QED
          BY <4>1
    <3> HIDE DEF c
    <3>4. ASSUME NEW i \in 1..Len(log') PROVE log'[i].id <= c
      <4>1. CASE i = 1
          BY <1>3, <1>4, <3>3, <4>1
      <4>2. CASE i # 1
        <5>1. i - 1 \in 1..Len(log) /\ log'[i] = log[i - 1]
            BY <1>4, <1>5, <4>2
        <5> QED
            BY <3>1, <3>2, <3>3, <5>1
      <4> QED
          BY <4>1, <4>2
    <3> QED
        BY <3>3, <3>4
  <2> QED
      BY <2>1, <2>2 DEF LogInv
<1>9. HeldInv'
  <2>1. ASSUME NEW i \in 1..Len(log) PROVE log[i].events \subseteq Logged'
    <3>1. i + 1 \in 1..Len(log') /\ log'[i + 1] = log[i]
        BY <1>4
    <3> QED
        BY <3>1 DEF Logged
  <2>2. Logged \subseteq Logged'
      BY <2>1 DEF Logged
  <2>3. reader'.got = reader.got
      BY <1>1, <1>2 DEF TypeInv, ReaderType
  <2> QED
      BY <1>1, <1>2, <2>2, <2>3 DEF HeldInv
<1>10. PublishInv'
  <2>1. Latest' = P /\ Split(P) = SplitListing(Content[version])
      BY <1>3, <1>4 DEF Latest, Split
  <2>2. Len(Split(P)) \in Nat /\ SubSeq(Split(P), 0 + 1, Len(Split(P))) = Split(P)
    <3>1. Split(P) \in Seq([d : Nat, json : Payload])
        BY <1>6, <2>1
    <3> HIDE DEF Split
    <3> QED
        BY <3>1, LenProperties
  <2>3. OutUpTo(0)'
      BY <1>2, <1>3, <2>1, <2>2 DEF OutUpTo
  <2> QED
      BY <1>4, <2>1, <2>2, <2>3 DEF PublishInv
<1>11. SoundInv'
    BY <1>3, <1>4 DEF SoundInv, Latest
<1>12. ReadInv'
  <2>1. reader'.whole = FALSE /\ reader'.phase = reader.phase /\ reader'.ask = reader.ask
      BY <1>1, <1>2 DEF TypeInv, ReaderType
  <2> QED
      BY <1>1, <1>2, <2>1 DEF ReadInv
<1> QED
    BY <1>7, <1>8, <1>9, <1>10, <1>11, <1>12 DEF CatalogInv

(* the event of the next part, and where it is among those of the split *)
NextEvent == ListingEvent(Head(todo).d, Latest.key, Head(todo).json, now, Latest.id)

LEMMA NextEventIs ==
    ASSUME CatalogInv, todo # <<>>, NEW k \in 0..Len(Split(Latest)), OutUpTo(k)
    PROVE  /\ log # <<>> /\ PartOf(Latest, NextEvent) /\ NextEvent.at = now
           /\ NextEvent.d = k /\ k < Len(Split(Latest))
           /\ Tail(todo) = SubSeq(Split(Latest), k + 2, Len(Split(Latest)))
<1> DEFINE S == Split(Latest)
<1>1. TypeInv /\ PublishInv
    BY DEF CatalogInv
<1>2. log # <<>>
    BY <1>1 DEF PublishInv
<1>3. Latest \in PublicationType
    BY <1>1, <1>2, LatestIs
<1>4. /\ S = SplitListing(Content[Latest.version]) /\ Content[Latest.version] \in Seq(Entry)
    BY <1>3, CatalogAssumption DEF PublicationType, Split
<1>5. S \in Seq([d : Nat, json : Payload]) /\ Len(S) \in Nat \ {0} /\ \A j \in 1..Len(S) : S[j].d = j - 1
    BY <1>4, SplitIs, Zenon DEF SplitSound
<1>6. todo = SubSeq(S, k + 1, Len(S))
    BY DEF OutUpTo
<1> HIDE DEF S
<1>7. k < Len(S) /\ k \in Nat
    BY <1>5, <1>6 DEF S
<1>8. Head(todo) = S[k + 1] /\ Tail(todo) = SubSeq(S, k + 2, Len(S))
    BY <1>5, <1>6, <1>7
<1>9. k + 1 \in 1..Len(S) /\ S[k + 1] \in [d : Nat, json : Payload] /\ S[k + 1].d = k
  <2>1. k + 1 \in 1..Len(S) /\ (k + 1) - 1 = k
      BY <1>5, <1>7
  <2> QED
      BY <1>5, <2>1, ElementOfSeq
<1>10. NextEvent = ListingEvent(k, Latest.key, S[k + 1].json, now, Latest.id)
    BY <1>8, <1>9 DEF NextEvent
<1>11. NextEvent \in Event /\ NextEvent.key = Latest.key /\ NextEvent.id = Latest.id
       /\ NextEvent.d = k /\ NextEvent.json = S[k + 1].json /\ NextEvent.at = now
    BY <1>1, <1>3, <1>7, <1>9, <1>10, CatalogAssumption
       DEF ListingEvent, Event, PublicationType, TypeInv, SchemaV, CryptoV
<1>12. PartOf(Latest, NextEvent)
    BY <1>9, <1>11 DEF PartOf, S
<1> QED
    BY <1>2, <1>7, <1>8, <1>11, <1>12 DEF S

(* what a relay holds after an event has come in *)
LEMMA ReceiveIs ==
    ASSUME NEW r \in Relay, NEW e, store[r] \in SUBSET Event, e \in Event
    PROVE  /\ Receive(r, e) \subseteq store[r] \cup {e}
           /\ \A f \in store[r] : f.d # e.d => f \in Receive(r, e)
           /\ e \in Receive(r, e) \/ \E f \in store[r] : f.d = e.d /\ f.at >= e.at
<1> DEFINE same == {f \in store[r] : f.d = e.d}
           kept == {f \in same : f.at > e.at \/ (f.at = e.at /\ f.id < e.id)}
<1>1. Receive(r, e) = IF r \in Hoarders THEN store[r] \cup {e}
                      ELSE IF kept = {} THEN (store[r] \ same) \cup {e} ELSE store[r]
    BY Zenon DEF Receive, Replace
<1>2. CASE kept = {}
    BY <1>1, <1>2
<1>3. CASE kept # {}
  <2>1. PICK f \in kept : TRUE
      BY <1>3
  <2>2. f \in store[r] /\ f.d = e.d /\ f.at \in Nat /\ e.at \in Nat
      BY <2>1 DEF Event
  <2>3. f.at >= e.at
      BY <2>1, <2>2
  <2>4. Receive(r, e) = store[r] \cup {e} \/ Receive(r, e) = store[r]
      BY <1>1, <1>3
  <2> QED
      BY <2>2, <2>3, <2>4
<1> QED
    BY <1>2, <1>3

LEMMA PublishNextKeeps ==
    ASSUME CatalogInv, NEW accepted \in SUBSET Relay, PublishNext(accepted)
    PROVE  CatalogInv'
<1> DEFINE last == Latest
           e == NextEvent
           L == [last EXCEPT !.events = @ \cup {e}, !.sound = @ /\ accepted = Relay]
           S == Split(last)
<1>1. TypeInv /\ LogInv /\ HeldInv /\ PublishInv /\ SoundInv /\ ReadInv
      /\ log \in Seq(PublicationType)
    BY DEF CatalogInv, TypeInv
<1>2. /\ todo # <<>> /\ UNCHANGED <<now, reader, shown>>
      /\ store' = [r \in Relay |-> IF r \in accepted THEN Receive(r, e) ELSE store[r]]
      /\ todo' = IF accepted = {} THEN <<>> ELSE Tail(todo)
      /\ log' = <<L>> \o Tail(log)
    BY Zenon DEF PublishNext, NextEvent, Latest
<1>3. log # <<>>
    BY <1>1, <1>2 DEF PublishInv
<1>4. PICK k \in 0..Len(S) : OutUpTo(k)
    BY <1>1, <1>3 DEF PublishInv
<1>5. /\ PartOf(last, e) /\ e.at = now /\ e.d = k /\ k < Len(S) /\ Tail(todo) = SubSeq(S, k + 2, Len(S))
    BY <1>2, <1>4, NextEventIs
<1>6. last \in PublicationType /\ Logged = last.events \cup EarlierEvents /\ last = log[1]
    BY <1>1, <1>3, LatestIs
<1>7. e \in Event
    BY <1>5 DEF PartOf
<1> HIDE DEF last, e
<1>8. /\ L \in PublicationType /\ L.events = last.events \cup {e} /\ L.sound = (last.sound /\ accepted = Relay)
      /\ L.key = last.key /\ L.id = last.id /\ L.version = last.version
    BY <1>6, <1>7 DEF PublicationType
<1> HIDE DEF L
<1>9. /\ log' \in Seq(PublicationType) /\ log' # <<>> /\ Head(log') = L
      /\ Len(log') = Len(log) /\ Len(log) \in Nat \ {0} /\ log'[1] = L
      /\ \A i \in 2..Len(log) : log'[i] = log[i]
    BY <1>1, <1>2, <1>3, <1>8, ReplaceHeadIs
<1>10. \A i \in 1..Len(log) : i = 1 \/ i \in 2..Len(log)
    BY <1>9
<1>11. Split(L) = S /\ Latest' = L /\ k \in Nat
    BY <1>8, <1>9 DEF Split, Latest, S
<1> HIDE DEF S
<1>12. EarlierEvents' = EarlierEvents
    BY <1>9 DEF EarlierEvents
<1>13. Logged' = Logged \cup {e}
  <2>1. Logged' = Latest'.events \cup EarlierEvents'
    <3>1. 1..Len(log') = {1} \cup 2..Len(log')
        BY <1>9
    <3> QED
        BY <1>9, <1>11, <3>1 DEF Logged, EarlierEvents
  <2> QED
      BY <1>6, <1>8, <1>11, <1>12, <2>1
<1>14. \A r \in Relay : store[r] \in SUBSET Event /\ store'[r] \subseteq store[r] \cup {e}
  <2>1. ASSUME NEW r \in Relay PROVE store[r] \in SUBSET Event /\ store'[r] \subseteq store[r] \cup {e}
    <3>1. store[r] \in SUBSET Event
        BY <1>1 DEF TypeInv
    <3>2. Receive(r, e) \subseteq store[r] \cup {e}
        BY <1>7, <3>1, ReceiveIs
    <3> QED
        BY <1>2, <3>1, <3>2
  <2> QED
      BY <2>1
<1>15. TypeInv'
  <2>1. store' \in [Relay -> SUBSET Event]
    <3>1. \A r \in Relay : store'[r] \in SUBSET Event
        BY <1>7, <1>14
    <3>2. store' = [r \in Relay |-> store'[r]]
        BY <1>2
    <3> QED
        BY <3>1, <3>2
  <2>2. todo' \in Seq([d : Nat, json : Payload])
      BY <1>1, <1>2, HeadTailProperties, EmptySeq DEF TypeInv
  <2> QED
      BY <1>1, <1>2, <1>9, <2>1, <2>2 DEF TypeInv
<1>16. LogInv'
  <2>1. ASSUME NEW i \in 1..Len(log'), NEW f \in log'[i].events
        PROVE  PartOf(log'[i], f) /\ f.at <= now'
    <3>1. CASE i = 1
      <4>1. f \in last.events \cup {e}
          BY <1>8, <1>9, <3>1
      <4>2. PartOf(last, f) /\ f.at <= now
        <5>1. CASE f = e
            BY <1>1, <1>5, <5>1 DEF TypeInv
        <5>2. CASE f \in last.events
          <6>1. 1 \in 1..Len(log)
              BY <1>9
          <6> QED
              BY <1>1, <1>6, <5>2, <6>1 DEF LogInv
        <5> QED
            BY <4>1, <5>1, <5>2
      <4>3. PartOf(L, f)
          BY <1>8, <1>11, <4>2 DEF PartOf, S
      <4> QED
          BY <1>2, <1>9, <3>1, <4>2, <4>3
    <3>2. CASE i \in 2..Len(log)
      <4>1. i \in 1..Len(log) /\ log'[i] = log[i]
          BY <1>9, <3>2
      <4> QED
          BY <1>1, <1>2, <4>1 DEF LogInv
    <3> QED
        BY <1>9, <1>10, <3>1, <3>2
  <2>2. \E b \in Nat : \A i \in 1..Len(log') : log'[i].id <= b
    <3>1. PICK b \in Nat : \A i \in 1..Len(log) : log[i].id <= b
        BY <1>1 DEF LogInv
    <3>2. ASSUME NEW i \in 1..Len(log) PROVE log'[i].id = log[i].id
        BY <1>6, <1>8, <1>9, <1>10
    <3> QED
        BY <1>9, <3>1, <3>2
  <2> QED
      BY <2>1, <2>2 DEF LogInv
<1>17. HeldInv'
    BY <1>1, <1>2, <1>13, <1>14 DEF HeldInv
<1>18. PublishInv'
  <2>1. k + 1 \in 0..Len(S)
      BY <1>5, <1>11
  <2>2. {f.d : f \in last.events} = 0..(k - 1) /\ \A f, g \in last.events : f.d = g.d => f = g
      BY <1>4 DEF OutUpTo, last
  <2>3. {f.d : f \in L.events} = 0..((k + 1) - 1)
    <3>1. {f.d : f \in L.events} = {f.d : f \in last.events} \cup {e.d}
        BY <1>8
    <3>2. 0..((k + 1) - 1) = 0..(k - 1) \cup {k}
        BY <1>11
    <3> QED
        BY <1>5, <2>2, <3>1, <3>2
  <2>4. \A f, g \in L.events : f.d = g.d => f = g
    <3>1. k \notin 0..(k - 1)
        BY <1>11
    <3>2. \A f \in last.events : f.d # e.d
        BY <1>5, <2>2, <3>1
    <3> QED
        BY <1>8, <2>2, <3>2
  <2>5. \/ todo' = SubSeq(S, (k + 1) + 1, Len(S))
        \/ todo' = <<>> /\ ~L.sound
    <3>1. CASE accepted = {}
      <4>1. accepted # Relay
          BY <3>1, CatalogAssumption
      <4> QED
          BY <1>2, <1>8, <3>1, <4>1
    <3>2. CASE accepted # {}
      <4>1. (k + 1) + 1 = k + 2
          BY <1>11
      <4> QED
          BY <1>2, <1>5, <3>2, <4>1
    <3> QED
        BY <3>1, <3>2
  <2>6. OutUpTo(k + 1)'
      BY <1>11, <2>3, <2>4, <2>5 DEF OutUpTo
  <2> QED
      BY <1>9, <1>11, <2>1, <2>6 DEF PublishInv
<1>19. SoundInv'
  <2> SUFFICES ASSUME L.sound, NEW f \in L.events
               PROVE  Beaten(f)' \/ \A r \in Relay : f \in store'[r]
      BY <1>11, Zenon DEF SoundInv
  <2>1. last.sound /\ \A r \in Relay : store'[r] = Receive(r, e)
      BY <1>2, <1>8
  <2>2. {g.d : g \in last.events} = 0..(k - 1) /\ k \notin 0..(k - 1)
      BY <1>4, <1>11 DEF OutUpTo, last
  <2>3. CASE f \in last.events
    <3>1. Beaten(f) \/ \A r \in Relay : f \in store[r]
        BY <1>1, <1>3, <2>1, <2>3 DEF SoundInv, last
    <3>2. CASE Beaten(f)
        BY <1>12, <3>2 DEF Beaten
    <3>3. CASE \A r \in Relay : f \in store[r]
      <4>1. f.d # e.d
          BY <1>5, <2>2, <2>3
      <4> QED
          BY <1>7, <1>14, <2>1, <3>3, <4>1, ReceiveIs
    <3> QED
        BY <3>1, <3>2, <3>3
  <2>4. CASE f = e
    <3>1. CASE \E r \in Relay : e \notin Receive(r, e)
      <4>1. PICK r \in Relay : e \notin Receive(r, e)
          BY <3>1
      <4>2. PICK g \in store[r] : g.d = e.d /\ g.at >= e.at
          BY <1>7, <1>14, <4>1, ReceiveIs
      <4>3. g \in Logged
          BY <1>1, <4>2 DEF HeldInv
      <4>4. g \notin last.events
          BY <1>5, <2>2, <4>2
      <4> QED
          BY <1>6, <1>12, <2>4, <4>2, <4>3, <4>4 DEF Beaten
    <3>2. CASE \A r \in Relay : e \in Receive(r, e)
        BY <2>1, <2>4, <3>2
    <3> QED
        BY <3>1, <3>2
  <2> QED
      BY <1>8, <2>3, <2>4
<1>20. ReadInv'
    BY <1>1, <1>2 DEF ReadInv
<1> QED
    BY <1>15, <1>16, <1>17, <1>18, <1>19, <1>20 DEF CatalogInv

-----------------------------------------------------------------------------
(* What a browse shows *)

(* every event that a relay or a reader holds is one of the log, and times  *)
(* and ids are bounded                                                      *)
LEMMA GotIs ==
    ASSUME CatalogInv
    PROVE  /\ reader.got \in SUBSET Event /\ now \in Nat
           /\ \A e \in reader.got : \E i \in 1..Len(log) : e \in log[i].events /\ PartOf(log[i], e)
           /\ Bounded(reader.got)
<1>1. TypeInv /\ LogInv /\ HeldInv
    BY DEF CatalogInv
<1>2. ASSUME NEW e \in reader.got
      PROVE  \E i \in 1..Len(log) : e \in log[i].events /\ PartOf(log[i], e) /\ e.at <= now
  <2>1. e \in Logged
      BY <1>1 DEF HeldInv
  <2>2. PICK i \in 1..Len(log) : e \in log[i].events
      BY <2>1 DEF Logged
  <2> QED
      BY <1>1, <2>2 DEF LogInv
<1>3. PICK b \in Nat : \A i \in 1..Len(log) : log[i].id <= b
    BY <1>1 DEF LogInv
<1>4. \A e \in reader.got : e.at <= now /\ e.id <= b
    BY <1>2, <1>3 DEF PartOf
<1>5. reader.got \in SUBSET Event /\ now \in Nat
    BY <1>1 DEF TypeInv, ReaderType
<1> QED
    BY <1>2, <1>4, <1>5 DEF Bounded

(* a publication of the log that the shown entry x is of *)
LEMMA ShownIs ==
    ASSUME CatalogInv, FinishBrowse, NEW x \in Shown'
    PROVE  \E i \in 1..Len(log) :
               /\ Has(log[i], x) /\ log[i].key = reader.key
               /\ \/ shown'.total = PartsOf(log[i].version) - 1
                  \/ shown'.total = 1 /\ PartsOf(log[i].version) = 1
<1> DEFINE R == FetchListing(reader.got, reader.key)
<1>1. shown' = R
    BY Zenon DEF FinishBrowse
<1>2. x \in Items(R.entries)
    BY <1>1 DEF Shown, Items
<1> HIDE DEF R
<1>3. PICK e \in reader.got : /\ e.key = reader.key /\ x \in Items(e.json.entries)
                              /\ \/ e.json.form = "plain" /\ R.total = 1
                                 \/ e.json.form = "part" /\ e.json.parts = R.total
  <2>1. reader.got \in SUBSET Event /\ Bounded(reader.got)
      BY GotIs
  <2> QED
      BY <1>2, <2>1, ReadIs, Zenon DEF R
<1>4. PICK i \in 1..Len(log) : PartOf(log[i], e)
    BY GotIs
<1>5. log[i] \in PublicationType
    BY ElementOfSeq DEF CatalogInv, TypeInv
<1>6. /\ Items(e.json.entries) \subseteq Items(Content[log[i].version])
      /\ e.json.form = "plain" => Len(Split(log[i])) = 1
      /\ e.json.form = "part" => e.json.parts = Len(Split(log[i])) - 1
    BY <1>4, <1>5, PieceIs
<1>7. Len(Split(log[i])) = PartsOf(log[i].version)
    BY DEF Split, PartsOf
<1>8. Has(log[i], x)
    BY <1>3, <1>6 DEF Has, Items
<1>9. log[i].key = reader.key
    BY <1>3, <1>4 DEF PartOf
<1> QED
    BY <1>1, <1>3, <1>6, <1>7, <1>8, <1>9

(* what an undisturbed browse has fetched *)
LEMMA WholeIs ==
    ASSUME CatalogInv, FinishBrowse, Undisturbed', NewerThanEarlier, CoversEarlier,
           Acceptable(Latest.version), reader.key = Latest.key
    PROVE  shown'.ok /\ shown'.entries = Content[Latest.version] /\ shown'.missing = {}
<1> DEFINE got == reader.got
           S == Split(Latest)
<1>1. TypeInv /\ LogInv /\ HeldInv /\ PublishInv /\ SoundInv /\ ReadInv
    BY DEF CatalogInv
<1>2. /\ shown' = FetchListing(got, reader.key) /\ UNCHANGED log
      /\ reader.phase = "fetch" /\ reader.ask = {} /\ reader'.whole = reader.whole
    BY <1>1 DEF FinishBrowse, TypeInv
<1>3. reader.whole /\ log # <<>> /\ Latest.sound
    BY <1>2 DEF Undisturbed, Latest
<1>4. /\ Latest = log[1] /\ Latest \in PublicationType /\ Len(log) \in Nat \ {0}
      /\ Logged = Latest.events \cup EarlierEvents
    BY <1>1, <1>3, LatestIs
<1>5. todo = <<>> /\ \E r \in Relay : store[r] \subseteq got
    BY <1>1, <1>2, <1>3 DEF ReadInv
<1>6. ASSUME NEW e \in Latest.events PROVE PartOf(Latest, e) /\ e \in Event /\ e.at \in Nat
  <2>1. 1 \in 1..Len(log)
      BY <1>4
  <2> QED
      BY <1>1, <1>4, <2>1 DEF LogInv, PartOf, Event
<1>7. got \in SUBSET Event /\ got \subseteq Logged /\ now \in Nat
    BY <1>1, GotIs DEF HeldInv
<1>8. ASSUME NEW e \in EarlierEvents PROVE e \in Event /\ e.at \in Nat
  <2>1. PICK i \in 2..Len(log) : e \in log[i].events
      BY DEF EarlierEvents
  <2>2. i \in 1..Len(log)
      BY <1>4, <2>1
  <2> QED
      BY <1>1, <2>1, <2>2 DEF LogInv, PartOf, Event
<1>9. Latest.events \subseteq got
  <2> SUFFICES ASSUME NEW e \in Latest.events PROVE e \in got
      OBVIOUS
  <2>1. ~Beaten(e)
    <3>1. ASSUME NEW f \in EarlierEvents, f.at >= e.at PROVE FALSE
      <4>1. e.at > f.at
          BY DEF NewerThanEarlier
      <4> QED
          BY <1>6, <1>8, <3>1, <4>1
    <3> QED
        BY <3>1 DEF Beaten
  <2>2. \A r \in Relay : e \in store[r]
      BY <1>1, <1>3, <2>1 DEF SoundInv
  <2> QED
      BY <1>5, <2>2
<1>10. PICK k \in 0..Len(S) : OutUpTo(k)
    BY <1>1, <1>3 DEF PublishInv
<1>11. Len(S) \in Nat \ {0}
  <2>1. Content[Latest.version] \in Seq(Entry)
      BY <1>4, CatalogAssumption DEF PublicationType
  <2> QED
      BY <2>1, SplitIs DEF SplitSound, Split
<1>12. k = Len(S)
  <2>1. k \in Nat
      BY <1>10, <1>11
  <2>2. SubSeq(S, k + 1, Len(S)) = <<>>
      BY <1>3, <1>5, <1>10 DEF OutUpTo
  <2>3. S \in Seq([d : Nat, json : Payload])
    <3>1. Content[Latest.version] \in Seq(Entry)
        BY <1>4, CatalogAssumption DEF PublicationType
    <3> QED
        BY <3>1, SplitIs DEF Split
  <2> HIDE DEF S
  <2>4. ASSUME k < Len(S) PROVE FALSE
    <3>1. Len(SubSeq(S, k + 1, Len(S))) = Len(S) - k /\ Len(<<>>) = 0
        BY <1>11, <2>1, <2>3, <2>4
    <3>2. Len(S) - k = 0
        BY <2>2, <3>1, Zenon
    <3> QED
        BY <1>11, <2>1, <2>4, <3>2
  <2> QED
      BY <1>10, <1>11, <2>4 DEF S
<1>13. {e.d : e \in got} = 0..(Len(S) - 1)
  <2>1. {e.d : e \in Latest.events} = 0..(Len(S) - 1)
      BY <1>10, <1>12 DEF OutUpTo
  <2>2. ASSUME NEW e \in got PROVE e.d \in {f.d : f \in Latest.events}
    <3>1. e \in Latest.events \/ e \in EarlierEvents
        BY <1>4, <1>7
    <3> QED
        BY <3>1 DEF CoversEarlier
  <2> QED
      BY <1>9, <2>1, <2>2
<1>14. \A e \in got : PartOf(Latest, e) \/ \E f \in got : f.d = e.d /\ f.at > e.at
  <2> SUFFICES ASSUME NEW e \in got, e \notin Latest.events
               PROVE  \E f \in got : f.d = e.d /\ f.at > e.at
      BY <1>6
  <2>1. e \in EarlierEvents
      BY <1>4, <1>7
  <2>2. PICK f \in Latest.events : f.d = e.d
      BY <2>1 DEF CoversEarlier
  <2> QED
      BY <1>9, <2>1, <2>2 DEF NewerThanEarlier
<1>15. Bounded(got)
    BY GotIs
<1>16. {e.d : e \in got} = 0..(Len(Split(Latest)) - 1)
    BY <1>13
<1>17. Latest \in PublicationType /\ got \in SUBSET Event
    BY <1>4, <1>7
<1> DEFINE R == FetchListing(got, Latest.key)
<1>18. Acceptable(Latest.version)
    OBVIOUS
<1>19. R.ok /\ R.entries = Content[Latest.version] /\ R.missing = {}
  <2> HIDE DEF got, S
  <2> QED
      BY ONLY <1>14, <1>15, <1>16, <1>17, <1>18, ReadWhole, Zenon
<1> QED
    BY <1>2, <1>19

-----------------------------------------------------------------------------
(* The theorems *)

(* what holds of the listing shown by a browse that has ended *)
ShownInv == SupersedesOutright /\ NoForeignPart /\ RekeyLocks

(* nothing is shown, and no browse has ended with all answers in *)
LEMMA NothingShown ==
    ASSUME shown = Failed, ~(reader.phase = "done" /\ reader.whole)
    PROVE  ShownInv
<1>1. ~Undisturbed
    BY DEF Undisturbed
<1>2. Shown = {}
    BY DEF Shown, Failed
<1> QED
    BY <1>1, <1>2 DEF ShownInv, SupersedesOutright, NoForeignPart, RekeyLocks

LEMMA NothingShownNext ==
    ASSUME shown' = Failed, ~(reader'.phase = "done" /\ reader'.whole)
    PROVE  ShownInv'
<1>1. ~Undisturbed'
    BY DEF Undisturbed
<1>2. Shown' = {}
    BY DEF Shown, Failed
<1> QED
    BY <1>1, <1>2 DEF ShownInv, SupersedesOutright, NoForeignPart, RekeyLocks

LEMMA FinishShows ==
    ASSUME CatalogInv, FinishBrowse
    PROVE  ShownInv'
<1>1. log' = log /\ reader'.key = reader.key
    BY DEF FinishBrowse, CatalogInv, TypeInv
<1>2. SupersedesOutright'
  <2> SUFFICES ASSUME Undisturbed', NewerThanEarlier', CoversEarlier', Acceptable(Latest.version)',
                      (reader.key = Latest.key)'
               PROVE  (shown.ok /\ shown.entries = Content[Latest.version] /\ shown.missing = {})'
      BY Zenon DEF SupersedesOutright
  <2>1. NewerThanEarlier /\ CoversEarlier /\ Acceptable(Latest.version) /\ reader.key = Latest.key
      BY <1>1 DEF NewerThanEarlier, CoversEarlier, EarlierEvents, Latest
  <2>2. Latest' = Latest
      BY <1>1 DEF Latest
  <2> QED
      BY <2>1, <2>2, WholeIs
<1>3. \A x \in Shown' : \E i \in 1..Len(log) :
          /\ Has(log[i], x) /\ log[i].key = reader.key
          /\ \/ shown'.total = PartsOf(log[i].version) - 1
             \/ shown'.total = 1 /\ PartsOf(log[i].version) = 1
    BY ShownIs
<1>4. NoForeignPart'
    BY <1>1, <1>3 DEF NoForeignPart
<1>5. RekeyLocks'
    BY <1>1, <1>3 DEF RekeyLocks
<1> QED
    BY <1>2, <1>4, <1>5 DEF ShownInv

LEMMA InvStep ==
    ASSUME CatalogInv, ShownInv, [CatalogNext]_catalogVars
    PROVE  CatalogInv' /\ ShownInv'
<1>1. CASE UNCHANGED catalogVars
  <2>1. CatalogInv'
    <3>1. UNCHANGED <<now, store, log, todo, reader, shown>> /\ TypeInv /\ ReadInv
        BY <1>1 DEF catalogVars, CatalogInv
    <3>2. TypeInv' /\ now' \in Nat /\ now <= now' /\ ReadInv'
        BY <3>1 DEF TypeInv, ReadInv
    <3>3. LogInv' /\ HeldInv' /\ PublishInv' /\ SoundInv'
        BY <3>1, <3>2, QuietStep
    <3> QED
        BY <3>2, <3>3 DEF CatalogInv
  <2>2. ShownInv'
    <3>1. UNCHANGED <<log, reader, shown>> /\ Latest' = Latest
        BY <1>1 DEF catalogVars, Latest
    <3>2. Undisturbed' = Undisturbed /\ Shown' = Shown
        BY <3>1 DEF Undisturbed, Shown
    <3>3. NewerThanEarlier' = NewerThanEarlier /\ CoversEarlier' = CoversEarlier
        BY <3>1 DEF NewerThanEarlier, CoversEarlier, EarlierEvents
    <3>4. SupersedesOutright'
        BY <3>1, <3>2, <3>3 DEF ShownInv, SupersedesOutright
    <3>5. NoForeignPart'
        BY <3>1, <3>2 DEF ShownInv, NoForeignPart
    <3>6. RekeyLocks'
        BY <3>1, <3>2 DEF ShownInv, RekeyLocks
    <3> QED
        BY <3>4, <3>5, <3>6 DEF ShownInv
  <2> QED
      BY <2>1, <2>2
<1>2. CASE FinishBrowse
    BY <1>2, ReadsKeep, FinishShows DEF Browse
<1>3. CASE \/ Tick
           \/ \E version \in Version, key \in BrowseKey, id \in EventId : StartPublish(version, key, id)
           \/ \E accepted \in SUBSET Relay : PublishNext(accepted)
           \/ \E key \in BrowseKey \cup {NoBrowseKey} : StartBrowse(key)
           \/ \E reached \in SUBSET Relay : ResolveRelays(reached)
           \/ \E fails \in BOOLEAN : FetchTeaser(fails)
           \/ \E r \in Relay : FetchFrom(r) \/ FetchTimesOut(r)
  <2>1. CatalogInv'
      BY <1>3, TickKeeps, StartPublishKeeps, PublishNextKeeps, ReadsKeep DEF Browse
  <2>2. shown' = Failed
    <3>1. reader.phase # "done" /\ shown' = shown
        BY <1>3 DEF Tick, StartPublish, PublishNext, StartBrowse, ResolveRelays, FetchTeaser,
                    FetchFrom, FetchTimesOut, Followed
    <3> QED
        BY <3>1 DEF CatalogInv, ReadInv
  <2>3. ~(reader'.phase = "done" /\ reader'.whole)
    <3>1. reader.phase # "done"
        BY <1>3 DEF Tick, StartPublish, PublishNext, StartBrowse, ResolveRelays, FetchTeaser,
                    FetchFrom, FetchTimesOut, Followed
    <3>2. reader \in ReaderType
        BY DEF CatalogInv, TypeInv
    <3>3. ASSUME NEW fails \in BOOLEAN, FetchTeaser(fails)
          PROVE  reader'.phase # "done" \/ ~reader'.whole
        BY <3>2, <3>3 DEF FetchTeaser, ReaderType
    <3>4. ASSUME NEW r \in Relay, FetchFrom(r) \/ FetchTimesOut(r) PROVE reader'.phase # "done"
        BY <3>2, <3>4 DEF FetchFrom, FetchTimesOut, ReaderType
    <3>5. ASSUME NEW version \in Version, NEW key \in BrowseKey, NEW id \in EventId,
                 StartPublish(version, key, id)
          PROVE  reader'.phase # "done"
        BY <3>1, <3>2, <3>5 DEF StartPublish
    <3>6. ASSUME NEW reached \in SUBSET Relay, ResolveRelays(reached) PROVE reader'.phase # "done"
        BY <3>2, <3>6 DEF ResolveRelays
    <3>7. ASSUME Tick \/ \E accepted \in SUBSET Relay : PublishNext(accepted)
          PROVE  reader'.phase # "done"
      <4>1. reader' = reader
          BY <3>7, Zenon DEF Tick, PublishNext
      <4> QED
          BY <3>1, <4>1
    <3>8. ASSUME NEW key \in BrowseKey \cup {NoBrowseKey}, StartBrowse(key)
          PROVE  reader'.phase # "done"
        BY <3>8 DEF StartBrowse
    <3> QED
        BY <1>3, <3>3, <3>4, <3>5, <3>6, <3>7, <3>8
  <2>4. ShownInv'
      BY <2>2, <2>3, NothingShownNext
  <2> QED
      BY <2>1, <2>4
<1> QED
    BY <1>1, <1>2, <1>3 DEF CatalogNext, Browse

(* CatalogInv and ShownInv hold in every reachable state: what a relay      *)
(* holds is of a publication (client.rs publish), what is published part by *)
(* part is out up to some part, what a browse has fetched is what relays    *)
(* held.                                                                    *)
THEOREM CatalogInvariant == CatalogSpec => [](CatalogInv /\ ShownInv)
<1>1. CatalogInit => CatalogInv /\ ShownInv
  <2>1. CatalogInit => shown = Failed /\ reader.phase = "idle"
      BY DEF CatalogInit, NotReading
  <2> QED
      BY <2>1, InvInit, NothingShown
<1>2. CatalogInv /\ ShownInv /\ [CatalogNext]_catalogVars => (CatalogInv /\ ShownInv)'
    BY InvStep
<1> QED
    BY <1>1, <1>2, PTL DEF CatalogSpec

(* Whoever browses undisturbed, with its key, sees all of the last          *)
(* publication and nothing else (browse.rs:46), for any relays, contents,   *)
(* ids and number of publications, where the last one is dated after the    *)
(* others, covers their d-tags (a split that has shrunk does not) and has   *)
(* no more parts than a reader accepts.                                     *)
THEOREM SupersedesOutrightTheorem == CatalogSpec => []SupersedesOutright
<1>1. ShownInv => SupersedesOutright
    BY DEF ShownInv
<1> QED
    BY <1>1, CatalogInvariant, PTL

(* An entry is shown only among as many parts as its publication was split  *)
(* into (render_listing), however publications and fetches interleave.      *)
THEOREM NoForeignPartTheorem == CatalogSpec => []NoForeignPart
<1>1. ShownInv => NoForeignPart
    BY DEF ShownInv
<1> QED
    BY <1>1, CatalogInvariant, PTL

(* A reader sees entries only of publications under the key it holds        *)
(* (parse_listing_event).                                                   *)
THEOREM RekeyLocksTheorem == CatalogSpec => []RekeyLocks
<1>1. ShownInv => RekeyLocks
    BY DEF ShownInv
<1> QED
    BY <1>1, CatalogInvariant, PTL
=============================================================================
