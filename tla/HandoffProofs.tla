------------------------------ MODULE HandoffProofs ------------------------------
(***************************************************************************)
(* Proofs about Handoff: what an offer, a printed ticket, a recv and a file *)
(* that has landed still have of the descriptor that was sent, and what     *)
(* follows for what lands, where it lands and what has been said before.    *)
(* The folds of the model are recursive functions over sets of indices; the *)
(* first lemmas give them the form of a loop over the sequence.             *)
(***************************************************************************)
EXTENDS Handoff, SequenceTheorems, NaturalsInduction, WellFoundedInduction, TLAPS

(* induction up to n, of a set of numbers *)
LEMMA UpTo ==
    ASSUME NEW n \in Nat, NEW P, 0 \in P, \A k \in 1..n : k - 1 \in P => k \in P
    PROVE  \A k \in 0..n : k \in P
<1> DEFINE R == OpToRel(<, Nat)
           T == {k \in 0..n : k \notin P}
<1> SUFFICES ASSUME T # {} PROVE FALSE
    OBVIOUS
<1>1. IsWellFoundedOn(R, Nat) /\ \A x, y \in Nat : <<y, x>> \in R <=> y < x
    BY NatLessThanWellFounded DEF OpToRel
<1> HIDE DEF R
<1>2. T \subseteq Nat
    OBVIOUS
<1>3. PICK x \in T : \A y \in T : <<y, x>> \notin R
    BY <1>1, <1>2, WFMin
<1>4. x \in 1..n /\ x - 1 \in 0..n /\ x - 1 \in Nat /\ x - 1 < x
    BY <1>3
<1>5. x - 1 \in P
  <2>1. <<x - 1, x>> \in R
      BY <1>1, <1>4
  <2>2. x - 1 \notin T
      BY <1>3, <2>1, Zenon
  <2> QED
      BY <1>4, <2>2
<1> QED
    BY <1>3, <1>4, <1>5

LEMMA MaxIs ==
    ASSUME NEW k \in Nat, NEW s \in SUBSET (1..k), k \in s
    PROVE  Max(s) = k
<1>1. \A y \in s : k >= y
    OBVIOUS
<1>2. \A x \in s : (\A y \in s : x >= y) => x = k
    OBVIOUS
<1> QED
    BY <1>1, <1>2 DEF Max

LEMMA LastOf ==
    ASSUME NEW k \in Nat, NEW s \in SUBSET (1..k)
    PROVE  \/ k \in s /\ Max(s) = k /\ s # {} /\ s \ {k} \in SUBSET (1..(k - 1)) /\ k \in 1..k
           \/ s \in SUBSET (1..(k - 1))
BY MaxIs

LEMMA MaxWithin ==
    ASSUME NEW n \in Nat, NEW s \in SUBSET (1..n), s # {}
    PROVE  Max(s) \in s /\ Max(s) \in 1..n
<1> DEFINE P == {k \in 0..n : \A t \in SUBSET (1..k) : t # {} => Max(t) \in t}
<1>1. 0 \in P
  <2>1. 0 \in 0..n /\ \A t \in SUBSET (1..0) : t = {}
      OBVIOUS
  <2> QED
      BY <2>1
<1>2. ASSUME NEW k \in 1..n, k - 1 \in P PROVE k \in P
    BY <1>2, LastOf
<1> HIDE DEF P
<1>3. n \in P
    BY <1>1, <1>2, UpTo
<1> QED
    BY <1>3 DEF P

LEMMA UpToMax ==
    ASSUME NEW k \in Nat \ {0}
    PROVE  1..k # {} /\ Max(1..k) = k /\ (1..k) \ {k} = 1..(k - 1)
<1>1. k \in 1..k /\ (1..k) \ {k} = 1..(k - 1)
    OBVIOUS
<1> QED
    BY <1>1, MaxIs

(* g is the function over sets of indices that a fold from the left evaluates *)
Folds(g, n, y0, G) ==
    \A s \in SUBSET (1..n) : g[s] = IF s = {} THEN y0 ELSE G[<<Max(s), g[s \ {Max(s)}]>>]

LEMMA FoldExists ==
    ASSUME NEW n \in Nat, NEW Y, NEW y0 \in Y, NEW G \in [(1..n) \X Y -> Y]
    PROVE  \E g \in [SUBSET (1..n) -> Y] : Folds(g, n, y0, G)
<1> DEFINE Step(g, s) == g[s] = IF s = {} THEN y0 ELSE G[<<Max(s), g[s \ {Max(s)}]>>]
           P == {k \in 0..n : \E g \in [SUBSET (1..n) -> Y] : \A s \in SUBSET (1..k) : Step(g, s)}
<1>1. 0 \in P
  <2> DEFINE g == [s \in SUBSET (1..n) |-> y0]
  <2>1. g \in [SUBSET (1..n) -> Y]
      OBVIOUS
  <2>2. ASSUME NEW s \in SUBSET (1..0) PROVE Step(g, s)
    <3>1. s = {} /\ s \in SUBSET (1..n)
        OBVIOUS
    <3> QED
        BY <3>1
  <2> HIDE DEF g, Step
  <2>3. 0 \in 0..n
      OBVIOUS
  <2> QED
      BY <2>1, <2>2, <2>3, Zenon
<1>2. ASSUME NEW k \in 1..n, k - 1 \in P PROVE k \in P
  <2>1. PICK g \in [SUBSET (1..n) -> Y] : \A s \in SUBSET (1..(k - 1)) : Step(g, s)
      BY <1>2
  <2> DEFINE h == [s \in SUBSET (1..n) |->
                       IF s \in SUBSET (1..(k - 1)) THEN g[s] ELSE G[<<k, g[s \ {k}]>>]]
  <2>2. h \in [SUBSET (1..n) -> Y]
    <3> SUFFICES ASSUME NEW s \in SUBSET (1..n) PROVE G[<<k, g[s \ {k}]>>] \in Y
        OBVIOUS
    <3>1. s \ {k} \in SUBSET (1..n)
        OBVIOUS
    <3> QED
        BY <3>1
  <2>3. ASSUME NEW s \in SUBSET (1..k) PROVE Step(h, s)
    <3>1. k \in Nat /\ s \in SUBSET (1..n)
        OBVIOUS
    <3>2. CASE s \in SUBSET (1..(k - 1))
      <4>1. h[s] = g[s] /\ Step(g, s)
          BY <2>1, <3>1, <3>2
      <4>2. CASE s = {}
          BY <4>1, <4>2
      <4>3. CASE s # {}
        <5>1. s \ {Max(s)} \in SUBSET (1..(k - 1)) /\ s \ {Max(s)} \in SUBSET (1..n)
            BY <3>1, <3>2
        <5>2. h[s \ {Max(s)}] = g[s \ {Max(s)}]
            BY <5>1
        <5> QED
            BY <4>1, <4>3, <5>2
      <4> QED
          BY <4>2, <4>3
    <3>3. CASE s \notin SUBSET (1..(k - 1))
      <4>1. k \in s /\ Max(s) = k /\ s # {} /\ s \ {k} \in SUBSET (1..(k - 1))
          BY <3>1, <3>3, LastOf
      <4>2. s \ {k} \in SUBSET (1..n)
          BY <3>1
      <4>3. h[s] = G[<<k, g[s \ {k}]>>] /\ h[s \ {k}] = g[s \ {k}]
          BY <3>1, <3>3, <4>1, <4>2
      <4> QED
          BY <4>1, <4>3
    <3> QED
        BY <3>2, <3>3
  <2> HIDE DEF h, Step
  <2>4. k \in 0..n
      OBVIOUS
  <2> QED
      BY <2>2, <2>3, <2>4, Zenon
<1> HIDE DEF P
<1>3. n \in P
    BY <1>1, <1>2, UpTo
<1> QED
    BY <1>3, Zenon DEF P, Folds

-----------------------------------------------------------------------------
(* Places *)

LinksOK(l) == \A at \in DOMAIN l : l[at] \in Place

LEMMA WalkIsPlace ==
    ASSUME NEW l, LinksOK(l), NEW at \in Place, NEW segment \in STRING
    PROVE  Walk(l, at, segment) \in Place
<1>1. CASE at = Outside
    BY <1>1 DEF Walk, Place
<1>2. CASE at # Outside
  <2>1. at \in Seq(STRING)
      BY <1>2 DEF Place
  <2>2. Append(at, segment) \in Seq(STRING)
      BY <2>1, AppendProperties, Zenon
  <2>3. at # <<>> => Front(at) \in Seq(STRING)
    <3>1. at # <<>> => Len(at) \in Nat \ {0}
        BY <2>1, EmptySeq
    <3> QED
        BY <2>1, <3>1, SubSeqProperties DEF Front
  <2> DEFINE next == Append(at, segment)
             up == IF at = <<>> THEN Outside ELSE Front(at)
             down == IF next \in DOMAIN l THEN l[next] ELSE next
  <2>4. up \in Place /\ down \in Place
      BY <2>2, <2>3 DEF Place, LinksOK
  <2>5. CASE segment \in {Blank, Dot}
    <3>1. segment # Up
        BY <2>5 DEF Up, Blank, Dot
    <3> QED
        BY <1>2, <2>5, <3>1, Zenon DEF Walk
  <2>6. CASE segment = Up
    <3>1. segment \notin {Blank, Dot}
        BY <2>6 DEF Up, Blank, Dot
    <3> QED
        BY <1>2, <2>4, <2>6, <3>1, Zenon DEF Walk
  <2>7. CASE segment \notin {Blank, Dot} /\ segment # Up
      BY <1>2, <2>4, <2>7, Zenon DEF Walk
  <2> QED
      BY <2>5, <2>6, <2>7
<1> QED
    BY <1>1, <1>2

LEMMA PlaceSteps ==
    ASSUME NEW l, LinksOK(l), NEW path \in Seq(STRING)
    PROVE  \E w \in [0..Len(path) -> Place] :
               /\ w[0] = <<>>
               /\ \A k \in 1..Len(path) : w[k] = Walk(l, w[k - 1], path[k])
               /\ PlaceOf(l, path) = w[Len(path)]
<1> DEFINE n == Len(path)
           G == [a \in (1..n) \X Place |-> Walk(l, a[2], path[a[1]])]
<1>0. n \in Nat /\ DOMAIN path = 1..n /\ \A i \in 1..n : path[i] \in STRING
    OBVIOUS
<1>1. <<>> \in Place
    BY EmptySeq DEF Place
<1>2. G \in [(1..n) \X Place -> Place]
    BY <1>0, WalkIsPlace
<1>3. PICK g \in [SUBSET (1..n) -> Place] :
          \A s \in SUBSET (1..n) : g[s] = IF s = {} THEN <<>> ELSE G[<<Max(s), g[s \ {Max(s)}]>>]
  <2>1. \E g \in [SUBSET (1..n) -> Place] : Folds(g, n, <<>>, G)
    <3> HIDE DEF G, n
    <3> QED
        BY <1>0, <1>1, <1>2, FoldExists
  <2> QED
      BY <2>1, Zenon DEF Folds
<1> DEFINE Loop(h) == h = [s \in SUBSET (DOMAIN path) |->
                               IF s = {} THEN <<>>
                               ELSE LET x == Max(s) IN Walk(l, h[s \ {x}], path[x])]
           J == CHOOSE h : Loop(h)
<1>4. PlaceOf(l, path) = J[DOMAIN path]
    BY Zenon DEF PlaceOf, FoldLeft, MapThenFoldSet
<1>5. Loop(J)
  <2>1. ASSUME NEW s \in SUBSET (1..n)
        PROVE  g[s] = IF s = {} THEN <<>> ELSE Walk(l, g[s \ {Max(s)}], path[Max(s)])
    <3>1. CASE s = {}
        BY <1>3, <3>1
    <3>2. CASE s # {}
      <4>1. Max(s) \in 1..n
          BY <1>0, <3>2, MaxWithin
      <4>2. g[s \ {Max(s)}] \in Place
        <5>1. s \ {Max(s)} \in SUBSET (1..n)
            OBVIOUS
        <5> QED
            BY <1>3, <5>1
      <4>3. G[<<Max(s), g[s \ {Max(s)}]>>] = Walk(l, g[s \ {Max(s)}], path[Max(s)])
          BY <4>1, <4>2
      <4> QED
          BY <1>3, <3>2, <4>3
    <3> QED
        BY <3>1, <3>2
  <2>2. g = [s \in SUBSET (1..n) |-> g[s]]
      BY <1>3
  <2>3. Loop(g)
      BY <1>0, <2>1, <2>2
  <2> QED
      BY <2>3
<1> HIDE DEF J
<1>6. J[{}] = <<>> /\ \A k \in 1..n : J[1..k] = Walk(l, J[1..(k - 1)], path[k])
  <2>1. J[{}] = <<>>
      BY <1>5
  <2>2. ASSUME NEW k \in 1..n PROVE J[1..k] = Walk(l, J[1..(k - 1)], path[k])
    <3>1. 1..k # {} /\ Max(1..k) = k /\ (1..k) \ {k} = 1..(k - 1) /\ 1..k \in SUBSET (DOMAIN path)
        BY <1>0, UpToMax
    <3> QED
        BY <1>5, <3>1
  <2> QED
      BY <2>1, <2>2
<1> DEFINE P == {k \in 0..n : J[1..k] \in Place}
           w == [k \in 0..n |-> J[1..k]]
<1>7. \A k \in 0..n : k \in P
  <2>1. 1..0 = {} /\ 0 \in 0..n
      BY <1>0
  <2>2. 0 \in P
      BY <1>1, <1>6, <2>1
  <2>3. ASSUME NEW k \in 1..n, k - 1 \in P PROVE k \in P
    <3>1. k - 1 \in 0..n /\ k \in 0..n /\ J[1..(k - 1)] \in Place /\ path[k] \in STRING
        BY <1>0, <2>3
    <3>2. J[1..k] = Walk(l, J[1..(k - 1)], path[k])
        BY <1>6
    <3>3. Walk(l, J[1..(k - 1)], path[k]) \in Place
        BY <3>1, WalkIsPlace, Zenon
    <3> QED
        BY <3>1, <3>2, <3>3
  <2> HIDE DEF P
  <2> QED
      BY <1>0, <2>2, <2>3, UpTo
<1>8. w \in [0..n -> Place] /\ w[0] = <<>> /\ w[n] = PlaceOf(l, path)
    BY <1>0, <1>4, <1>6, <1>7
<1>9. \A k \in 1..n : w[k] = Walk(l, w[k - 1], path[k])
    BY <1>0, <1>6
<1> QED
    BY <1>8, <1>9

LEMMA Prefix ==
    ASSUME NEW S, NEW s \in Seq(S), NEW m \in 0..Len(s)
    PROVE  /\ SubSeq(s, 1, m) \in Seq(S) /\ Len(SubSeq(s, 1, m)) = m
           /\ \A i \in 1..m : SubSeq(s, 1, m)[i] = s[i]
OBVIOUS

LEMMA PlaceOfLast ==
    ASSUME NEW l, LinksOK(l), NEW path \in Seq(STRING), path # <<>>
    PROVE  /\ PlaceOf(l, Front(path)) \in Place /\ Last(path) \in STRING
           /\ PlaceOf(l, path) = Walk(l, PlaceOf(l, Front(path)), Last(path))
<1> DEFINE n == Len(path)
           front == Front(path)
<1>1. n \in Nat \ {0}
    BY EmptySeq
<1>2. front \in Seq(STRING) /\ Len(front) = n - 1 /\ \A i \in 1..(n - 1) : front[i] = path[i]
  <2>1. front = SubSeq(path, 1, n - 1) /\ n - 1 \in 0..n
      BY <1>1 DEF Front
  <2>2. /\ SubSeq(path, 1, n - 1) \in Seq(STRING) /\ Len(SubSeq(path, 1, n - 1)) = n - 1
        /\ \A i \in 1..(n - 1) : SubSeq(path, 1, n - 1)[i] = path[i]
      BY ONLY path \in Seq(STRING), <2>1, Prefix
  <2> HIDE DEF front
  <2> QED
      BY <2>1, <2>2, Zenon
<1>3. Last(path) = path[n] /\ path[n] \in STRING
    BY <1>1 DEF Last
<1>4. PICK w \in [0..n -> Place] :
          w[0] = <<>> /\ (\A k \in 1..n : w[k] = Walk(l, w[k - 1], path[k])) /\ PlaceOf(l, path) = w[n]
    BY PlaceSteps, Zenon
<1>5. PICK v \in [0..Len(front) -> Place] :
          /\ v[0] = <<>>
          /\ \A k \in 1..Len(front) : v[k] = Walk(l, v[k - 1], front[k])
          /\ PlaceOf(l, front) = v[Len(front)]
  <2> HIDE DEF front
  <2> QED
      BY <1>2, PlaceSteps, Zenon
<1> HIDE DEF front
<1>6. \A k \in 1..(n - 1) : v[k - 1] = w[k - 1] => v[k] = w[k]
    BY <1>1, <1>2, <1>4, <1>5
<1> DEFINE P == {k \in 0..(n - 1) : v[k] = w[k]}
<1>7. n - 1 \in P
  <2>1. n - 1 \in Nat /\ 0 \in P /\ \A k \in 1..(n - 1) : k - 1 \in P => k \in P
      BY <1>1, <1>4, <1>5, <1>6
  <2> HIDE DEF P
  <2>2. \A k \in 0..(n - 1) : k \in P
      BY <2>1, UpTo
  <2> QED
      BY <2>1, <2>2
<1>8. v[n - 1] = w[n - 1] /\ n - 1 \in 0..(n - 1) /\ n \in 1..n
    BY <1>1, <1>7
<1>9. PlaceOf(l, front) = w[n - 1] /\ PlaceOf(l, front) \in Place
    BY <1>2, <1>5, <1>8
<1>10. PlaceOf(l, path) = Walk(l, w[n - 1], path[n])
    BY <1>4, <1>8
<1> QED
    BY <1>3, <1>9, <1>10 DEF front

-----------------------------------------------------------------------------
(* Totals and the list of what is not held *)

LEMMA SumSteps ==
    ASSUME NEW sizes \in Seq(Nat)
    PROVE  \E w \in [0..Len(sizes) -> Nat] :
               /\ w[0] = 0
               /\ \A k \in 1..Len(sizes) : w[k] = w[k - 1] + sizes[k]
               /\ FoldLeft(LAMBDA sum, size : sum + size, 0, sizes) = w[Len(sizes)]
<1> DEFINE n == Len(sizes)
           G == [a \in (1..n) \X Nat |-> a[2] + sizes[a[1]]]
<1>0. n \in Nat /\ DOMAIN sizes = 1..n /\ \A i \in 1..n : sizes[i] \in Nat
    OBVIOUS
<1>1. 0 \in Nat
    OBVIOUS
<1>2. G \in [(1..n) \X Nat -> Nat]
    BY <1>0, SMT
<1>3. PICK g \in [SUBSET (1..n) -> Nat] :
          \A s \in SUBSET (1..n) : g[s] = IF s = {} THEN 0 ELSE G[<<Max(s), g[s \ {Max(s)}]>>]
  <2>1. \E g \in [SUBSET (1..n) -> Nat] : Folds(g, n, 0, G)
    <3> HIDE DEF G, n
    <3> QED
        BY <1>0, <1>1, <1>2, FoldExists
  <2> QED
      BY <2>1, Zenon DEF Folds
<1> DEFINE Loop(h) == h = [s \in SUBSET (DOMAIN sizes) |->
                               IF s = {} THEN 0
                               ELSE LET x == Max(s) IN h[s \ {x}] + sizes[x]]
           J == CHOOSE h : Loop(h)
<1>4. FoldLeft(LAMBDA sum, size : sum + size, 0, sizes) = J[DOMAIN sizes]
    BY Zenon DEF FoldLeft, MapThenFoldSet
<1>5. Loop(J)
  <2>1. ASSUME NEW s \in SUBSET (1..n)
        PROVE  g[s] = IF s = {} THEN 0 ELSE g[s \ {Max(s)}] + sizes[Max(s)]
    <3>1. CASE s = {}
        BY <1>3, <3>1
    <3>2. CASE s # {}
      <4>1. Max(s) \in 1..n
          BY <1>0, <3>2, MaxWithin
      <4>2. g[s \ {Max(s)}] \in Nat
        <5>1. s \ {Max(s)} \in SUBSET (1..n)
            OBVIOUS
        <5> QED
            BY <1>3, <5>1
      <4>3. G[<<Max(s), g[s \ {Max(s)}]>>] = g[s \ {Max(s)}] + sizes[Max(s)]
          BY <4>1, <4>2
      <4> QED
          BY <1>3, <3>2, <4>3
    <3> QED
        BY <3>1, <3>2
  <2>2. g = [s \in SUBSET (1..n) |-> g[s]]
      BY <1>3
  <2>3. Loop(g)
      BY <1>0, <2>1, <2>2
  <2> QED
      BY <2>3
<1> HIDE DEF J
<1>6. J[{}] = 0 /\ \A k \in 1..n : J[1..k] = J[1..(k - 1)] + sizes[k]
  <2>0. \A s \in SUBSET (1..n) :
            J[s] = IF s = {} THEN 0 ELSE J[s \ {Max(s)}] + sizes[Max(s)]
      BY <1>0, <1>5
  <2>1. J[{}] = 0
      BY <2>0
  <2>2. ASSUME NEW k \in 1..n PROVE J[1..k] = J[1..(k - 1)] + sizes[k]
    <3>1. k \in Nat \ {0} /\ 1..k \in SUBSET (1..n)
        BY <1>0
    <3>2. 1..k # {} /\ Max(1..k) = k /\ (1..k) \ {k} = 1..(k - 1)
        BY <3>1, UpToMax
    <3> QED
        BY <2>0, <3>1, <3>2
  <2> QED
      BY <2>1, <2>2
<1> DEFINE P == {k \in 0..n : J[1..k] \in Nat}
           w == [k \in 0..n |-> J[1..k]]
<1>7. \A k \in 0..n : k \in P
  <2>1. 1..0 = {} /\ 0 \in 0..n
      BY <1>0
  <2>2. 0 \in P
      BY <1>1, <1>6, <2>1
  <2>3. ASSUME NEW k \in 1..n, k - 1 \in P PROVE k \in P
    <3>1. k - 1 \in 0..n /\ k \in 0..n /\ J[1..(k - 1)] \in Nat /\ sizes[k] \in Nat
        BY <1>0, <2>3
    <3>2. J[1..k] = J[1..(k - 1)] + sizes[k]
        BY <1>6
    <3>3. J[1..(k - 1)] + sizes[k] \in Nat
        BY <3>1, SMT
    <3> QED
        BY <3>1, <3>2, <3>3
  <2> HIDE DEF P
  <2> QED
      BY <1>0, <2>2, <2>3, UpTo
<1>8. w \in [0..n -> Nat] /\ w[0] = 0 /\ w[n] = FoldLeft(LAMBDA sum, size : sum + size, 0, sizes)
  <2>1. 0 \in 0..n /\ n \in 0..n /\ 1..0 = {} /\ J[DOMAIN sizes] = J[1..n]
      BY <1>0
  <2> QED
      BY <1>4, <1>6, <1>7, <2>1
<1>9. \A k \in 1..n : w[k] = w[k - 1] + sizes[k]
    BY <1>0, <1>6
<1> QED
    BY <1>8, <1>9

CheckedAdd(sum, size) == IF sum = Overflow \/ sum + size > MaxSize THEN Overflow ELSE sum + size

LEMMA CheckedAddType ==
    ASSUME NEW sum \in Int, NEW size \in Nat
    PROVE  CheckedAdd(sum, size) \in Int
BY TicketAssumption DEF CheckedAdd, Overflow

LEMMA CheckedSteps ==
    ASSUME NEW sizes \in Seq(Nat)
    PROVE  \E w \in [0..Len(sizes) -> Int] :
               /\ w[0] = 0
               /\ \A k \in 1..Len(sizes) : w[k] = CheckedAdd(w[k - 1], sizes[k])
               /\ CheckedTotal(sizes) = w[Len(sizes)]
<1> DEFINE n == Len(sizes)
           G == [a \in (1..n) \X Int |-> CheckedAdd(a[2], sizes[a[1]])]
<1>0. n \in Nat /\ DOMAIN sizes = 1..n /\ \A i \in 1..n : sizes[i] \in Nat
    OBVIOUS
<1>1. 0 \in Int
    OBVIOUS
<1>2. G \in [(1..n) \X Int -> Int]
    BY <1>0, CheckedAddType
<1>3. PICK g \in [SUBSET (1..n) -> Int] :
          \A s \in SUBSET (1..n) : g[s] = IF s = {} THEN 0 ELSE G[<<Max(s), g[s \ {Max(s)}]>>]
  <2>1. \E g \in [SUBSET (1..n) -> Int] : Folds(g, n, 0, G)
    <3> HIDE DEF G, n
    <3> QED
        BY <1>0, <1>1, <1>2, FoldExists
  <2> QED
      BY <2>1, Zenon DEF Folds
<1> DEFINE Loop(h) == h = [s \in SUBSET (DOMAIN sizes) |->
                               IF s = {} THEN 0
                               ELSE LET x == Max(s) IN CheckedAdd(h[s \ {x}], sizes[x])]
           J == CHOOSE h : Loop(h)
<1>4. CheckedTotal(sizes) = J[DOMAIN sizes]
    BY Zenon DEF CheckedTotal, CheckedAdd, FoldLeft, MapThenFoldSet
<1>5. Loop(J)
  <2>1. ASSUME NEW s \in SUBSET (1..n)
        PROVE  g[s] = IF s = {} THEN 0 ELSE CheckedAdd(g[s \ {Max(s)}], sizes[Max(s)])
    <3>1. CASE s = {}
        BY <1>3, <3>1
    <3>2. CASE s # {}
      <4>1. Max(s) \in 1..n
          BY <1>0, <3>2, MaxWithin
      <4>2. g[s \ {Max(s)}] \in Int
        <5>1. s \ {Max(s)} \in SUBSET (1..n)
            OBVIOUS
        <5> QED
            BY <1>3, <5>1
      <4>3. G[<<Max(s), g[s \ {Max(s)}]>>] = CheckedAdd(g[s \ {Max(s)}], sizes[Max(s)])
          BY <4>1, <4>2
      <4> QED
          BY <1>3, <3>2, <4>3
    <3> QED
        BY <3>1, <3>2
  <2>2. g = [s \in SUBSET (1..n) |-> g[s]]
      BY <1>3
  <2>3. Loop(g)
      BY <1>0, <2>1, <2>2
  <2> QED
      BY <2>3
<1> HIDE DEF J
<1>6. J[{}] = 0 /\ \A k \in 1..n : J[1..k] = CheckedAdd(J[1..(k - 1)], sizes[k])
  <2>0. \A s \in SUBSET (1..n) :
            J[s] = IF s = {} THEN 0 ELSE CheckedAdd(J[s \ {Max(s)}], sizes[Max(s)])
      BY <1>0, <1>5
  <2>1. J[{}] = 0
      BY <2>0
  <2>2. ASSUME NEW k \in 1..n PROVE J[1..k] = CheckedAdd(J[1..(k - 1)], sizes[k])
    <3>1. k \in Nat \ {0} /\ 1..k \in SUBSET (1..n)
        BY <1>0
    <3>2. 1..k # {} /\ Max(1..k) = k /\ (1..k) \ {k} = 1..(k - 1)
        BY <3>1, UpToMax
    <3> QED
        BY <2>0, <3>1, <3>2
  <2> QED
      BY <2>1, <2>2
<1> DEFINE P == {k \in 0..n : J[1..k] \in Int}
           w == [k \in 0..n |-> J[1..k]]
<1>7. \A k \in 0..n : k \in P
  <2>1. 1..0 = {} /\ 0 \in 0..n
      BY <1>0
  <2>2. 0 \in P
      BY <1>1, <1>6, <2>1
  <2>3. ASSUME NEW k \in 1..n, k - 1 \in P PROVE k \in P
    <3>1. k - 1 \in 0..n /\ k \in 0..n /\ J[1..(k - 1)] \in Int /\ sizes[k] \in Nat
        BY <1>0, <2>3
    <3>2. J[1..k] = CheckedAdd(J[1..(k - 1)], sizes[k])
        BY <1>6
    <3>3. CheckedAdd(J[1..(k - 1)], sizes[k]) \in Int
        BY <3>1, CheckedAddType
    <3> QED
        BY <3>1, <3>2, <3>3
  <2> HIDE DEF P
  <2> QED
      BY <1>0, <2>2, <2>3, UpTo
<1>8. w \in [0..n -> Int] /\ w[0] = 0 /\ w[n] = CheckedTotal(sizes)
  <2>1. 0 \in 0..n /\ n \in 0..n /\ 1..0 = {} /\ J[DOMAIN sizes] = J[1..n]
      BY <1>0
  <2> QED
      BY <1>4, <1>6, <1>7, <2>1
<1>9. \A k \in 1..n : w[k] = CheckedAdd(w[k - 1], sizes[k])
    BY <1>0, <1>6
<1> QED
    BY <1>8, <1>9

(* a total that has not overflown is the sum *)
LEMMA TotalIsSum ==
    ASSUME NEW sizes \in Seq(Nat), CheckedTotal(sizes) # Overflow
    PROVE  /\ CheckedTotal(sizes) = FoldLeft(LAMBDA total, size : total + size, 0, sizes)
           /\ CheckedTotal(sizes) \in Nat
<1> DEFINE n == Len(sizes)
           sum == FoldLeft(LAMBDA total, size : total + size, 0, sizes)
<1>1. n \in Nat /\ \A k \in 1..n : sizes[k] \in Nat
    OBVIOUS
<1>2. PICK v \in [0..n -> Int] :
          v[0] = 0 /\ (\A k \in 1..n : v[k] = CheckedAdd(v[k - 1], sizes[k])) /\ CheckedTotal(sizes) = v[n]
    BY CheckedSteps, Zenon
<1>3. PICK w \in [0..n -> Nat] :
          /\ w[0] = 0
          /\ \A k \in 1..n : w[k] = w[k - 1] + sizes[k]
          /\ sum = w[n]
    BY SumSteps, Zenon
<1> HIDE DEF sum
<1> DEFINE P == {k \in 0..n : v[k] = w[k] \/ v[k] = Overflow}
<1>4. 0 \in P
    BY <1>1, <1>2, <1>3
<1>5. ASSUME NEW k \in 1..n, k - 1 \in P PROVE k \in P
    BY <1>1, <1>2, <1>3, <1>5 DEF CheckedAdd
<1> HIDE DEF P
<1>6. n \in P
  <2> HIDE DEF n
  <2>1. \A k \in 0..n : k \in P
      BY <1>1, <1>4, <1>5, UpTo
  <2> QED
      BY <1>1, <2>1
<1> QED
    BY <1>1, <1>2, <1>3, <1>6 DEF P, sum

Queued(queue, e) == IF Held(e) THEN queue ELSE Append(queue, e)

LEMMA QueuedType ==
    ASSUME NEW E, NEW queue \in Seq(E), NEW e \in E
    PROVE  Queued(queue, e) \in Seq(E)
BY AppendProperties, Zenon DEF Queued

LEMMA QueueSteps ==
    ASSUME NEW E, NEW entries \in Seq(E)
    PROVE  \E w \in [0..Len(entries) -> Seq(E)] :
               /\ w[0] = <<>>
               /\ \A k \in 1..Len(entries) : w[k] = Queued(w[k - 1], entries[k])
               /\ NotHeld(entries) = w[Len(entries)]
<1> DEFINE n == Len(entries)
           G == [a \in (1..n) \X Seq(E) |-> Queued(a[2], entries[a[1]])]
<1>0. n \in Nat /\ DOMAIN entries = 1..n /\ \A i \in 1..n : entries[i] \in E
    OBVIOUS
<1>1. <<>> \in Seq(E)
    BY EmptySeq
<1>2. G \in [(1..n) \X Seq(E) -> Seq(E)]
    BY <1>0, QueuedType
<1>3. PICK g \in [SUBSET (1..n) -> Seq(E)] :
          \A s \in SUBSET (1..n) : g[s] = IF s = {} THEN <<>> ELSE G[<<Max(s), g[s \ {Max(s)}]>>]
  <2>1. \E g \in [SUBSET (1..n) -> Seq(E)] : Folds(g, n, <<>>, G)
    <3> HIDE DEF G, n
    <3> QED
        BY <1>0, <1>1, <1>2, FoldExists
  <2> QED
      BY <2>1, Zenon DEF Folds
<1> DEFINE Loop(h) == h = [s \in SUBSET (DOMAIN entries) |->
                               IF s = {} THEN <<>>
                               ELSE LET x == Max(s) IN Queued(h[s \ {x}], entries[x])]
           J == CHOOSE h : Loop(h)
<1>4. NotHeld(entries) = J[DOMAIN entries]
    BY Zenon DEF NotHeld, Queued, FoldLeft, MapThenFoldSet
<1>5. Loop(J)
  <2>1. ASSUME NEW s \in SUBSET (1..n)
        PROVE  g[s] = IF s = {} THEN <<>> ELSE Queued(g[s \ {Max(s)}], entries[Max(s)])
    <3>1. CASE s = {}
        BY <1>3, <3>1
    <3>2. CASE s # {}
      <4>1. Max(s) \in 1..n
          BY <1>0, <3>2, MaxWithin
      <4>2. g[s \ {Max(s)}] \in Seq(E)
        <5>1. s \ {Max(s)} \in SUBSET (1..n)
            OBVIOUS
        <5> QED
            BY <1>3, <5>1
      <4>3. G[<<Max(s), g[s \ {Max(s)}]>>] = Queued(g[s \ {Max(s)}], entries[Max(s)])
          BY <4>1, <4>2
      <4> QED
          BY <1>3, <3>2, <4>3
    <3> QED
        BY <3>1, <3>2
  <2>2. g = [s \in SUBSET (1..n) |-> g[s]]
      BY <1>3
  <2>3. Loop(g)
      BY <1>0, <2>1, <2>2
  <2> QED
      BY <2>3
<1> HIDE DEF J
<1>6. J[{}] = <<>> /\ \A k \in 1..n : J[1..k] = Queued(J[1..(k - 1)], entries[k])
  <2>0. \A s \in SUBSET (1..n) :
            J[s] = IF s = {} THEN <<>> ELSE Queued(J[s \ {Max(s)}], entries[Max(s)])
      BY <1>0, <1>5
  <2>1. J[{}] = <<>>
      BY <2>0
  <2>2. ASSUME NEW k \in 1..n PROVE J[1..k] = Queued(J[1..(k - 1)], entries[k])
    <3>1. k \in Nat \ {0} /\ 1..k \in SUBSET (1..n)
        BY <1>0
    <3>2. 1..k # {} /\ Max(1..k) = k /\ (1..k) \ {k} = 1..(k - 1)
        BY <3>1, UpToMax
    <3> QED
        BY <2>0, <3>1, <3>2
  <2> QED
      BY <2>1, <2>2
<1> DEFINE P == {k \in 0..n : J[1..k] \in Seq(E)}
           w == [k \in 0..n |-> J[1..k]]
<1>7. \A k \in 0..n : k \in P
  <2>1. 1..0 = {} /\ 0 \in 0..n
      BY <1>0
  <2>2. 0 \in P
      BY <1>1, <1>6, <2>1
  <2>3. ASSUME NEW k \in 1..n, k - 1 \in P PROVE k \in P
    <3>1. k - 1 \in 0..n /\ k \in 0..n /\ J[1..(k - 1)] \in Seq(E) /\ entries[k] \in E
        BY <1>0, <2>3
    <3>2. J[1..k] = Queued(J[1..(k - 1)], entries[k])
        BY <1>6
    <3>3. Queued(J[1..(k - 1)], entries[k]) \in Seq(E)
        BY <3>1, QueuedType
    <3> QED
        BY <3>1, <3>2, <3>3
  <2> HIDE DEF P
  <2> QED
      BY <1>0, <2>2, <2>3, UpTo
<1>8. w \in [0..n -> Seq(E)] /\ w[0] = <<>> /\ w[n] = NotHeld(entries)
  <2>1. 0 \in 0..n /\ n \in 0..n /\ 1..0 = {} /\ J[DOMAIN entries] = J[1..n]
      BY <1>0
  <2> QED
      BY <1>4, <1>6, <1>7, <2>1
<1>9. \A k \in 1..n : w[k] = Queued(w[k - 1], entries[k])
    BY <1>0, <1>6
<1> QED
    BY <1>8, <1>9

LEMMA NotHeldType ==
    ASSUME NEW E, NEW entries \in Seq(E)
    PROVE  NotHeld(entries) \in Seq(E)
<1>1. PICK w \in [0..Len(entries) -> Seq(E)] : NotHeld(entries) = w[Len(entries)]
    BY QueueSteps, Zenon
<1>2. Len(entries) \in 0..Len(entries)
    OBVIOUS
<1> QED
    BY <1>1, <1>2

(* a file is written beside others of a directory that is inside, unless its *)
(* `.part` is a link                                                        *)
LEMMA FileIsInside ==
    ASSUME NEW l, LinksOK(l), NEW rel \in Seq(STRING), rel # <<>>,
           PlaceOf(l, Front(rel)) # Outside
    PROVE  FileAt(l, rel) \in Place /\ FileAt(l, rel) # Outside
<1> DEFINE parent == PlaceOf(l, Front(rel))
           name == Last(rel)
<1>1. parent \in Place /\ name \in STRING /\ parent # Outside
    BY PlaceOfLast
<1>2. FileAt(l, rel) = Append(parent, name)
    BY <1>1 DEF FileAt
<1> HIDE DEF parent, name
<1>3. Append(parent, name) \in Seq(STRING)
    BY <1>1, AppendProperties, Zenon DEF Place
<1> QED
    BY <1>2, <1>3, LandingAssumption DEF Place

LEMMA PreparedIsInside ==
    ASSUME NEW l, LinksOK(l), NEW rel \in Seq(STRING), SafeRelPath(rel), PreparesEntry(l, rel)
    PROVE  FileAt(l, rel) \in Place /\ FileAt(l, rel) # Outside
BY FileIsInside DEF SafeRelPath, PreparesEntry

LEMMA RootIsItself ==
    ASSUME NEW l, LinksOK(l)
    PROVE  PlaceOf(l, <<>>) = <<>>
<1>1. <<>> \in Seq(STRING) /\ Len(<<>>) = 0
    OBVIOUS
<1> DEFINE path == <<>>
<1> HIDE DEF path
<1>2. \E w \in [0..Len(path) -> Place] : w[0] = <<>> /\ PlaceOf(l, path) = w[Len(path)]
    BY <1>1, PlaceSteps, Zenon DEF path
<1> QED
    BY <1>1, <1>2 DEF path

LEMMA FilenameIsInside ==
    ASSUME NEW l, LinksOK(l), NEW name \in Seq(STRING), SafeFilename(name)
    PROVE  FileAt(l, name) \in Place /\ FileAt(l, name) # Outside
<1>1. name # <<>> /\ Len(name) = 1
    BY DEF SafeFilename, SafeRelPath
<1>2. Front(name) = <<>>
    BY <1>1 DEF Front
<1>3. <<>> # Outside
    BY EmptySeq, LandingAssumption
<1>4. PlaceOf(l, Front(name)) # Outside
    BY <1>2, <1>3, RootIsItself, Zenon
<1> QED
    BY <1>1, <1>4, FileIsInside

LEMMA WritesToPlace ==
    ASSUME NEW l, LinksOK(l), NEW rel, FileAt(l, rel) \in Place, FileAt(l, rel) # Outside
    PROVE  /\ WritesAt(l, rel) \in Place
           /\ WritesAt(l, rel) = Outside => PartLinked(l, rel)
BY DEF WritesAt, PartLinked, LinksOK

LEMMA LinksStayOK ==
    ASSUME NEW l, LinksOK(l), NEW rel, FileAt(l, rel) \in Place, FileAt(l, rel) # Outside
    PROVE  /\ LinksOK(Unlinked(l, rel))
           /\ \A after \in Renamed(l, rel) : LinksOK(after)
<1> DEFINE rest == Unlinked(l, rel)
           file == FileAt(l, rel)
           moved == [at \in DOMAIN rest \cup {file} |->
                        IF at = file THEN WritesAt(l, rel) ELSE rest[at]]
           fewer == Restrict(rest, DOMAIN rest \ {file})
<1>1. LinksOK(rest)
    BY DEF Unlinked, Restrict, LinksOK
<1> HIDE DEF rest
<1>2. LinksOK(fewer)
    BY <1>1 DEF Restrict, LinksOK
<1>3. LinksOK(moved)
  <2>1. WritesAt(l, rel) \in Place
      BY WritesToPlace
  <2> HIDE DEF file
  <2> QED
      BY <1>1, <2>1 DEF LinksOK
<1>4. \A after \in Renamed(l, rel) : after \in {rest, moved, fewer}
    BY DEF Renamed, rest
<1> QED
    BY <1>1, <1>2, <1>3, <1>4 DEF rest

-----------------------------------------------------------------------------
(***************************************************************************)
(* The invariant.  Everything downstream of `send` is tied to what `sent`   *)
(* remembers of its nonce: the offer that serve looks at, the ticket that   *)
(* is pasted, the manifest and the queue of a recv, and what has landed.    *)
(***************************************************************************)
EntriesSent(n) ==
    {e \in FolderEntry(Content) :
        /\ sent[n].descriptor.kind = "folder"
        /\ \E i \in 1..Len(sent[n].descriptor.entries) : e = sent[n].descriptor.entries[i]}

OfferSound(n) ==
    /\ offers[n] \in OfferRecord /\ sent[n] \in SentRecord
    /\ offers[n].recipient = sent[n].to
    /\ offers[n].ref = Ref(sent[n].descriptor)
    /\ sent[n].descriptor.kind = "file" => offers[n].file # Outside
    /\ sent[n].descriptor.kind = "folder" => VerifyRootHash(sent[n].descriptor)

OffersSound ==
    /\ offers \in [Nonce -> OfferRecord \cup {NoOffer}]
    /\ sent \in [Nonce -> SentRecord \cup {NoOffer}]
    /\ \A n \in Nonce : (offers[n] = NoOffer /\ sent[n] = NoOffer) \/ OfferSound(n)

TicketSound(text) ==
    LET n == text.body.nonce
        d == sent[n].descriptor
    IN /\ n \in Nonce /\ sent[n] # NoOffer
       /\ text.to = sent[n].to
       /\ text.body.v = TicketVersion /\ text.body.card = CardOf(Sender)
       /\ text.body.payload = Ref(d)
       /\ text.body.assertion = d.assertion
       /\ d.assertion # NoAssertion => d.assertion.sig.nonce # n

PrintedSound == \A text \in printed : TicketSound(text)

Phase == {"ask", "file", "manifest", "survey", "start", "entries", "sniff", "done"}

RecvRecord ==
    [phase : Phase, who : Person, yes : BOOLEAN, ticket : {text.body : text \in printed},
     notice : {TRUE}, reminder : BOOLEAN, total : Int, agreed : Nat,
     manifest : Seq(FolderEntry(Content)), queue : Seq(FolderEntry(Content)),
     got : SUBSET landed, warned : SUBSET landed, unread : SUBSET landed]

(* what has been said and agreed to in each phase *)
Said ==
    /\ At("ask") => recv.agreed = 0
    /\ recv.phase \in {"file", "manifest", "survey", "start"} => recv.agreed = 1
    /\ At("start") => recv.total = SumOf(recv.queue)
    /\ recv.phase \in {"start", "entries"} => recv.reminder /\ recv.total # Unsaid
    /\ At("entries") => recv.agreed = 2

Reported ==
    At("done") =>
        \A got \in recv.got : VerdictOf(got) = "mismatch" => got \in recv.warned \cup recv.unread

RecvSound ==
    recv # NoRecv =>
        /\ recv \in RecvRecord
        /\ \E text \in printed : text.to = recv.who /\ text.body = recv.ticket
        /\ recv.manifest \in Seq(EntriesSent(recv.ticket.nonce))
        /\ recv.queue \in Seq(EntriesSent(recv.ticket.nonce))
        /\ Said /\ Reported

GotSound(got) ==
    /\ got.nonce \in Nonce /\ sent[got.nonce] # NoOffer
    /\ sent[got.nonce].to = got.who
    /\ Lists(sent[got.nonce].descriptor, got)

LandedSound == \A got \in landed : GotSound(got)

HandoffInv ==
    /\ OffersSound /\ PrintedSound /\ RecvSound /\ LandedSound
    /\ Confined
    /\ links = [sender |-> links.sender, receiver |-> links.receiver]
    /\ LinksOK(links.receiver)

-----------------------------------------------------------------------------
LEMMA DescriptorFacts ==
    ASSUME NEW d \in Descriptor
    PROVE  /\ d.kind \in {"file", "folder"} /\ Ref(d).kind = d.kind
           /\ d.kind = "file" => /\ d.name \in Seq(STRING)
                                 /\ Ref(d).name = d.name /\ Ref(d).hash = d.hash
           /\ d.kind = "folder" => /\ d.entries \in Seq(FolderEntry(Content))
                                   /\ Ref(d).root = d.root
BY HandoffAssumption DEF IsFileDescriptor, IsFolderDescriptor, Ref, FileRef, FolderRef

(* what is sent stays sent: nothing that refers to a nonce is disturbed when *)
(* another is minted                                                        *)
SentKept == \A n \in Nonce : sent[n] # NoOffer => sent'[n] = sent[n]

LEMMA RecvKept ==
    ASSUME RecvSound, PrintedSound, SentKept, printed \subseteq printed', landed \subseteq landed',
           recv' = recv
    PROVE  RecvSound'
<1> SUFFICES ASSUME recv # NoRecv
             PROVE  /\ (recv \in RecvRecord)'
                    /\ (\E text \in printed : text.to = recv.who /\ text.body = recv.ticket)'
                    /\ (recv.manifest \in Seq(EntriesSent(recv.ticket.nonce)))'
                    /\ (recv.queue \in Seq(EntriesSent(recv.ticket.nonce)))'
                    /\ Said' /\ Reported'
    BY DEF RecvSound
<1>1. recv \in RecvRecord
    BY DEF RecvSound
<1>2. (recv \in RecvRecord)'
    BY <1>1 DEF RecvRecord
<1>3. PICK text \in printed : text.to = recv.who /\ text.body = recv.ticket
    BY DEF RecvSound
<1> DEFINE n == recv.ticket.nonce
<1>4. n \in Nonce /\ sent[n] # NoOffer
    BY <1>3 DEF PrintedSound, TicketSound
<1>5. EntriesSent(n)' = EntriesSent(n)
    BY <1>4 DEF SentKept, EntriesSent
<1>6. Said' /\ Reported'
    BY DEF RecvSound, Said, Reported, At
<1>7. /\ (recv.manifest \in Seq(EntriesSent(recv.ticket.nonce)))'
      /\ (recv.queue \in Seq(EntriesSent(recv.ticket.nonce)))'
    BY <1>5 DEF RecvSound
<1> QED
    BY <1>2, <1>3, <1>6, <1>7

LEMMA LandedKept ==
    ASSUME LandedSound, SentKept, landed' = landed
    PROVE  LandedSound'
BY DEF LandedSound, GotSound, SentKept

(* a step of the recv alone *)
LEMMA RecvStep ==
    ASSUME HandoffInv, RecvSound', UNCHANGED <<senderVars, links, landed, served, written>>
    PROVE  HandoffInv'
<1>1. OffersSound'
    BY DEF HandoffInv, senderVars, OffersSound, OfferSound
<1>2. PrintedSound'
    BY DEF HandoffInv, senderVars, PrintedSound, TicketSound
<1>3. LandedSound'
    BY LandedKept DEF HandoffInv, senderVars, SentKept
<1> QED
    BY <1>1, <1>2, <1>3 DEF HandoffInv, Confined

LEMMA NoRecvStep == recv' = NoRecv => RecvSound'
BY DEF RecvSound

LEMMA RecvFacts ==
    ASSUME HandoffInv, recv.phase \in Phase
    PROVE  LET n == recv.ticket.nonce
               d == sent[n].descriptor
           IN /\ recv \in RecvRecord /\ recv # NoRecv
              /\ n \in Nonce /\ sent[n] # NoOffer /\ sent[n].to = recv.who
              /\ recv.ticket.payload = Ref(d) /\ d \in Descriptor
              /\ OfferSound(n)
<1>1. recv # NoRecv
    BY DEF Phase, NoRecv
<1>2. PICK text \in printed : text.to = recv.who /\ text.body = recv.ticket
    BY <1>1 DEF HandoffInv, RecvSound
<1>3. TicketSound(text)
    BY DEF HandoffInv, PrintedSound
<1> DEFINE n == recv.ticket.nonce
           d == sent[n].descriptor
<1>4. n \in Nonce /\ sent[n] # NoOffer /\ sent[n].to = recv.who /\ recv.ticket.payload = Ref(d)
    BY <1>2, <1>3 DEF TicketSound
<1>5. OfferSound(n)
    BY <1>4 DEF HandoffInv, OffersSound
<1>6. d \in Descriptor
    BY <1>5 DEF OfferSound, SentRecord
<1>7. recv \in RecvRecord
    BY <1>1 DEF HandoffInv, RecvSound
<1> QED
    BY <1>1, <1>4, <1>5, <1>6, <1>7

-----------------------------------------------------------------------------
(* The sender *)

LEMMA SendKeepsInv ==
    ASSUME HandoffInv, NEW d \in Descriptor, NEW card \in PastedCard, NEW n \in Nonce,
           NEW file \in SharedAs(d), Send(d, card, n, file)
    PROVE  HandoffInv'
<1> USE DEF HandoffInv
<1> DEFINE o == Offer(d, card, file)
           t == [to |-> card.transport, descriptor |-> d]
<1>1. /\ CardParses(card) /\ offers[n] = NoOffer
      /\ d.kind = "folder" => VerifyRootHash(d)
      /\ d.assertion # NoAssertion => d.assertion.sig.nonce # n
      /\ offers' = [offers EXCEPT ![n] = o] /\ sent' = [sent EXCEPT ![n] = t]
      /\ UNCHANGED <<links, recv, landed, served, written>>
    BY DEF Send
<1>2. o \in OfferRecord /\ t \in SentRecord
  <2>1. file \in SourcePlace \cup {<<>>}
      BY DEF SharedAs
  <2> QED
      BY <2>1 DEF Offer, OfferRecord, SentRecord, Recipient
<1>3. o # NoOffer /\ t # NoOffer
    BY <1>2, HandoffAssumption
<1>4. sent[n] = NoOffer
  <2>1. OfferSound(n) => offers[n] # NoOffer
      BY HandoffAssumption DEF OfferSound
  <2> QED
      BY <1>1, <2>1 DEF OffersSound
<1>5. sent'[n] = t /\ offers'[n] = o
      /\ \A m \in Nonce : m # n => sent'[m] = sent[m] /\ offers'[m] = offers[m]
    BY <1>1 DEF OffersSound
<1>6. SentKept
    BY <1>4, <1>5 DEF SentKept
<1>7. OffersSound'
  <2>1. /\ offers' \in [Nonce -> OfferRecord \cup {NoOffer}]
        /\ sent' \in [Nonce -> SentRecord \cup {NoOffer}]
      BY <1>1, <1>2 DEF OffersSound
  <2>2. ASSUME NEW m \in Nonce, m # n
        PROVE  (offers'[m] = NoOffer /\ sent'[m] = NoOffer) \/ OfferSound(m)'
      BY <1>5, <2>2 DEF OffersSound, OfferSound
  <2>3. OfferSound(n)'
    <3>1. o.recipient = t.to /\ o.ref = Ref(t.descriptor) /\ o.file = file /\ t.descriptor = d
        BY DEF Offer
    <3>2. d.kind = "file" => file # Outside
        BY DEF SharedAs
    <3> HIDE DEF o, t
    <3> QED
        BY <1>1, <1>2, <1>5, <3>1, <3>2 DEF OfferSound
  <2> QED
      BY <2>1, <2>2, <2>3 DEF OffersSound
<1>8. PICK addrs \in GatheredAddrs :
          printed' = printed \cup {Seal(NewTicket(d, addrs, CardOf(Sender), n), card)}
    BY DEF Send
<1>9. PrintedSound'
  <2>1. ASSUME NEW text \in printed PROVE TicketSound(text)'
    <3>1. TicketSound(text)
        BY DEF PrintedSound
    <3>2. text.body.nonce # n
        BY <1>4, <3>1 DEF TicketSound
    <3> QED
        BY <1>5, <3>1, <3>2 DEF TicketSound
  <2> DEFINE text == Seal(NewTicket(d, addrs, CardOf(Sender), n), card)
  <2>2. TicketSound(text)'
    <3>1. card.sealing = card.transport
        BY <1>1, HandoffAssumption DEF CardParses
    <3>2. /\ text.to = card.sealing /\ text.body.nonce = n /\ text.body.v = TicketVersion
          /\ text.body.card = CardOf(Sender) /\ text.body.payload = Ref(d)
          /\ text.body.assertion = d.assertion
        BY DEF Seal, NewTicket
    <3>3. t.to = card.transport /\ t.descriptor = d
        OBVIOUS
    <3> HIDE DEF text, t
    <3> QED
        BY <1>1, <1>3, <1>5, <3>1, <3>2, <3>3 DEF TicketSound
  <2> QED
      BY <1>8, <2>1, <2>2 DEF PrintedSound
<1>10. RecvSound'
    BY <1>1, <1>6, <1>8, RecvKept
<1>11. LandedSound'
    BY <1>1, <1>6, LandedKept
<1> QED
    BY <1>1, <1>7, <1>9, <1>10, <1>11 DEF Confined

(* the stored manifest of a nonce is all that drifts of what was sent *)
LEMMA DriftKeepsInv == HandoffInv /\ Drift => HandoffInv'
<1> SUFFICES ASSUME HandoffInv, Drift PROVE HandoffInv'
    OBVIOUS
<1> USE DEF HandoffInv
<1>1. UNCHANGED <<printed, sent, links, recv, landed, served, written>>
    BY DEF Drift
<1>2. OffersSound'
  <2>1. CASE UNCHANGED offers
      BY <1>1, <2>1 DEF OffersSound, OfferSound
  <2>2. ASSUME NEW n \in Nonce, NEW bytes \in Bytes, offers[n] # NoOffer,
               offers' = [offers EXCEPT ![n].stored = bytes]
        PROVE  OffersSound'
    <3>1. OfferSound(n) /\ offers[n] \in OfferRecord
        BY <2>2 DEF OffersSound, OfferSound
    <3> DEFINE o == [offers[n] EXCEPT !.stored = bytes]
    <3>2. /\ o \in OfferRecord
          /\ o.recipient = offers[n].recipient /\ o.ref = offers[n].ref /\ o.file = offers[n].file
        BY <3>1 DEF OfferRecord
    <3>3. offers' = [offers EXCEPT ![n] = o]
        BY <2>2
    <3> HIDE DEF o
    <3>4. offers'[n] = o /\ \A m \in Nonce : m # n => offers'[m] = offers[m]
        BY <3>3 DEF OffersSound
    <3>5. OfferSound(n)'
        BY <1>1, <3>1, <3>2, <3>4 DEF OfferSound
    <3>6. \A m \in Nonce : m # n => (offers'[m] = NoOffer /\ sent'[m] = NoOffer) \/ OfferSound(m)'
        BY <1>1, <3>4 DEF OffersSound, OfferSound
    <3>7. offers' \in [Nonce -> OfferRecord \cup {NoOffer}]
        BY <3>2, <3>3 DEF OffersSound
    <3> QED
        BY <1>1, <3>5, <3>6, <3>7 DEF OffersSound
  <2> QED
      BY <2>1, <2>2 DEF Drift
<1>3. PrintedSound'
    BY <1>1 DEF PrintedSound, TicketSound
<1>4. SentKept
    BY <1>1 DEF SentKept
<1>5. RecvSound' /\ LandedSound'
    BY <1>1, <1>4, RecvKept, LandedKept
<1> QED
    BY <1>1, <1>2, <1>3, <1>5 DEF Confined

-----------------------------------------------------------------------------
(* The receiver *)

LEMMA StartRecvKeepsInv ==
    ASSUME HandoffInv, NEW p \in Person, NEW text \in printed, NEW yes \in BOOLEAN,
           StartRecv(p, text, yes)
    PROVE  HandoffInv'
<1>1. /\ UNCHANGED <<senderVars, links, landed, served, written>> /\ UNCHANGED <<printed, sent>>
      /\ text.to = p
      /\ recv' = [phase |-> "ask", who |-> p, yes |-> yes, ticket |-> text.body,
                  notice |-> TRUE, reminder |-> FALSE, total |-> Unsaid, agreed |-> 0,
                  manifest |-> <<>>, queue |-> <<>>, got |-> {}, warned |-> {}, unread |-> {}]
    BY DEF StartRecv, Opens, senderVars
<1>2. /\ recv'.phase = "ask" /\ recv'.who = p /\ recv'.ticket = text.body /\ recv'.agreed = 0
      /\ recv'.manifest = <<>> /\ recv'.queue = <<>>
    BY <1>1
<1>3. <<>> \in Seq(FolderEntry(Content)) /\ <<>> \in Seq(EntriesSent(recv.ticket.nonce)')
    BY EmptySeq
<1>4. (recv \in RecvRecord)'
    BY <1>1, <1>3 DEF RecvRecord, Phase, Unsaid
<1>5. Said' /\ Reported'
    BY <1>2 DEF Said, Reported, At
<1>6. RecvSound'
    BY <1>1, <1>2, <1>3, <1>4, <1>5 DEF RecvSound
<1> QED
    BY <1>1, <1>6, RecvStep

(* a step that goes on with the same ticket *)
LEMMA SameTicket ==
    ASSUME HandoffInv, recv.phase \in Phase, (recv \in RecvRecord)', printed' = printed,
           sent' = sent, recv'.who = recv.who, recv'.ticket = recv.ticket,
           recv'.manifest \in Seq(EntriesSent(recv.ticket.nonce)),
           recv'.queue \in Seq(EntriesSent(recv.ticket.nonce)), Said', Reported'
    PROVE  RecvSound'
<1>1. PICK text \in printed : text.to = recv.who /\ text.body = recv.ticket
    BY RecvFacts DEF HandoffInv, RecvSound
<1>2. EntriesSent(recv.ticket.nonce)' = EntriesSent(recv.ticket.nonce)
    BY DEF EntriesSent
<1> QED
    BY <1>1, <1>2 DEF RecvSound, EntriesSent

LEMMA ToSniff ==
    ASSUME HandoffInv, recv.phase \in Phase, recv' = [recv EXCEPT !.phase = "sniff"],
           UNCHANGED <<printed, sent, landed>>
    PROVE  RecvSound'
<1>1. recv \in RecvRecord /\ recv # NoRecv
    BY RecvFacts
<1>2. /\ recv'.phase = "sniff" /\ recv'.who = recv.who /\ recv'.ticket = recv.ticket
      /\ recv'.manifest = recv.manifest /\ recv'.queue = recv.queue
    BY <1>1 DEF RecvRecord
<1>3. (recv \in RecvRecord)'
    BY <1>1 DEF RecvRecord, Phase
<1>4. Said' /\ Reported'
    BY <1>2 DEF Said, Reported, At
<1> QED
    BY <1>1, <1>2, <1>3, <1>4, SameTicket DEF HandoffInv, RecvSound

LEMMA AnswerKeepsInv == HandoffInv /\ Answer => HandoffInv'
<1> SUFFICES ASSUME HandoffInv, Answer PROVE HandoffInv'
    OBVIOUS
<1>1. /\ UNCHANGED <<senderVars, links, landed, served, written>> /\ UNCHANGED <<printed, sent>>
      /\ recv.phase \in {"ask", "start"} /\ recv.phase \in Phase
    BY DEF Answer, senderVars, Phase
<1>2. CASE recv' = NoRecv
    BY <1>1, <1>2, NoRecvStep, RecvStep
<1>3. CASE recv' # NoRecv
  <2> DEFINE next == IF At("start") THEN "entries" ELSE IF IsFolder THEN "manifest" ELSE "file"
  <2>1. recv' = [recv EXCEPT !.agreed = @ + 1, !.phase = next]
      BY <1>3 DEF Answer
  <2>2. recv \in RecvRecord /\ recv # NoRecv
      BY <1>1, RecvFacts
  <2>3. next \in Phase
      BY DEF Phase
  <2>4. /\ recv'.phase = next /\ recv'.agreed = recv.agreed + 1 /\ recv'.who = recv.who
        /\ recv'.ticket = recv.ticket /\ recv'.manifest = recv.manifest
        /\ recv'.queue = recv.queue /\ recv'.reminder = recv.reminder /\ recv'.total = recv.total
        /\ recv.agreed \in Nat
      BY <2>1, <2>2 DEF RecvRecord
  <2>5. (recv \in RecvRecord)'
    <3>1. printed' = printed /\ landed' = landed /\ recv.agreed + 1 \in Nat
        BY <1>1, <2>4
    <3> HIDE DEF next
    <3> QED
        BY <2>1, <2>2, <2>3, <3>1 DEF RecvRecord
  <2>6. Said /\ recv.manifest \in Seq(EntriesSent(recv.ticket.nonce))
        /\ recv.queue \in Seq(EntriesSent(recv.ticket.nonce))
      BY <2>2 DEF HandoffInv, RecvSound
  <2>7. Said'
    <3>1. CASE At("ask")
        BY <2>4, <2>6, <3>1 DEF Said, At
    <3>2. CASE At("start")
        BY <2>4, <2>6, <3>2 DEF Said, At
    <3> QED
        BY <1>1, <3>1, <3>2 DEF At
  <2>8. Reported'
      BY <2>4 DEF Reported, At
  <2>9. RecvSound'
      BY <1>1, <2>4, <2>5, <2>6, <2>7, <2>8, SameTicket
  <2> QED
      BY <1>1, <2>9, RecvStep
<1> QED
    BY <1>2, <1>3

LEMMA FailKeepsInv == HandoffInv /\ Fail => HandoffInv'
<1> SUFFICES ASSUME HandoffInv, Fail PROVE HandoffInv'
    OBVIOUS
<1>1. /\ UNCHANGED <<senderVars, links, landed, served, written>> /\ UNCHANGED <<printed, sent>>
      /\ recv.phase \in Phase
    BY DEF Fail, senderVars, Phase
<1>2. CASE recv' = NoRecv
    BY <1>1, <1>2, NoRecvStep, RecvStep
<1>3. CASE recv' = [recv EXCEPT !.phase = "sniff"]
    BY <1>1, <1>3, ToSniff, RecvStep
<1> QED
    BY <1>2, <1>3 DEF Fail, Stopped

LEMMA EntriesDoneKeepsInv == HandoffInv /\ EntriesDone => HandoffInv'
<1> SUFFICES ASSUME HandoffInv, EntriesDone PROVE HandoffInv'
    OBVIOUS
<1>1. /\ UNCHANGED <<senderVars, links, landed, served, written>> /\ UNCHANGED <<printed, sent>>
      /\ recv.phase \in Phase /\ recv' = [recv EXCEPT !.phase = "sniff"]
    BY DEF EntriesDone, senderVars, Phase, At
<1> QED
    BY <1>1, ToSniff, RecvStep

LEMMA KillKeepsInv == HandoffInv /\ Kill => HandoffInv'
BY NoRecvStep, RecvStep DEF Kill

LEMMA SniffKeepsInv == HandoffInv /\ Sniff => HandoffInv'
<1> SUFFICES ASSUME HandoffInv, Sniff PROVE HandoffInv'
    OBVIOUS
<1>1. /\ UNCHANGED <<senderVars, links, landed, served, written>> /\ UNCHANGED <<printed, sent>>
      /\ recv.phase \in Phase
    BY DEF Sniff, senderVars, Phase, At
<1>2. recv \in RecvRecord /\ recv # NoRecv
    BY <1>1, RecvFacts
<1>3. PICK unread \in SUBSET recv.got :
          recv' = [recv EXCEPT !.phase = "done", !.unread = unread,
                       !.warned = {got \in recv.got \ unread : VerdictOf(got) = "mismatch"}]
    BY DEF Sniff
<1> DEFINE bad == {got \in recv.got \ unread : VerdictOf(got) = "mismatch"}
<1>4. bad \in SUBSET landed /\ unread \in SUBSET landed
    BY <1>2 DEF RecvRecord
<1>5. recv' = [recv EXCEPT !.phase = "done", !.unread = unread, !.warned = bad]
    BY <1>3
<1> HIDE DEF bad
<1>6. /\ recv'.phase = "done" /\ recv'.who = recv.who /\ recv'.ticket = recv.ticket
      /\ recv'.manifest = recv.manifest /\ recv'.queue = recv.queue /\ recv'.got = recv.got
      /\ recv'.warned = bad /\ recv'.unread = unread
    BY <1>2, <1>5 DEF RecvRecord
<1>7. (recv \in RecvRecord)'
    BY <1>1, <1>2, <1>4, <1>5 DEF RecvRecord, Phase
<1>8. Said'
    BY <1>6 DEF Said, At
<1>9. Reported'
    BY <1>6 DEF Reported, bad, VerdictOf
<1>10. RecvSound'
    BY <1>1, <1>2, <1>6, <1>7, <1>8, <1>9, SameTicket DEF HandoffInv, RecvSound
<1> QED
    BY <1>1, <1>10, RecvStep

(* a step in which `rel` is written to, with what is read from `place` *)
LEMMA WriteStep ==
    ASSUME HandoffInv, RecvSound', LandedSound', NEW rel, NEW place, NEW after,
           Write(rel, place, after), place # Outside,
           FileAt(links.receiver, rel) \in Place, FileAt(links.receiver, rel) # Outside,
           \A l \in after : LinksOK(l)
    PROVE  HandoffInv'
<1>1. /\ UNCHANGED <<offers, printed, sent>>
      /\ served' = served \cup {place} /\ written' = written \cup {Wrote(rel)}
    BY DEF Write, senderVars
<1>2. PICK l \in after : links' = [links EXCEPT !.receiver = l]
    BY DEF Write
<1>3. /\ links' = [sender |-> links'.sender, receiver |-> links'.receiver]
      /\ LinksOK(links'.receiver)
  <2>1. links = [sender |-> links.sender, receiver |-> links.receiver]
      BY DEF HandoffInv
  <2>2. links' = [sender |-> links.sender, receiver |-> l]
      BY <1>2, <2>1
  <2> QED
      BY <2>2
<1>4. OffersSound'
    BY <1>1 DEF HandoffInv, OffersSound, OfferSound
<1>5. PrintedSound'
    BY <1>1 DEF HandoffInv, PrintedSound, TicketSound
<1>6. Wrote(rel).place = Outside => Wrote(rel).linked
  <2>1. LinksOK(links.receiver)
      BY DEF HandoffInv
  <2> QED
      BY <2>1, WritesToPlace DEF Wrote
<1>7. Confined'
    BY <1>1, <1>6 DEF HandoffInv, Confined
<1> QED
    BY <1>3, <1>4, <1>5, <1>7 DEF HandoffInv

(* a step in which `got` lands *)
LEMMA LandStep ==
    ASSUME HandoffInv, RecvSound', NEW got, NEW place, Land(got, place), GotSound(got),
           place # Outside, FileAt(links.receiver, got.name) \in Place,
           FileAt(links.receiver, got.name) # Outside
    PROVE  HandoffInv'
<1>1. /\ Write(got.name, place, Renamed(links.receiver, got.name))
      /\ landed' = landed \cup {got} /\ sent' = sent
    BY DEF Land, Write, senderVars
<1>2. LandedSound'
    BY <1>1 DEF HandoffInv, LandedSound, GotSound
<1>3. \A l \in Renamed(links.receiver, got.name) : LinksOK(l)
    BY LinksStayOK DEF HandoffInv
<1> QED
    BY <1>1, <1>2, <1>3, WriteStep

LEMMA PullsFileFacts ==
    ASSUME HandoffInv, NEW place \in SourcePlace, PullsFile(place)
    PROVE  LET n == recv.ticket.nonce
               ref == recv.ticket.payload
               d == sent[n].descriptor
           IN /\ recv.phase = "file" /\ recv.phase \in Phase
              /\ recv \in RecvRecord /\ recv # NoRecv
              /\ n \in Nonce /\ sent[n] # NoOffer /\ sent[n].to = recv.who
              /\ d.kind = "file" /\ ref.name = d.name /\ ref.hash = d.hash
              /\ FileAt(links.receiver, ref.name) \in Place
              /\ FileAt(links.receiver, ref.name) # Outside
              /\ place # Outside
<1> DEFINE n == recv.ticket.nonce
           ref == recv.ticket.payload
           d == sent[n].descriptor
<1>1. recv.phase = "file" /\ recv.phase \in Phase
    BY DEF PullsFile, At, Phase
<1>2. /\ recv \in RecvRecord /\ recv # NoRecv
      /\ n \in Nonce /\ sent[n] # NoOffer /\ sent[n].to = recv.who
      /\ ref = Ref(d) /\ d \in Descriptor /\ OfferSound(n)
    BY <1>1, RecvFacts
<1>3. offers[n].ref.kind = "file" /\ place = offers[n].file /\ SafeFilename(ref.name)
    BY DEF PullsFile, ServesFile
<1>4. d.kind = "file" /\ ref.name = d.name /\ ref.hash = d.hash /\ d.name \in Seq(STRING)
  <2>1. Ref(d).kind = d.kind /\ Ref(d).kind = "file"
    <3>1. Ref(d).kind = "file"
        BY <1>2, <1>3, Zenon DEF OfferSound
    <3> QED
        BY <1>2, <3>1, DescriptorFacts
  <2> QED
      BY <1>2, <2>1, DescriptorFacts
<1>5. place # Outside
    BY <1>2, <1>3, <1>4 DEF OfferSound
<1>6. FileAt(links.receiver, ref.name) \in Place /\ FileAt(links.receiver, ref.name) # Outside
    BY <1>3, <1>4, FilenameIsInside DEF HandoffInv
<1> QED
    BY <1>1, <1>2, <1>4, <1>5, <1>6

LEMMA PullFileKeepsInv ==
    ASSUME HandoffInv, NEW place \in SourcePlace, PullFile(place)
    PROVE  HandoffInv'
<1> DEFINE ref == recv.ticket.payload
           n == recv.ticket.nonce
           d == sent[n].descriptor
           at == WritesAt(links.receiver, ref.name)
           got == Got(ref.name, ref.mime, ref.hash, at, source[place])
<1>1. /\ recv.phase = "file" /\ recv.phase \in Phase
      /\ recv \in RecvRecord /\ recv # NoRecv
      /\ n \in Nonce /\ sent[n] # NoOffer /\ sent[n].to = recv.who
      /\ d.kind = "file" /\ ref.name = d.name /\ ref.hash = d.hash
      /\ FileAt(links.receiver, ref.name) \in Place
      /\ FileAt(links.receiver, ref.name) # Outside
      /\ place # Outside
    BY PullsFileFacts DEF PullFile
<1>2. Land(got, place) /\ UNCHANGED <<printed, sent>>
    BY DEF PullFile, Land, Write, senderVars
<1>3. /\ ref.hash = source[place]
      /\ recv' = [recv EXCEPT !.phase = "sniff", !.got = {got}] \/ recv' = NoRecv
    BY DEF PullFile, CommitsTo
<1>4. got.nonce = n /\ got.who = recv.who /\ got.name = d.name /\ got.content = d.hash
    BY <1>1, <1>3 DEF Got
<1> HIDE DEF got
<1>5. GotSound(got)
    BY <1>1, <1>4 DEF GotSound, Lists
<1>6. RecvSound'
  <2>1. CASE recv' = NoRecv
      BY <2>1, NoRecvStep
  <2>2. CASE recv' = [recv EXCEPT !.phase = "sniff", !.got = {got}]
    <3>1. landed' = landed \cup {got}
        BY <1>2 DEF Land
    <3>2. /\ recv'.phase = "sniff" /\ recv'.who = recv.who /\ recv'.ticket = recv.ticket
          /\ recv'.manifest = recv.manifest /\ recv'.queue = recv.queue
        BY <1>1, <2>2 DEF RecvRecord
    <3>3. (recv \in RecvRecord)'
        BY <1>1, <1>2, <2>2, <3>1 DEF RecvRecord, Phase
    <3>4. Said' /\ Reported'
        BY <3>2 DEF Said, Reported, At
    <3> QED
        BY <1>1, <1>2, <3>2, <3>3, <3>4, SameTicket DEF HandoffInv, RecvSound
  <2> QED
      BY <1>3, <2>1, <2>2
<1> QED
    BY <1>1, <1>2, <1>4, <1>5, <1>6, LandStep

(* the directory of the copies is inside, unless it is a link *)
LEMMA ManifestsAreInside ==
    ASSUME HandoffInv, ManifestCopy.place = Outside
    PROVE  ManifestCopy.linked
<1> DEFINE l == links.receiver
<1>1. LinksOK(l)
    BY DEF HandoffInv
<1>2. CopyDir \in Seq(STRING) /\ CopyDir # <<>>
    BY HandoffAssumption DEF CopyDir
<1>3. Front(CopyDir) = <<>> /\ Last(CopyDir) = "manifests" /\ Append(<<>>, "manifests") = CopyDir
    BY DEF Front, Last, CopyDir
<1>4. <<>> \in Seq(STRING)
    OBVIOUS
<1> HIDE DEF l
<1>5. PlaceOf(l, CopyDir) = Walk(l, <<>>, "manifests")
    BY <1>1, <1>2, <1>3, RootIsItself, PlaceOfLast
<1>6. <<>> # Outside /\ CopyDir # Outside
    BY <1>2, <1>4, LandingAssumption
<1>7. CopyDir \notin DOMAIN l => PlaceOf(l, CopyDir) = CopyDir
    BY <1>3, <1>5, <1>6 DEF Walk, Blank, Dot, Up
<1> QED
    BY <1>6, <1>7 DEF ManifestCopy, l

LEMMA FetchManifestKeepsInv == HandoffInv /\ FetchManifest => HandoffInv'
<1> SUFFICES ASSUME HandoffInv, FetchManifest PROVE HandoffInv'
    OBVIOUS
<1> DEFINE n == recv.ticket.nonce
           d == sent[n].descriptor
           entries == offers[n].stored.entries
<1>1. /\ UNCHANGED <<senderVars, links, landed, served>> /\ UNCHANGED <<printed, sent>>
      /\ written' = written \cup {ManifestCopy}
      /\ recv.phase = "manifest" /\ recv.phase \in Phase
      /\ offers[n].ref.kind = "folder" /\ recv.ticket.payload.root = offers[n].stored
      /\ recv' = [recv EXCEPT !.phase = "survey", !.manifest = entries] \/ recv' = NoRecv
    BY DEF FetchManifest, senderVars, Phase, At, ServesManifest, DecodeAndVerify, CommitsTo,
       EntriesOf
<1>2. /\ recv \in RecvRecord /\ recv # NoRecv /\ n \in Nonce
      /\ recv.ticket.payload = Ref(d) /\ d \in Descriptor /\ OfferSound(n)
    BY <1>1, RecvFacts
<1>3. d.kind = "folder" /\ d.entries \in Seq(FolderEntry(Content)) /\ Ref(d).root = d.root
    BY <1>1, <1>2, DescriptorFacts DEF OfferSound
<1>4. d.root = Encode(d.entries)
    BY <1>2, <1>3 DEF OfferSound, VerifyRootHash, CommitsTo
<1>5. entries = d.entries
    BY <1>1, <1>2, <1>3, <1>4 DEF Encode
<1>6. d.entries \in Seq(EntriesSent(n))
  <2> DEFINE all == d.entries
  <2>1. \A i \in 1..Len(all) : all[i] \in FolderEntry(Content)
      BY <1>3
  <2>2. \A i \in 1..Len(all) : all[i] \in EntriesSent(n)
      BY <1>3, <2>1 DEF EntriesSent
  <2> HIDE DEF all
  <2>3. all \in Seq(EntriesSent(n))
    <3>1. all \in Seq(FolderEntry(Content))
        BY <1>3 DEF all
    <3>2. Len(all) \in Nat /\ all = [i \in 1..Len(all) |-> all[i]]
        BY <3>1
    <3> QED
        BY <2>2, <3>2, IsASeq
  <2> QED
      BY <2>3 DEF all
<1>7. entries \in Seq(FolderEntry(Content)) /\ entries \in Seq(EntriesSent(n))
    BY <1>3, <1>5, <1>6
<1> HIDE DEF entries
<1>8. RecvSound'
  <2>1. CASE recv' = NoRecv
      BY <2>1, NoRecvStep
  <2>2. CASE recv' = [recv EXCEPT !.phase = "survey", !.manifest = entries]
    <3>1. /\ recv'.phase = "survey" /\ recv'.who = recv.who /\ recv'.ticket = recv.ticket
          /\ recv'.manifest = entries /\ recv'.queue = recv.queue /\ recv'.agreed = recv.agreed
        BY <1>2, <2>2 DEF RecvRecord
    <3>2. (recv \in RecvRecord)'
        BY <1>1, <1>2, <1>7, <2>2 DEF RecvRecord, Phase
    <3>3. Said /\ recv.queue \in Seq(EntriesSent(n))
        BY <1>2 DEF HandoffInv, RecvSound
    <3>4. Said' /\ Reported'
        BY <1>1, <3>1, <3>3 DEF Said, Reported, At
    <3> QED
        BY <1>1, <1>7, <3>1, <3>2, <3>3, <3>4, SameTicket
  <2> QED
      BY <1>1, <2>1, <2>2
<1>9. OffersSound' /\ PrintedSound'
    BY <1>1 DEF HandoffInv, senderVars, OffersSound, OfferSound, PrintedSound, TicketSound
<1>10. LandedSound'
    BY <1>1, LandedKept DEF HandoffInv, SentKept
<1>11. Confined'
    BY <1>1, ManifestsAreInside DEF HandoffInv, Confined
<1> QED
    BY <1>1, <1>8, <1>9, <1>10, <1>11 DEF HandoffInv

LEMMA SizesType ==
    ASSUME NEW entries \in Seq(FolderEntry(Content))
    PROVE  Sizes(entries) \in Seq(Nat)
<1>1. Len(entries) \in Nat /\ \A i \in 1..Len(entries) : entries[i] \in FolderEntry(Content)
    OBVIOUS
<1>2. \A i \in 1..Len(entries) : entries[i].size \in Nat
    BY <1>1, TicketAssumption DEF FolderEntry
<1> QED
    BY <1>1, <1>2, IsASeq DEF Sizes

LEMMA SurveyKeepsInv == HandoffInv /\ Survey => HandoffInv'
<1> SUFFICES ASSUME HandoffInv, Survey PROVE HandoffInv'
    OBVIOUS
<1> DEFINE n == recv.ticket.nonce
           queue == NotHeld(recv.manifest)
           sum == CheckedTotal(Sizes(queue))
<1>1. /\ UNCHANGED <<senderVars, links, landed, served, written>> /\ UNCHANGED <<printed, sent>>
      /\ recv.phase = "survey" /\ recv.phase \in Phase
    BY DEF Survey, senderVars, Phase, At
<1>2. /\ \/ recv' = NoRecv
         \/ /\ sum # Overflow
            /\ recv' = [recv EXCEPT !.phase = "start", !.queue = queue, !.total = sum,
                                    !.reminder = TRUE]
    BY Zenon DEF Survey
<1>3. CASE recv' = NoRecv
    BY <1>1, <1>3, NoRecvStep, RecvStep
<1>4. ASSUME sum # Overflow,
             recv' = [recv EXCEPT !.phase = "start", !.queue = queue, !.total = sum,
                                  !.reminder = TRUE]
      PROVE  HandoffInv'
  <2>1. recv \in RecvRecord /\ recv # NoRecv
      BY <1>1, RecvFacts
  <2>2. recv.manifest \in Seq(EntriesSent(n)) /\ Said
      BY <2>1 DEF HandoffInv, RecvSound
  <2>3. queue \in Seq(EntriesSent(n))
      BY <2>2, NotHeldType, Zenon
  <2>4. EntriesSent(n) \subseteq FolderEntry(Content)
      BY DEF EntriesSent
  <2> HIDE DEF queue
  <2>5. queue \in Seq(FolderEntry(Content))
      BY <2>3, <2>4, SeqMonotonic, Zenon
  <2>6. sum = SumOf(queue) /\ sum \in Nat
    <3>1. Sizes(queue) \in Seq(Nat)
        BY <2>5, SizesType
    <3> QED
        BY <1>4, <3>1, TotalIsSum, Zenon DEF SumOf
  <2> HIDE DEF sum
  <2>7. /\ recv'.phase = "start" /\ recv'.who = recv.who /\ recv'.ticket = recv.ticket
        /\ recv'.manifest = recv.manifest /\ recv'.queue = queue /\ recv'.agreed = recv.agreed
        /\ recv'.total = sum /\ recv'.reminder = TRUE
      BY <1>4, <2>1 DEF RecvRecord
  <2>8. (recv \in RecvRecord)'
    <3>1. sum \in Int /\ printed' = printed /\ landed' = landed
        BY <1>1, <2>6
    <3>2. recv' = [recv EXCEPT !.phase = "start", !.queue = queue, !.total = sum, !.reminder = TRUE]
        BY <1>4
    <3> QED
        BY <2>1, <2>5, <3>1, <3>2 DEF RecvRecord, Phase
  <2>9. Said'
    <3>1. recv'.agreed = 1 /\ sum # Unsaid
        BY <1>1, <2>2, <2>6, <2>7 DEF Said, Unsaid
    <3>2. recv'.total = SumOf(recv'.queue)
        BY <2>6, <2>7
    <3> QED
        BY <2>7, <3>1, <3>2 DEF Said, At
  <2>10. Reported'
      BY <2>7 DEF Reported, At
  <2>11. RecvSound'
      BY <1>1, <2>2, <2>3, <2>7, <2>8, <2>9, <2>10, SameTicket
  <2> QED
      BY <1>1, <2>11, RecvStep
<1> QED
    BY <1>2, <1>3, <1>4

LEMMA PullsEntryFacts ==
    ASSUME HandoffInv, NEW place \in SourcePlace, PullsEntry(place)
    PROVE  LET n == recv.ticket.nonce
               e == Head(recv.queue)
               d == sent[n].descriptor
           IN /\ recv.phase = "entries" /\ recv.phase \in Phase
              /\ recv \in RecvRecord /\ recv # NoRecv
              /\ n \in Nonce /\ sent[n] # NoOffer /\ sent[n].to = recv.who
              /\ d.kind = "folder"
              /\ \E i \in 1..Len(d.entries) :
                     d.entries[i].rel = e.rel /\ d.entries[i].hash = e.hash
              /\ Tail(recv.queue) \in Seq(EntriesSent(n))
              /\ FileAt(links.receiver, e.rel) \in Place
              /\ FileAt(links.receiver, e.rel) # Outside
              /\ place # Outside
<1> DEFINE n == recv.ticket.nonce
           d == sent[n].descriptor
           e == Head(recv.queue)
<1>1. /\ recv.phase = "entries" /\ recv.phase \in Phase /\ recv.queue # <<>>
      /\ SafeRelPath(e.rel) /\ PreparesEntry(links.receiver, e.rel) /\ ServesEntry(n, e.rel, place)
    BY DEF PullsEntry, At, Phase
<1>2. /\ recv \in RecvRecord /\ recv # NoRecv
      /\ n \in Nonce /\ sent[n] # NoOffer /\ sent[n].to = recv.who
    BY <1>1, RecvFacts
<1>3. recv.queue \in Seq(EntriesSent(n))
    BY <1>2 DEF HandoffInv, RecvSound
<1>4. e \in EntriesSent(n) /\ Tail(recv.queue) \in Seq(EntriesSent(n))
    BY <1>1, <1>3, HeadTailProperties
<1>5. /\ d.kind = "folder" /\ e.rel \in Seq(STRING)
      /\ \E i \in 1..Len(d.entries) : d.entries[i].rel = e.rel /\ d.entries[i].hash = e.hash
    BY <1>4 DEF EntriesSent, FolderEntry
<1>6. place # Outside
    BY <1>1 DEF ServesEntry, ResolvesWithin
<1>7. FileAt(links.receiver, e.rel) \in Place /\ FileAt(links.receiver, e.rel) # Outside
    BY <1>1, <1>5, PreparedIsInside DEF HandoffInv
<1> HIDE DEF e
<1> QED
    BY <1>1, <1>2, <1>4, <1>5, <1>6, <1>7 DEF e

LEMMA PullEntryKeepsInv ==
    ASSUME HandoffInv, NEW place \in SourcePlace, PullEntry(place)
    PROVE  HandoffInv'
<1> DEFINE n == recv.ticket.nonce
           d == sent[n].descriptor
           e == Head(recv.queue)
           at == WritesAt(links.receiver, e.rel)
           got == Got(e.rel, None, e.hash, at, source[place])
<1>1. /\ recv.phase = "entries" /\ recv.phase \in Phase
      /\ recv \in RecvRecord /\ recv # NoRecv
      /\ n \in Nonce /\ sent[n] # NoOffer /\ sent[n].to = recv.who
      /\ d.kind = "folder"
      /\ \E i \in 1..Len(d.entries) : d.entries[i].rel = e.rel /\ d.entries[i].hash = e.hash
      /\ Tail(recv.queue) \in Seq(EntriesSent(n))
      /\ FileAt(links.receiver, e.rel) \in Place
      /\ FileAt(links.receiver, e.rel) # Outside
      /\ place # Outside
    BY PullsEntryFacts DEF PullEntry
<1>2. Land(got, place) /\ UNCHANGED <<printed, sent>>
    BY DEF PullEntry, Land, Write, senderVars
<1>3. /\ e.hash = source[place]
      /\ recv' = [recv EXCEPT !.queue = Tail(@), !.got = @ \cup {got}]
    BY DEF PullEntry, CommitsTo
<1>4. Said /\ recv.manifest \in Seq(EntriesSent(n))
    BY <1>1 DEF HandoffInv, RecvSound
<1>5. Tail(recv.queue) \in Seq(FolderEntry(Content))
  <2>1. EntriesSent(n) \subseteq FolderEntry(Content)
      BY DEF EntriesSent
  <2> QED
      BY <1>1, <2>1, SeqMonotonic, Zenon
<1>6. got.nonce = n /\ got.who = recv.who /\ got.name = e.rel /\ got.content = e.hash
    BY <1>3 DEF Got
<1> HIDE DEF got
<1>7. GotSound(got)
    BY <1>1, <1>6 DEF GotSound, Lists
<1>8. /\ recv'.phase = recv.phase /\ recv'.who = recv.who /\ recv'.ticket = recv.ticket
      /\ recv'.manifest = recv.manifest /\ recv'.queue = Tail(recv.queue)
      /\ recv'.agreed = recv.agreed /\ recv'.total = recv.total /\ recv'.reminder = recv.reminder
    BY <1>1, <1>3 DEF RecvRecord
<1>9. (recv \in RecvRecord)'
  <2>1. landed' = landed \cup {got} /\ recv.got \cup {got} \in SUBSET landed'
      BY <1>1, <1>2 DEF Land, RecvRecord
  <2> QED
      BY <1>1, <1>2, <1>3, <1>5, <2>1 DEF RecvRecord
<1>10. Said' /\ Reported'
    BY <1>1, <1>4, <1>8 DEF Said, Reported, At
<1>11. RecvSound'
    BY <1>1, <1>2, <1>4, <1>8, <1>9, <1>10, SameTicket
<1> HIDE DEF e, at
<1> QED
    BY <1>1, <1>2, <1>6, <1>7, <1>11, LandStep

LEMMA BreakKeepsInv ==
    ASSUME HandoffInv, NEW place \in SourcePlace, Break(place)
    PROVE  HandoffInv'
<1> DEFINE l == links.receiver
           name == recv.ticket.payload.name
           rel == Head(recv.queue).rel
<1>1. landed' = landed /\ recv' = Stopped /\ UNCHANGED <<printed, sent>>
    BY DEF Break, Write, senderVars
<1>2. LandedSound'
    BY <1>1, LandedKept DEF HandoffInv, SentKept
<1>3. CASE PullsFile(place)
  <2>1. /\ recv.phase = "file" /\ place # Outside
        /\ FileAt(l, name) \in Place /\ FileAt(l, name) # Outside
      BY <1>3, PullsFileFacts
  <2>2. recv' = NoRecv /\ Write(name, place, {l, Unlinked(l, name)})
      BY <1>1, <2>1 DEF Break, Stopped, At
  <2>3. RecvSound'
      BY <2>2, NoRecvStep
  <2>4. \A after \in {l, Unlinked(l, name)} : LinksOK(after)
      BY <2>1, LinksStayOK DEF HandoffInv
  <2> HIDE DEF l, name
  <2> QED
      BY <1>2, <2>1, <2>2, <2>3, <2>4, WriteStep DEF l
<1>4. CASE PullsEntry(place)
  <2>1. /\ recv.phase = "entries" /\ recv.phase \in Phase /\ place # Outside
        /\ FileAt(l, rel) \in Place /\ FileAt(l, rel) # Outside
      BY <1>4, PullsEntryFacts
  <2>2. recv' = [recv EXCEPT !.phase = "sniff"] /\ Write(rel, place, {l, Unlinked(l, rel)})
      BY <1>1, <2>1 DEF Break, Stopped, At
  <2>3. RecvSound'
      BY <1>1, <2>1, <2>2, ToSniff
  <2>4. \A after \in {l, Unlinked(l, rel)} : LinksOK(after)
      BY <2>1, LinksStayOK DEF HandoffInv
  <2> HIDE DEF l, rel
  <2> QED
      BY <1>2, <2>1, <2>2, <2>3, <2>4, WriteStep DEF l
<1> QED
    BY <1>3, <1>4 DEF Break

-----------------------------------------------------------------------------
LEMMA InitHandoffInv == Init => HandoffInv
<1> SUFFICES ASSUME Init PROVE HandoffInv
    OBVIOUS
<1>1. OffersSound
    BY DEF Init, OffersSound
<1>2. PrintedSound /\ RecvSound /\ LandedSound /\ Confined
    BY DEF Init, PrintedSound, RecvSound, LandedSound, Confined
<1>3. PICK s \in SenderLinks, r \in ReceiverLinks : links = [sender |-> s, receiver |-> r]
    BY DEF Init
<1>4. LinksOK(links.receiver) /\ links = [sender |-> links.sender, receiver |-> links.receiver]
    BY <1>3, HandoffAssumption DEF LinksOK
<1> QED
    BY <1>1, <1>2, <1>4 DEF HandoffInv

LEMMA NextHandoffInv == HandoffInv /\ [Next]_vars => HandoffInv'
<1> SUFFICES ASSUME HandoffInv, [Next]_vars PROVE HandoffInv'
    OBVIOUS
<1>1. ASSUME NEW d \in Descriptor, NEW card \in PastedCard, NEW n \in Nonce,
             NEW file \in SharedAs(d), Send(d, card, n, file)
      PROVE  HandoffInv'
    BY <1>1, SendKeepsInv
<1>2. ASSUME NEW p \in Person, NEW text \in printed, NEW yes \in BOOLEAN, StartRecv(p, text, yes)
      PROVE  HandoffInv'
    BY <1>2, StartRecvKeepsInv
<1>3. ASSUME NEW place \in SourcePlace, PullFile(place) \/ PullEntry(place) \/ Break(place)
      PROVE  HandoffInv'
    BY <1>3, PullFileKeepsInv, PullEntryKeepsInv, BreakKeepsInv
<1>4. CASE Drift \/ Answer \/ Fail \/ Kill \/ FetchManifest \/ Survey \/ EntriesDone \/ Sniff
    BY <1>4, DriftKeepsInv, AnswerKeepsInv, FailKeepsInv, KillKeepsInv, FetchManifestKeepsInv,
       SurveyKeepsInv, EntriesDoneKeepsInv, SniffKeepsInv
<1>5. CASE UNCHANGED vars
  <2>1. UNCHANGED <<senderVars, links, landed, served, written>> /\ UNCHANGED <<printed, sent, recv>>
      BY <1>5 DEF vars, senderVars
  <2>2. RecvSound'
      BY <2>1, RecvKept DEF HandoffInv, SentKept
  <2> QED
      BY <2>1, <2>2, RecvStep
<1> QED
    BY <1>1, <1>2, <1>3, <1>4, <1>5 DEF Next

(* Offers, tickets, a recv and what has landed keep what was sent under      *)
(* their nonce (cmd_send, cmd_recv, serve).                                  *)
THEOREM HandoffInvariant == Spec => []HandoffInv
<1>1. Init => HandoffInv
    BY InitHandoffInv
<1>2. HandoffInv /\ [Next]_vars => HandoffInv'
    BY NextHandoffInv
<1> QED
    BY <1>1, <1>2, PTL DEF Spec

-----------------------------------------------------------------------------
(* What lands was listed in a descriptor that was sent to its receiver under *)
(* that ticket, whatever the sender's files and its stored manifest have     *)
(* turned into since (verify_root_hash, decode_and_verify, the hash gate).   *)
THEOREM OnlyWhatWasOfferedTheorem == Spec => []OnlyWhatWasOffered
<1>1. HandoffInv => OnlyWhatWasOffered
    BY DEF HandoffInv, LandedSound, GotSound, OnlyWhatWasOffered
<1> QED
    BY <1>1, HandoffInvariant, PTL

(* Nothing is read outside the shared directory, and recv writes no file     *)
(* outside the chosen one, through whatever path and whichever links on it,  *)
(* but for a link that stands where the `.part` itself or the directory of   *)
(* the manifest copies is to be (safe_rel_path, prepare_entry_dest,          *)
(* resolve_within_root, receive_into_part).                                  *)
THEOREM ConfinedTheorem == Spec => []Confined
<1>1. HandoffInv => Confined
    BY DEF HandoffInv
<1> QED
    BY <1>1, HandoffInvariant, PTL

(* Nothing is dialled before the notice has been shown and agreed to, and no *)
(* bytes of a folder move before the reminder and the answer given with the  *)
(* true total in view (consent_prompt, start_prompt, checked_total).         *)
THEOREM StartedKnowinglyTheorem == Spec => []StartedKnowingly
<1>1. HandoffInv => StartedKnowingly
  <2> SUFFICES ASSUME HandoffInv PROVE StartedKnowingly
      OBVIOUS
  <2>1. CASE recv = NoRecv
      BY <2>1 DEF StartedKnowingly, NoRecv, At
  <2>2. CASE recv # NoRecv
    <3>1. recv.notice = TRUE /\ Said
        BY <2>2 DEF HandoffInv, RecvSound, RecvRecord
    <3> QED
        BY <3>1 DEF Said, StartedKnowingly, At
  <2> QED
      BY <2>1, <2>2
<1> QED
    BY <1>1, HandoffInvariant, PTL

(* A ticket on stdout opens for the person who is recorded as its recipient, *)
(* unless it carries an assertion, and for nobody else (Card::parse, seal,   *)
(* open).                                                                    *)
THEOREM OpensForRecipientTheorem == Spec => []OpensForRecipient
<1>1. HandoffInv => OpensForRecipient
  <2> SUFFICES ASSUME HandoffInv, NEW text \in printed, NEW p \in Person
               PROVE  Opens(text, p) <=> /\ p = sent[text.body.nonce].to
                                         /\ text.body.assertion = NoAssertion
      BY DEF OpensForRecipient
  <2>1. TicketSound(text)
      BY DEF HandoffInv, PrintedSound
  <2>2. CardParses(text.body.card)
      BY <2>1 DEF TicketSound, CardParses, CardOf, Card
  <2>3. text.body.assertion # NoAssertion =>
            ~AssertionVerifies(text.body.assertion, text.body.card, text.body.nonce)
      BY <2>1 DEF TicketSound, AssertionVerifies
  <2> QED
      BY <2>1, <2>2, <2>3 DEF TicketSound, Opens
<1> QED
    BY <1>1, HandoffInvariant, PTL

(* When recv has ended by itself, every file it landed whose signature       *)
(* contradicts the name or the type it was offered under has been warned of, *)
(* but for one that could not be opened or read again (sniff_report).        *)
THEOREM MislabelsAreReportedTheorem == Spec => []MislabelsAreReported
<1>1. HandoffInv => MislabelsAreReported
  <2> SUFFICES ASSUME HandoffInv, At("done"), NEW got \in recv.got,
                      Sniffed[got.content] # None,
                      \/ TypeOfName[Last(got.name)] \notin {None, Sniffed[got.content]}
                      \/ got.mime \notin {None, Sniffed[got.content]}
               PROVE  got \in recv.warned \cup recv.unread
      BY DEF MislabelsAreReported
  <2>1. VerdictOf(got) = "mismatch"
      BY Zenon DEF VerdictOf, Verdict, Agrees
  <2>2. recv # NoRecv
      BY DEF At, NoRecv
  <2> QED
      BY <2>1, <2>2 DEF HandoffInv, RecvSound, Reported
<1> QED
    BY <1>1, HandoffInvariant, PTL
=============================================================================
