---------------------------- MODULE PieceList_proofs ---------------------------
(***************************************************************************)
(* The piece list of Requests: what its operators return for any list, any *)
(* set of connected peers and any set of complete blocks.                  *)
(*                                                                         *)
(* The lists have any length, so the facts about the loops need induction  *)
(* over them; it is done with sets and functions, and each time in the     *)
(* same way.  A set of elements that break a fact has a least element      *)
(* (LeastExists), which a smaller one refutes: that gives induction on a   *)
(* measure (MeasureInduction), on numbers (SetInduction), and that a       *)
(* function defined through smaller arguments exists (RecursiveFunction),  *)
(* so that the CHOOSE behind a recursive function f[x \in S] == ... means  *)
(* what its definition says.                                               *)
(*                                                                         *)
(* The sections follow the code: comparing entries, the binary search,     *)
(* sorting, moving an entry, re-sorting one piece, removing one request    *)
(* and many, the insertion sort, rebuilding and losing a piece, asking for *)
(* blocks, and stopping the torrent.                                       *)
(***************************************************************************)
EXTENDS Requests, FiniteSetTheorems, WellFoundedInduction, TLAPS

-----------------------------------------------------------------------------
\* A set of numbers has a least one.
LEMMA LeastExists ==
  ASSUME NEW S \in SUBSET Nat, S # {}
  PROVE  \E i \in S : \A j \in S : i <= j
  <1> DEFINE less == {p \in Nat \X Nat : p[1] < p[2]}
  <1>1. OpToRel(<, Nat) = less
    BY DEF OpToRel
  <1>2. IsWellFoundedOn(less, Nat)
    BY <1>1, NatLessThanWellFounded
  <1>3. PICK i \in S : \A j \in S : <<j, i>> \notin less
    BY <1>2, WFMin
  <1>4. ASSUME NEW j \in S
        PROVE  i <= j
    <2>1. <<j, i>> \notin less /\ i \in Nat /\ j \in Nat
      BY <1>3
    <2> QED
      BY <2>1
  <1> QED
    BY <1>4

\* Induction over a measure, for a set P instead of a predicate: what holds
\* where a recursion stops and is handed on by its steps holds everywhere.
Descends(D, m, stop, next) ==
  /\ m \in [D -> Nat]
  /\ next \in [D -> D]
  /\ \A x \in D \ stop : m[next[x]] < m[x]

HandedOn(D, stop, next, P) == \A x \in D : x \in stop \/ next[x] \in P => x \in P

\* What every element of D has from the next one, all elements of D have, if the measure
\* m goes down on the way.
LEMMA MeasureInduction ==
  ASSUME NEW D, NEW m, NEW stop, NEW next, NEW P,
         Descends(D, m, stop, next), HandedOn(D, stop, next, P)
  PROVE  D \subseteq P
  <1> USE DEF Descends, HandedOn
  <1> SUFFICES ASSUME NEW z \in D \ P
               PROVE  FALSE
    OBVIOUS
  <1> DEFINE S == {m[x] : x \in D \ P}
  <1>1. S \in SUBSET Nat /\ S # {}
    OBVIOUS
  <1>2. PICK i \in S : \A j \in S : i <= j
    BY <1>1, LeastExists
  <1>3. PICK x \in D \ P : m[x] = i
    BY <1>2
  <1>4. x \notin stop /\ next[x] \in D \ P
    BY <1>3
  <1>5. m[next[x]] < m[x] /\ m[next[x]] \in S /\ m[next[x]] \in Nat /\ m[x] \in Nat
    BY <1>4
  <1> QED
    BY <1>2, <1>3, <1>5

\* Ordinary induction, for a set.
LEMMA SetInduction ==
  ASSUME NEW P, 0 \in P, \A n \in Nat : n \in P => n + 1 \in P
  PROVE  Nat \subseteq P
  <1> SUFFICES ASSUME Nat \ P # {}
               PROVE  FALSE
    OBVIOUS
  <1>1. PICK i \in Nat \ P : \A j \in Nat \ P : i <= j
    BY LeastExists
  <1>2. i # 0 /\ i - 1 \in Nat /\ i - 1 \in P
    BY <1>1
  <1> QED
    BY <1>1, <1>2

\* A recursion whose measure descends is a function: there is one that
\* satisfies the equation.
Recursion(D, V, m, stop, next, out, F) ==
  /\ Descends(D, m, stop, next)
  /\ \E N \in Nat : \A x \in D : m[x] <= N
  /\ out \in [D -> V]
  /\ F \in [D \X V -> V]
Solution(f, D, V, stop, next, out, F) ==
  /\ f \in [D -> V]
  /\ \A x \in D : f[x] = IF x \in stop THEN out[x] ELSE F[<<x, f[next[x]]>>]

\* A function defined through its value at the next element, where m goes down, exists.
LEMMA RecursiveFunction ==
  ASSUME NEW D, NEW V, NEW m, NEW stop, NEW next, NEW out, NEW F,
         Recursion(D, V, m, stop, next, out, F)
  PROVE  \E f : Solution(f, D, V, stop, next, out, F)
  <1> USE DEF Descends, Recursion, Solution
  <1>n. PICK N \in Nat : \A x \in D : m[x] <= N
    OBVIOUS
  <1> DEFINE Solves(f, x) == f[x] = IF x \in stop THEN out[x] ELSE F[<<x, f[next[x]]>>]
             P == {n \in Nat : \E f \in [D -> V] : \A x \in D : m[x] < n => Solves(f, x)}
  <1>1. 0 \in P
    <2>1. \A x \in D : ~(m[x] < 0)
      OBVIOUS
    <2> QED
      BY <2>1
  <1>2. ASSUME NEW n \in Nat, n \in P
        PROVE  n + 1 \in P
    <2>1. PICK f \in [D -> V] : \A x \in D : m[x] < n => Solves(f, x)
      BY <1>2
    <2> DEFINE g == [x \in D |-> IF m[x] < n THEN f[x]
                                 ELSE IF x \in stop THEN out[x] ELSE F[<<x, f[next[x]]>>]]
    <2>2. g \in [D -> V]
      OBVIOUS
    <2>3. \A x \in D : m[x] < n + 1 /\ x \notin stop => g[next[x]] = f[next[x]]
      OBVIOUS
    <2>4. ASSUME NEW x \in D, m[x] < n + 1
          PROVE  Solves(g, x)
      BY <2>1, <2>3, <2>4
    <2> HIDE DEF g
    <2>5. \E f2 \in [D -> V] : \A x \in D : m[x] < n + 1 => Solves(f2, x)
      BY <2>2, <2>4
    <2> QED
      BY <2>5
  <1>3. N + 1 \in P
    BY <1>1, <1>2, SetInduction
  <1>4. \A x \in D : m[x] < N + 1
    BY <1>n
  <1>5. PICK f \in [D -> V] : \A x \in D : m[x] < N + 1 => Solves(f, x)
    BY <1>3
  <1>6. Solution(f, D, V, stop, next, out, F)
    BY <1>4, <1>5
  <1> QED
    BY <1>6

-----------------------------------------------------------------------------
\* The pieces of a list, and the order of comparePieceByWeight.
Entry == [index : Piece, requestCount : Nat]

\* Pieces and blocks are finitely many, every piece's missing blocks are counted, and
\* every block is of a piece.
LEMMA BlockFacts ==
  /\ \A i \in Piece : \A done : Missing(done, i) \in Nat
  /\ IsFiniteSet(Piece) /\ IsFiniteSet(Block)
  /\ \A b \in Block : PieceOf(b) \in Piece
  <1>1. IsFiniteSet(Block)
    BY BlockAssumption, FS_Interval DEF Block
  <1>2. ASSUME NEW i \in Piece, NEW done
        PROVE  Missing(done, i) \in Nat
    <2>1. BlocksOf(i) \ done \in SUBSET Block
      BY DEF BlocksOf
    <2> QED
      BY <1>1, <2>1, FS_Subset, FS_CardinalityType DEF Missing
  <1>3. IsFiniteSet(Piece)
    <2> DEFINE f == [b \in Block |-> PieceOf(b)]
    <2>1. f \in Surjection(Block, Piece)
      BY DEF Surjection, Piece
    <2> QED
      BY <1>1, <2>1, FS_Surjection
  <1> QED
    BY <1>1, <1>2, <1>3 DEF Piece

\* A piece's weight is a number.
LEMMA WeightType == ASSUME NEW done, NEW x \in Entry PROVE Weight(done, x) \in Nat
  <1>1. Missing(done, x.index) \in Nat /\ x.requestCount \in Nat
    BY BlockFacts DEF Entry
  <1> QED
    BY <1>1, BlockAssumption DEF Weight

\* comparePieceByWeight is a weak order: asymmetric, and whatever comes before
\* b comes before c or has c before b.
LEMMA WeakOrder ==
  ASSUME NEW done, NEW rep \in [Piece -> Nat], NEW a \in Entry, NEW b \in Entry, NEW c \in Entry
  PROVE  /\ Before(done, rep, a, b) => ~Before(done, rep, b, a)
         /\ Before(done, rep, a, b) => Before(done, rep, a, c) \/ Before(done, rep, c, b)
  <1>1. \A x \in Entry : /\ Weight(done, x) \in Nat
                         /\ rep[x.index] \in Nat
                         /\ Salt[x.index] \in Nat
    BY WeightType, SaltAssumption DEF Entry
  <1> QED
    BY <1>1 DEF Before

-----------------------------------------------------------------------------
\* The binary search stays within its bounds, and in a list in order it finds
\* how many elements come before x.
Ranges(s) == (0 .. Len(s)) \X (0 .. Len(s))
Middle(r) == r[1] + (r[2] - r[1]) \div 2
Half(done, rep, x, s, r) ==
  IF Before(done, rep, s[Middle(r) + 1], x) THEN <<Middle(r) + 1, r[2]>> ELSE <<r[1], Middle(r)>>
Searches(done, rep, x, s, g) ==
  g = [r \in Ranges(s) |-> IF r[1] >= r[2] THEN r[1]
                           ELSE IF Before(done, rep, s[Middle(r) + 1], x)
                           THEN g[<<Middle(r) + 1, r[2]>>] ELSE g[<<r[1], Middle(r)>>]]

\* A step of the binary search halves the range and looks at an entry within it.
LEMMA HalfIsARange ==
  ASSUME NEW done, NEW rep, NEW x, NEW s \in Seq(Entry), NEW r \in Ranges(s), r[1] < r[2]
  PROVE  LET h == Half(done, rep, x, s, r) IN
         /\ h \in Ranges(s) /\ h[2] - h[1] < r[2] - r[1]
         /\ Middle(r) \in r[1] .. r[2] - 1 /\ Middle(r) + 1 \in DOMAIN s
  <1>1. /\ r[1] \in Nat /\ r[2] \in Nat /\ r[2] <= Len(s) /\ Len(s) \in Nat
    BY DEF Ranges
  <1>2. Middle(r) \in r[1] .. r[2] - 1
    BY <1>1 DEF Middle
  <1>3. Middle(r) + 1 \in DOMAIN s
    BY <1>1, <1>2
  <1> QED
    BY <1>1, <1>2, <1>3 DEF Half, Ranges

\* The search ends from any range, so that its function exists ...
LEMMA SearchExists ==
  ASSUME NEW done, NEW rep, NEW x, NEW s \in Seq(Entry)
  PROVE  \E g : Searches(done, rep, x, s, g)
  <1> DEFINE D == Ranges(s)
             m == [r \in D |-> IF r[1] >= r[2] THEN 0 ELSE r[2] - r[1]]
             stop == {r \in D : r[1] >= r[2]}
             next == [r \in D |-> IF r \in stop THEN r ELSE Half(done, rep, x, s, r)]
             out == [r \in D |-> r[1]]
             F == [p \in D \X Nat |-> p[2]]
  <1>1. Len(s) \in Nat /\ \A r \in D : r[1] \in Nat /\ r[2] \in Nat /\ r[2] <= Len(s)
    BY DEF Ranges
  <1>2. m \in [D -> 0 .. Len(s)] /\ out \in [D -> Nat] /\ F \in [D \X Nat -> Nat]
    BY <1>1
  <1>3. \A r \in D \ stop : Half(done, rep, x, s, r) \in D
                            /\ Half(done, rep, x, s, r)[2] - Half(done, rep, x, s, r)[1] < r[2] - r[1]
    BY <1>1, HalfIsARange
  <1>4. next \in [D -> D]
    BY <1>3
  <1>5. \A r \in D \ stop : m[next[r]] < m[r]
    BY <1>1, <1>3
  <1> HIDE DEF m, stop, next, out, F, D
  <1>6. Recursion(D, Nat, m, stop, next, out, F)
    <2>1. m \in [D -> Nat]
      BY <1>1, <1>2
    <2>2. Descends(D, m, stop, next)
      BY <2>1, <1>4, <1>5 DEF Descends
    <2>3. \A r \in D : m[r] <= Len(s)
      BY <1>1, <1>2
    <2> QED
      BY <2>2, <2>3, <1>1, <1>2 DEF Recursion
  <1> PICK g : Solution(g, D, Nat, stop, next, out, F)
    BY <1>6, RecursiveFunction
  <1>7. ASSUME NEW r \in D
        PROVE  g[r] = IF r[1] >= r[2] THEN r[1] ELSE g[Half(done, rep, x, s, r)]
    <2>1. CASE r \in stop
      BY <2>1 DEF stop, out, Solution
    <2>2. CASE r \notin stop
      BY <1>4, <2>2 DEF stop, next, F, Solution
    <2> QED
      BY <2>1, <2>2
  <1>8. Searches(done, rep, x, s, g)
    BY <1>7 DEF Searches, Half, D, Solution
  <1> QED
    BY <1>8

\* ... and LowerBound is its value at the whole list.
LEMMA SearchIs ==
  ASSUME NEW done, NEW rep, NEW x, NEW s \in Seq(Entry)
  PROVE  \E g : Searches(done, rep, x, s, g) /\ LowerBound(done, rep, x, s) = g[<<0, Len(s)>>]
  <1> DEFINE g == CHOOSE g : Searches(done, rep, x, s, g)
  <1>1. Searches(done, rep, x, s, g)
    BY SearchExists
  <1>2. LowerBound(done, rep, x, s) = g[<<0, Len(s)>>]
    BY DEF LowerBound, Searches, Ranges, Middle
  <1> QED
    BY <1>1, <1>2

\* n of the elements of s come before x: the first ones.
Splits(done, rep, x, s, n) ==
  \A j \in DOMAIN s : Before(done, rep, s[j], x) <=> j <= n

\* tr_lowerBound returns a place in the list, and in a list that is in order the place
\* before which everything comes before x and after which nothing does.
LEMMA LowerBoundFacts ==
  ASSUME NEW done, NEW rep \in [Piece -> Nat], NEW x \in Entry, NEW s \in Seq(Entry)
  PROVE  /\ LowerBound(done, rep, x, s) \in 0 .. Len(s)
         /\ Ascending(done, rep, s) => Splits(done, rep, x, s, LowerBound(done, rep, x, s))
  <1>1. PICK g : /\ Searches(done, rep, x, s, g)
                 /\ LowerBound(done, rep, x, s) = g[<<0, Len(s)>>]
    BY SearchIs
  <1> DEFINE D == Ranges(s)
             m == [r \in D |-> IF r[1] >= r[2] THEN 0 ELSE r[2] - r[1]]
             stop == {r \in D : r[1] >= r[2]}
             next == [r \in D |-> IF r \in stop THEN r ELSE Half(done, rep, x, s, r)]
             Outside(r) == \A j \in DOMAIN s : /\ j <= r[1] => Before(done, rep, s[j], x)
                                               /\ j > r[2] => ~Before(done, rep, s[j], x)
             P == {r \in D : /\ g[r] \in Nat
                             /\ r[1] <= r[2] => g[r] \in r[1] .. r[2]
                             /\ (r[1] <= r[2] /\ Ascending(done, rep, s) /\ Outside(r))
                                  => Splits(done, rep, x, s, g[r])}
  <1>2. Len(s) \in Nat /\ \A r \in D : r[1] \in Nat /\ r[2] \in Nat /\ r[2] <= Len(s)
    BY DEF Ranges
  <1>3. \A r \in D \ stop : Half(done, rep, x, s, r) \in D
                            /\ Half(done, rep, x, s, r)[2] - Half(done, rep, x, s, r)[1] < r[2] - r[1]
    BY <1>2, HalfIsARange
  <1>4. m \in [D -> Nat] /\ next \in [D -> D]
    BY <1>2, <1>3
  <1>5. \A r \in D \ stop : m[next[r]] < m[r]
    BY <1>2, <1>3
  <1>6. ASSUME NEW r \in D, r \in stop \/ next[r] \in P
        PROVE  r \in P
    <2>1. CASE r \in stop
      <3>1. g[r] = r[1]
        BY <1>1, <2>1 DEF Searches
      <3>2. r[1] <= r[2] => r[1] = r[2]
        BY <1>2, <2>1
      <3> QED
        BY <1>2, <3>1, <3>2 DEF Splits
    <2>2. CASE r \notin stop
      <3> DEFINE h == Half(done, rep, x, s, r)
      <3>1. r[1] < r[2] /\ next[r] = h /\ h \in P
        BY <1>2, <1>6, <2>2
      <3>2. g[r] = g[h]
        BY <1>1, <2>2 DEF Searches, Half
      <3>3. /\ Middle(r) \in r[1] .. r[2] - 1 /\ Middle(r) + 1 \in DOMAIN s
            /\ Middle(r) \in Nat
        BY <1>2, <3>1, HalfIsARange
      <3>4. h[1] <= h[2] /\ r[1] <= h[1] /\ h[2] <= r[2] /\ h[1] \in Nat /\ h[2] \in Nat
        BY <1>2, <3>1, <3>3 DEF Half
      <3>5. ASSUME Ascending(done, rep, s), Outside(r)
            PROVE  Outside(h)
        <4>1. CASE Before(done, rep, s[Middle(r) + 1], x)
          <5>1. h[1] = Middle(r) + 1 /\ h[2] = r[2]
            BY <4>1 DEF Half
          <5>2. ASSUME NEW j \in DOMAIN s, j <= Middle(r) + 1
                PROVE  Before(done, rep, s[j], x)
            <6>1. ~Before(done, rep, s[Middle(r) + 1], s[j])
              BY <3>3, <3>5, <5>2, <4>1, WeakOrder DEF Ascending
            <6> QED
              BY <3>3, <4>1, <6>1, WeakOrder
          <5> QED
            BY <3>5, <5>1, <5>2
        <4>2. CASE ~Before(done, rep, s[Middle(r) + 1], x)
          <5>1. h[1] = r[1] /\ h[2] = Middle(r)
            BY <4>2 DEF Half
          <5>2. ASSUME NEW j \in DOMAIN s, j > Middle(r)
                PROVE  ~Before(done, rep, s[j], x)
            <6>1. j = Middle(r) + 1 \/ ~Before(done, rep, s[j], s[Middle(r) + 1])
              BY <3>3, <3>5, <5>2 DEF Ascending
            <6>2. j = Middle(r) + 1 => ~Before(done, rep, s[j], x)
              BY <4>2
            <6>3. s[j] \in Entry /\ s[Middle(r) + 1] \in Entry
              BY <3>3
            <6> QED
              BY <4>2, <6>1, <6>2, <6>3, WeakOrder
          <5> QED
            BY <3>5, <5>1, <5>2
        <4> QED
          BY <4>1, <4>2
      <3>6. g[h] \in Nat /\ g[h] \in h[1] .. h[2]
            /\ (Ascending(done, rep, s) /\ Outside(h) => Splits(done, rep, x, s, g[h]))
        BY <3>1, <3>4
      <3> QED
        BY <1>2, <3>2, <3>4, <3>5, <3>6
    <2> QED
      BY <2>1, <2>2
  <1> HIDE DEF m, stop, next, P, D
  <1>d. Descends(D, m, stop, next) /\ HandedOn(D, stop, next, P)
    BY <1>4, <1>5, <1>6 DEF Descends, HandedOn
  <1>7. D \subseteq P
    BY <1>d, MeasureInduction
  <1> DEFINE all == <<0, Len(s)>>
  <1>8. all \in P /\ all[1] = 0 /\ all[2] = Len(s)
    BY <1>2, <1>7 DEF D, Ranges
  <1>9. Outside(all)
    BY <1>2
  <1> QED
    BY <1>1, <1>2, <1>8, <1>9 DEF P

-----------------------------------------------------------------------------
\* The pieces of a list are different ones, and what only puts them into
\* another order leaves them so.
Distinct(s) == \A j, k \in DOMAIN s : s[j].index = s[k].index => j = k
Pieces == {s \in Seq(Entry) : Distinct(s)}

Reorders(t, s) == t \in [DOMAIN s -> Range(s)] /\ Range(t) = Range(s)

\* A list in another order still lists each piece once.
LEMMA ReorderedPieces ==
  ASSUME NEW s \in Pieces, NEW t, Reorders(t, s)
  PROVE  t \in Pieces /\ Len(t) = Len(s) /\ Range(t) = Range(s)
  <1>1. /\ s \in Seq(Entry) /\ Distinct(s) /\ Len(s) \in Nat /\ DOMAIN s = 1 .. Len(s)
        /\ t \in [1 .. Len(s) -> Range(s)] /\ Range(t) = Range(s)
    BY DEF Pieces, Reorders
  <1>2. \A y \in Range(s) : y \in Entry /\ \E j \in 1 .. Len(s) : s[j] = y
    BY <1>1 DEF Range
  <1>3. t \in Seq(Entry) /\ Len(t) = Len(s) /\ DOMAIN t = 1 .. Len(s)
    <2>1. t \in [1 .. Len(s) -> Entry]
      BY <1>1, <1>2
    <2> QED
      BY <1>1, <2>1
  <1>4. t \in Injection(1 .. Len(s), Range(s))
    <2>1. s \in Bijection(1 .. Len(s), Range(s))
      <3>1. s \in [1 .. Len(s) -> Range(s)]
        BY <1>1 DEF Range
      <3>2. \A j, k \in 1 .. Len(s) : s[j] = s[k] => j = k
        BY <1>1 DEF Distinct
      <3> QED
        BY <1>2, <3>1, <3>2 DEF Bijection, Injection, Surjection, IsInjective
    <2>2. IsFiniteSet(1 .. Len(s))
      BY <1>1, FS_Interval
    <2>3. Cardinality(Range(s)) = Cardinality(1 .. Len(s))
      BY <2>1, <2>2, FS_Bijection DEF ExistsBijection
    <2>4. t \in Surjection(1 .. Len(s), Range(s))
      BY <1>1, <1>3 DEF Surjection, Range
    <2> QED
      BY <2>2, <2>3, <2>4, FS_Surjection
  <1>5. \A j, k \in 1 .. Len(s) : t[j] = t[k] => j = k
    BY <1>4 DEF Injection, IsInjective
  <1>6. \A x, y \in Range(s) : x.index = y.index => x = y
    BY <1>1, <1>2 DEF Distinct
  <1>7. Distinct(t)
    <2>1. \A j \in 1 .. Len(s) : t[j] \in Range(s)
      BY <1>1
    <2> QED
      BY <1>3, <1>5, <1>6, <2>1 DEF Distinct
  <1> QED
    BY <1>1, <1>3, <1>7 DEF Pieces

\* x put behind the first n elements of s.
Inserted(s, n, x) ==
  [k \in 1 .. Len(s) + 1 |-> IF k <= n THEN s[k] ELSE IF k = n + 1 THEN x ELSE s[k - 1]]

\* An entry inserted where the list splits leaves it in order.
LEMMA InsertedAscends ==
  ASSUME NEW done, NEW rep \in [Piece -> Nat], NEW x \in Entry, NEW s \in Seq(Entry),
         NEW n \in 0 .. Len(s), Ascending(done, rep, s), Splits(done, rep, x, s, n)
  PROVE  Ascending(done, rep, Inserted(s, n, x))
  <1> DEFINE t == Inserted(s, n, x)
  <1> SUFFICES ASSUME NEW j \in 1 .. Len(s) + 1, NEW k \in 1 .. Len(s) + 1, j < k
               PROVE  ~Before(done, rep, t[k], t[j])
    BY DEF Ascending, Inserted
  <1>1. \A i \in DOMAIN s : s[i] \in Entry /\ (Before(done, rep, s[i], x) <=> i <= n)
    BY DEF Splits
  <1>2. Len(s) \in Nat /\ n \in Nat /\ DOMAIN s = 1 .. Len(s)
    OBVIOUS
  <1>3. CASE k <= n
    <2>1. t[k] = s[k] /\ t[j] = s[j] /\ j \in DOMAIN s /\ k \in DOMAIN s
      BY <1>2, <1>3 DEF Inserted
    <2> QED
      BY <2>1 DEF Ascending
  <1>4. CASE k = n + 1
    <2>1. t[k] = x /\ t[j] = s[j] /\ j \in DOMAIN s /\ j <= n
      BY <1>2, <1>4 DEF Inserted
    <2>2. Before(done, rep, s[j], x) /\ s[j] \in Entry
      BY <1>1, <2>1
    <2> QED
      BY <2>1, <2>2, WeakOrder
  <1>5. CASE k > n + 1 /\ j = n + 1
    <2>1. t[k] = s[k - 1] /\ t[j] = x /\ k - 1 \in DOMAIN s /\ k - 1 > n
      BY <1>2, <1>5 DEF Inserted
    <2> QED
      BY <1>1, <1>2, <2>1
  <1>6. CASE k > n + 1 /\ j <= n
    <2>1. t[k] = s[k - 1] /\ t[j] = s[j] /\ k - 1 \in DOMAIN s /\ j \in DOMAIN s /\ j < k - 1
      BY <1>2, <1>6 DEF Inserted
    <2> QED
      BY <2>1 DEF Ascending
  <1>7. CASE k > n + 1 /\ j > n + 1
    <2>1. t[k] = s[k - 1] /\ t[j] = s[j - 1] /\ k - 1 \in DOMAIN s /\ j - 1 \in DOMAIN s
          /\ j - 1 < k - 1
      BY <1>2, <1>7 DEF Inserted
    <2> QED
      BY <2>1 DEF Ascending
  <1> QED
    BY <1>2, <1>3, <1>4, <1>5, <1>6, <1>7

\* Any list can be put in order.
LEMMA SortExists ==
  ASSUME NEW done, NEW rep \in [Piece -> Nat], NEW s \in Seq(Entry)
  PROVE  \E t : Reorders(t, s) /\ Ascending(done, rep, t)
  <1> DEFINE Sortable(n) == \A r \in Seq(Entry) : Len(r) = n =>
                              \E t : Reorders(t, r) /\ Ascending(done, rep, t)
             P == {n \in Nat : Sortable(n)}
  <1>1. 0 \in P
    <2> SUFFICES ASSUME NEW r \in Seq(Entry), Len(r) = 0
                 PROVE  \E t : Reorders(t, r) /\ Ascending(done, rep, t)
      OBVIOUS
    <2>1. DOMAIN r = {} /\ Reorders(r, r)
      BY DEF Reorders, Range
    <2> QED
      BY <2>1 DEF Ascending
  <1>2. ASSUME NEW n \in Nat, n \in P
        PROVE  n + 1 \in P
    <2> SUFFICES ASSUME NEW r \in Seq(Entry), Len(r) = n + 1
                 PROVE  \E t : Reorders(t, r) /\ Ascending(done, rep, t)
      OBVIOUS
    <2> DEFINE q == [k \in 1 .. n |-> r[k]]
               x == r[n + 1]
    <2>1. q \in Seq(Entry) /\ Len(q) = n /\ x \in Entry /\ DOMAIN r = 1 .. n + 1
      OBVIOUS
    <2>2. PICK t : Reorders(t, q) /\ Ascending(done, rep, t)
      BY <1>2, <2>1
    <2>2a. DOMAIN q = 1 .. n /\ \A k \in 1 .. n : q[k] = r[k] /\ r[k] \in Entry
      BY <2>1
    <2>3. /\ t \in [1 .. n -> Range(q)] /\ Range(t) = Range(q)
          /\ \A y : y \in Range(q) <=> \E k \in 1 .. n : y = r[k]
          /\ \A y \in Range(q) : y \in Entry
      <3> HIDE DEF q
      <3> QED
        BY <2>2, <2>2a DEF Reorders, Range
    <2> HIDE DEF q
    <2>4. t \in Seq(Entry) /\ Len(t) = n
      <3>1. t \in [1 .. n -> Entry]
        BY <2>3
      <3> QED
        BY <3>1
    <2>4a. \A j, k \in 1 .. n : j < k => ~Before(done, rep, t[k], t[j])
      BY <2>2, <2>4 DEF Ascending
    <2>5. \E m \in 0 .. n : Splits(done, rep, x, t, m)
      <3> DEFINE S == {j \in 1 .. n : ~Before(done, rep, t[j], x)}
      <3>1. CASE S = {}
        BY <2>4, <3>1 DEF Splits
      <3>2. CASE S # {}
        <4>1. PICK i \in S : \A j \in S : i <= j
          <5>1. S \in SUBSET Nat
            OBVIOUS
          <5> HIDE DEF S
          <5> QED
            BY <3>2, <5>1, LeastExists
        <4>2. ASSUME NEW j \in 1 .. n, i <= j
              PROVE  ~Before(done, rep, t[j], x)
          <5>1. t[i] \in Entry /\ t[j] \in Entry
            BY <2>4
          <5>2. j = i \/ ~Before(done, rep, t[j], t[i])
            <6>1. i \in 1 .. n /\ (j = i \/ i < j)
              BY <4>2
            <6> HIDE DEF S
            <6> QED
              BY <2>4a, <6>1
          <5>3. ~Before(done, rep, t[i], x)
            OBVIOUS
          <5>4. CASE j = i
            BY <5>3, <5>4
          <5>5. CASE ~Before(done, rep, t[j], t[i])
            BY <2>1, <5>1, <5>3, <5>5, WeakOrder
          <5> QED
            BY <5>2, <5>4, <5>5
        <4>3. \A j \in 1 .. n : j < i => Before(done, rep, t[j], x)
          BY <4>1
        <4> HIDE DEF S
        <4>4. i \in 1 .. n
          BY <4>1 DEF S
        <4>5. i - 1 \in 0 .. n /\ Splits(done, rep, x, t, i - 1)
          BY <2>4, <4>2, <4>3, <4>4 DEF Splits
        <4> QED
          BY <4>5
      <3> QED
        BY <3>1, <3>2
    <2>6. PICK m \in 0 .. n : Splits(done, rep, x, t, m)
      BY <2>5
    <2> DEFINE u == Inserted(t, m, x)
    <2>7. Ascending(done, rep, u)
      BY <2>1, <2>2, <2>4, <2>6, InsertedAscends
    <2>8. Reorders(u, r)
      <3>1. Range(r) = Range(q) \cup {x} /\ DOMAIN u = 1 .. n + 1
        <4>1. \A y : y \in Range(r) <=> \E k \in 1 .. n + 1 : y = r[k]
          BY <2>1 DEF Range
        <4>2. \A k \in 1 .. n + 1 : k \in 1 .. n \/ k = n + 1
          OBVIOUS
        <4>3. \A y : y \in Range(r) <=> y \in Range(q) \cup {x}
          BY <2>3, <4>1, <4>2
        <4> QED
          BY <2>4, <4>3 DEF Inserted
      <3>2. \A k \in 1 .. n + 1 : u[k] \in Range(q) \cup {x}
        BY <2>3, <2>4 DEF Inserted
      <3>3. u[m + 1] = x /\ m + 1 \in 1 .. n + 1
        BY <2>4 DEF Inserted
      <3>4. \A k \in 1 .. n : \E j \in 1 .. n + 1 : u[j] = t[k]
        <4> SUFFICES ASSUME NEW k \in 1 .. n
                     PROVE  \E j \in 1 .. n + 1 : u[j] = t[k]
          OBVIOUS
        <4>1. CASE k <= m
          BY <2>4, <4>1 DEF Inserted
        <4>2. CASE k > m
          <5>1. u[k + 1] = t[k]
            BY <2>4, <4>2 DEF Inserted
          <5> QED
            BY <5>1
        <4> QED
          BY <4>1, <4>2
      <3>5. \A y \in Range(q) : \E k \in 1 .. n : y = t[k]
        BY <2>3 DEF Range
      <3>6. u \in [1 .. n + 1 -> Range(r)]
        BY <3>1, <3>2, <2>4 DEF Inserted
      <3>7. ASSUME NEW y \in Range(r)
            PROVE  \E j \in 1 .. n + 1 : u[j] = y
        <4>1. CASE y = x
          BY <3>3, <4>1
        <4>2. CASE y # x
          <5>1. PICK k \in 1 .. n : y = t[k]
            BY <3>1, <3>5, <4>2
          <5> QED
            BY <3>4, <5>1
        <4> QED
          BY <4>1, <4>2
      <3> HIDE DEF u
      <3>8. Range(u) = Range(r)
        <4>1. DOMAIN u = 1 .. n + 1
          BY <3>6
        <4>2. Range(u) = {u[j] : j \in 1 .. n + 1}
          BY <4>1 DEF Range
        <4> QED
          BY <3>6, <3>7, <4>2
      <3> QED
        BY <2>1, <3>6, <3>8 DEF Reorders
    <2> QED
      BY <2>7, <2>8
  <1> HIDE DEF P
  <1>3. Nat \subseteq P
    BY <1>1, <1>2, SetInduction
  <1>4. Len(s) \in P
    BY <1>3
  <1> QED
    BY <1>4 DEF P

-----------------------------------------------------------------------------
\* The operations on sequences element by element.
LEMMA RemoveAtFacts ==
  ASSUME NEW s \in Seq(Entry), NEW k \in DOMAIN s
  PROVE  /\ RemoveAt(s, k) \in Seq(Entry) /\ Len(RemoveAt(s, k)) = Len(s) - 1
         /\ \A j \in 1 .. Len(s) - 1 : RemoveAt(s, k)[j] = IF j < k THEN s[j] ELSE s[j + 1]
  <1> DEFINE a == SubSeq(s, 1, k - 1)
             b == SubSeq(s, k + 1, Len(s))
  <1>1. Len(s) \in Nat /\ k \in 1 .. Len(s)
    OBVIOUS
  <1>2. a \in Seq(Entry) /\ Len(a) = k - 1 /\ \A j \in 1 .. k - 1 : a[j] = s[j]
    BY <1>1
  <1>3. b \in Seq(Entry) /\ Len(b) = Len(s) - k /\ \A j \in 1 .. Len(s) - k : b[j] = s[k + j]
    BY <1>1
  <1> HIDE DEF a, b
  <1>4. a \o b \in Seq(Entry) /\ Len(a \o b) = Len(s) - 1
    BY <1>1, <1>2, <1>3
  <1>5. ASSUME NEW j \in 1 .. Len(s) - 1
        PROVE  (a \o b)[j] = IF j < k THEN s[j] ELSE s[j + 1]
    <2>1. CASE j < k
      BY <1>1, <1>2, <1>3, <2>1
    <2>2. CASE ~(j < k)
      <3>0. j >= k
        BY <1>1, <2>2
      <3>1. (a \o b)[j] = b[j - (k - 1)] /\ j - (k - 1) \in 1 .. Len(s) - k
        BY <1>1, <1>2, <1>3, <3>0
      <3>2. k + (j - (k - 1)) = j + 1
        BY <1>1
      <3> QED
        BY <1>3, <2>2, <3>1, <3>2, <1>1
    <2> QED
      BY <2>1, <2>2
  <1>6. RemoveAt(s, k) = a \o b
    BY DEF RemoveAt, a, b
  <1> QED
    BY <1>4, <1>5, <1>6

\* Inserting, element by element.
LEMMA InsertAtFacts ==
  ASSUME NEW s \in Seq(Entry), NEW n \in 0 .. Len(s), NEW x \in Entry
  PROVE  InsertAt(s, n + 1, x) = Inserted(s, n, x) /\ Inserted(s, n, x) \in Seq(Entry)
  <1> DEFINE a == SubSeq(s, 1, n)
             b == SubSeq(s, n + 1, Len(s))
             t == (a \o <<x>>) \o b
  <1>1. Len(s) \in Nat /\ n \in Nat
    OBVIOUS
  <1>2. a \in Seq(Entry) /\ Len(a) = n /\ \A j \in 1 .. n : a[j] = s[j]
    BY <1>1
  <1>3. b \in Seq(Entry) /\ Len(b) = Len(s) - n /\ \A j \in 1 .. Len(s) - n : b[j] = s[n + j]
    BY <1>1
  <1>4. <<x>> \in Seq(Entry) /\ Len(<<x>>) = 1 /\ <<x>>[1] = x
    OBVIOUS
  <1> HIDE DEF a, b
  <1>5. /\ a \o <<x>> \in Seq(Entry) /\ Len(a \o <<x>>) = n + 1
        /\ \A j \in 1 .. n + 1 : (a \o <<x>>)[j] = IF j <= n THEN s[j] ELSE x
    BY <1>1, <1>2, <1>4
  <1>6. t \in Seq(Entry) /\ Len(t) = Len(s) + 1
    BY <1>1, <1>3, <1>5
  <1>7. ASSUME NEW j \in 1 .. Len(s) + 1
        PROVE  t[j] = Inserted(s, n, x)[j]
    <2>1. CASE j <= n + 1
      <3>1. t[j] = (a \o <<x>>)[j] /\ j \in 1 .. n + 1
        BY <1>1, <1>3, <1>5, <2>1
      <3> QED
        BY <1>1, <1>5, <2>1, <3>1 DEF Inserted
    <2>2. CASE ~(j <= n + 1)
      <3>1. t[j] = b[j - (n + 1)] /\ j - (n + 1) \in 1 .. Len(s) - n
        BY <1>1, <1>3, <1>5, <2>2
      <3>2. n + (j - (n + 1)) = j - 1
        BY <1>1
      <3>3. b[j - (n + 1)] = s[j - 1]
        BY <1>3, <3>1, <3>2
      <3>4. Inserted(s, n, x)[j] = s[j - 1]
        BY <1>1, <2>2 DEF Inserted
      <3> QED
        BY <3>1, <3>3, <3>4
    <2> QED
      BY <2>1, <2>2
  <1>8. InsertAt(s, n + 1, x) = t
    <2> PICK i : i = n + 1
      OBVIOUS
    <2>1. i - 1 = n
      BY <1>1
    <2>2. InsertAt(s, i, x) = (a \o <<x>>) \o SubSeq(s, i, Len(s))
      BY <2>1 DEF InsertAt, a
    <2> QED
      BY <2>2 DEF b
  <1>9. t = Inserted(s, n, x)
    <2> HIDE DEF t
    <2>1. DOMAIN t = 1 .. Len(s) + 1 /\ t = [j \in DOMAIN t |-> t[j]]
      BY <1>1, <1>6
    <2> QED
      BY <1>7, <2>1 DEF Inserted
  <1> QED
    BY <1>6, <1>8, <1>9

\* What moves in a list is where it is moved to, and the others close up.
Moved(t, s, from, to) ==
  \A j \in 1 .. Len(s) : t[j] = IF j = to THEN s[from]
                                 ELSE IF from <= j /\ j < to THEN s[j + 1]
                                 ELSE IF to < j /\ j <= from THEN s[j - 1]
                                 ELSE s[j]

\* Moving an entry is removing and inserting it, and shifts those in between by one.
LEMMA MoveFacts ==
  ASSUME NEW s \in Seq(Entry), NEW from \in DOMAIN s, NEW to \in DOMAIN s
  PROVE  /\ Move(s, from, to) = Inserted(RemoveAt(s, from), to - 1, s[from])
         /\ Move(s, from, to) \in Seq(Entry) /\ Len(Move(s, from, to)) = Len(s)
         /\ Moved(Move(s, from, to), s, from, to)
  <1> DEFINE r == RemoveAt(s, from)
             t == Move(s, from, to)
             n == to - 1
  <1>1. Len(s) \in Nat /\ from \in 1 .. Len(s) /\ to \in 1 .. Len(s) /\ DOMAIN s = 1 .. Len(s)
    OBVIOUS
  <1>2. /\ r \in Seq(Entry) /\ Len(r) = Len(s) - 1 /\ DOMAIN r = 1 .. Len(s) - 1
        /\ \A j \in 1 .. Len(s) - 1 : r[j] = IF j < from THEN s[j] ELSE s[j + 1]
    <2>1. /\ r \in Seq(Entry) /\ Len(r) = Len(s) - 1
          /\ \A j \in 1 .. Len(s) - 1 : r[j] = IF j < from THEN s[j] ELSE s[j + 1]
      BY RemoveAtFacts
    <2> QED
      BY <1>1, <2>1
  <1> HIDE DEF r
  <1>3. n \in 0 .. Len(r) /\ n + 1 = to /\ s[from] \in Entry
    BY <1>1, <1>2
  <1>4. t = Inserted(r, n, s[from]) /\ t \in Seq(Entry)
    <2>1. InsertAt(r, n + 1, s[from]) = Inserted(r, n, s[from]) /\ Inserted(r, n, s[from]) \in Seq(Entry)
      BY <1>2, <1>3, InsertAtFacts
    <2> QED
      BY <1>3, <2>1 DEF Move, r
  <1>5. Len(t) = Len(s)
    BY <1>1, <1>2, <1>4 DEF Inserted
  <1>6. ASSUME NEW j \in 1 .. Len(s)
        PROVE  t[j] = IF j = to THEN s[from]
                      ELSE IF from <= j /\ j < to THEN s[j + 1]
                      ELSE IF to < j /\ j <= from THEN s[j - 1]
                      ELSE s[j]
    <2>1. t[j] = IF j <= n THEN r[j] ELSE IF j = n + 1 THEN s[from] ELSE r[j - 1]
      BY <1>1, <1>2, <1>4 DEF Inserted
    <2>2. CASE j < to
      <3>1. j <= n /\ j \in 1 .. Len(s) - 1
        BY <1>1, <2>2
      <3> QED
        BY <1>1, <1>2, <2>1, <2>2, <3>1
    <2>3. CASE j > to
      <3>1. j > n + 1 /\ j - 1 \in 1 .. Len(s) - 1 /\ (j - 1) + 1 = j
        BY <1>1, <2>3
      <3> QED
        BY <1>1, <1>2, <2>1, <2>3, <3>1
    <2>4. CASE j = to
      BY <1>1, <2>1, <2>4
    <2> QED
      BY <1>1, <2>2, <2>3, <2>4
  <1> QED
    BY <1>1, <1>4, <1>5, <1>6 DEF r, Moved

\* Moving an entry keeps the entries.
LEMMA MoveReorders ==
  ASSUME NEW s \in Seq(Entry), NEW from \in DOMAIN s, NEW to \in DOMAIN s
  PROVE  Reorders(Move(s, from, to), s)
  <1> DEFINE t == Move(s, from, to)
  <1>1. /\ Len(s) \in Nat /\ from \in 1 .. Len(s) /\ to \in 1 .. Len(s) /\ DOMAIN s = 1 .. Len(s)
        /\ t \in Seq(Entry) /\ DOMAIN t = 1 .. Len(s)
    <2>1. t \in Seq(Entry) /\ Len(t) = Len(s)
      BY MoveFacts
    <2> QED
      BY <2>1
  <1>2. \A j \in 1 .. Len(s) : t[j] = IF j = to THEN s[from]
                                      ELSE IF from <= j /\ j < to THEN s[j + 1]
                                      ELSE IF to < j /\ j <= from THEN s[j - 1]
                                      ELSE s[j]
    BY MoveFacts DEF Moved
  <1> HIDE DEF t
  <1>3. \A j \in 1 .. Len(s) : \E k \in 1 .. Len(s) : t[j] = s[k]
    <2> SUFFICES ASSUME NEW j \in 1 .. Len(s)
                 PROVE  \E k \in 1 .. Len(s) : t[j] = s[k]
      OBVIOUS
    <2>1. CASE j = to
      BY <1>1, <1>2, <2>1
    <2>2. CASE from <= j /\ j < to
      <3>1. j + 1 \in 1 .. Len(s) /\ t[j] = s[j + 1]
        BY <1>1, <1>2, <2>2
      <3> QED
        BY <3>1
    <2>3. CASE to < j /\ j <= from
      <3>1. j - 1 \in 1 .. Len(s) /\ t[j] = s[j - 1]
        BY <1>1, <1>2, <2>3
      <3> QED
        BY <3>1
    <2> QED
      BY <1>1, <1>2, <2>1, <2>2, <2>3
  <1>4. \A k \in 1 .. Len(s) : \E j \in 1 .. Len(s) : t[j] = s[k]
    <2> SUFFICES ASSUME NEW k \in 1 .. Len(s)
                 PROVE  \E j \in 1 .. Len(s) : t[j] = s[k]
      OBVIOUS
    <2>1. CASE k = from
      BY <1>1, <1>2, <2>1
    <2>2. CASE from < k /\ k <= to
      <3>1. k - 1 \in 1 .. Len(s) /\ from <= k - 1 /\ k - 1 < to /\ (k - 1) + 1 = k
        BY <1>1, <2>2
      <3>2. t[k - 1] = s[k]
        BY <1>1, <1>2, <3>1
      <3> QED
        BY <3>1, <3>2
    <2>3. CASE to <= k /\ k < from
      <3>1. k + 1 \in 1 .. Len(s) /\ to < k + 1 /\ k + 1 <= from /\ (k + 1) - 1 = k
        BY <1>1, <2>3
      <3>2. t[k + 1] = s[k]
        BY <1>1, <1>2, <3>1
      <3> QED
        BY <3>1, <3>2
    <2>4. CASE (k < from /\ k < to) \/ (k > from /\ k > to)
      <3>1. t[k] = s[k]
        BY <1>1, <1>2, <2>4
      <3> QED
        BY <3>1
    <2> QED
      BY <1>1, <2>1, <2>2, <2>3, <2>4
  <1>5. \A y : y \in Range(s) <=> \E k \in 1 .. Len(s) : y = s[k]
    BY <1>1 DEF Range
  <1>6. \A y : y \in Range(t) <=> \E k \in 1 .. Len(s) : y = t[k]
    BY <1>1 DEF Range
  <1>7. Range(t) = Range(s)
    BY <1>3, <1>4, <1>5, <1>6
  <1>8. t \in [1 .. Len(s) -> Range(s)]
    <2>1. t = [j \in 1 .. Len(s) |-> t[j]]
      BY <1>1
    <2> QED
      BY <1>3, <1>5, <2>1
  <1>9. Reorders(t, s)
    BY <1>1, <1>7, <1>8 DEF Reorders
  <1> QED
    BY <1>9 DEF t

-----------------------------------------------------------------------------
\* A list as it is kept: if it is said to be in order, there are counts.
ListType ==
  [pieces : Pieces, sort : {"unsorted", "weight"}, rep : [Piece -> Nat] \cup {NoReplication}]
List == {l \in ListType : l.sort = "weight" => l.rep \in [Piece -> Nat]}
KeptInOrder(l, done) == l.sort = "weight" => Ascending(done, l.rep, l.pieces)

\* m is l with its pieces in some order; its counts are those of l, or new.
CountsFrom(m, l, peers) ==
  m.rep = l.rep \/ (l.rep = NoReplication /\ m.rep = Replicated(peers))
SamePieces(m, l, peers) ==
  /\ m \in List /\ CountsFrom(m, l, peers)
  /\ Len(m.pieces) = Len(l.pieces) /\ Range(m.pieces) = Range(l.pieces)

\* The replication of a piece is a number.
LEMMA ReplicatedType == ASSUME NEW peers \in SUBSET Peer PROVE Replicated(peers) \in [Piece -> Nat]
  <1>1. ASSUME NEW i \in Piece
        PROVE  Cardinality({p \in peers : i \in have[p]}) \in Nat
    <2>1. {p \in peers : i \in have[p]} \in SUBSET Peer
      OBVIOUS
    <2> QED
      BY <2>1, PeerAssumption, FS_Subset, FS_CardinalityType
  <1> QED
    BY <1>1 DEF Replicated

\* The parts of a list.
LEMMA ListFacts ==
  ASSUME NEW l \in List
  PROVE  /\ l.pieces \in Pieces /\ l.pieces \in Seq(Entry) /\ Distinct(l.pieces)
         /\ l.sort \in {"unsorted", "weight"}
         /\ l.rep \in [Piece -> Nat] \cup {NoReplication}
         /\ l.sort = "weight" => l.rep \in [Piece -> Nat]
         /\ Len(l.pieces) \in Nat /\ DOMAIN l.pieces = 1 .. Len(l.pieces)
         /\ l = [pieces |-> l.pieces, sort |-> l.sort, rep |-> l.rep]
  BY DEF List, ListType, Pieces

\* Before the list is weighed its counts are made if there are none; nothing else changes.
LEMMA WeighingFacts ==
  ASSUME NEW l \in List, NEW peers \in SUBSET Peer
  PROVE  LET w == Weighing(l, peers) IN
         /\ w \in List /\ w.pieces = l.pieces /\ w.sort = l.sort /\ w.rep \in [Piece -> Nat]
         /\ CountsFrom(w, l, peers)
         /\ l.sort = "weight" /\ l.rep # NoReplication => w = l
  <1>1. Replicated(peers) \in [Piece -> Nat]
    BY ReplicatedType
  <1>2. CASE l.rep = NoReplication
    <2>1. Weighing(l, peers) = [l EXCEPT !.rep = Replicated(peers)]
      BY <1>2 DEF Weighing
    <2> QED
      BY <1>1, <1>2, <2>1 DEF List, ListType, CountsFrom
  <1>3. CASE l.rep # NoReplication
    <2>1. Weighing(l, peers) = l
      BY <1>3 DEF Weighing
    <2> QED
      BY <1>3, <2>1 DEF List, ListType, CountsFrom
  <1> QED
    BY <1>2, <1>3

\* Sorting keeps the pieces and puts them in order.
LEMMA SortFacts ==
  ASSUME NEW l \in List, NEW done, NEW peers \in SUBSET Peer
  PROVE  /\ SamePieces(SortByWeight(l, done, peers), l, peers)
         /\ SortByWeight(l, done, peers).sort = "weight"
         /\ KeptInOrder(SortByWeight(l, done, peers), done)
  <1> DEFINE w == Weighing(l, peers)
             s == w.pieces
             IsSort(t) == /\ t \in [DOMAIN s -> Range(s)]
                          /\ Range(t) = Range(s) /\ Ascending(done, w.rep, t)
             r == CHOOSE t : IsSort(t)
             m == [w EXCEPT !.pieces = r, !.sort = "weight"]
  <1>1. /\ w \in List /\ s = l.pieces /\ w.sort = l.sort /\ w.rep \in [Piece -> Nat]
        /\ CountsFrom(w, l, peers)
    BY WeighingFacts
  <1>2. s \in Pieces /\ s \in Seq(Entry)
    BY <1>1, ListFacts
  <1>3. SortByWeight(l, done, peers) = m
    BY DEF SortByWeight
  <1> HIDE DEF w
  <1>4. IsSort(r)
    <2>1. \E t : Reorders(t, s) /\ Ascending(done, w.rep, t)
      BY <1>1, <1>2, SortExists
    <2>2. \E t : IsSort(t)
      BY <2>1 DEF Reorders
    <2> QED
      BY <2>2
  <1> HIDE DEF r
  <1>5. r \in Pieces /\ Len(r) = Len(s) /\ Range(r) = Range(s)
    BY <1>2, <1>4, ReorderedPieces DEF Reorders
  <1>6. m.pieces = r /\ m.sort = "weight" /\ m.rep = w.rep /\ m \in List
    BY <1>1, <1>5 DEF List, ListType
  <1>7. CountsFrom(m, l, peers)
    BY <1>1, <1>6 DEF CountsFrom
  <1> QED
    BY <1>1, <1>3, <1>4, <1>5, <1>6, <1>7 DEF SamePieces, KeptInOrder

\* A list is in order if it is without one piece, and that one is not out of
\* place next to its neighbours.
LEMMA InPlace ==
  ASSUME NEW done, NEW rep \in [Piece -> Nat], NEW s \in Seq(Entry), NEW k \in DOMAIN s,
         Ascending(done, rep, RemoveAt(s, k)),
         k > 1 => ~Before(done, rep, s[k], s[k - 1]),
         k < Len(s) => ~Before(done, rep, s[k + 1], s[k])
  PROVE  Ascending(done, rep, s)
  <1> DEFINE r == RemoveAt(s, k)
  <1>1. Len(s) \in Nat /\ DOMAIN s = 1 .. Len(s) /\ k \in 1 .. Len(s) /\ s \in [1 .. Len(s) -> Entry]
    OBVIOUS
  <1>2. /\ DOMAIN r = 1 .. Len(s) - 1
        /\ \A j \in 1 .. Len(s) - 1 : r[j] = IF j < k THEN s[j] ELSE s[j + 1]
    <2>1. /\ r \in Seq(Entry) /\ Len(r) = Len(s) - 1
          /\ \A j \in 1 .. Len(s) - 1 : r[j] = IF j < k THEN s[j] ELSE s[j + 1]
      BY RemoveAtFacts
    <2> QED
      BY <1>1, <2>1
  <1>3. \A j, n \in 1 .. Len(s) - 1 : j < n => ~Before(done, rep, r[n], r[j])
    BY <1>2 DEF Ascending
  <1> HIDE DEF r
  <1>4. ASSUME NEW j \in 1 .. Len(s), NEW n \in 1 .. Len(s), j < n, j # k, n # k
        PROVE  ~Before(done, rep, s[n], s[j])
    <2>1. CASE n < k
      <3>1. j \in 1 .. Len(s) - 1 /\ n \in 1 .. Len(s) - 1 /\ r[j] = s[j] /\ r[n] = s[n]
        BY <1>1, <1>2, <1>4, <2>1
      <3> QED
        BY <1>3, <1>4, <3>1
    <2>2. CASE j < k /\ k < n
      <3>1. j \in 1 .. Len(s) - 1 /\ n - 1 \in 1 .. Len(s) - 1 /\ ~(n - 1 < k) /\ j < n - 1
            /\ (n - 1) + 1 = n
        BY <1>1, <1>4, <2>2
      <3>2. r[j] = s[j] /\ r[n - 1] = s[n]
        BY <1>2, <2>2, <3>1
      <3> QED
        BY <1>3, <3>1, <3>2
    <2>3. CASE k < j
      <3>1. j - 1 \in 1 .. Len(s) - 1 /\ n - 1 \in 1 .. Len(s) - 1 /\ j - 1 < n - 1
            /\ ~(n - 1 < k) /\ ~(j - 1 < k) /\ (n - 1) + 1 = n /\ (j - 1) + 1 = j
        BY <1>1, <1>4, <2>3
      <3>2. r[j - 1] = s[j] /\ r[n - 1] = s[n]
        BY <1>2, <3>1
      <3> QED
        BY <1>3, <3>1, <3>2
    <2> QED
      BY <1>1, <1>4, <2>1, <2>2, <2>3
  <1>5. ASSUME NEW j \in 1 .. Len(s), j < k
        PROVE  ~Before(done, rep, s[k], s[j])
    <2>1. k - 1 \in 1 .. Len(s) /\ k > 1 /\ (j = k - 1 \/ j < k - 1) /\ k - 1 # k
      BY <1>1, <1>5
    <2>2. ~Before(done, rep, s[k], s[k - 1])
      BY <2>1
    <2>3. CASE j = k - 1
      BY <2>2, <2>3
    <2>4. CASE j < k - 1
      <3>1. ~Before(done, rep, s[k - 1], s[j])
        BY <1>4, <1>5, <2>1, <2>4
      <3>2. s[j] \in Entry /\ s[k] \in Entry /\ s[k - 1] \in Entry
        BY <1>1, <2>1
      <3>3. Before(done, rep, s[k], s[j])
              => Before(done, rep, s[k], s[k - 1]) \/ Before(done, rep, s[k - 1], s[j])
        BY <3>2, WeakOrder
      <3> QED
        BY <2>2, <3>1, <3>3
    <2> QED
      BY <2>1, <2>3, <2>4
  <1>6. ASSUME NEW n \in 1 .. Len(s), k < n
        PROVE  ~Before(done, rep, s[n], s[k])
    <2>1. k + 1 \in 1 .. Len(s) /\ k < Len(s) /\ (n = k + 1 \/ k + 1 < n) /\ k + 1 # k
      BY <1>1, <1>6
    <2>2. ~Before(done, rep, s[k + 1], s[k])
      BY <2>1
    <2>3. CASE n = k + 1
      BY <2>2, <2>3
    <2>4. CASE k + 1 < n
      <3>1. ~Before(done, rep, s[n], s[k + 1])
        BY <1>4, <1>6, <2>1, <2>4
      <3>2. s[n] \in Entry /\ s[k] \in Entry /\ s[k + 1] \in Entry
        BY <1>1, <2>1
      <3>3. Before(done, rep, s[n], s[k])
              => Before(done, rep, s[n], s[k + 1]) \/ Before(done, rep, s[k + 1], s[k])
        BY <3>2, WeakOrder
      <3> QED
        BY <2>2, <3>1, <3>3
    <2> QED
      BY <2>1, <2>3, <2>4
  <1>7. \A j, n \in 1 .. Len(s) : j < n => ~Before(done, rep, s[n], s[j])
    <2> TAKE j, n \in 1 .. Len(s)
    <2> HAVE j < n
    <2>1. n = k \/ j = k \/ (n # k /\ j # k)
      OBVIOUS
    <2> QED
      BY <1>4, <1>5, <1>6, <2>1
  <1> QED
    BY <1>1, <1>7 DEF Ascending

\* Without the piece at position k the list is in order, if it is said to be.
OthersInOrder(l, k, done) ==
  l.sort = "weight" => Ascending(done, l.rep, RemoveAt(l.pieces, k))

\* Re-sorting the piece at one position keeps the pieces, and puts all in order
\* if only that piece was out of it.
LEMMA ResortFacts ==
  ASSUME NEW l \in List, NEW done, NEW peers \in SUBSET Peer, NEW k \in DOMAIN l.pieces
  PROVE  /\ SamePieces(Resort(l, k, done, peers), l, peers)
         /\ Resort(l, k, done, peers).sort = "weight"
         /\ OthersInOrder(l, k, done) => KeptInOrder(Resort(l, k, done, peers), done)
  <1> DEFINE m == Resort(l, k, done, peers)
             s == l.pieces
             n == LowerBound(done, l.rep, s[k], RemoveAt(s, k))
             inPlace == /\ k > 1 => ~Before(done, l.rep, s[k], s[k - 1])
                        /\ k < Len(s) => ~Before(done, l.rep, s[k + 1], s[k])
  <1>1. CASE l.sort # "weight"
    <2>1. m = SortByWeight(l, done, peers)
      BY <1>1 DEF Resort
    <2> QED
      BY <2>1, SortFacts
  <1>2. CASE l.sort = "weight"
    <2>1. /\ s \in Pieces /\ s \in Seq(Entry) /\ l.rep \in [Piece -> Nat] /\ s[k] \in Entry
          /\ Len(s) \in Nat /\ DOMAIN s = 1 .. Len(s) /\ k \in 1 .. Len(s)
          /\ l = [pieces |-> s, sort |-> l.sort, rep |-> l.rep]
      BY <1>2, ListFacts
    <2>2. l.rep # NoReplication
      <3>1. s[k].index \in Piece
        BY <2>1 DEF Entry
      <3>2. DOMAIN l.rep = Piece /\ DOMAIN NoReplication = {}
        BY <2>1 DEF NoReplication
      <3> QED
        BY <3>1, <3>2
    <2>3. Weighing(l, peers) = l
      BY <2>2 DEF Weighing
    <2>4. m = IF inPlace THEN l ELSE [l EXCEPT !.pieces = Move(s, k, n + 1)]
      BY <1>2, <2>3 DEF Resort
    <2>5. CASE inPlace
      <3>1. m = l
        BY <2>4, <2>5
      <3>2. Ascending(done, l.rep, RemoveAt(s, k)) => Ascending(done, l.rep, s)
        BY <2>1, <2>5, InPlace
      <3>3. SamePieces(l, l, peers)
        BY DEF SamePieces, CountsFrom
      <3>4. OthersInOrder(l, k, done) => KeptInOrder(l, done)
        BY <3>2 DEF KeptInOrder, OthersInOrder
      <3> HIDE DEF m
      <3> QED
        BY <1>2, <3>1, <3>3, <3>4 DEF m
    <2>6. CASE ~inPlace
      <3> DEFINE r == RemoveAt(s, k)
                 t == Move(s, k, n + 1)
      <3>1. r \in Seq(Entry) /\ Len(r) = Len(s) - 1
        BY <2>1, RemoveAtFacts
      <3>2. /\ n \in 0 .. Len(r)
            /\ Ascending(done, l.rep, r) => Splits(done, l.rep, s[k], r, n)
        BY <2>1, <3>1, LowerBoundFacts
      <3>3. n + 1 \in DOMAIN s /\ (n + 1) - 1 = n
        BY <2>1, <3>1, <3>2
      <3>4. t = Inserted(r, n, s[k])
        BY <2>1, <3>3, MoveFacts
      <3>5. Ascending(done, l.rep, r) => Ascending(done, l.rep, t)
        BY <2>1, <3>1, <3>2, <3>4, InsertedAscends
      <3>6. t \in Pieces /\ Len(t) = Len(s) /\ Range(t) = Range(s)
        BY <2>1, <3>3, MoveReorders, ReorderedPieces
      <3>7. m = [l EXCEPT !.pieces = t]
        BY <2>4, <2>6
      <3> HIDE DEF t, m, n, inPlace
      <3>8. m.pieces = t /\ m.sort = "weight" /\ m.rep = l.rep /\ m \in List
        BY <1>2, <2>1, <3>6, <3>7 DEF List, ListType
      <3> QED
        BY <1>2, <3>5, <3>6, <3>8 DEF SamePieces, CountsFrom, KeptInOrder, OthersInOrder, m
    <2> QED
      BY <2>5, <2>6
  <1> QED
    BY <1>1, <1>2

-----------------------------------------------------------------------------
\* Removing a request.
AscendingBut(done, rep, s, k) ==
  \A j, n \in DOMAIN s \ {k} : j < n => ~Before(done, rep, s[n], s[j])

\* A list in which only one entry may be out of place is in order without it.
LEMMA WithoutOne ==
  ASSUME NEW done, NEW rep, NEW s \in Seq(Entry), NEW k \in DOMAIN s,
         AscendingBut(done, rep, s, k)
  PROVE  Ascending(done, rep, RemoveAt(s, k))
  <1> DEFINE r == RemoveAt(s, k)
  <1>1. Len(s) \in Nat /\ DOMAIN s = 1 .. Len(s) /\ k \in 1 .. Len(s)
    OBVIOUS
  <1>2. /\ r \in Seq(Entry) /\ Len(r) = Len(s) - 1
        /\ \A j \in 1 .. Len(s) - 1 : r[j] = IF j < k THEN s[j] ELSE s[j + 1]
    BY RemoveAtFacts
  <1>3. DOMAIN r = 1 .. Len(s) - 1
    BY <1>1, <1>2
  <1> DEFINE at(j) == IF j < k THEN j ELSE j + 1
  <1>4. ASSUME NEW j \in 1 .. Len(s) - 1
        PROVE  at(j) \in DOMAIN s \ {k} /\ r[j] = s[at(j)]
    BY <1>1, <1>2
  <1>5. \A j, n \in 1 .. Len(s) - 1 : j < n => at(j) < at(n)
    BY <1>1
  <1> HIDE DEF r, at
  <1>6. \A j, n \in DOMAIN r : j < n => ~Before(done, rep, r[n], r[j])
    BY <1>3, <1>4, <1>5 DEF AscendingBut
  <1> QED
    BY <1>6 DEF Ascending, r

Listed(l) == {x.index : x \in Range(l.pieces)}

\* m lists the pieces of l, in order if those of l were.
Keeps(m, l, done, peers) ==
  /\ m \in List
  /\ CountsFrom(m, l, peers)
  /\ Listed(m) = Listed(l)
  /\ KeptInOrder(l, done) => KeptInOrder(m, done)

\* No count exceeds the requests there are.
RequestsIn(reqs, i) == {r \in reqs : PieceOf(r[1]) = i}
Covered(l, reqs) == \A x \in Range(l.pieces) : x.requestCount <= Cardinality(RequestsIn(reqs, x.index))

\* The requests for the blocks of a piece are finitely many.
LEMMA RequestsFinite ==
  ASSUME NEW reqs \in SUBSET (Block \X Peer)
  PROVE  IsFiniteSet(reqs) /\ \A i : IsFiniteSet(RequestsIn(reqs, i))
                                     /\ Cardinality(RequestsIn(reqs, i)) \in Nat
  <1>1. IsFiniteSet(Block \X Peer)
    BY BlockFacts, PeerAssumption, FS_Product
  <1>2. IsFiniteSet(reqs)
    BY <1>1, FS_Subset
  <1>3. ASSUME NEW i
        PROVE  IsFiniteSet(RequestsIn(reqs, i)) /\ Cardinality(RequestsIn(reqs, i)) \in Nat
    <2>1. RequestsIn(reqs, i) \in SUBSET reqs
      BY DEF RequestsIn
    <2> QED
      BY <1>2, <2>1, FS_Subset, FS_CardinalityType
  <1> QED
    BY <1>2, <1>3

\* One request less is at most one less of its piece, and none less of the others.
LEMMA CoveredWithout ==
  ASSUME NEW reqs \in SUBSET (Block \X Peer), NEW q, NEW i
  PROVE  /\ i # PieceOf(q[1]) => RequestsIn(reqs \ {q}, i) = RequestsIn(reqs, i)
         /\ Cardinality(RequestsIn(reqs \ {q}, i)) >= Cardinality(RequestsIn(reqs, i)) - 1
         /\ Cardinality(RequestsIn(reqs \ {q}, i)) \in Nat
  <1>1. RequestsIn(reqs \ {q}, i) = RequestsIn(reqs, i) \ {q}
    BY DEF RequestsIn
  <1>2. IsFiniteSet(RequestsIn(reqs, i)) /\ Cardinality(RequestsIn(reqs, i)) \in Nat
    BY RequestsFinite
  <1>3. i # PieceOf(q[1]) => q \notin RequestsIn(reqs, i)
    BY DEF RequestsIn
  <1> DEFINE c == Cardinality(RequestsIn(reqs, i))
             d == Cardinality(RequestsIn(reqs \ {q}, i))
  <1>4. d \in Nat
    <2>1. RequestsIn(reqs \ {q}, i) \in SUBSET RequestsIn(reqs, i)
      BY <1>1
    <2> QED
      BY <1>2, <2>1, FS_Subset, FS_CardinalityType
  <1>5. q \notin RequestsIn(reqs, i) => RequestsIn(reqs \ {q}, i) = RequestsIn(reqs, i)
    <2> SUFFICES ASSUME q \notin RequestsIn(reqs, i)
                 PROVE  RequestsIn(reqs, i) \ {q} = RequestsIn(reqs, i)
      BY <1>1
    <2> HIDE DEF c, d
    <2> QED
      OBVIOUS
  <1>6. d >= c - 1
    <2>1. CASE q \in RequestsIn(reqs, i)
      <3>1. d = c - 1
        BY <1>1, <1>2, <2>1, FS_RemoveElement
      <3> HIDE DEF c, d
      <3> QED
        BY <1>4, <3>1
    <2>2. CASE q \notin RequestsIn(reqs, i)
      <3>1. d = c
        BY <1>5, <2>2
      <3> HIDE DEF c, d
      <3> QED
        BY <1>4, <3>1
    <2> QED
      BY <2>1, <2>2
  <1> QED
    BY <1>3, <1>4, <1>5, <1>6

\* requestListRemove's share in the list: pieces and order are kept, and the counts stay
\* covered when the request is gone.
LEMMA RemoveRequestFacts ==
  ASSUME NEW l \in List, NEW q \in Block \X Peer, NEW done, NEW peers \in SUBSET Peer,
         NEW reqs \in SUBSET (Block \X Peer)
  PROVE  /\ Keeps(RemoveRequest(l, q[1], done, peers), l, done, peers)
         /\ Covered(l, reqs) => Covered(RemoveRequest(l, q[1], done, peers), reqs \ {q})
  <1> DEFINE i == PieceOf(q[1])
             counted == {k \in Positions(l, i) : l.pieces[k].requestCount > 0}
             m == RemoveRequest(l, q[1], done, peers)
             s == l.pieces
  <1>1. /\ s \in Pieces /\ s \in Seq(Entry) /\ Distinct(s)
        /\ Len(s) \in Nat /\ DOMAIN s = 1 .. Len(s)
        /\ l.sort \in {"unsorted", "weight"}
        /\ l.rep \in [Piece -> Nat] \cup {NoReplication}
        /\ l.sort = "weight" => l.rep \in [Piece -> Nat]
        /\ l = [pieces |-> s, sort |-> l.sort, rep |-> l.rep]
    BY ListFacts
  <1>2. ASSUME NEW x \in Range(s)
        PROVE  x \in Entry /\ \E k \in DOMAIN s : x = s[k]
    BY <1>1 DEF Range
  <1>3. \A j : /\ j # i => RequestsIn(reqs \ {q}, j) = RequestsIn(reqs, j)
               /\ Cardinality(RequestsIn(reqs \ {q}, j)) >= Cardinality(RequestsIn(reqs, j)) - 1
               /\ Cardinality(RequestsIn(reqs \ {q}, j)) \in Nat
               /\ Cardinality(RequestsIn(reqs, j)) \in Nat
    BY CoveredWithout, RequestsFinite
  <1>4. CASE counted = {}
    <2>1. m = l
      BY <1>4 DEF RemoveRequest
    <2>2. ASSUME Covered(l, reqs), NEW x \in Range(s)
          PROVE  x.requestCount <= Cardinality(RequestsIn(reqs \ {q}, x.index))
      <3>1. x.requestCount \in Nat /\ x.requestCount <= Cardinality(RequestsIn(reqs, x.index))
        BY <1>2, <2>2 DEF Covered, Entry
      <3>2. x.index = i => x.requestCount = 0
        BY <1>2, <1>4, <3>1 DEF Positions
      <3>3. CASE x.index = i
        <4>1. Cardinality(RequestsIn(reqs \ {q}, x.index)) \in Nat
          BY <1>3
        <4> QED
          BY <3>2, <3>3, <4>1
      <3>4. CASE x.index # i
        BY <1>3, <3>1, <3>4
      <3> QED
        BY <3>3, <3>4
    <2>3. Covered(l, reqs) => Covered(l, reqs \ {q})
      BY <2>2 DEF Covered
    <2>4. Keeps(l, l, done, peers)
      BY DEF Keeps, CountsFrom
    <2> HIDE DEF m
    <2> QED
      BY <2>1, <2>3, <2>4 DEF m
  <1>5. CASE counted # {}
    <2> DEFINE k == CHOOSE k \in counted : TRUE
               c == s[k].requestCount - 1
               t == [s EXCEPT ![k].requestCount = c]
               l2 == [l EXCEPT !.pieces[k].requestCount = @ - 1]
    <2>1. m = Resort(l2, k, done, peers)
      BY <1>5 DEF RemoveRequest
    <2>2. k \in DOMAIN s /\ s[k].index = i /\ s[k].requestCount > 0 /\ s[k] \in Entry
      <3>1. k \in counted
        BY <1>5
      <3> HIDE DEF k
      <3> QED
        BY <1>1, <3>1 DEF Positions
    <2> HIDE DEF k, m
    <2>3. /\ c \in Nat /\ c + 1 = s[k].requestCount
          /\ t \in [1 .. Len(s) -> Entry] /\ DOMAIN t = DOMAIN s
          /\ \A j \in DOMAIN s : /\ t[j].index = s[j].index
                                 /\ j # k => t[j] = s[j]
          /\ t[k].requestCount = c
      <3>1. c \in Nat /\ c + 1 = s[k].requestCount
        BY <2>2 DEF Entry
      <3>2. [s[k] EXCEPT !.requestCount = c] \in Entry
        BY <2>2, <3>1 DEF Entry
      <3>3. s \in [1 .. Len(s) -> Entry]
        BY <1>1
      <3>4. t = [s EXCEPT ![k] = [s[k] EXCEPT !.requestCount = c]]
        OBVIOUS
      <3>5. \A j \in DOMAIN s : t[j] = IF j = k THEN [s[k] EXCEPT !.requestCount = c] ELSE s[j]
        BY <3>3, <3>4
      <3>6. t \in [1 .. Len(s) -> Entry]
        BY <1>1, <2>2, <3>2, <3>3, <3>4
      <3> HIDE DEF t
      <3>7. t[k].requestCount = c /\ t[k].index = s[k].index
        BY <2>2, <3>5 DEF Entry
      <3> HIDE DEF c
      <3> QED
        BY <1>1, <3>1, <3>5, <3>6, <3>7
    <2>4. t \in Pieces
      <3>1. t \in Seq(Entry)
        BY <1>1, <2>3
      <3>2. Distinct(t)
        <4> HIDE DEF t
        <4> QED
          BY <1>1, <2>3 DEF Distinct
      <3> QED
        BY <3>1, <3>2 DEF Pieces
    <2>5. l2 = [l EXCEPT !.pieces = t]
      BY <1>1
    <2> HIDE DEF l2, t
    <2>6. l2 \in List /\ l2.pieces = t /\ l2.sort = l.sort /\ l2.rep = l.rep
      BY <1>1, <2>4, <2>5 DEF List, ListType
    <2>7. /\ SamePieces(m, l2, peers) /\ m.sort = "weight"
          /\ OthersInOrder(l2, k, done) => KeptInOrder(m, done)
      BY <2>1, <2>2, <2>3, <2>6, ResortFacts
    <2>8. KeptInOrder(l, done) => OthersInOrder(l2, k, done)
      <3> SUFFICES ASSUME Ascending(done, l.rep, s)
                   PROVE  Ascending(done, l.rep, RemoveAt(t, k))
        BY <2>6 DEF KeptInOrder, OthersInOrder
      <3>1. AscendingBut(done, l.rep, t, k)
        BY <2>3 DEF AscendingBut, Ascending
      <3> QED
        BY <2>2, <2>3, <2>4, <3>1, WithoutOne DEF Pieces
    <2>9. /\ \A x : x \in Range(m.pieces) <=> \E j \in DOMAIN s : x = t[j]
          /\ \A x : x \in Range(s) <=> \E j \in DOMAIN s : x = s[j]
      BY <2>3, <2>6, <2>7 DEF SamePieces, Range
    <2>10. Listed(m) = Listed(l)
      <3>1. \A j : j \in Listed(m) <=> \E n \in DOMAIN s : j = t[n].index
        BY <2>9 DEF Listed
      <3>2. \A j : j \in Listed(l) <=> \E n \in DOMAIN s : j = s[n].index
        BY <2>9 DEF Listed
      <3>3. \A n \in DOMAIN s : t[n].index = s[n].index
        BY <2>3
      <3>4. \A j : j \in Listed(m) <=> j \in Listed(l)
        BY <3>1, <3>2, <3>3
      <3> QED
        BY <3>4 DEF Listed
    <2>11. Keeps(m, l, done, peers)
      BY <2>6, <2>7, <2>8, <2>10 DEF Keeps, SamePieces, CountsFrom
    <2>12. ASSUME Covered(l, reqs), NEW x \in Range(m.pieces)
           PROVE  x.requestCount <= Cardinality(RequestsIn(reqs \ {q}, x.index))
      <3>1. PICK j \in DOMAIN s : x = t[j]
        BY <2>9
      <3>2. s[j].requestCount <= Cardinality(RequestsIn(reqs, s[j].index)) /\ s[j].requestCount \in Nat
        <4>1. s[j] \in Range(s)
          BY <2>9
        <4>2. s[j] \in Entry
          BY <1>2, <4>1
        <4> QED
          BY <2>12, <4>1, <4>2 DEF Covered, Entry
      <3>3. CASE j = k
        <4>1. x.requestCount = c /\ x.index = i /\ c + 1 <= Cardinality(RequestsIn(reqs, i))
          BY <2>2, <2>3, <3>1, <3>2, <3>3
        <4>2. /\ Cardinality(RequestsIn(reqs \ {q}, i)) >= Cardinality(RequestsIn(reqs, i)) - 1
              /\ Cardinality(RequestsIn(reqs \ {q}, i)) \in Nat
              /\ Cardinality(RequestsIn(reqs, i)) \in Nat
          BY <1>3
        <4> HIDE DEF c
        <4>3. c <= Cardinality(RequestsIn(reqs \ {q}, i))
          BY <2>3, <4>1, <4>2
        <4> QED
          BY <4>1, <4>3
      <3>4. CASE j # k
        <4>1. x = s[j] /\ s[j].index # i
          BY <1>1, <2>2, <2>3, <3>1, <3>4 DEF Distinct
        <4> QED
          BY <1>3, <3>2, <4>1
      <3> QED
        BY <3>3, <3>4
    <2>13. Covered(l, reqs) => Covered(m, reqs \ {q})
      BY <2>12 DEF Covered
    <2> QED
      BY <2>11, <2>13 DEF m
  <1> QED
    BY <1>4, <1>5

-----------------------------------------------------------------------------
\* Removing the requests of a set.
LEMMA KeepsFacts ==
  ASSUME NEW l \in List, NEW done, NEW peers
  PROVE  /\ Keeps(l, l, done, peers)
         /\ \A m, n : Keeps(m, l, done, peers) /\ Keeps(n, m, done, peers)
                        => Keeps(n, l, done, peers)
  BY DEF Keeps, CountsFrom

Latest(some) == CHOOSE r \in some : \A q \in some : q[1] <= r[1]
RemovesAll(l, gone, done, peers, f) ==
  f = [some \in SUBSET gone |->
         IF some = {} THEN l
         ELSE RemoveRequest(f[some \ {Latest(some)}], Latest(some)[1], done, peers)]

\* There is a last one among some requests.
LEMMA LatestFacts ==
  ASSUME NEW some \in SUBSET (Block \X Peer), some # {}
  PROVE  Latest(some) \in some
  <1> DEFINE S == {BlockCount - r[1] : r \in some}
  <1>1. \A r \in some : r[1] \in Nat /\ r[1] < BlockCount
    BY BlockAssumption DEF Block
  <1>2. S \in SUBSET Nat /\ S # {}
    BY <1>1, BlockAssumption
  <1>3. PICK i \in S : \A j \in S : i <= j
    BY <1>2, LeastExists
  <1>4. PICK r \in some : i = BlockCount - r[1]
    BY <1>3
  <1>5. ASSUME NEW q \in some
        PROVE  q[1] <= r[1]
    <2>1. BlockCount - r[1] <= BlockCount - q[1]
      BY <1>3, <1>4
    <2> QED
      BY <1>1, <2>1, BlockAssumption
  <1>6. \E r0 \in some : \A q \in some : q[1] <= r0[1]
    BY <1>5
  <1> QED
    BY <1>6 DEF Latest

\* The requests without their last one are fewer.
LEMMA EarlierFacts ==
  ASSUME NEW gone \in SUBSET (Block \X Peer), NEW some \in SUBSET gone
  PROVE  /\ some \ {Latest(some)} \in SUBSET gone
         /\ Cardinality(some) \in Nat /\ Cardinality(some) <= Cardinality(gone)
         /\ Cardinality(gone) \in Nat
         /\ some # {} => /\ Cardinality(some \ {Latest(some)}) < Cardinality(some)
                         /\ Latest(some) \in some /\ Latest(some) \in Block \X Peer
  <1>1. IsFiniteSet(gone)
    BY RequestsFinite
  <1>2. IsFiniteSet(some) /\ Cardinality(some) \in Nat /\ Cardinality(some) <= Cardinality(gone)
    BY <1>1, FS_Subset, FS_CardinalityType
  <1>2a. \A r \in some : Cardinality(some \ {r}) = Cardinality(some) - 1
    BY <1>2, FS_RemoveElement
  <1>3. ASSUME some # {}
        PROVE  /\ Cardinality(some \ {Latest(some)}) < Cardinality(some)
               /\ Latest(some) \in some /\ Latest(some) \in Block \X Peer
    <2>1. Latest(some) \in some /\ Latest(some) \in Block \X Peer
      BY <1>3, LatestFacts
    <2>2. Cardinality(some \ {Latest(some)}) = Cardinality(some) - 1
      BY <1>2a, <2>1
    <2>3. Cardinality(some \ {Latest(some)}) < Cardinality(some)
      BY <1>2, <2>2
    <2> QED
      BY <2>1, <2>3
  <1> QED
    BY <1>1, <1>2, <1>3, FS_CardinalityType

\* The loop over the requests ends, whatever they are.
LEMMA RemovalExists ==
  ASSUME NEW l \in List, NEW gone \in SUBSET (Block \X Peer), NEW done, NEW peers \in SUBSET Peer
  PROVE  \E f : RemovesAll(l, gone, done, peers, f)
  <1> DEFINE D == SUBSET gone
             m == [some \in D |-> Cardinality(some)]
             stop == {{}}
             next == [some \in D |-> some \ {Latest(some)}]
             out == [some \in D |-> l]
             F == [p \in D \X List |-> IF p[1] = {} THEN p[2]
                                       ELSE RemoveRequest(p[2], Latest(p[1])[1], done, peers)]
  <1>1. \A some \in D : /\ some \ {Latest(some)} \in D
                        /\ Cardinality(some) \in Nat /\ Cardinality(some) <= Cardinality(gone)
                        /\ Cardinality(gone) \in Nat
                        /\ some # {} => /\ Cardinality(some \ {Latest(some)}) < Cardinality(some)
                                        /\ Latest(some) \in Block \X Peer
    BY EarlierFacts
  <1>2. m \in [D -> Nat] /\ out \in [D -> List] /\ next \in [D -> D]
    BY <1>1
  <1>3. \A some \in D \ stop : m[next[some]] < m[some]
    BY <1>1
  <1>4. Cardinality(gone) \in Nat /\ \A some \in D : m[some] <= Cardinality(gone)
    BY <1>1
  <1>5. F \in [D \X List -> List]
    <2>1. ASSUME NEW some \in D, NEW x \in List, some # {}
          PROVE  RemoveRequest(x, Latest(some)[1], done, peers) \in List
      <3>1. {} \in SUBSET (Block \X Peer)
        OBVIOUS
      <3> PICK q \in Block \X Peer : q = Latest(some)
        BY <1>1, <2>1
      <3>2. Keeps(RemoveRequest(x, q[1], done, peers), x, done, peers)
        BY <3>1, RemoveRequestFacts
      <3> QED
        BY <3>2 DEF Keeps
    <2>2. \A p \in D \X List : p[1] \in D /\ p[2] \in List
      OBVIOUS
    <2> HIDE DEF D
    <2> QED
      BY <2>1, <2>2
  <1>6. \A some \in D : out[some] = l /\ next[some] = some \ {Latest(some)}
                        /\ (some \in stop <=> some = {})
    OBVIOUS
  <1>7. \A some \in D, x \in List :
           some # {} => F[<<some, x>>] = RemoveRequest(x, Latest(some)[1], done, peers)
    OBVIOUS
  <1> HIDE DEF m, stop, next, out, F, D
  <1>8. Recursion(D, List, m, stop, next, out, F)
    BY <1>2, <1>3, <1>4, <1>5 DEF Descends, Recursion
  <1> PICK f : Solution(f, D, List, stop, next, out, F)
    BY <1>8, RecursiveFunction
  <1>9. f \in [D -> List] /\ \A some \in D : f[some] = IF some \in stop THEN out[some]
                                                       ELSE F[<<some, f[next[some]]>>]
    BY DEF Solution
  <1>10. ASSUME NEW some \in D
         PROVE  f[some] = IF some = {} THEN l
                ELSE RemoveRequest(f[some \ {Latest(some)}], Latest(some)[1], done, peers)
    <2>1. f[next[some]] \in List /\ next[some] = some \ {Latest(some)}
      BY <1>2, <1>6, <1>9
    <2> PICK x \in List : x = f[next[some]]
      BY <2>1
    <2>2. some # {} => f[some] = F[<<some, x>>]
      BY <1>6, <1>9
    <2>3. some = {} => f[some] = l
      BY <1>6, <1>9
    <2> QED
      BY <1>7, <2>1, <2>2, <2>3
  <1>11. RemovesAll(l, gone, done, peers, f)
    BY <1>9, <1>10 DEF RemovesAll, D
  <1> QED
    BY <1>11

\* Removing the requests of a set keeps pieces and order, and the counts stay covered.
LEMMA RemoveRequestsFacts ==
  ASSUME NEW l \in List, NEW gone \in SUBSET (Block \X Peer), NEW done, NEW peers \in SUBSET Peer,
         NEW reqs \in SUBSET (Block \X Peer)
  PROVE  /\ Keeps(RemoveRequests(l, gone, done, peers), l, done, peers)
         /\ Covered(l, reqs) => Covered(RemoveRequests(l, gone, done, peers), reqs \ gone)
  <1> DEFINE f0 == CHOOSE f : RemovesAll(l, gone, done, peers, f)
  <1>1. RemovesAll(l, gone, done, peers, f0)
    BY RemovalExists
  <1>2. RemoveRequests(l, gone, done, peers) = f0[gone]
    BY DEF RemoveRequests, RemovesAll, Latest
  <1> PICK f : f = f0
    OBVIOUS
  <1> HIDE DEF f0
  <1> DEFINE D == SUBSET gone
             m == [some \in D |-> Cardinality(some)]
             stop == {{}}
             next == [some \in D |-> some \ {Latest(some)}]
             P == {some \in D : /\ Keeps(f[some], l, done, peers)
                                /\ Covered(l, reqs) => Covered(f[some], reqs \ some)}
  <1>3. \A some \in D : /\ some \ {Latest(some)} \in D
                        /\ Cardinality(some) \in Nat
                        /\ some # {} => /\ Cardinality(some \ {Latest(some)}) < Cardinality(some)
                                        /\ Latest(some) \in some
                                        /\ Latest(some) \in Block \X Peer
    BY EarlierFacts
  <1>4. \A some \in D : f[some] = IF some = {} THEN l
                ELSE RemoveRequest(f[some \ {Latest(some)}], Latest(some)[1], done, peers)
    BY <1>1 DEF RemovesAll
  <1>5. m \in [D -> Nat] /\ next \in [D -> D] /\ \A some \in D \ stop : m[next[some]] < m[some]
    BY <1>3
  <1>6. ASSUME NEW some \in D, some \in stop \/ next[some] \in P
        PROVE  some \in P
    <2>1. CASE some = {}
      <3>1. f[some] = l /\ reqs \ some = reqs
        BY <1>4, <2>1
      <3> QED
        BY <3>1, KeepsFacts
    <2>2. CASE some # {}
      <3> DEFINE rest == some \ {Latest(some)}
      <3>1. rest \in P /\ rest \in D
        BY <1>6, <2>2
      <3> PICK q \in Block \X Peer : q = Latest(some)
        BY <1>3, <2>2
      <3>2. f[some] = RemoveRequest(f[rest], q[1], done, peers)
        BY <1>4, <2>2
      <3>3. Keeps(f[rest], l, done, peers) /\ (Covered(l, reqs) => Covered(f[rest], reqs \ rest))
        BY <3>1
      <3>4. f[rest] \in List
        BY <3>3 DEF Keeps
      <3>5. reqs \ rest \in SUBSET (Block \X Peer) /\ (reqs \ rest) \ {q} = reqs \ some
        <4>1. q \in some
          BY <1>3, <2>2
        <4> QED
          BY <4>1
      <3> HIDE DEF rest, P
      <3>6. /\ Keeps(f[some], f[rest], done, peers)
            /\ Covered(f[rest], reqs \ rest) => Covered(f[some], reqs \ some)
        <4> PICK x \in List : x = f[rest]
          BY <3>4
        <4> PICK left \in SUBSET (Block \X Peer) : left = reqs \ rest
          BY <3>5
        <4>1. /\ Keeps(RemoveRequest(x, q[1], done, peers), x, done, peers)
              /\ Covered(x, left) => Covered(RemoveRequest(x, q[1], done, peers), left \ {q})
          BY RemoveRequestFacts
        <4> QED
          BY <3>2, <3>5, <4>1
      <3>7. Keeps(f[some], l, done, peers)
        BY <3>3, <3>6, KeepsFacts
      <3> QED
        BY <3>3, <3>6, <3>7 DEF P
    <2> QED
      BY <2>1, <2>2
  <1> HIDE DEF m, stop, next, P, D
  <1>7. Descends(D, m, stop, next) /\ HandedOn(D, stop, next, P)
    BY <1>5, <1>6 DEF Descends, HandedOn
  <1>8. D \subseteq P
    BY <1>7, MeasureInduction
  <1>9. gone \in P
    BY <1>8 DEF D
  <1>10. /\ Keeps(f[gone], l, done, peers)
         /\ Covered(l, reqs) => Covered(f[gone], reqs \ gone)
    BY <1>9 DEF P
  <1> QED
    BY <1>2, <1>10

-----------------------------------------------------------------------------
\* The insertion sort.
Shifted(t, k, done, rep) ==
  Move(t, k, k + LowerBound(done, rep, t[k], SubSeq(t, k + 1, Len(t))))
TailAscends(done, rep, t, k) ==
  \A j, n \in DOMAIN t : k < j /\ j < n => ~Before(done, rep, t[n], t[j])

\* Putting into another order twice is putting into another order.
LEMMA ReordersAgain ==
  ASSUME NEW s, NEW t, NEW u, Reorders(t, s), Reorders(u, t)
  PROVE  Reorders(u, s)
  BY DEF Reorders

\* A step of the insertion sort puts the k-th entry into its place among those after it.
LEMMA ShiftedFacts ==
  ASSUME NEW done, NEW rep \in [Piece -> Nat], NEW t \in Seq(Entry), NEW k \in DOMAIN t
  PROVE  /\ Reorders(Shifted(t, k, done, rep), t)
         /\ Shifted(t, k, done, rep) \in Seq(Entry)
         /\ Len(Shifted(t, k, done, rep)) = Len(t)
         /\ TailAscends(done, rep, t, k) => TailAscends(done, rep, Shifted(t, k, done, rep), k - 1)
  <1> DEFINE u == SubSeq(t, k + 1, Len(t))
             n == LowerBound(done, rep, t[k], u)
             v == Shifted(t, k, done, rep)
             w == Inserted(u, n, t[k])
  <1>1. Len(t) \in Nat /\ DOMAIN t = 1 .. Len(t) /\ k \in 1 .. Len(t) /\ t[k] \in Entry
    OBVIOUS
  <1>2. /\ u \in Seq(Entry) /\ Len(u) = Len(t) - k /\ DOMAIN u = 1 .. Len(t) - k
        /\ \A j \in 1 .. Len(t) - k : u[j] = t[k + j]
    <2>1. /\ u \in Seq(Entry) /\ Len(u) = Len(t) - k
          /\ \A j \in 1 .. Len(t) - k : u[j] = t[k + j]
      BY <1>1
    <2> QED
      BY <1>1, <2>1
  <1> HIDE DEF u
  <1>3. /\ n \in 0 .. Len(t) - k
        /\ Ascending(done, rep, u) => Splits(done, rep, t[k], u, n)
    BY <1>1, <1>2, LowerBoundFacts
  <1>4. v = Move(t, k, k + n)
    BY DEF Shifted, u
  <1> HIDE DEF n
  <1>5. k + n \in DOMAIN t /\ k <= k + n
    BY <1>1, <1>3
  <1>6. /\ v \in Seq(Entry) /\ Len(v) = Len(t) /\ Reorders(v, t)
        /\ \A j \in 1 .. Len(t) : v[j] = IF j = k + n THEN t[k]
                                         ELSE IF k <= j /\ j < k + n THEN t[j + 1]
                                         ELSE IF k + n < j /\ j <= k THEN t[j - 1]
                                         ELSE t[j]
    <2> PICK to \in DOMAIN t : to = k + n
      BY <1>5
    <2>1. v = Move(t, k, to)
      BY <1>4
    <2>2. Move(t, k, to) \in Seq(Entry) /\ Len(Move(t, k, to)) = Len(t)
      BY MoveFacts
    <2>3. Moved(Move(t, k, to), t, k, to)
      BY MoveFacts
    <2>4. Reorders(Move(t, k, to), t)
      BY MoveReorders
    <2> QED
      BY <2>1, <2>2, <2>3, <2>4 DEF Moved
  <1> HIDE DEF v
  <1>7. ASSUME TailAscends(done, rep, t, k)
        PROVE  TailAscends(done, rep, v, k - 1)
    <2>1. Ascending(done, rep, u)
      <3> SUFFICES ASSUME NEW i \in 1 .. Len(t) - k, NEW j \in 1 .. Len(t) - k, i < j
                   PROVE  ~Before(done, rep, u[j], u[i])
        BY <1>2 DEF Ascending
      <3>1. k + i \in DOMAIN t /\ k + j \in DOMAIN t /\ k < k + i /\ k + i < k + j
        BY <1>1
      <3>2. ~Before(done, rep, t[k + j], t[k + i])
        BY <1>7, <3>1 DEF TailAscends
      <3> QED
        BY <1>2, <3>2
    <2>2. Ascending(done, rep, w)
      BY <1>1, <1>2, <1>3, <2>1, InsertedAscends
    <2>3. DOMAIN w = 1 .. Len(t) - k + 1
      BY <1>2 DEF Inserted
    <2>4. ASSUME NEW j \in 1 .. Len(t), k <= j
          PROVE  j - k + 1 \in DOMAIN w /\ w[j - k + 1] = v[j]
      <3> DEFINE i == j - k + 1
      <3>1. i \in DOMAIN w /\ i \in 1 .. Len(u) + 1
        BY <1>1, <1>2, <2>3, <2>4
      <3>2. w[i] = IF i <= n THEN u[i] ELSE IF i = n + 1 THEN t[k] ELSE u[i - 1]
        BY <3>1 DEF Inserted
      <3>3. CASE i <= n
        <4>1. k <= j /\ j < k + n /\ i \in 1 .. Len(t) - k /\ k + i = j + 1 /\ j # k + n
          BY <1>1, <1>3, <2>4, <3>3
        <4>2. w[i] = t[j + 1]
          BY <1>2, <3>2, <3>3, <4>1
        <4>3. v[j] = t[j + 1]
          BY <1>6, <4>1
        <4> QED
          BY <3>1, <4>2, <4>3
      <3>4. CASE i = n + 1
        <4>1. j = k + n /\ ~(i <= n)
          BY <1>1, <1>3, <2>4, <3>4
        <4> QED
          BY <1>6, <3>1, <3>2, <3>4, <4>1
      <3>5. CASE i > n + 1
        <4>1. /\ j > k + n /\ ~(i <= n) /\ i # n + 1 /\ i - 1 \in 1 .. Len(t) - k
              /\ k + (i - 1) = j /\ j # k + n /\ ~(j < k + n) /\ ~(j <= k)
          BY <1>1, <1>3, <2>4, <3>5
        <4>2. w[i] = t[j]
          BY <1>2, <3>2, <4>1
        <4>3. v[j] = t[j]
          BY <1>6, <4>1
        <4> QED
          BY <3>1, <4>2, <4>3
      <3>6. i \in Int /\ n \in Int
        BY <1>1, <1>3
      <3>7. i <= n \/ i = n + 1 \/ i > n + 1
        BY <3>6
      <3> QED
        BY <3>3, <3>4, <3>5, <3>7
    <2> HIDE DEF w
    <2> SUFFICES ASSUME NEW i \in 1 .. Len(t), NEW j \in 1 .. Len(t), k - 1 < i, i < j
                 PROVE  ~Before(done, rep, v[j], v[i])
      BY <1>6 DEF TailAscends
    <2>5. k <= i /\ k <= j /\ i - k + 1 < j - k + 1
      BY <1>1
    <2>6. /\ i - k + 1 \in DOMAIN w /\ j - k + 1 \in DOMAIN w
          /\ w[i - k + 1] = v[i] /\ w[j - k + 1] = v[j]
      BY <2>4, <2>5
    <2> QED
      BY <2>2, <2>5, <2>6 DEF Ascending
  <1> QED
    BY <1>6, <1>7 DEF v

Sorting(s, n, rep, f) ==
  f = [k \in 0 .. n |-> IF k = 0 THEN s ELSE Shifted(f[k - 1], n + 1 - k, complete, rep)]

\* The insertion sort ends.
LEMMA SortingExists ==
  ASSUME NEW s \in Seq(Entry), NEW n \in 0 .. Len(s), NEW rep \in [Piece -> Nat]
  PROVE  \E f : Sorting(s, n, rep, f)
  <1> DEFINE D == 0 .. n
             V == {t \in Seq(Entry) : Len(t) = Len(s)}
             m == [k \in D |-> k]
             stop == {0}
             next == [k \in D |-> IF k = 0 THEN 0 ELSE k - 1]
             out == [k \in D |-> s]
             F == [p \in D \X V |-> IF p[1] = 0 THEN p[2]
                                    ELSE Shifted(p[2], n + 1 - p[1], complete, rep)]
  <1>1. m \in [D -> Nat] /\ next \in [D -> D] /\ out \in [D -> V]
        /\ \A k \in D \ stop : m[next[k]] < m[k]
    OBVIOUS
  <1>2. n \in Nat /\ \A k \in D : m[k] <= n
    OBVIOUS
  <1>3. F \in [D \X V -> V]
    <2>1. ASSUME NEW k \in D, NEW t \in V, k # 0
          PROVE  Shifted(t, n + 1 - k, complete, rep) \in V
      <3>1. n + 1 - k \in DOMAIN t /\ t \in Seq(Entry)
        BY <2>1
      <3> QED
        BY <3>1, ShiftedFacts
    <2>2. \A p \in D \X V : p[1] \in D /\ p[2] \in V
      OBVIOUS
    <2> HIDE DEF D, V
    <2> QED
      BY <2>1, <2>2
  <1>4. \A k \in D : out[k] = s /\ (k \in stop <=> k = 0)
                     /\ (k # 0 => next[k] = k - 1)
    OBVIOUS
  <1>5. \A k \in D, t \in V : k # 0 => F[<<k, t>>] = Shifted(t, n + 1 - k, complete, rep)
    OBVIOUS
  <1> HIDE DEF m, stop, next, out, F, D, V
  <1>6. Recursion(D, V, m, stop, next, out, F)
    BY <1>1, <1>2, <1>3 DEF Descends, Recursion
  <1> PICK f : Solution(f, D, V, stop, next, out, F)
    BY <1>6, RecursiveFunction
  <1>7. f \in [D -> V] /\ \A k \in D : f[k] = IF k \in stop THEN out[k] ELSE F[<<k, f[next[k]]>>]
    BY DEF Solution
  <1>8. ASSUME NEW k \in D
        PROVE  f[k] = IF k = 0 THEN s ELSE Shifted(f[k - 1], n + 1 - k, complete, rep)
    <2>1. f[next[k]] \in V
      BY <1>1, <1>7
    <2> PICK t \in V : t = f[next[k]]
      BY <2>1
    <2>2. k # 0 => f[k] = F[<<k, t>>] /\ t = f[k - 1]
      BY <1>4, <1>7
    <2>3. k = 0 => f[k] = s
      BY <1>4, <1>7
    <2> QED
      BY <1>5, <2>2, <2>3
  <1>9. Sorting(s, n, rep, f)
    BY <1>7, <1>8 DEF Sorting, D
  <1> QED
    BY <1>9

\* The first n pieces are put in their places among the others.
LEMMA InsertionSortFacts ==
  ASSUME NEW s \in Seq(Entry), NEW n \in 0 .. Len(s), NEW rep \in [Piece -> Nat]
  PROVE  /\ Reorders(InsertionSort(s, n, rep), s)
         /\ TailAscends(complete, rep, s, n) => Ascending(complete, rep, InsertionSort(s, n, rep))
  <1> DEFINE f0 == CHOOSE f : Sorting(s, n, rep, f)
  <1>1. Sorting(s, n, rep, f0)
    BY SortingExists
  <1>2. InsertionSort(s, n, rep) = f0[n]
    BY DEF InsertionSort, Sorting, Shifted
  <1> PICK f : f = f0
    OBVIOUS
  <1> HIDE DEF f0
  <1> DEFINE D == 0 .. n
             m == [k \in D |-> k]
             stop == {0}
             next == [k \in D |-> IF k = 0 THEN 0 ELSE k - 1]
             P == {k \in D : /\ f[k] \in Seq(Entry) /\ Len(f[k]) = Len(s) /\ Reorders(f[k], s)
                             /\ TailAscends(complete, rep, s, n)
                                  => TailAscends(complete, rep, f[k], n - k)}
  <1>3. \A k \in D : f[k] = IF k = 0 THEN s ELSE Shifted(f[k - 1], n + 1 - k, complete, rep)
    BY <1>1 DEF Sorting
  <1>4. m \in [D -> Nat] /\ next \in [D -> D]
        /\ \A k \in D \ stop : m[next[k]] < m[k]
    OBVIOUS
  <1>5. ASSUME NEW k \in D, k \in stop \/ next[k] \in P
        PROVE  k \in P
    <2>1. CASE k = 0
      <3>1. f[k] = s /\ n - k = n
        BY <1>3, <2>1
      <3>2. Reorders(s, s)
        BY DEF Reorders, Range
      <3> QED
        BY <3>1, <3>2
    <2>2. CASE k # 0
      <3>1. k - 1 \in P
        BY <1>5, <2>2
      <3> PICK t \in Seq(Entry) : t = f[k - 1]
        BY <3>1
      <3>2. /\ Len(t) = Len(s) /\ Reorders(t, s)
            /\ TailAscends(complete, rep, s, n) => TailAscends(complete, rep, t, n - (k - 1))
        BY <3>1
      <3> PICK i : i = n + 1 - k
        OBVIOUS
      <3>3. i \in DOMAIN t /\ i = n - (k - 1) /\ i - 1 = n - k
        BY <3>2, <2>2
      <3>4. f[k] = Shifted(t, i, complete, rep)
        BY <1>3, <2>2
      <3>5. /\ Reorders(f[k], t) /\ f[k] \in Seq(Entry) /\ Len(f[k]) = Len(t)
            /\ TailAscends(complete, rep, t, i) => TailAscends(complete, rep, f[k], i - 1)
        BY <3>3, <3>4, ShiftedFacts
      <3>6. Reorders(f[k], s)
        BY <3>2, <3>5, ReordersAgain
      <3> HIDE DEF P
      <3> QED
        BY <3>2, <3>3, <3>5, <3>6 DEF P
    <2> QED
      BY <2>1, <2>2
  <1> HIDE DEF m, stop, next, P, D
  <1>6. Descends(D, m, stop, next) /\ HandedOn(D, stop, next, P)
    BY <1>4, <1>5 DEF Descends, HandedOn
  <1>7. D \subseteq P
    BY <1>6, MeasureInduction
  <1>8. n \in P /\ n - n = 0
    BY <1>7 DEF D
  <1>9. /\ f[n] \in Seq(Entry) /\ Reorders(f[n], s)
        /\ TailAscends(complete, rep, s, n) => TailAscends(complete, rep, f[n], 0)
    BY <1>8 DEF P
  <1>10. TailAscends(complete, rep, f[n], 0) => Ascending(complete, rep, f[n])
    <2>1. \A j \in DOMAIN f[n] : 0 < j
      BY <1>9
    <2> QED
      BY <2>1 DEF TailAscends, Ascending
  <1> QED
    BY <1>2, <1>9, <1>10

-----------------------------------------------------------------------------
\* The list is rebuilt, loses a piece, or has one re-sorted.
LEMMA ListedFacts ==
  ASSUME NEW l \in List, NEW i
  PROVE  /\ i \in Listed(l) <=> Positions(l, i) # {}
         /\ i \in Listed(l) <=> \E k \in DOMAIN l.pieces : l.pieces[k].index = i
         /\ i \in Listed(l) => i \in Piece
  <1>1. \A k \in DOMAIN l.pieces : l.pieces[k] \in Entry
    BY ListFacts
  <1>2. i \in Listed(l) <=> \E k \in DOMAIN l.pieces : l.pieces[k].index = i
    BY DEF Listed, Range
  <1> QED
    BY <1>1, <1>2 DEF Positions, Entry

\* Only the entries matter to what is listed and covered, their order does not.
LEMMA CoveredFacts ==
  ASSUME NEW l \in List, NEW m \in List, NEW reqs, Range(m.pieces) = Range(l.pieces)
  PROVE  (Covered(l, reqs) => Covered(m, reqs)) /\ Listed(m) = Listed(l)
  BY DEF Covered, Listed

\* A sequence made of a set has every element once.
LEMMA SetToSeqFacts ==
  ASSUME NEW S \in SUBSET Piece
  PROVE  /\ SetToSeq(S) \in [1 .. Cardinality(S) -> S] /\ Cardinality(S) \in Nat
         /\ \A j, k \in 1 .. Cardinality(S) : SetToSeq(S)[j] = SetToSeq(S)[k] => j = k
  <1>1. IsFiniteSet(S)
    BY BlockFacts, FS_Subset
  <1>2. \E f \in [1 .. Cardinality(S) -> S] : IsInjective(f)
    BY <1>1, FS_CardinalityType DEF ExistsBijection, Bijection, Injection
  <1>3. SetToSeq(S) \in [1 .. Cardinality(S) -> S] /\ IsInjective(SetToSeq(S))
    BY <1>2 DEF SetToSeq
  <1> QED
    BY <1>1, <1>3, FS_CardinalityType DEF IsInjective

\* A rebuilt list is sorted, has every incomplete piece, and no count for a piece that
\* was not in the list before.
LEMMA RebuildFacts ==
  ASSUME NEW l \in List, NEW done, NEW peers \in SUBSET Peer
  PROVE  /\ Rebuild(l, done, peers) \in List
         /\ CountsFrom(Rebuild(l, done, peers), l, peers)
         /\ Rebuild(l, done, peers).sort = "weight"
         /\ KeptInOrder(Rebuild(l, done, peers), done)
         /\ \A x \in Range(Rebuild(l, done, peers).pieces) : x.requestCount = 0
  <1> DEFINE S == {i \in Piece : ~IsComplete(done, i)}
             w == SetToSeq(S)
             pieces == [k \in DOMAIN w |-> [index |-> w[k], requestCount |-> 0]]
             l2 == [l EXCEPT !.pieces = pieces]
             m == Rebuild(l, done, peers)
  <1>1. /\ w \in [1 .. Cardinality(S) -> S] /\ Cardinality(S) \in Nat
        /\ \A j, k \in 1 .. Cardinality(S) : w[j] = w[k] => j = k
    <2>1. S \in SUBSET Piece
      OBVIOUS
    <2> HIDE DEF S
    <2> QED
      BY <2>1, SetToSeqFacts
  <1>2. m = SortByWeight(l2, done, peers)
    BY DEF Rebuild
  <1> HIDE DEF w, m
  <1>3. \A k \in 1 .. Cardinality(S) : w[k] \in Piece
    BY <1>1
  <1>4. DOMAIN pieces = 1 .. Cardinality(S)
        /\ \A k \in 1 .. Cardinality(S) : /\ pieces[k] \in Entry
                                          /\ pieces[k].index = w[k]
                                          /\ pieces[k].requestCount = 0
    BY <1>1, <1>3 DEF Entry
  <1>5. pieces \in Pieces
    <2>1. pieces \in [1 .. Cardinality(S) -> Entry]
      BY <1>1, <1>4
    <2>2. pieces \in Seq(Entry)
      BY <1>1, <2>1
    <2> HIDE DEF pieces
    <2>3. Distinct(pieces)
      BY <1>1, <1>4 DEF Distinct
    <2> QED
      BY <2>2, <2>3 DEF Pieces
  <1> HIDE DEF pieces
  <1>6. l2 \in List /\ l2.pieces = pieces /\ l2.rep = l.rep
    BY <1>5 DEF List, ListType
  <1> HIDE DEF l2
  <1>7. SamePieces(m, l2, peers) /\ m.sort = "weight" /\ KeptInOrder(m, done)
    BY <1>2, <1>6, SortFacts
  <1>8. \A x \in Range(m.pieces) : x.requestCount = 0
    BY <1>4, <1>6, <1>7 DEF SamePieces, Range
  <1> QED
    BY <1>6, <1>7, <1>8 DEF SamePieces, CountsFrom, m

\* The others than piece i are in order, if the list is said to be.
OnlyOut(l, i, done) ==
  l.sort = "weight" =>
    \A j, n \in DOMAIN l.pieces :
      (j < n /\ l.pieces[j].index # i /\ l.pieces[n].index # i)
        => ~Before(done, l.rep, l.pieces[n], l.pieces[j])

\* Re-sorting one piece keeps the pieces, and the order if only that piece was out of it.
LEMMA ResortPieceFacts ==
  ASSUME NEW l \in List, NEW i, NEW done, NEW peers \in SUBSET Peer
  PROVE  /\ SamePieces(ResortPiece(l, i, done, peers), l, peers)
         /\ OnlyOut(l, i, done) => KeptInOrder(ResortPiece(l, i, done, peers), done)
  <1> DEFINE m == ResortPiece(l, i, done, peers)
  <1>1. CASE Positions(l, i) = {}
    <2>1. m = l
      BY <1>1 DEF ResortPiece
    <2>2. SamePieces(l, l, peers)
      BY DEF SamePieces, CountsFrom
    <2>3. OnlyOut(l, i, done) => KeptInOrder(l, done)
      <3>1. \A j \in DOMAIN l.pieces : l.pieces[j].index # i
        BY <1>1 DEF Positions
      <3> QED
        BY <3>1 DEF OnlyOut, KeptInOrder, Ascending
    <2> HIDE DEF m
    <2> QED
      BY <2>1, <2>2, <2>3 DEF m
  <1>2. CASE Positions(l, i) # {}
    <2> DEFINE k == CHOOSE k \in Positions(l, i) : TRUE
    <2>1. m = Resort(l, k, done, peers)
      BY <1>2 DEF ResortPiece
    <2>2. k \in DOMAIN l.pieces /\ l.pieces[k].index = i
      <3>1. k \in Positions(l, i)
        BY <1>2
      <3> HIDE DEF k
      <3> QED
        BY <3>1 DEF Positions
    <2> HIDE DEF k, m
    <2>3. OnlyOut(l, i, done) => OthersInOrder(l, k, done)
      <3> SUFFICES ASSUME OnlyOut(l, i, done), l.sort = "weight"
                   PROVE  Ascending(done, l.rep, RemoveAt(l.pieces, k))
        BY DEF OthersInOrder
      <3>1. l.pieces \in Seq(Entry) /\ Distinct(l.pieces)
        BY ListFacts
      <3>2. \A j \in DOMAIN l.pieces : j # k => l.pieces[j].index # i
        BY <2>2, <3>1 DEF Distinct
      <3>3. AscendingBut(done, l.rep, l.pieces, k)
        BY <3>2 DEF OnlyOut, AscendingBut
      <3> QED
        BY <2>2, <3>1, <3>3, WithoutOne
    <2>4. /\ SamePieces(m, l, peers)
          /\ OthersInOrder(l, k, done) => KeptInOrder(m, done)
      BY <2>1, <2>2, ResortFacts
    <2> QED
      BY <2>3, <2>4 DEF m
  <1> QED
    BY <1>1, <1>2

\* Without a piece the list is in order as it was, and the other counts stay.
LEMMA RemovePieceFacts ==
  ASSUME NEW l \in List, NEW i, NEW done, NEW reqs
  PROVE  /\ RemovePiece(l, i) \in List
         /\ RemovePiece(l, i).rep = l.rep /\ RemovePiece(l, i).sort = l.sort
         /\ Listed(RemovePiece(l, i)) = Listed(l) \ {i}
         /\ Covered(l, reqs) => Covered(RemovePiece(l, i), reqs)
         /\ OnlyOut(l, i, done) => KeptInOrder(RemovePiece(l, i), done)
  <1> DEFINE m == RemovePiece(l, i)
             s == l.pieces
  <1>1. /\ s \in Pieces /\ s \in Seq(Entry) /\ Distinct(s)
        /\ Len(s) \in Nat /\ DOMAIN s = 1 .. Len(s)
    BY ListFacts
  <1>2. CASE Positions(l, i) = {}
    <2>1. m = l
      BY <1>2 DEF RemovePiece
    <2>2. i \notin Listed(l)
      BY <1>2, ListedFacts
    <2>3. OnlyOut(l, i, done) => KeptInOrder(l, done)
      <3>1. \A j \in DOMAIN l.pieces : l.pieces[j].index # i
        BY <1>2 DEF Positions
      <3> QED
        BY <3>1 DEF OnlyOut, KeptInOrder, Ascending
    <2>4. Listed(l) \ {i} = Listed(l)
      BY <2>2
    <2> HIDE DEF m
    <2> QED
      BY <2>1, <2>3, <2>4 DEF m
  <1>3. CASE Positions(l, i) # {}
    <2> DEFINE k == CHOOSE k \in Positions(l, i) : TRUE
               t == RemoveAt(s, k)
    <2>1. m = [l EXCEPT !.pieces = t]
      BY <1>3 DEF RemovePiece
    <2>2. k \in DOMAIN s /\ s[k].index = i
      <3>1. k \in Positions(l, i)
        BY <1>3
      <3> HIDE DEF k
      <3> QED
        BY <3>1 DEF Positions
    <2> HIDE DEF k, m
    <2>3. /\ t \in Seq(Entry) /\ Len(t) = Len(s) - 1
          /\ \A j \in 1 .. Len(s) - 1 : t[j] = IF j < k THEN s[j] ELSE s[j + 1]
      BY <1>1, <2>2, RemoveAtFacts
    <2>4. DOMAIN t = 1 .. Len(s) - 1
      BY <1>1, <2>3
    <2> HIDE DEF t
    <2> DEFINE at(j) == IF j < k THEN j ELSE j + 1
    <2>5. \A j \in 1 .. Len(s) - 1 : at(j) \in DOMAIN s /\ at(j) # k /\ t[j] = s[at(j)]
      BY <1>1, <2>2, <2>3
    <2>6. \A j, n \in 1 .. Len(s) - 1 : at(j) = at(n) => j = n
      BY <1>1, <2>2
    <2>7. \A n \in DOMAIN s : n # k => \E j \in 1 .. Len(s) - 1 : n = at(j)
      <3> SUFFICES ASSUME NEW n \in 1 .. Len(s), n # k
                   PROVE  \E j \in 1 .. Len(s) - 1 : n = at(j)
        BY <1>1
      <3>1. CASE n < k
        <4>1. n \in 1 .. Len(s) - 1 /\ n = at(n)
          BY <1>1, <2>2, <3>1
        <4> QED
          BY <4>1
      <3>2. CASE n > k
        <4>1. n - 1 \in 1 .. Len(s) - 1 /\ n = at(n - 1)
          BY <1>1, <2>2, <3>2
        <4> QED
          BY <4>1
      <3> QED
        BY <1>1, <2>2, <3>1, <3>2
    <2> HIDE DEF at
    <2>8. t \in Pieces
      <3>1. Distinct(t)
        BY <1>1, <2>4, <2>5, <2>6 DEF Distinct
      <3> QED
        BY <2>3, <3>1 DEF Pieces
    <2>9. m \in List /\ m.pieces = t /\ m.rep = l.rep /\ m.sort = l.sort
      BY <2>1, <2>8 DEF List, ListType
    <2>10. \A x : x \in Range(t) <=> x \in Range(s) /\ x # s[k]
      <3>1. \A x : x \in Range(t) <=> \E j \in 1 .. Len(s) - 1 : x = t[j]
        BY <2>4 DEF Range
      <3>2. \A x : x \in Range(s) <=> \E n \in DOMAIN s : x = s[n]
        BY DEF Range
      <3>3. \A n \in DOMAIN s : n # k <=> s[n] # s[k]
        BY <1>1, <2>2 DEF Distinct
      <3>4. ASSUME NEW j \in 1 .. Len(s) - 1
            PROVE  t[j] \in Range(s) /\ t[j] # s[k]
        BY <2>5, <3>2, <3>3
      <3>5. ASSUME NEW n \in DOMAIN s, s[n] # s[k]
            PROVE  s[n] \in Range(t)
        <4>1. PICK j \in 1 .. Len(s) - 1 : n = at(j)
          BY <2>7, <3>5
        <4>2. t[j] = s[n]
          BY <2>5, <4>1
        <4> QED
          BY <3>1, <4>2
      <3> QED
        BY <3>1, <3>2, <3>4, <3>5
    <2>11. \A x \in Range(s) : x # s[k] <=> x.index # i
      BY <1>1, <2>2 DEF Distinct, Range
    <2>12. Listed(m) = Listed(l) \ {i}
      BY <2>9, <2>10, <2>11 DEF Listed
    <2>13. Covered(l, reqs) => Covered(m, reqs)
      BY <2>9, <2>10 DEF Covered
    <2>14. OnlyOut(l, i, done) => KeptInOrder(m, done)
      <3> SUFFICES ASSUME OnlyOut(l, i, done), l.sort = "weight"
                   PROVE  Ascending(done, l.rep, t)
        BY <2>9 DEF KeptInOrder
      <3>1. \A j \in DOMAIN s : j # k => s[j].index # i
        BY <1>1, <2>2 DEF Distinct
      <3>2. AscendingBut(done, l.rep, s, k)
        BY <3>1 DEF OnlyOut, AscendingBut
      <3> QED
        BY <1>1, <2>2, <3>2, WithoutOne DEF t
    <2> QED
      BY <2>9, <2>12, <2>13, <2>14 DEF m
  <1> QED
    BY <1>2, <1>3

-----------------------------------------------------------------------------
\* Asking for blocks.
LEMMA ListToAskFacts ==
  ASSUME list \in List, connected \in SUBSET Peer
  PROVE  /\ ListToAsk \in List /\ ListToAsk.sort = "weight"
         /\ CountsFrom(ListToAsk, list, connected)
         /\ KeptInOrder(list, complete) => KeptInOrder(ListToAsk, complete)
         /\ Listed(list) \subseteq Listed(ListToAsk)
         /\ \A reqs \in SUBSET (Block \X Peer) : Covered(list, reqs) => Covered(ListToAsk, reqs)
  <1>1. CASE list.pieces = <<>>
    <2>1. ListToAsk = Rebuild(list, complete, connected)
      BY <1>1 DEF ListToAsk
    <2>2. Listed(list) = {}
      BY <1>1 DEF Listed, Range
    <2>3. /\ ListToAsk \in List /\ ListToAsk.sort = "weight"
          /\ CountsFrom(ListToAsk, list, connected) /\ KeptInOrder(ListToAsk, complete)
          /\ \A x \in Range(ListToAsk.pieces) : x.requestCount = 0
      BY <2>1, RebuildFacts
    <2>4. ASSUME NEW reqs \in SUBSET (Block \X Peer), NEW x \in Range(ListToAsk.pieces)
          PROVE  x.requestCount <= Cardinality(RequestsIn(reqs, x.index))
      <3>1. Cardinality(RequestsIn(reqs, x.index)) \in Nat
        BY RequestsFinite
      <3> QED
        BY <2>3, <3>1
    <2> QED
      BY <2>2, <2>3, <2>4 DEF Covered
  <1>2. CASE list.pieces # <<>> /\ list.sort # "weight"
    <2>1. ListToAsk = SortByWeight(list, complete, connected)
      BY <1>2 DEF ListToAsk
    <2>2. /\ SamePieces(ListToAsk, list, connected) /\ ListToAsk.sort = "weight"
          /\ KeptInOrder(ListToAsk, complete)
      BY <2>1, SortFacts
    <2> QED
      BY <2>2 DEF SamePieces, Covered, Listed
  <1>3. CASE list.pieces # <<>> /\ list.sort = "weight"
    <2>1. ListToAsk = list
      BY <1>3 DEF ListToAsk
    <2> QED
      BY <1>3, <2>1 DEF CountsFrom
  <1> QED
    BY <1>1, <1>2, <1>3

\* Where a piece stands in the list, or zero.
LEMMA PlacesFacts ==
  ASSUME NEW l \in List, NEW i \in Piece
  PROVE  /\ Places(l)[i] \in 0 .. Len(l.pieces)
         /\ i \in Listed(l) => Places(l)[i] \in DOMAIN l.pieces /\ l.pieces[Places(l)[i]].index = i
         /\ i \notin Listed(l) => Places(l)[i] = 0
  <1> DEFINE IsPlace(k) == IF Positions(l, i) = {} THEN k = 0 ELSE k \in Positions(l, i)
             place == CHOOSE k \in 0 .. Len(l.pieces) : IsPlace(k)
  <1>1. Places(l)[i] = place
    BY DEF Places
  <1>2. Len(l.pieces) \in Nat /\ DOMAIN l.pieces = 1 .. Len(l.pieces)
    BY ListFacts
  <1>3. \E k \in 0 .. Len(l.pieces) : IsPlace(k)
    <2>1. CASE Positions(l, i) = {}
      BY <1>2, <2>1
    <2>2. CASE Positions(l, i) # {}
      <3> PICK k \in Positions(l, i) : TRUE
        BY <2>2
      <3>1. k \in 0 .. Len(l.pieces)
        BY <1>2 DEF Positions
      <3> QED
        BY <2>2, <3>1
    <2> QED
      BY <2>1, <2>2
  <1>4. place \in 0 .. Len(l.pieces) /\ IsPlace(place)
    BY <1>3
  <1> HIDE DEF place
  <1>5. i \in Listed(l) <=> Positions(l, i) # {}
    BY ListedFacts
  <1>6. Positions(l, i) # {} => place \in DOMAIN l.pieces /\ l.pieces[place].index = i
    BY <1>4 DEF Positions
  <1> QED
    BY <1>1, <1>4, <1>5, <1>6

\* What is asked is missing, not yet asked of the peer, and of a listed piece.
LEMMA AskedFacts ==
  ASSUME list \in List, connected \in SUBSET Peer, NEW p \in Peer, NEW desired
  PROVE  \A b \in BlocksToAsk(p, desired) :
           /\ b \in Block /\ PieceOf(b) \in Listed(ListToAsk)
           /\ <<b, p>> \notin requests
  <1> SUFFICES ASSUME NEW b \in BlocksToAsk(p, desired)
               PROVE  /\ b \in Block /\ PieceOf(b) \in Listed(ListToAsk)
                      /\ <<b, p>> \notin requests
    OBVIOUS
  <1>1. /\ b \in Block /\ Places(ListToAsk)[PieceOf(b)] > 0
        /\ Askable(p, b, desired, UpdatedEndgame)
    BY DEF BlocksToAsk
  <1>2. PieceOf(b) \in Piece
    BY <1>1, BlockFacts
  <1>3. ListToAsk \in List
    BY ListToAskFacts
  <1>4. PieceOf(b) \in Listed(ListToAsk)
    BY <1>1, <1>2, <1>3, PlacesFacts
  <1>5. <<b, p>> \notin requests
    BY <1>1 DEF Askable, Requesters
  <1> QED
    BY <1>1, <1>4, <1>5

\* The counts go up by what is asked.
LEMMA AskedCounts ==
  ASSUME requests \in SUBSET (Block \X Peer), NEW p \in Peer, NEW asked \in SUBSET Block,
         \A b \in asked : <<b, p>> \notin requests, NEW i
  PROVE  /\ Cardinality(asked \cap BlocksOf(i)) \in Nat
         /\ Cardinality(RequestsIn(requests \cup (asked \X {p}), i))
              = Cardinality(RequestsIn(requests, i)) + Cardinality(asked \cap BlocksOf(i))
  <1> DEFINE A == asked \cap BlocksOf(i)
             new == A \X {p}
             old == RequestsIn(requests, i)
  <1>1. IsFiniteSet(A) /\ Cardinality(A) \in Nat
    <2>1. A \in SUBSET Block
      BY DEF BlocksOf
    <2> QED
      BY <2>1, BlockFacts, FS_Subset, FS_CardinalityType
  <1>2. IsFiniteSet(new) /\ Cardinality(new) = Cardinality(A)
    <2>1. IsFiniteSet({p}) /\ Cardinality({p}) = 1
      BY FS_Singleton
    <2>2. IsFiniteSet(new) /\ Cardinality(new) = Cardinality(A) * Cardinality({p})
      BY <1>1, <2>1, FS_Product
    <2> QED
      BY <1>1, <2>1, <2>2
  <1>3. RequestsIn(requests \cup (asked \X {p}), i) = old \cup new
    BY DEF RequestsIn, BlocksOf
  <1>4. old \cap new = {}
    BY DEF RequestsIn
  <1>5. IsFiniteSet(old) /\ Cardinality(old) \in Nat
    BY RequestsFinite
  <1>6. Cardinality(old \cup new) = Cardinality(old) + Cardinality(new) - 0
    BY <1>2, <1>4, <1>5, FS_Union, FS_EmptySet
  <1> HIDE DEF old, new, A
  <1>7. Cardinality(old \cup new) = Cardinality(old) + Cardinality(A)
    BY <1>1, <1>2, <1>5, <1>6
  <1> QED
    BY <1>1, <1>3, <1>7 DEF old, A

\* Max of a set of numbers that has a bound.
LEMMA MaxFacts ==
  ASSUME NEW n \in Nat, NEW S \in SUBSET (0 .. n), S # {}
  PROVE  Max(S) \in S /\ \A k \in S : k <= Max(S)
  <1> DEFINE T == {n - k : k \in S}
  <1>1. T \in SUBSET Nat /\ T # {}
    <2>1. \A k \in S : n - k \in Nat
      OBVIOUS
    <2> QED
      BY <2>1
  <1>2. PICK i \in T : \A j \in T : i <= j
    BY <1>1, LeastExists
  <1>3. PICK k \in S : i = n - k
    BY <1>2
  <1>4. ASSUME NEW j \in S
        PROVE  k >= j
    <2>1. n - k <= n - j
      BY <1>2, <1>3
    <2> QED
      BY <2>1
  <1>5. \E x \in S : \A y \in S : x >= y
    BY <1>4
  <1>6. Max(S) \in S /\ \A y \in S : Max(S) >= y
    BY <1>5 DEF Max
  <1> QED
    BY <1>6

\* The list after a peer was asked: the counts of the pieces asked for have gone up, and
\* the list is in order, for the entries up to the last one changed were put in place.
LEMMA ListAfterFacts ==
  ASSUME list \in List, connected \in SUBSET Peer, requests \in SUBSET (Block \X Peer),
         NEW p \in Peer, NEW asked \in SUBSET Block, NEW numwant,
         \A b \in asked : PieceOf(b) \in Listed(ListToAsk) /\ <<b, p>> \notin requests
  PROVE  /\ ListAfter(asked, numwant) \in List
         /\ CountsFrom(ListAfter(asked, numwant), list, connected)
         /\ KeptInOrder(list, complete) => KeptInOrder(ListAfter(asked, numwant), complete)
         /\ Listed(list) \subseteq Listed(ListAfter(asked, numwant))
         /\ Listed(ListToAsk) \subseteq Listed(ListAfter(asked, numwant))
         /\ Covered(list, requests)
              => Covered(ListAfter(asked, numwant), requests \cup (asked \X {p}))
  <1> DEFINE l == ListToAsk
             s == l.pieces
             more(i) == Cardinality(asked \cap BlocksOf(i))
             counted == [k \in DOMAIN s |-> [s[k] EXCEPT !.requestCount = @ + more(s[k].index)]]
             after == requests \cup (asked \X {p})
             m == ListAfter(asked, numwant)
  <1>1. /\ l \in List /\ l.sort = "weight" /\ CountsFrom(l, list, connected)
        /\ KeptInOrder(list, complete) => KeptInOrder(l, complete)
        /\ Listed(list) \subseteq Listed(l)
        /\ Covered(list, requests) => Covered(l, requests)
    BY ListToAskFacts
  <1>2. CASE asked = {}
    <2>1. m = l /\ after = requests
      BY <1>2 DEF ListAfter
    <2> HIDE DEF m, l
    <2> QED
      BY <1>1, <2>1 DEF m, l
  <1>3. CASE asked # {}
    <2> DEFINE place == Places(l)
               spots == {place[PieceOf(b)] : b \in asked}
               looked == IF Cardinality(asked) < numwant THEN Len(counted) ELSE Max(spots)
               t == InsertionSort(counted, looked, l.rep)
    <2>1. m = [l EXCEPT !.pieces = t]
      BY <1>3 DEF ListAfter
    <2>2. /\ s \in Pieces /\ s \in Seq(Entry) /\ Distinct(s)
          /\ Len(s) \in Nat /\ DOMAIN s = 1 .. Len(s) /\ l.rep \in [Piece -> Nat]
      BY <1>1, ListFacts
    <2>3. \A i : /\ more(i) \in Nat
                 /\ Cardinality(RequestsIn(after, i)) = Cardinality(RequestsIn(requests, i)) + more(i)
                 /\ Cardinality(RequestsIn(requests, i)) \in Nat
      BY AskedCounts, RequestsFinite
    <2>4. /\ \A b \in asked : PieceOf(b) \in Piece /\ b \in BlocksOf(PieceOf(b))
                              /\ PieceOf(b) \in Listed(l)
          /\ \A i : (\A b \in asked : PieceOf(b) # i) => more(i) = 0
      <3>1. ASSUME NEW i, \A b \in asked : PieceOf(b) # i
            PROVE  more(i) = 0
        <4>1. asked \cap BlocksOf(i) = {}
          BY <3>1 DEF BlocksOf
        <4> QED
          BY <4>1, FS_EmptySet
      <3> QED
        BY <3>1, BlockFacts DEF BlocksOf
    <2> HIDE DEF l, more, m
    <2>5. ASSUME NEW k \in DOMAIN s
          PROVE  /\ s[k] \in Entry /\ counted[k] \in Entry /\ counted[k].index = s[k].index
                 /\ counted[k].requestCount = s[k].requestCount + more(s[k].index)
                 /\ more(s[k].index) = 0 => counted[k] = s[k]
      <3>1. /\ s[k] \in Entry /\ more(s[k].index) \in Nat
            /\ counted[k] = [s[k] EXCEPT !.requestCount = s[k].requestCount + more(s[k].index)]
        BY <2>2, <2>3
      <3> QED
        BY <3>1 DEF Entry
    <2>6. DOMAIN counted = DOMAIN s
      OBVIOUS
    <2> HIDE DEF counted
    <2>7. counted \in Pieces /\ counted \in Seq(Entry) /\ Len(counted) = Len(s)
      <3>1. counted \in [1 .. Len(s) -> Entry]
        <4>1. counted = [k \in 1 .. Len(s) |-> counted[k]]
          BY <2>2, <2>6 DEF counted
        <4> QED
          BY <2>2, <2>5, <4>1
      <3>2. counted \in Seq(Entry) /\ Len(counted) = Len(s)
        BY <2>2, <3>1
      <3>3. Distinct(counted)
        BY <2>2, <2>5, <2>6 DEF Distinct
      <3> QED
        BY <3>2, <3>3 DEF Pieces
    <2>8. ASSUME NEW b \in asked
          PROVE  /\ place[PieceOf(b)] \in 1 .. Len(s)
                 /\ \A k \in DOMAIN s : s[k].index = PieceOf(b) => k = place[PieceOf(b)]
      <3>1. /\ place[PieceOf(b)] \in DOMAIN s /\ s[place[PieceOf(b)]].index = PieceOf(b)
        BY <1>1, <2>4, PlacesFacts
      <3> QED
        BY <2>2, <3>1 DEF Distinct
    <2> HIDE DEF place, s
    <2>9. spots \in SUBSET (0 .. Len(s)) /\ spots # {}
      BY <1>3, <2>2, <2>8
    <2>10. looked \in 0 .. Len(counted) /\ (looked = Len(counted) \/ looked = Max(spots))
      <3>1. Max(spots) \in 0 .. Len(s)
        BY <2>2, <2>9, MaxFacts
      <3> QED
        BY <2>2, <2>7, <3>1
    <2>11. ASSUME KeptInOrder(l, complete)
           PROVE  TailAscends(complete, l.rep, counted, looked)
      <3>1. CASE looked = Len(counted)
        <4>1. \A n \in DOMAIN counted : ~(looked < n)
          BY <2>2, <2>6, <2>7, <3>1
        <4>2. \A j, n \in DOMAIN counted : ~(looked < j /\ j < n)
          BY <4>1
        <4> HIDE DEF looked
        <4> QED
          BY <4>2 DEF TailAscends
      <3>2. CASE looked = Max(spots)
        <4>1. ASSUME NEW k \in DOMAIN s, looked < k
              PROVE  counted[k] = s[k]
          <5>1. ASSUME NEW b \in asked
                PROVE  PieceOf(b) # s[k].index
            <6>1. place[PieceOf(b)] \in spots
              OBVIOUS
            <6> HIDE DEF spots
            <6>2. place[PieceOf(b)] <= looked /\ looked \in 0 .. Len(s)
              BY <2>2, <2>9, <3>2, <6>1, MaxFacts
            <6> HIDE DEF looked
            <6>3. place[PieceOf(b)] # k
              BY <2>2, <2>8, <4>1, <6>2
            <6> QED
              BY <2>8, <6>3
          <5> QED
            BY <2>4, <2>5, <5>1
        <4>2. Ascending(complete, l.rep, s)
          BY <1>1, <2>11 DEF KeptInOrder, s
        <4> HIDE DEF looked
        <4>3. looked \in Nat
          BY <2>2, <2>7, <2>10
        <4>4. ASSUME NEW j \in DOMAIN counted, NEW n \in DOMAIN counted, looked < j, j < n
              PROVE  ~Before(complete, l.rep, counted[n], counted[j])
          <5>1. counted[j] = s[j] /\ counted[n] = s[n]
            BY <2>2, <2>6, <4>1, <4>3, <4>4
          <5> QED
            BY <2>6, <4>2, <4>4, <5>1 DEF Ascending
        <4> QED
          BY <4>4 DEF TailAscends
      <3> HIDE DEF looked
      <3> QED
        BY <2>10, <3>1, <3>2
    <2> HIDE DEF looked
    <2>12. /\ Reorders(t, counted)
           /\ TailAscends(complete, l.rep, counted, looked) => Ascending(complete, l.rep, t)
      BY <2>2, <2>7, <2>10, InsertionSortFacts
    <2> HIDE DEF t
    <2>13. t \in Pieces /\ Range(t) = Range(counted)
      BY <2>7, <2>12, ReorderedPieces
    <2>14. m \in List /\ m.pieces = t /\ m.rep = l.rep /\ m.sort = "weight"
      BY <1>1, <2>1, <2>13 DEF List, ListType
    <2>15. KeptInOrder(l, complete) => KeptInOrder(m, complete)
      BY <2>11, <2>12, <2>14 DEF KeptInOrder
    <2>16. Listed(m) = Listed(l)
      <3>1. \A i : i \in Listed(m) <=> \E k \in DOMAIN s : i = counted[k].index
        BY <2>6, <2>13, <2>14 DEF Listed, Range
      <3>2. \A i : i \in Listed(l) <=> \E k \in DOMAIN s : i = s[k].index
        BY DEF Listed, Range, s
      <3>3. \A i : i \in Listed(m) <=> i \in Listed(l)
        BY <2>5, <3>1, <3>2
      <3> QED
        BY <3>3 DEF Listed
    <2>17. ASSUME Covered(l, requests), NEW x \in Range(m.pieces)
           PROVE  x.requestCount <= Cardinality(RequestsIn(after, x.index))
      <3>1. PICK k \in DOMAIN s : x = counted[k]
        BY <2>6, <2>13, <2>14, <2>17 DEF Range
      <3>2. s[k].requestCount <= Cardinality(RequestsIn(requests, s[k].index))
        BY <2>17 DEF Covered, Range, s
      <3>3. /\ x.index = s[k].index /\ x.requestCount = s[k].requestCount + more(s[k].index)
            /\ s[k].requestCount \in Nat
        BY <2>5, <3>1 DEF Entry
      <3>4. /\ more(s[k].index) \in Nat
            /\ Cardinality(RequestsIn(after, s[k].index))
                 = Cardinality(RequestsIn(requests, s[k].index)) + more(s[k].index)
            /\ Cardinality(RequestsIn(requests, s[k].index)) \in Nat
        BY <2>3
      <3> HIDE DEF after
      <3> QED
        BY <3>2, <3>3, <3>4
    <2>18. Covered(l, requests) => Covered(m, after)
      BY <2>17 DEF Covered
    <2>19. CountsFrom(m, list, connected)
      BY <1>1, <2>14 DEF CountsFrom
    <2> QED
      BY <1>1, <2>14, <2>15, <2>16, <2>18, <2>19 DEF l, m
  <1> QED
    BY <1>2, <1>3

-----------------------------------------------------------------------------
\* stopTorrent's popping of the peers.
Popped(l, p) ==
  RemoveRequests(l, RequestsTo(p) \X {p}, complete, {q \in connected : q < p})
Freed == [list EXCEPT !.rep = NoReplication, !.sort = "unsorted"]
Popping(f) ==
  f = [some \in SUBSET connected |->
         IF some = {} THEN Freed ELSE Popped(f[some \ {Min(some)}], Min(some))]

\* There is a first one among some peers.
LEMMA MinFacts ==
  ASSUME connected \in SUBSET Peer, NEW some \in SUBSET connected
  PROVE  /\ some \ {Min(some)} \in SUBSET connected
         /\ Cardinality(some) \in Nat /\ Cardinality(some) <= Cardinality(connected)
         /\ Cardinality(connected) \in Nat
         /\ some # {} => /\ Cardinality(some \ {Min(some)}) < Cardinality(some)
                         /\ Min(some) \in some /\ Min(some) \in Peer
  <1>1. IsFiniteSet(connected)
    BY PeerAssumption, FS_Subset
  <1>2. IsFiniteSet(some) /\ Cardinality(some) \in Nat /\ Cardinality(some) <= Cardinality(connected)
    BY <1>1, FS_Subset, FS_CardinalityType
  <1>3. ASSUME some # {}
        PROVE  /\ Cardinality(some \ {Min(some)}) < Cardinality(some)
               /\ Min(some) \in some /\ Min(some) \in Peer
    <2>1. \E x \in some : \A y \in some : x =< y
      BY <1>3, LeastExists, PeerAssumption
    <2>2. Min(some) \in some
      BY <2>1 DEF Min
    <2>3. Cardinality(some \ {Min(some)}) = Cardinality(some) - 1
      BY <1>2, <2>2, FS_RemoveElement
    <2> QED
      BY <1>2, <2>2, <2>3
  <1> QED
    BY <1>1, <1>2, <1>3, FS_CardinalityType

\* A peer popped: the counts stay covered without its requests.
LEMMA PoppedFacts ==
  ASSUME NEW l \in List, NEW p \in Peer, connected \in SUBSET Peer,
         NEW reqs \in SUBSET (Block \X Peer)
  PROVE  /\ Popped(l, p) \in List
         /\ Listed(Popped(l, p)) = Listed(l)
         /\ KeptInOrder(l, complete) => KeptInOrder(Popped(l, p), complete)
         /\ Covered(l, reqs) => Covered(Popped(l, p), reqs \ (RequestsTo(p) \X {p}))
  <1> DEFINE left == {q \in connected : q < p}
             gone == RequestsTo(p) \X {p}
  <1>1. left \in SUBSET Peer
    OBVIOUS
  <1>2. gone \in SUBSET (Block \X Peer)
    BY DEF RequestsTo
  <1>3. Popped(l, p) = RemoveRequests(l, gone, complete, left)
    BY DEF Popped
  <1> HIDE DEF left, gone
  <1>4. /\ Keeps(RemoveRequests(l, gone, complete, left), l, complete, left)
        /\ Covered(l, reqs) => Covered(RemoveRequests(l, gone, complete, left), reqs \ gone)
    <2> PICK peers \in SUBSET Peer : peers = left
      BY <1>1
    <2> PICK some \in SUBSET (Block \X Peer) : some = gone
      BY <1>2
    <2>1. /\ Keeps(RemoveRequests(l, some, complete, peers), l, complete, peers)
          /\ Covered(l, reqs) => Covered(RemoveRequests(l, some, complete, peers), reqs \ some)
      BY RemoveRequestsFacts
    <2> QED
      BY <2>1
  <1> QED
    BY <1>3, <1>4 DEF Keeps, gone

\* The loop over the peers ends.
LEMMA PoppingExists ==
  ASSUME list \in List, connected \in SUBSET Peer
  PROVE  \E f : Popping(f)
  <1> DEFINE D == SUBSET connected
             m == [some \in D |-> Cardinality(some)]
             stop == {{}}
             next == [some \in D |-> some \ {Min(some)}]
             out == [some \in D |-> Freed]
             F == [x \in D \X List |-> IF x[1] = {} THEN x[2] ELSE Popped(x[2], Min(x[1]))]
  <1>1. \A some \in D : /\ some \ {Min(some)} \in D
                        /\ Cardinality(some) \in Nat /\ Cardinality(some) <= Cardinality(connected)
                        /\ Cardinality(connected) \in Nat
                        /\ some # {} => /\ Cardinality(some \ {Min(some)}) < Cardinality(some)
                                        /\ Min(some) \in Peer
    BY MinFacts
  <1>2. Freed \in List
    BY DEF Freed, List, ListType
  <1>3. m \in [D -> Nat] /\ out \in [D -> List] /\ next \in [D -> D]
    BY <1>1, <1>2
  <1>4. \A some \in D \ stop : m[next[some]] < m[some]
    BY <1>1
  <1>5. Cardinality(connected) \in Nat /\ \A some \in D : m[some] <= Cardinality(connected)
    BY <1>1
  <1>6. F \in [D \X List -> List]
    <2>1. ASSUME NEW some \in D, NEW x \in List, some # {}
          PROVE  Popped(x, Min(some)) \in List
      <3> PICK p \in Peer : p = Min(some)
        BY <1>1, <2>1
      <3>1. {} \in SUBSET (Block \X Peer)
        OBVIOUS
      <3>2. Popped(x, p) \in List
        BY <3>1, PoppedFacts
      <3> QED
        BY <3>2
    <2>2. \A x \in D \X List : x[1] \in D /\ x[2] \in List
      OBVIOUS
    <2> HIDE DEF D
    <2> QED
      BY <2>1, <2>2
  <1>7. \A some \in D : out[some] = Freed /\ next[some] = some \ {Min(some)}
                        /\ (some \in stop <=> some = {})
    OBVIOUS
  <1>8. \A some \in D, x \in List : some # {} => F[<<some, x>>] = Popped(x, Min(some))
    OBVIOUS
  <1> HIDE DEF m, stop, next, out, F, D
  <1>9. Recursion(D, List, m, stop, next, out, F)
    BY <1>3, <1>4, <1>5, <1>6 DEF Descends, Recursion
  <1> PICK f : Solution(f, D, List, stop, next, out, F)
    BY <1>9, RecursiveFunction
  <1>10. f \in [D -> List] /\ \A some \in D : f[some] = IF some \in stop THEN out[some]
                                                        ELSE F[<<some, f[next[some]]>>]
    BY DEF Solution
  <1>11. ASSUME NEW some \in D
         PROVE  f[some] = IF some = {} THEN Freed ELSE Popped(f[some \ {Min(some)}], Min(some))
    <2>1. f[next[some]] \in List /\ next[some] = some \ {Min(some)}
      BY <1>3, <1>7, <1>10
    <2> PICK x \in List : x = f[next[some]]
      BY <2>1
    <2>2. some # {} => f[some] = F[<<some, x>>]
      BY <1>7, <1>10
    <2>3. some = {} => f[some] = Freed
      BY <1>7, <1>10
    <2> QED
      BY <1>8, <2>1, <2>2, <2>3
  <1>12. Popping(f)
    BY <1>10, <1>11 DEF Popping, D
  <1> QED
    BY <1>12

\* The list that stopTorrent leaves behind.
LEMMA StoppedFacts ==
  ASSUME list \in List, connected \in SUBSET Peer, requests \in SUBSET (Block \X Peer), StopTorrent
  PROVE  /\ list' \in List
         /\ KeptInOrder(list', complete)
         /\ Covered(list, requests) => Covered(list', {r \in requests : r[2] \notin connected})
  <1> DEFINE f0 == CHOOSE f : Popping(f)
             Left(some) == {r \in requests : r[2] \notin some}
  <1>1. Popping(f0)
    BY PoppingExists
  <1>2. list' = f0[connected]
    BY DEF StopTorrent, Popping, Popped, Freed
  <1> PICK f : f = f0
    OBVIOUS
  <1> HIDE DEF f0
  <1> DEFINE D == SUBSET connected
             m == [some \in D |-> Cardinality(some)]
             stop == {{}}
             next == [some \in D |-> some \ {Min(some)}]
             P == {some \in D : /\ f[some] \in List
                                /\ KeptInOrder(f[some], complete)
                                /\ Covered(list, requests) => Covered(f[some], Left(some))}
  <1>3. \A some \in D : /\ some \ {Min(some)} \in D
                        /\ Cardinality(some) \in Nat
                        /\ some # {} => /\ Cardinality(some \ {Min(some)}) < Cardinality(some)
                                        /\ Min(some) \in some /\ Min(some) \in Peer
    BY MinFacts
  <1>4. \A some \in D : f[some] = IF some = {} THEN Freed
                                  ELSE Popped(f[some \ {Min(some)}], Min(some))
    BY <1>1 DEF Popping
  <1>5. m \in [D -> Nat] /\ next \in [D -> D] /\ \A some \in D \ stop : m[next[some]] < m[some]
    BY <1>3
  <1>6. ASSUME NEW some \in D, some \in stop \/ next[some] \in P
        PROVE  some \in P
    <2>1. CASE some = {}
      <3>1. f[some] = Freed /\ Left(some) = requests
        BY <1>4, <2>1
      <3>2. Freed \in List /\ Freed.sort # "weight" /\ Freed.pieces = list.pieces
        BY DEF Freed, List, ListType
      <3>3. KeptInOrder(Freed, complete)
        BY <3>2 DEF KeptInOrder
      <3>4. Covered(list, requests) => Covered(Freed, requests)
        BY <3>2 DEF Covered
      <3> HIDE DEF Left
      <3> QED
        BY <3>1, <3>2, <3>3, <3>4
    <2>2. CASE some # {}
      <3> DEFINE rest == some \ {Min(some)}
      <3>1. rest \in P /\ rest \in D
        BY <1>6, <2>2
      <3> PICK p \in Peer : p = Min(some)
        BY <1>3, <2>2
      <3>2. f[rest] \in List
        BY <3>1
      <3> PICK x \in List : x = f[rest]
        BY <3>2
      <3>3. f[some] = Popped(x, p)
        BY <1>4, <2>2
      <3>4. KeptInOrder(x, complete) /\ (Covered(list, requests) => Covered(x, Left(rest)))
        BY <3>1
      <3>5. Left(rest) \in SUBSET (Block \X Peer)
        OBVIOUS
      <3>6. Left(rest) \ (RequestsTo(p) \X {p}) = Left(some)
        <4>1. p \in some
          BY <1>3, <2>2
        <4>2. \A r \in requests : r \in RequestsTo(p) \X {p} <=> r[2] = p
          BY DEF RequestsTo
        <4> QED
          BY <4>1, <4>2
      <3> HIDE DEF rest, P, Left
      <3>7. /\ Popped(x, p) \in List
            /\ KeptInOrder(x, complete) => KeptInOrder(Popped(x, p), complete)
            /\ Covered(x, Left(rest)) => Covered(Popped(x, p), Left(rest) \ (RequestsTo(p) \X {p}))
        BY <3>5, PoppedFacts
      <3> QED
        BY <3>3, <3>4, <3>6, <3>7 DEF P
    <2> QED
      BY <2>1, <2>2
  <1> HIDE DEF m, stop, next, P, D
  <1>7. Descends(D, m, stop, next) /\ HandedOn(D, stop, next, P)
    BY <1>5, <1>6 DEF Descends, HandedOn
  <1>8. D \subseteq P
    BY <1>7, MeasureInduction
  <1>9. connected \in P
    BY <1>8 DEF D
  <1> QED
    BY <1>2, <1>9 DEF P
=============================================================================
