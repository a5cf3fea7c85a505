---------------------------- MODULE SequenceLemmas ----------------------------
(***************************************************************************)
(* Facts about sequences, and about what is computed along them, that the  *)
(* proofs of several components rest on.                                   *)
(*                                                                         *)
(* A fold is a recursive function on the sets of positions, which takes    *)
(* the greatest first.  That there is such a function, and that two of     *)
(* them agree where their steps do, is shown here for a step given as a    *)
(* function; a fold with an operator is then an instance.                  *)
(***************************************************************************)
EXTENDS Integers, SequencesExt, SequenceTheorems, WellFoundedInduction, TLAPS

-----------------------------------------------------------------------------
(* Least and greatest numbers.                                             *)

LEMMA LeastExists ==
  ASSUME NEW S, S \subseteq Nat, S # {}
  PROVE  \E x \in S : \A y \in S : x <= y
<1>1. PICK x \in S : \A y \in S : ~(<<y, x>> \in OpToRel(<, Nat))
  BY NatLessThanWellFounded, WFMin, Zenon
<1>2. \A y \in S : ~(y < x)
  BY <1>1 DEF OpToRel
<1> QED
  BY <1>2

LEMMA MaxIsGreatest ==
  ASSUME NEW n \in Nat, NEW S, S \subseteq 1..n, S # {}
  PROVE  Max(S) \in S /\ \A y \in S : y <= Max(S)
<1> DEFINE T == {n - v : v \in S}
<1>1. T \subseteq Nat /\ T # {}
  <2>1. \A v \in S : n - v \in Nat
    OBVIOUS
  <2> QED
    BY <2>1
<1>2. PICK x \in T : \A y \in T : x <= y
  BY <1>1, LeastExists, Zenon
<1>3. PICK u \in S : x = n - u
  BY <1>2
<1>4. \A v \in S : n - u <= n - v
  BY <1>2, <1>3
<1>5. \A v \in S : u >= v
  BY <1>4
<1>6. Max(S) \in S /\ \A v \in S : Max(S) >= v
  BY <1>5 DEF Max
<1> QED
  BY <1>6

LEMMA MaxOfInterval ==
  ASSUME NEW n \in Nat
  PROVE  Max(1..n+1) = n + 1 /\ (1..n+1) \ {n + 1} = 1..n
<1>1. n + 1 \in Nat /\ n + 1 \in 1..n+1 /\ 1..n+1 \subseteq 1..n+1
  OBVIOUS
<1>2. Max(1..n+1) \in 1..n+1 /\ \A y \in 1..n+1 : y <= Max(1..n+1)
  BY <1>1, MaxIsGreatest
<1> QED
  BY <1>1, <1>2

-----------------------------------------------------------------------------
(* Folds.                                                                  *)

\* What a fold's function satisfies on the sets of positions up to n.
Iterates(iter, n, base, step) ==
  \A s \in SUBSET (1..n) :
    iter[s] = IF s = {} THEN base ELSE step[Max(s)][iter[s \ {Max(s)}]]

LEMMA IterationExists ==
  ASSUME NEW N \in Nat, NEW A, NEW base \in A, NEW step \in [1..N -> [A -> A]]
  PROVE  \E iter \in [SUBSET (1..N) -> A] : Iterates(iter, N, base, step)
<1> DEFINE Has(n) == \E iter \in [SUBSET (1..n) -> A] : Iterates(iter, n, base, step)
<1>1. Has(0)
  <2>1. [s \in SUBSET (1..0) |-> base] \in [SUBSET (1..0) -> A]
    OBVIOUS
  <2>2. Iterates([s \in SUBSET (1..0) |-> base], 0, base, step)
    BY DEF Iterates
  <2> QED
    BY <2>1, <2>2
<1>2. ASSUME NEW n \in Nat, n + 1 <= N, Has(n)
      PROVE  Has(n + 1)
  <2>1. PICK iter \in [SUBSET (1..n) -> A] : Iterates(iter, n, base, step)
    BY <1>2
  <2> DEFINE more == [s \in SUBSET (1..n+1) |->
                        IF n + 1 \in s THEN step[n + 1][iter[s \ {n + 1}]] ELSE iter[s]]
  <2>2. ASSUME NEW s \in SUBSET (1..n+1)
        PROVE  /\ more[s] \in A
               /\ more[s] = IF s = {} THEN base ELSE step[Max(s)][more[s \ {Max(s)}]]
    <3>1. CASE n + 1 \in s
      <4>1. Max(s) = n + 1
        <5>1. Max(s) \in s /\ \A y \in s : y <= Max(s)
          <6>1. n + 1 \in Nat /\ s \subseteq 1..n+1 /\ s # {}
            BY <3>1
          <6> QED
            BY <6>1, MaxIsGreatest
        <5>2. Max(s) \in 1..n+1 /\ n + 1 <= Max(s)
          BY <3>1, <5>1
        <5> QED
          BY <5>2
      <4>2. s \ {n + 1} \in SUBSET (1..n) /\ s \ {n + 1} \in SUBSET (1..n+1)
        OBVIOUS
      <4>3. more[s \ {n + 1}] = iter[s \ {n + 1}] /\ iter[s \ {n + 1}] \in A
        BY <4>2
      <4>4. more[s] = step[n + 1][iter[s \ {n + 1}]]
        BY <3>1
      <4>5. step[n + 1] \in [A -> A]
        BY <1>2
      <4> QED
        BY <3>1, <4>1, <4>3, <4>4, <4>5
    <3>2. CASE n + 1 \notin s
      <4>1. s \in SUBSET (1..n) /\ more[s] = iter[s]
        BY <3>2
      <4>2. CASE s = {}
        BY <2>1, <4>1, <4>2 DEF Iterates
      <4>3. CASE s # {}
        <5>1. Max(s) \in s
          BY <4>1, <4>3, MaxIsGreatest
        <5>2. s \ {Max(s)} \in SUBSET (1..n) /\ s \ {Max(s)} \in SUBSET (1..n+1)
              /\ n + 1 \notin s \ {Max(s)}
          BY <3>2, <4>1
        <5>3. more[s \ {Max(s)}] = iter[s \ {Max(s)}]
          BY <5>2
        <5> QED
          BY <2>1, <4>1, <4>3, <5>3 DEF Iterates
      <4> QED
        BY <4>2, <4>3
    <3> QED
      BY <3>1, <3>2
  <2>3. more \in [SUBSET (1..n+1) -> A]
    BY <2>2
  <2>4. Iterates(more, n + 1, base, step)
    BY <2>2 DEF Iterates
  <2> QED
    BY <2>3, <2>4
<1> DEFINE S == {n \in 0..N : ~Has(n)}
<1>3. SUFFICES ASSUME ~Has(N)
               PROVE  FALSE
  OBVIOUS
<1> HIDE DEF Has
<1>4. S \subseteq Nat /\ S # {}
  BY <1>3
<1>5. PICK m \in S : \A y \in S : m <= y
  BY <1>4, LeastExists, Zenon
<1>6. m # 0 /\ m \in 0..N /\ ~Has(m)
  BY <1>1, <1>5
<1>7. m - 1 \in 0..N /\ m - 1 \notin S /\ (m - 1) + 1 = m
  BY <1>5, <1>6
<1>8. Has(m - 1)
  BY <1>7
<1> QED
  BY <1>2, <1>6, <1>7, <1>8

\* Two folds agree as far as their steps do.
LEMMA IterationsAgree ==
  ASSUME NEW m \in Nat, NEW N \in Nat, NEW L \in Nat, m <= N, m <= L,
         NEW A, NEW base \in A, NEW step, NEW other, NEW iter, NEW that,
         \A i \in 1..m : \A a \in A : step[i][a] \in A /\ other[i][a] = step[i][a],
         Iterates(iter, N, base, step), Iterates(that, L, base, other)
  PROVE  iter[1..m] = that[1..m] /\ iter[1..m] \in A
<1> DEFINE Agree(k) == iter[1..k] = that[1..k] /\ iter[1..k] \in A
<1>1. Agree(0)
  <2>1. 1..0 = {} /\ {} \in SUBSET (1..N) /\ {} \in SUBSET (1..L)
    OBVIOUS
  <2> QED
    BY <2>1 DEF Iterates
<1>2. ASSUME NEW k \in Nat, k + 1 <= m, Agree(k)
      PROVE  Agree(k + 1)
  <2>1. Max(1..k+1) = k + 1 /\ (1..k+1) \ {k + 1} = 1..k
    BY MaxOfInterval
  <2>2. k + 1 \in 1..k+1 /\ k + 1 \in 1..m
        /\ \A i \in 1..k+1 : i \in 1..N /\ i \in 1..L
    BY <1>2
  <2> DEFINE all == 1..k+1
  <2>3. all # {} /\ all \in SUBSET (1..N) /\ all \in SUBSET (1..L)
    BY <2>2
  <2>4. Max(all) = k + 1 /\ all \ {k + 1} = 1..k
    BY <2>1
  <2> HIDE DEF all
  <2>5. iter[all] = step[k + 1][iter[1..k]] /\ that[all] = other[k + 1][that[1..k]]
    BY <2>3, <2>4 DEF Iterates
  <2>6. iter[all] = that[all] /\ iter[all] \in A
    BY <1>2, <2>2, <2>5
  <2> QED
    BY <2>6 DEF all
<1> DEFINE S == {k \in 0..m : ~Agree(k)}
<1>3. SUFFICES ASSUME ~Agree(m)
               PROVE  FALSE
  OBVIOUS
<1> HIDE DEF Agree
<1>4. S \subseteq Nat /\ S # {}
  BY <1>3
<1>5. PICK k \in S : \A y \in S : k <= y
  BY <1>4, LeastExists, Zenon
<1>6. k # 0 /\ k \in 0..m /\ ~Agree(k)
  BY <1>1, <1>5
<1>7. k - 1 \in 0..m /\ k - 1 \notin S /\ (k - 1) + 1 = k
  BY <1>5, <1>6
<1>8. Agree(k - 1)
  BY <1>7
<1> QED
  BY <1>2, <1>6, <1>7, <1>8

-----------------------------------------------------------------------------
(* Short sequences, and the sets of what sequences hold.                   *)

\* There is nothing to remove from an empty sequence.
LEMMA NoneInside ==
  \A s : RemoveFirst(<<>>, s) = <<>>
  BY DEF RemoveFirst

\* From a sequence of one, that one or nothing is removed.
LEMMA OneRemoved ==
  ASSUME NEW x, NEW s
  PROVE  RemoveFirst(<<x>>, s) = IF x = s THEN <<>> ELSE <<x>>
<1> DEFINE one == <<x>>
<1>0. Len(one) = 1 /\ one[1] = x /\ 1..1 = {1}
  OBVIOUS
<1>1. CASE x # s
  <2>1. ~ \E i \in 1..Len(one) : one[i] = s
    BY <1>0, <1>1
  <2> QED
    BY <1>1, <2>1 DEF RemoveFirst
<1>2. CASE x = s
  <2> DEFINE at == {i \in 1..Len(<<x>>) : <<x>>[i] = s}
  <2>1. at = {1}
    BY <1>2
  <2>2. Min(at) = 1
    BY <2>1 DEF Min
  <2>3. SelectInSeq(<<x>>, LAMBDA v : v = s) = 1
    BY <2>1, <2>2 DEF SelectInSeq
  <2>4. RemoveFirst(<<x>>, s) = RemoveAt(<<x>>, 1)
    BY <1>2, <2>3 DEF RemoveFirst
  <2>5. RemoveAt(<<x>>, 1) = <<>>
    BY DEF RemoveAt
  <2> QED
    BY <1>2, <2>4, <2>5
<1> QED
  BY <1>1, <1>2

\* Short sequences put together.
LEMMA OneAndOne ==
  ASSUME NEW y
  PROVE  <<>> \o <<y>> = <<y>> /\ \A x : <<x>> \o <<y>> = <<x, y>>
<1> SUFFICES ASSUME NEW x
             PROVE  <<>> \o <<y>> = <<y>> /\ <<x>> \o <<y>> = <<x, y>>
  OBVIOUS
<1>1. <<y>> \in Seq({x, y}) /\ <<x>> \in Seq({x, y}) /\ <<x, y>> \in Seq({x, y})
  OBVIOUS
<1>2. <<>> \o <<y>> = <<y>>
  BY <1>1, ConcatEmptySeq
<1>3. <<x>> \o <<y>> = <<x, y>>
  <2>1. Len(<<x>> \o <<y>>) = 2 /\ (<<x>> \o <<y>>)[1] = x /\ (<<x>> \o <<y>>)[2] = y
        /\ <<x>> \o <<y>> \in Seq({x, y})
    BY <1>1, ConcatProperties
  <2>2. Len(<<x, y>>) = 2 /\ <<x, y>>[1] = x /\ <<x, y>>[2] = y /\ \A i \in 1..2 : i = 1 \/ i = 2
    OBVIOUS
  <2> DEFINE s == <<x>> \o <<y>>
             t == <<x, y>>
  <2>3. s \in Seq({x, y}) /\ t \in Seq({x, y}) /\ Len(s) = Len(t) /\ \A i \in 1..Len(s) : s[i] = t[i]
    BY <1>1, <2>1, <2>2
  <2> HIDE DEF s, t
  <2>4. s = t
    BY <2>3, SeqEqual
  <2> QED
    BY <2>4 DEF s, t
<1> QED
  BY <1>2, <1>3

\* What a concatenation holds, and when it holds it once.
LEMMA ToSetOfConcat ==
  ASSUME NEW S, NEW s \in Seq(S), NEW t \in Seq(S)
  PROVE  /\ s \o t \in Seq(S)
         /\ ToSet(s \o t) = ToSet(s) \cup ToSet(t)
         /\ IsInjective(s) /\ IsInjective(t) /\ ToSet(s) \cap ToSet(t) = {} => IsInjective(s \o t)
<1>1. /\ s \o t \in Seq(S) /\ Len(s) \in Nat /\ Len(t) \in Nat /\ Len(s \o t) = Len(s) + Len(t)
      /\ \A i \in 1..Len(s)+Len(t) : (s \o t)[i] = IF i <= Len(s) THEN s[i] ELSE t[i - Len(s)]
      /\ DOMAIN (s \o t) = 1..Len(s)+Len(t) /\ DOMAIN s = 1..Len(s) /\ DOMAIN t = 1..Len(t)
  BY ConcatProperties, LenProperties
<1> DEFINE c == s \o t
<1>2. \A i \in DOMAIN s : i \in DOMAIN c /\ c[i] = s[i]
  BY <1>1
<1>3. \A i \in DOMAIN t : i + Len(s) \in DOMAIN c /\ c[i + Len(s)] = t[i]
  <2> TAKE i \in DOMAIN t
  <2>1. i + Len(s) \in 1..Len(s)+Len(t) /\ ~(i + Len(s) <= Len(s)) /\ (i + Len(s)) - Len(s) = i
    BY <1>1
  <2> QED
    BY <1>1, <2>1
<1>4. \A i \in DOMAIN c : \/ i \in DOMAIN s /\ c[i] = s[i]
                          \/ i - Len(s) \in DOMAIN t /\ c[i] = t[i - Len(s)]
  <2> TAKE i \in DOMAIN c
  <2>1. CASE i <= Len(s)
    BY <1>1, <2>1
  <2>2. CASE ~(i <= Len(s))
    <3>1. i - Len(s) \in 1..Len(t)
      BY <1>1, <2>2
    <3> QED
      BY <1>1, <2>2, <3>1
  <2> QED
    BY <2>1, <2>2
<1> HIDE DEF c
<1>5. ToSet(c) = ToSet(s) \cup ToSet(t)
  <2>1. ToSet(c) \subseteq ToSet(s) \cup ToSet(t)
    BY <1>4 DEF ToSet
  <2>2. ToSet(s) \subseteq ToSet(c)
    BY <1>2 DEF ToSet
  <2>3. ToSet(t) \subseteq ToSet(c)
    BY <1>3 DEF ToSet
  <2> QED
    BY <2>1, <2>2, <2>3
<1>6. ASSUME IsInjective(s), IsInjective(t), ToSet(s) \cap ToSet(t) = {}
      PROVE  IsInjective(c)
  <2>1. \A i \in DOMAIN s, j \in DOMAIN t : s[i] # t[j]
    BY <1>6 DEF ToSet
  <2>2. ASSUME NEW i \in DOMAIN c, NEW j \in DOMAIN c, c[i] = c[j]
        PROVE  i = j
    <3>0. i \in Int /\ j \in Int /\ Len(s) \in Int
      BY <1>1 DEF c
    <3>1. CASE i \in DOMAIN s /\ c[i] = s[i] /\ j \in DOMAIN s /\ c[j] = s[j]
      BY <1>6, <2>2, <3>1 DEF IsInjective
    <3>2. CASE i - Len(s) \in DOMAIN t /\ c[i] = t[i - Len(s)] /\ j - Len(s) \in DOMAIN t /\ c[j] = t[j - Len(s)]
      <4>1. i - Len(s) = j - Len(s)
        BY <1>6, <2>2, <3>2 DEF IsInjective
      <4> QED
        BY <3>0, <4>1
    <3> QED
      BY <1>4, <2>1, <2>2, <3>1, <3>2
  <2> QED
    BY <2>2 DEF IsInjective
<1> QED
  BY <1>1, <1>5, <1>6 DEF c

\* The same of none and of one element; a push is a concatenation.
LEMMA ToSetOfOne ==
  ASSUME NEW S, NEW s \in Seq(S), NEW e \in S
  PROVE  /\ <<e>> \in Seq(S) /\ ToSet(<<e>>) = {e} /\ IsInjective(<<e>>)
         /\ Append(s, e) = s \o <<e>>
         /\ ToSet(<<>>) = {} /\ IsInjective(<<>>) /\ <<>> \in Seq(S)
<1> DEFINE one == <<e>>
<1>1. DOMAIN one = {1} /\ one[1] = e /\ one \in Seq(S)
  OBVIOUS
<1> HIDE DEF one
<1>2. ToSet(one) = {e} /\ IsInjective(one)
  BY <1>1 DEF ToSet, IsInjective
<1>3. ToSet(<<>>) = {} /\ IsInjective(<<>>) /\ <<>> \in Seq(S)
  BY DEF ToSet, IsInjective
<1>4. Append(s, e) = s \o <<e>>
  BY AppendIsConcat
<1> QED
  BY <1>1, <1>2, <1>3, <1>4 DEF one

\* A sequence without one of its elements: those behind it move up.
LEMMA RemovedAt ==
  ASSUME NEW S, NEW s \in Seq(S), NEW k \in 1..Len(s)
  PROVE  /\ RemoveAt(s, k) \in Seq(S) /\ Len(RemoveAt(s, k)) = Len(s) - 1
         /\ \A i \in 1..(Len(s) - 1) : RemoveAt(s, k)[i] = s[IF i < k THEN i ELSE i + 1]
<1> DEFINE n == Len(s)
           a == SubSeq(s, 1, k - 1)
           b == SubSeq(s, k + 1, n)
<1>1. /\ a \in Seq(S) /\ Len(a) = k - 1
      /\ \A i \in 1..(k - 1) : a[i] = s[i]
  OBVIOUS
<1>2. /\ b \in Seq(S) /\ Len(b) = n - k
      /\ \A i \in 1..(n - k) : b[i] = s[k + i]
  OBVIOUS
<1>3. RemoveAt(s, k) = a \o b
  BY DEF RemoveAt
<1> HIDE DEF a, b
<1>4. n \in Nat /\ k \in 1..n
  OBVIOUS
<1> HIDE DEF n
<1>5. /\ a \o b \in Seq(S) /\ Len(a \o b) = Len(a) + Len(b)
      /\ \A i \in 1..(Len(a) + Len(b)) :
           (a \o b)[i] = IF i <= Len(a) THEN a[i] ELSE b[i - Len(a)]
  BY <1>1, <1>2, ConcatProperties
<1>6. Len(a) + Len(b) = n - 1
  BY <1>1, <1>2, <1>4
<1>7. ASSUME NEW i \in 1..(n - 1)
      PROVE  (a \o b)[i] = s[IF i < k THEN i ELSE i + 1]
  <2>1. CASE i < k
    <3>1. i \in 1..(k - 1) /\ i <= Len(a)
      BY <1>1, <1>4, <2>1
    <3> QED
      BY <1>1, <1>5, <1>6, <2>1, <3>1
  <2>2. CASE ~(i < k)
    <3>1. i - (k - 1) \in 1..(n - k) /\ k + (i - (k - 1)) = i + 1 /\ ~(i <= k - 1)
      BY <1>4, <2>2
    <3> QED
      BY <1>1, <1>2, <1>5, <1>6, <2>2, <3>1
  <2> QED
    BY <2>1, <2>2
<1> QED
  BY <1>3, <1>5, <1>6, <1>7 DEF n

=============================================================================
