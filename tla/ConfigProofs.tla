---------------------------- MODULE ConfigProofs ----------------------------
(***************************************************************************)
(* What the two loops of Config over a list of domains compute, for every  *)
(* list.                                                                   *)
(***************************************************************************)
EXTENDS Config, FiniteSetTheorems, TLAPS

\* A set of numbers that is not empty has a least one.
LEMMA Least ==
  ASSUME NEW T, T \subseteq Nat, NEW k \in T
  PROVE  \E n \in T : \A m \in T : n <= m
<1>. DEFINE Below == {n \in T : n <= k}
            Segments == {1..n : n \in Below}
            All == FiniteSubsetsOf(1..k)
            R == StrictSubsetOrdering(1..k)
<1>1. IsWellFoundedOn(R, All)
  BY FS_StrictSubsetOrderingWellFounded
<1>2. \A n \in Below : 1..n \subseteq 1..k /\ IsFiniteSet(1..n)
  BY FS_Interval
<1>3. Segments \subseteq All
  BY <1>2 DEF FiniteSubsetsOf
<1>4. Segments # {}
  <2>. k \in Below
    OBVIOUS
  <2>. QED OBVIOUS
<1>5. \E x \in Segments : \A y \in Segments : ~(<<y, x>> \in R)
  <2>. HIDE DEF R, All, Segments
  <2>. QED
  BY <1>1, <1>3, <1>4, WFMin
<1>6. PICK n \in Below : \A m \in Below : ~(<<1..m, 1..n>> \in R)
  BY <1>5
<1>7. \A m \in Below : n <= m
  <2>. SUFFICES ASSUME NEW m \in Below, m < n PROVE FALSE
    OBVIOUS
  <2>1. 1..m \subseteq 1..n /\ n \in 1..n /\ n \notin 1..m
    OBVIOUS
  <2>2. <<1..m, 1..n>> \in R
    BY <1>2, <2>1 DEF StrictSubsetOrdering
  <2>. QED
    BY <1>6, <2>2
<1>. QED
  BY <1>7

\* Induction: what has 0, and each number with the one before it, has them all.
LEMMA Induction ==
  ASSUME NEW m \in Nat, NEW T, 0 \in T, \A n \in 1..m : n - 1 \in T => n \in T
  PROVE  \A n \in 0..m : n \in T
<1>. DEFINE Missing == {n \in 0..m : n \notin T}
<1>. SUFFICES ASSUME NEW k \in Missing PROVE FALSE
  OBVIOUS
<1>1. PICK n \in Missing : \A j \in Missing : n <= j
  <2>1. Missing \subseteq Nat
    OBVIOUS
  <2>. HIDE DEF Missing
  <2>. QED
    BY <2>1, Least
<1>. QED
  BY <1>1

\* What a loop of m rounds computes, a round given as a function.
Loops(g, S, m, e, round) ==
  /\ g \in [0..m -> S] /\ g[0] = e
  /\ \A n \in 1..m : g[n] = round[n][g[n - 1]]

\* Every loop whose rounds stay in S computes something.
LEMMA LoopExists ==
  ASSUME NEW m \in Nat, NEW S, NEW e \in S, NEW round,
         \A n \in 1..m, x \in S : round[n][x] \in S
  PROVE  \E g : Loops(g, S, m, e, round)
<1>. DEFINE Good(g, k) == g[0] = e /\ \A n \in 1..k : g[n] = round[n][g[n - 1]]
            T == {k \in 0..m : \E g \in [0..k -> S] : Good(g, k)}
<1>1. 0 \in T
  <2>1. [n \in 0..0 |-> e] \in [0..0 -> S] /\ Good([n \in 0..0 |-> e], 0)
    OBVIOUS
  <2>. HIDE DEF Good
  <2>. QED
    BY <2>1
<1>2. ASSUME NEW k \in 1..m, k - 1 \in T PROVE k \in T
  <2>1. PICK g \in [0..(k - 1) -> S] : Good(g, k - 1)
    BY <1>2
  <2>. DEFINE h == [n \in 0..k |-> IF n = k THEN round[k][g[k - 1]] ELSE g[n]]
  <2>2. h \in [0..k -> S]
    OBVIOUS
  <2>3. h[0] = e
    BY <2>1
  <2>4. ASSUME NEW n \in 1..k PROVE h[n] = round[n][h[n - 1]]
    <3>1. CASE n = k
      BY <3>1
    <3>2. CASE n # k
      <4>1. n \in 1..(k - 1)
        BY <3>2
      <4>. QED
        BY <2>1, <4>1
    <3>. QED
      BY <3>1, <3>2
  <2>5. Good(h, k)
    <3>. HIDE DEF h
    <3>. QED
      BY <2>3, <2>4
  <2>. HIDE DEF h, Good
  <2>. QED
    BY <2>2, <2>5
<1>3. \A k \in 0..m : k \in T
  <2>. HIDE DEF T
  <2>1. \A k \in 1..m : k - 1 \in T => k \in T
    BY <1>2
  <2>. QED
    BY <1>1, <2>1, Induction
<1>. QED
  BY <1>3 DEF Loops

\* No item is there twice.
NoRepeats(s) == \A i, j \in DOMAIN s : s[i] = s[j] => i = j

\* The members of a sequence that an item is appended to.
LEMMA AppendAdds ==
  ASSUME NEW D, NEW s \in Seq(D), NEW d \in D
  PROVE  ToSet(Append(s, d)) = ToSet(s) \cup {d}
<1>1. /\ DOMAIN Append(s, d) = 1..(Len(s) + 1) /\ DOMAIN s = 1..Len(s)
      /\ Append(s, d)[Len(s) + 1] = d
      /\ \A i \in 1..Len(s) : Append(s, d)[i] = s[i]
  OBVIOUS
<1>. QED
  BY <1>1 DEF ToSet

\* ... and of one it is added to once; repetitions do not arise.
LEMMA AddOnceAdds ==
  ASSUME NEW D, NEW s \in Seq(D), NEW d \in D
  PROVE  /\ AddOnce(s, d) \in Seq(D)
         /\ ToSet(AddOnce(s, d)) = ToSet(s) \cup {d}
         /\ NoRepeats(s) => NoRepeats(AddOnce(s, d))
<1>1. CASE Contains(s, d)
  BY <1>1 DEF AddOnce, ToSet, Contains
<1>2. CASE ~Contains(s, d)
  <2>1. AddOnce(s, d) = Append(s, d)
    BY <1>2 DEF AddOnce
  <2>2. /\ Append(s, d) \in Seq(D)
        /\ DOMAIN Append(s, d) = 1..(Len(s) + 1) /\ DOMAIN s = 1..Len(s)
        /\ Append(s, d)[Len(s) + 1] = d
        /\ \A i \in 1..Len(s) : Append(s, d)[i] = s[i]
    OBVIOUS
  <2>3. ToSet(Append(s, d)) = ToSet(s) \cup {d}
    BY AppendAdds
  <2>4. \A i \in 1..Len(s) : s[i] # d
    BY <1>2 DEF Contains
  <2>5. NoRepeats(s) => NoRepeats(Append(s, d))
    BY <2>2, <2>4 DEF NoRepeats
  <2>. QED
    BY <2>1, <2>2, <2>3, <2>5
<1>. QED
  BY <1>1, <1>2

\* The loop of determineTargetDomains goes through the list once.
LEMMA TakenLoop ==
  ASSUME NEW D, NEW before \in Seq(D), NEW list \in Seq(D)
  PROVE  \E taken \in [0..Len(list) -> Seq(D)] :
           /\ Taken(before, list) = taken[Len(list)]
           /\ taken[0] = before
           /\ \A n \in 1..Len(list) : taken[n] = AddOnce(taken[n - 1], list[n])
<1>. DEFINE m == Len(list)
            F(g) == [n \in 0..m |-> IF n = 0 THEN before
                                   ELSE AddOnce(g[n - 1], list[n])]
            step == [n \in 1..m |-> [x \in Seq(D) |-> AddOnce(x, list[n])]]
            taken == CHOOSE g : g = F(g)
<1>1. m \in Nat /\ \A n \in 1..m : list[n] \in D
  OBVIOUS
<1>2. \A x \in Seq(D), n \in 1..m : AddOnce(x, list[n]) \in Seq(D)
  BY <1>1 DEF AddOnce
<1>. HIDE DEF m
<1>3. step \in [1..m -> [Seq(D) -> Seq(D)]]
  BY <1>2
<1>4. PICK g \in [0..m -> Seq(D)] :
        g[0] = before /\ \A n \in 1..m : g[n] = step[n][g[n - 1]]
  <2>. DEFINE S == Seq(D)
  <2>1. before \in S /\ \A n \in 1..m, x \in S : step[n][x] \in S
    BY <1>2
  <2>. HIDE DEF step, S
  <2>2. PICK g : Loops(g, S, m, before, step)
    BY <1>1, <2>1, LoopExists
  <2>. QED
    BY <2>2 DEF Loops, S
<1>5. g = F(g)
  <2>1. \A n \in 1..m : n - 1 \in 0..m
    BY <1>1
  <2>2. \A n \in 1..m : g[n] = AddOnce(g[n - 1], list[n])
    BY <1>4, <2>1
  <2>3. \A n \in 0..m : n # 0 => n \in 1..m
    BY <1>1
  <2>. QED
    BY <1>4, <2>2, <2>3
<1>6. taken = F(taken)
  <2>. HIDE DEF F
  <2>. QED
    BY <1>5
<1>7. /\ taken[0] = before
      /\ \A n \in 1..m : taken[n] = AddOnce(taken[n - 1], list[n])
  <2>. HIDE DEF taken
  <2>. QED
    BY <1>1, <1>6
<1>8. \A n \in 0..m : taken[n] \in Seq(D)
  <2>. DEFINE T == {n \in 0..m : taken[n] \in Seq(D)}
  <2>. HIDE DEF taken
  <2>1. 0 \in T
    BY <1>1, <1>7
  <2>2. \A n \in 1..m : n - 1 \in T => n \in T
    <3>. SUFFICES ASSUME NEW n \in 1..m, n - 1 \in T PROVE n \in T
      OBVIOUS
    <3>1. taken[n - 1] \in Seq(D) /\ n \in 0..m
      BY <1>1
    <3>2. taken[n] = AddOnce(taken[n - 1], list[n])
      BY <1>7
    <3>3. AddOnce(taken[n - 1], list[n]) \in Seq(D)
      BY <1>2, <3>1
    <3>. QED
      BY <3>1, <3>2, <3>3
  <2>3. \A n \in 0..m : n \in T
    <3>. HIDE DEF T
    <3>. QED
      BY <1>1, <2>1, <2>2, Induction
  <2>. QED
    BY <2>3
<1>9. taken \in [0..m -> Seq(D)]
  <2>. HIDE DEF taken
  <2>. QED
    BY <1>6, <1>8
<1>10. Taken(before, list) = taken[m]
  BY DEF Taken, m
<1>. HIDE DEF taken
<1>. QED
  BY <1>7, <1>9, <1>10 DEF m

\* So does the loop of parseStringSlice.
LEMMA KeptLoop ==
  ASSUME NEW D, NEW list \in Seq(D)
  PROVE  \E kept \in [0..Len(list) -> Seq(D)] :
           /\ parseStringSlice(list) = kept[Len(list)]
           /\ kept[0] = <<>>
           /\ \A n \in 1..Len(list) : kept[n] = Keep(kept[n - 1], list[n])
<1>. DEFINE m == Len(list)
            F(g) == [n \in 0..m |-> IF n = 0 THEN <<>>
                                   ELSE Keep(g[n - 1], list[n])]
            step == [n \in 1..m |-> [x \in Seq(D) |-> Keep(x, list[n])]]
            kept == CHOOSE g : g = F(g)
<1>1. m \in Nat /\ \A n \in 1..m : list[n] \in D
  OBVIOUS
<1>2. \A x \in Seq(D), n \in 1..m : Keep(x, list[n]) \in Seq(D)
  BY <1>1 DEF Keep
<1>. HIDE DEF m
<1>3. step \in [1..m -> [Seq(D) -> Seq(D)]]
  BY <1>2
<1>4. PICK g \in [0..m -> Seq(D)] :
        g[0] = <<>> /\ \A n \in 1..m : g[n] = step[n][g[n - 1]]
  <2>. DEFINE S == Seq(D)
  <2>1. <<>> \in S /\ \A n \in 1..m, x \in S : step[n][x] \in S
    BY <1>2
  <2>. HIDE DEF step, S
  <2>2. PICK g : Loops(g, S, m, <<>>, step)
    BY <1>1, <2>1, LoopExists
  <2>. QED
    BY <2>2 DEF Loops, S
<1>5. g = F(g)
  <2>1. \A n \in 1..m : n - 1 \in 0..m
    BY <1>1
  <2>2. \A n \in 1..m : g[n] = Keep(g[n - 1], list[n])
    BY <1>4, <2>1
  <2>3. \A n \in 0..m : n # 0 => n \in 1..m
    BY <1>1
  <2>. QED
    BY <1>4, <2>2, <2>3
<1>6. kept = F(kept)
  <2>. HIDE DEF F
  <2>. QED
    BY <1>5
<1>7. /\ kept[0] = <<>>
      /\ \A n \in 1..m : kept[n] = Keep(kept[n - 1], list[n])
  <2>. HIDE DEF kept
  <2>. QED
    BY <1>1, <1>6
<1>8. \A n \in 0..m : kept[n] \in Seq(D)
  <2>. DEFINE T == {n \in 0..m : kept[n] \in Seq(D)}
  <2>. HIDE DEF kept
  <2>1. 0 \in T
    <3>1. <<>> \in Seq(D)
      OBVIOUS
    <3>2. 0 \in 0..m /\ kept[0] \in Seq(D)
      BY <1>1, <1>7, <3>1
    <3>. QED
      BY <3>2
  <2>2. \A n \in 1..m : n - 1 \in T => n \in T
    <3>. SUFFICES ASSUME NEW n \in 1..m, n - 1 \in T PROVE n \in T
      OBVIOUS
    <3>1. kept[n - 1] \in Seq(D) /\ n \in 0..m
      BY <1>1
    <3>2. kept[n] = Keep(kept[n - 1], list[n])
      BY <1>7
    <3>3. Keep(kept[n - 1], list[n]) \in Seq(D)
      BY <1>2, <3>1
    <3>. QED
      BY <3>1, <3>2, <3>3
  <2>3. \A n \in 0..m : n \in T
    <3>. HIDE DEF T
    <3>. QED
      BY <1>1, <2>1, <2>2, Induction
  <2>. QED
    BY <2>3
<1>9. kept \in [0..m -> Seq(D)]
  <2>. HIDE DEF kept
  <2>. QED
    BY <1>6, <1>8
<1>10. parseStringSlice(list) = kept[m]
  BY DEF parseStringSlice, m
<1>. HIDE DEF kept
<1>. QED
  BY <1>7, <1>9, <1>10 DEF m

\* What determineTargetDomains takes: the names it began with and those of the
\* list, each once.
LEMMA TakenCovers ==
  ASSUME NEW D, NEW before \in Seq(D), NEW list \in Seq(D), NoRepeats(before)
  PROVE  /\ ToSet(Taken(before, list)) = ToSet(before) \cup ToSet(list)
         /\ NoRepeats(Taken(before, list))
<1>. DEFINE m == Len(list)
            upTo(n) == {list[i] : i \in 1..n}
<1>1. m \in Nat /\ (\A n \in 1..m : list[n] \in D) /\ DOMAIN list = 1..m
  OBVIOUS
<1>2. PICK taken \in [0..m -> Seq(D)] :
        /\ Taken(before, list) = taken[m]
        /\ taken[0] = before
        /\ \A n \in 1..m : taken[n] = AddOnce(taken[n - 1], list[n])
  BY TakenLoop
<1>. HIDE DEF m
<1>. DEFINE Covers(n) == /\ ToSet(taken[n]) = ToSet(before) \cup upTo(n)
                         /\ NoRepeats(taken[n])
            T == {n \in 0..m : Covers(n)}
<1>3. 0 \in T
  <2>1. upTo(0) = {}
    OBVIOUS
  <2>. QED
    BY <1>1, <1>2, <2>1
<1>4. ASSUME NEW n \in 1..m, n - 1 \in T PROVE n \in T
  <2>1. n \in 0..m /\ n - 1 \in 0..m
    BY <1>1
  <2>2. upTo(n) = upTo(n - 1) \cup {list[n]}
    <3>1. 1..n = 1..(n - 1) \cup {n}
      BY <1>1
    <3>. QED
      BY <3>1
  <2>3. taken[n] = AddOnce(taken[n - 1], list[n]) /\ taken[n - 1] \in Seq(D)
    BY <1>2, <2>1
  <2>4. /\ ToSet(taken[n]) = ToSet(taken[n - 1]) \cup {list[n]}
        /\ NoRepeats(taken[n - 1]) => NoRepeats(taken[n])
    <3>1. \A s \in Seq(D), d \in D :
            /\ ToSet(AddOnce(s, d)) = ToSet(s) \cup {d}
            /\ NoRepeats(s) => NoRepeats(AddOnce(s, d))
      BY AddOnceAdds
    <3>2. list[n] \in D
      BY <1>1
    <3>. QED
      BY <2>3, <3>1, <3>2, Zenon
  <2>5. Covers(n - 1)
    BY <1>4
  <2>6. Covers(n)
    <3>. HIDE DEF upTo
    <3>. QED
      BY <2>2, <2>4, <2>5
  <2>. HIDE DEF Covers
  <2>. QED
    BY <2>1, <2>6
<1>5. Covers(m)
  <2>1. \A n \in 1..m : n - 1 \in T => n \in T
    BY <1>4
  <2>2. \A n \in 0..m : n \in T
    <3>. HIDE DEF T
    <3>. QED
      BY <1>1, <1>3, <2>1, Induction
  <2>. HIDE DEF Covers
  <2>. QED
    BY <1>1, <2>2
<1>6. ToSet(list) = upTo(m)
  BY <1>1 DEF ToSet
<1>. QED
  BY <1>2, <1>5, <1>6

\* What parseStringSlice keeps: the items that are not blank.
LEMMA KeptItems ==
  ASSUME NEW D, NEW list \in Seq(D)
  PROVE  /\ parseStringSlice(list) \in Seq(D)
         /\ ToSet(parseStringSlice(list)) = {d \in ToSet(list) : ~IsBlank(d)}
<1>. DEFINE m == Len(list)
            upTo(n) == {list[i] : i \in {j \in 1..n : ~IsBlank(list[j])}}
<1>1. m \in Nat /\ (\A n \in 1..m : list[n] \in D) /\ DOMAIN list = 1..m
  OBVIOUS
<1>2. PICK kept \in [0..m -> Seq(D)] :
        /\ parseStringSlice(list) = kept[m]
        /\ kept[0] = <<>>
        /\ \A n \in 1..m : kept[n] = Keep(kept[n - 1], list[n])
  BY KeptLoop
<1>. HIDE DEF m
<1>. DEFINE T == {n \in 0..m : ToSet(kept[n]) = upTo(n)}
<1>3. 0 \in T
  <2>1. upTo(0) = {} /\ ToSet(<<>>) = {}
    BY DEF ToSet
  <2>. QED
    BY <1>1, <1>2, <2>1
<1>4. ASSUME NEW n \in 1..m, n - 1 \in T PROVE n \in T
  <2>1. n \in 0..m /\ n - 1 \in 0..m
    BY <1>1
  <2>2. upTo(n) = upTo(n - 1) \cup IF IsBlank(list[n]) THEN {} ELSE {list[n]}
    <3>1. 1..n = 1..(n - 1) \cup {n}
      BY <1>1
    <3>. QED
      BY <3>1
  <2>3. kept[n] = Keep(kept[n - 1], list[n]) /\ kept[n - 1] \in Seq(D)
    BY <1>2, <2>1
  <2>4. ToSet(kept[n])
          = ToSet(kept[n - 1]) \cup IF IsBlank(list[n]) THEN {} ELSE {list[n]}
    <3>1. \A s \in Seq(D), d \in D : ToSet(Append(s, d)) = ToSet(s) \cup {d}
      BY AppendAdds
    <3>. QED
      BY <1>1, <2>3, <3>1 DEF Keep
  <2>5. ToSet(kept[n - 1]) = upTo(n - 1)
    BY <1>4
  <2>. HIDE DEF upTo
  <2>. QED
    BY <2>1, <2>2, <2>4, <2>5
<1>5. ToSet(kept[m]) = upTo(m)
  <2>1. \A n \in 1..m : n - 1 \in T => n \in T
    BY <1>4
  <2>2. \A n \in 0..m : n \in T
    <3>. HIDE DEF T
    <3>. QED
      BY <1>1, <1>3, <2>1, Induction
  <2>. HIDE DEF upTo
  <2>. QED
    BY <1>1, <2>2
<1>6. upTo(m) = {d \in ToSet(list) : ~IsBlank(d)}
  BY <1>1 DEF ToSet
<1>7. kept[m] \in Seq(D)
  BY <1>1, <1>2
<1>. QED
  BY <1>2, <1>5, <1>6, <1>7
=============================================================================
