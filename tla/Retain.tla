------------------------------- MODULE Retain -------------------------------
(***************************************************************************)
(* Vec::retain and the filters of Rust's iterators: what is kept of a      *)
(* sequence, in its order.  The lemmas say what a caller may rely on; they *)
(* are proved by induction on the length, through the well-foundedness of  *)
(* the natural numbers.                                                    *)
(***************************************************************************)
EXTENDS Integers, Sequences, TLAPS, WellFoundedInduction

\* The elements of s that are in S.
Retain(s, S) ==
    LET kept[i \in 0 .. Len(s)] ==
            IF i = 0 THEN <<>>
            ELSE IF s[i] \in S THEN Append(kept[i - 1], s[i]) ELSE kept[i - 1]
    IN kept[Len(s)]

\* No element occurs twice.
Once(s) == \A i, j \in 1 .. Len(s) : s[i] = s[j] => i = j

-----------------------------------------------------------------------------
\* Induction: a set of numbers with 0 and every successor holds them all.
LEMMA SetInduction ==
    ASSUME NEW N, 0 \in N, \A n \in Nat : n \in N => n + 1 \in N
    PROVE  Nat \subseteq N
  <1> DEFINE R == OpToRel(<, Nat)
             Rest == Nat \ N
  <1> SUFFICES ASSUME Rest # {} PROVE FALSE
    OBVIOUS
  <1>1. IsWellFoundedOn(R, Nat)
    BY NatLessThanWellFounded
  <1>2. PICK x \in Rest : \A y \in Rest : ~ (<<y, x>> \in R)
    <2> HIDE DEF R
    <2> QED
      BY <1>1, WFMin, Zenon
  <1>3. x \in Nat /\ x # 0
    OBVIOUS
  <1>4. x - 1 \in Nat
    BY <1>3
  <1>5. <<x - 1, x>> \in R
    BY <1>3, <1>4 DEF OpToRel
  <1>6. x - 1 \in N
    BY <1>2, <1>4, <1>5
  <1> QED
    BY <1>3, <1>4, <1>6

\* The equation of Retain for the first n elements.
RetainStep(s, S, g, i) ==
    IF i = 0 THEN <<>> ELSE IF s[i] \in S THEN Append(g[i - 1], s[i]) ELSE g[i - 1]

\* The recursion defines a function.
LEMMA RetainDef ==
    ASSUME NEW s, Len(s) \in Nat, NEW S
    PROVE  \E g : /\ g = [i \in 0 .. Len(s) |-> RetainStep(s, S, g, i)]
                  /\ Retain(s, S) = g[Len(s)]
  <1> DEFINE Good(n, g) == g = [i \in 0 .. n |-> RetainStep(s, S, g, i)]
             N == {n \in Nat : \E g : Good(n, g)}
  <1>1. 0 \in N
    <2> DEFINE g == [i \in 0 .. 0 |-> <<>>]
    <2>1. \A i \in 0 .. 0 : RetainStep(s, S, g, i) = <<>>
      BY DEF RetainStep
    <2>2. Good(0, g)
      BY <2>1
    <2> HIDE DEF g, Good
    <2> QED
      BY <2>2
  <1>2. ASSUME NEW n \in Nat, n \in N PROVE n + 1 \in N
    <2>1. PICK g : Good(n, g)
      BY <1>2
    <2> DEFINE last == IF s[n + 1] \in S THEN Append(g[n], s[n + 1]) ELSE g[n]
               h == [i \in 0 .. n + 1 |-> IF i = n + 1 THEN last ELSE g[i]]
    <2>2. /\ \A i \in 0 .. n : h[i] = g[i] /\ i # n + 1 /\ i \in 0 .. n + 1
          /\ \A i \in 0 .. n + 1 : i = n + 1 \/ i \in 0 .. n
          /\ n + 1 # 0 /\ (n + 1) - 1 = n /\ n \in 0 .. n
      OBVIOUS
    <2>3. ASSUME NEW i \in 0 .. n + 1
          PROVE  (IF i = n + 1 THEN last ELSE g[i]) = RetainStep(s, S, h, i)
      <3>1. CASE i = n + 1
        <4>1. h[n] = g[n]
          BY <2>2
        <4> HIDE DEF h
        <4> QED
          BY <2>2, <3>1, <4>1 DEF RetainStep
      <3>2. CASE i \in 0 .. n
        <4>1. g[i] = RetainStep(s, S, g, i)
          BY <2>1, <3>2
        <4>2. i # 0 => i - 1 \in 0 .. n /\ h[i - 1] = g[i - 1]
          BY <3>2, <2>2
        <4> HIDE DEF h
        <4> QED
          BY <2>2, <3>2, <4>1, <4>2 DEF RetainStep
      <3> QED
        BY <2>2, <3>1, <3>2
    <2>4. h = [i \in 0 .. n + 1 |-> RetainStep(s, S, h, i)]
      BY <2>3
    <2> HIDE DEF h
    <2> QED
      BY <2>4
  <1>3. Nat \subseteq N
    <2> HIDE DEF N
    <2> QED
      BY <1>1, <1>2, SetInduction
  <1>4. PICK g : Good(Len(s), g)
    BY <1>3
  <1> QED
    BY <1>4 DEF Retain, RetainStep

\* What r has of the first n elements of s.
Keeps(s, S, n, r) ==
    /\ Len(r) <= n
    /\ \A k \in 1 .. Len(r) : r[k] \in S /\ \E i \in 1 .. n : s[i] = r[k]
    /\ \A i \in 1 .. n : s[i] \in S => \E k \in 1 .. Len(r) : r[k] = s[i]
    /\ Once(s) => Once(r)

\* What is kept are the elements of s that are in S, each as often as in s.
LEMMA RetainFacts ==
    ASSUME NEW U, NEW s \in Seq(U), NEW S
    PROVE  Retain(s, S) \in Seq(U) /\ Keeps(s, S, Len(s), Retain(s, S))
  <1> USE DEF Keeps, Once
  <1>1. PICK g : /\ \A i \in 0 .. Len(s) : g[i] = RetainStep(s, S, g, i)
                 /\ Retain(s, S) = g[Len(s)]
    <2>1. PICK g : g = [i \in 0 .. Len(s) |-> RetainStep(s, S, g, i)] /\ Retain(s, S) = g[Len(s)]
      BY RetainDef
    <2>2. \A i \in 0 .. Len(s) : g[i] = RetainStep(s, S, g, i)
      BY <2>1, Zenon
    <2> QED
      BY <2>1, <2>2
  <1> DEFINE Fact(n) == g[n] \in Seq(U) /\ Keeps(s, S, n, g[n])
             N == {n \in Nat : n <= Len(s) => Fact(n)}
  <1>2. 0 \in N
    <2>1. g[0] = <<>> /\ Len(<<>>) = 0 /\ <<>> \in Seq(U)
      BY <1>1 DEF RetainStep
    <2>2. Fact(0)
      BY <2>1
    <2> HIDE DEF Fact
    <2> QED
      BY <2>2
  <1>3. ASSUME NEW n \in Nat, n \in N PROVE n + 1 \in N
    <2> SUFFICES ASSUME n + 1 <= Len(s) PROVE Fact(n + 1)
      <3> HIDE DEF Fact
      <3> QED
        OBVIOUS
    <2>1. Len(s) \in Nat /\ n \in 0 .. Len(s) /\ n + 1 \in 0 .. Len(s) /\ n + 1 \in 1 .. Len(s)
      OBVIOUS
    <2>2. Fact(n)
      <3> HIDE DEF Fact
      <3> QED
        BY <1>3, <2>1
    <2>3. g[n + 1] = IF s[n + 1] \in S THEN Append(g[n], s[n + 1]) ELSE g[n]
      BY <1>1, <2>1 DEF RetainStep
    <2>4. s[n + 1] \in U /\ \A i \in 1 .. n : i \in 1 .. Len(s) /\ i # n + 1
      BY <2>1
    <2>5. CASE s[n + 1] \notin S
      <3>1. g[n + 1] = g[n]
        BY <2>3, <2>5
      <3>2. \A i \in 1 .. n + 1 : i \in 1 .. n \/ i = n + 1
        BY <2>1
      <3> QED
        BY <2>2, <2>5, <3>1, <3>2
    <2>6. CASE s[n + 1] \in S
      <3> DEFINE r == g[n + 1]
      <3>1. /\ r \in Seq(U) /\ Len(r) = Len(g[n]) + 1 /\ Len(g[n]) \in Nat
            /\ \A k \in 1 .. Len(g[n]) : r[k] = g[n][k]
            /\ r[Len(g[n]) + 1] = s[n + 1]
        BY <2>2, <2>3, <2>4, <2>6
      <3>2. /\ \A i \in 1 .. n + 1 : i \in 1 .. n \/ i = n + 1
            /\ \A k \in 1 .. Len(r) : k \in 1 .. Len(g[n]) \/ k = Len(g[n]) + 1
            /\ \A k \in 1 .. Len(g[n]) : k \in 1 .. Len(r)
            /\ Len(g[n]) + 1 \in 1 .. Len(r)
        BY <2>1, <3>1
      <3> HIDE DEF r
      <3>3. Len(r) <= n + 1
        BY <2>2, <3>1
      <3>4. \A k \in 1 .. Len(r) : r[k] \in S /\ \E i \in 1 .. n + 1 : s[i] = r[k]
        <4> TAKE k \in 1 .. Len(r)
        <4>1. CASE k \in 1 .. Len(g[n])
          <5>1. g[n][k] \in S /\ \E i \in 1 .. n : s[i] = g[n][k]
            BY <2>2, <4>1
          <5> QED
            BY <2>4, <3>1, <4>1, <5>1
        <4>2. CASE k = Len(g[n]) + 1
          BY <2>1, <2>6, <3>1, <4>2
        <4> QED
          BY <3>2, <4>1, <4>2
      <3>5. \A i \in 1 .. n + 1 : s[i] \in S => \E k \in 1 .. Len(r) : r[k] = s[i]
        BY <2>2, <3>1, <3>2
      <3>6. ASSUME Once(s) PROVE Once(r)
        <4>1. \A k \in 1 .. Len(g[n]) : g[n][k] # s[n + 1]
          BY <2>1, <2>2, <2>4, <3>6
        <4>2. Once(g[n])
          BY <2>2, <3>6
        <4> QED
          BY <3>1, <3>2, <4>1, <4>2
      <3> QED
        BY <3>1, <3>3, <3>4, <3>5, <3>6 DEF r
    <2> QED
      BY <2>5, <2>6
  <1>4. Nat \subseteq N
    <2> HIDE DEF N
    <2> QED
      BY <1>2, <1>3, SetInduction
  <1>5. Len(s) \in N /\ Len(s) \in Nat
    BY <1>4
  <1> QED
    BY <1>1, <1>5

\* Nothing goes from a sequence whose elements are all kept.
LEMMA RetainAll ==
    ASSUME NEW U, NEW s \in Seq(U), NEW S, \A i \in 1 .. Len(s) : s[i] \in S
    PROVE  Retain(s, S) = s
  <1>1. PICK g : (\A i \in 0 .. Len(s) : g[i] = RetainStep(s, S, g, i)) /\ Retain(s, S) = g[Len(s)]
    <2>1. PICK g : g = [i \in 0 .. Len(s) |-> RetainStep(s, S, g, i)] /\ Retain(s, S) = g[Len(s)]
      BY RetainDef
    <2>2. \A i \in 0 .. Len(s) : g[i] = RetainStep(s, S, g, i)
      BY <2>1, Zenon
    <2> QED
      BY <2>1, <2>2
  <1> DEFINE Fact(n) == g[n] \in Seq(U) /\ Len(g[n]) = n /\ \A i \in 1 .. n : g[n][i] = s[i]
             N == {n \in Nat : n <= Len(s) => Fact(n)}
  <1>2. 0 \in N
    <2>1. g[0] = <<>>
      BY <1>1 DEF RetainStep
    <2>2. Fact(0)
      BY <2>1
    <2> HIDE DEF Fact
    <2> QED
      BY <2>2
  <1>3. ASSUME NEW n \in Nat, n \in N PROVE n + 1 \in N
    <2> SUFFICES ASSUME n + 1 <= Len(s) PROVE Fact(n + 1)
      <3> HIDE DEF Fact
      <3> QED
        OBVIOUS
    <2>1. n + 1 \in 0 .. Len(s) /\ n + 1 \in 1 .. Len(s) /\ n + 1 # 0 /\ (n + 1) - 1 = n /\ n <= Len(s)
      OBVIOUS
    <2>2. Fact(n)
      <3> HIDE DEF Fact
      <3> QED
        BY <1>3, <2>1
    <2>3. g[n + 1] = Append(g[n], s[n + 1]) /\ s[n + 1] \in U
      <3>1. s[n + 1] \in S /\ s[n + 1] \in U
        BY <2>1
      <3>2. g[n + 1] = RetainStep(s, S, g, n + 1)
        BY <1>1, <2>1
      <3> QED
        BY <2>1, <3>1, <3>2 DEF RetainStep
    <2> QED
      BY <2>2, <2>3
  <1>4. Nat \subseteq N
    <2> HIDE DEF N
    <2> QED
      BY <1>2, <1>3, SetInduction
  <1>5. Fact(Len(s))
    <2> HIDE DEF Fact
    <2> QED
      BY <1>4
  <1> QED
    BY <1>1, <1>5
=============================================================================
