----------------------------- MODULE CommonLemmas -----------------------------
(***************************************************************************)
(* What several proofs rest on: least numbers, functions defined by a      *)
(* recurrence, sums of the fan-out list, and that greedy verification's    *)
(* closed form accepts exactly the longest matching prefix.                *)
(***************************************************************************)
EXTENDS VerifyGreedy, FiniteSetTheorems, WellFoundedInduction, SequenceTheorems, TLAPS

(* Every nonempty set of naturals has a least element. *)
LEMMA LeastNatural ==
    ASSUME NEW T \in SUBSET Nat, T # {}
    PROVE  \E x \in T : \A y \in T : x <= y
<1>1. PICK x \in T : \A y \in T : ~ (<<y, x>> \in OpToRel(<, Nat))
    BY NatLessThanWellFounded, WFMin
<1>2. \A y \in T : ~ (y < x)
    BY <1>1 DEF OpToRel
<1>. QED
    BY <1>2

(* A set of numbers that holds 0, and i with i - 1 up to n, holds 0..n.    *)
LEMMA UpTo ==
    ASSUME NEW n \in Nat, NEW T, 0 \in T, \A i \in 1..n : i - 1 \in T => i \in T
    PROVE  \A i \in 0..n : i \in T
<1>. DEFINE Missing == {i \in 0..n : i \notin T}
<1>. SUFFICES ASSUME Missing # {} PROVE FALSE
    OBVIOUS
<1>1. PICK m \in Missing : \A y \in Missing : m <= y
    <2>1. Missing \in SUBSET Nat
        OBVIOUS
    <2>. HIDE DEF Missing
    <2>. QED
        BY <2>1, LeastNatural
<1>2. m \in 0..n /\ m \notin T
    OBVIOUS
<1>3. m # 0
    BY <1>2
<1>4. m \in 1..n /\ m - 1 \in 0..n /\ ~ (m <= m - 1)
    BY <1>2, <1>3
<1>5. m - 1 \in T
    BY <1>1, <1>4
<1>. QED
    BY <1>2, <1>4, <1>5

(* A sequence that is not empty: its head, and what is left of it. *)
LEMMA HeadAndTail ==
    ASSUME NEW S, NEW s \in Seq(S), s # <<>>
    PROVE  /\ Len(s) \in Nat \ {0}
           /\ Head(s) = s[1]
           /\ Tail(s) \in Seq(S)
           /\ Len(Tail(s)) = Len(s) - 1
           /\ \A i \in 1..(Len(s) - 1) : Tail(s)[i] = s[i + 1]
           /\ Tail(s) = <<>> <=> Len(s) = 1
<1>1. Len(s) \in Nat \ {0}
    BY EmptySeq
<1>2. /\ Tail(s) \in Seq(S)
      /\ Len(Tail(s)) = Len(s) - 1
      /\ \A i \in 1..Len(Tail(s)) : Tail(s)[i] = s[i + 1]
    BY HeadTailProperties
<1>3. Head(s) = s[1]
    OBVIOUS
<1>4. Tail(s) = <<>> => Len(Tail(s)) = 0
    BY EmptySeq
<1>5. Tail(s) # <<>> => Len(Tail(s)) # 0
    BY <1>2, EmptySeq
<1>. QED
    BY <1>1, <1>2, <1>3, <1>4, <1>5

(* Concatenation with a sequence that grows at its end, or shrinks at its  *)
(* head.                                                                   *)
LEMMA ConcatAppend ==
    ASSUME NEW S, NEW s \in Seq(S), NEW t \in Seq(S), NEW e \in S
    PROVE  s \o Append(t, e) = Append(s \o t, e)
<1>1. <<e>> \in Seq(S) /\ s \o t \in Seq(S)
    BY ConcatProperties
<1>2. Append(t, e) = t \o <<e>> /\ Append(s \o t, e) = (s \o t) \o <<e>>
    BY <1>1, AppendIsConcat
<1>3. (s \o t) \o <<e>> = s \o (t \o <<e>>)
    BY <1>1, ConcatAssociative
<1>. QED
    BY <1>2, <1>3

LEMMA ConcatHead ==
    ASSUME NEW S, NEW s \in Seq(S), NEW e \in S
    PROVE  /\ <<e>> \o s \in Seq(S) /\ <<e>> \o s # <<>>
           /\ Head(<<e>> \o s) = e
           /\ Tail(<<e>> \o s) = s
<1>1. <<e>> \in Seq(S) /\ Len(<<e>>) = 1 /\ <<e>>[1] = e
    OBVIOUS
<1>. DEFINE c == <<e>> \o s
<1>2. /\ c \in Seq(S) /\ Len(c) = 1 + Len(s)
      /\ \A i \in 1..(1 + Len(s)) : c[i] = IF i <= 1 THEN e ELSE s[i - 1]
    BY <1>1, ConcatProperties
<1>3. Len(s) \in Nat
    OBVIOUS
<1>. HIDE DEF c
<1>4. c # <<>>
    BY <1>2, <1>3
<1>5. /\ Head(c) = c[1] /\ Tail(c) \in Seq(S) /\ Len(Tail(c)) = Len(c) - 1
      /\ \A i \in 1..(Len(c) - 1) : Tail(c)[i] = c[i + 1]
    BY <1>2, <1>4, HeadAndTail
<1>6. Len(Tail(c)) = Len(s)
    BY <1>2, <1>3, <1>5
<1>7. ASSUME NEW i \in 1..Len(s) PROVE Tail(c)[i] = s[i]
    <2>1. i + 1 \in 1..(1 + Len(s)) /\ ~ (i + 1 <= 1) /\ (i + 1) - 1 = i /\ i \in 1..(Len(c) - 1)
        BY <1>2, <1>3
    <2>. QED
        BY <2>1, <1>2, <1>5
<1>8. Tail(c) = s
    BY <1>5, <1>6, <1>7, SeqEqual
<1>9. Head(c) = e
    BY <1>2, <1>3, <1>5
<1>. QED
    BY <1>2, <1>4, <1>8, <1>9 DEF c

LEMMA HeadThenTail ==
    ASSUME NEW S, NEW s \in Seq(S), s # <<>>
    PROVE  Head(s) \in S /\ Tail(s) \in Seq(S) /\ <<Head(s)>> \o Tail(s) = s
<1>1. Head(s) \in S /\ Tail(s) \in Seq(S)
    BY HeadTailProperties
<1>2. /\ Len(s) \in Nat \ {0} /\ Head(s) = s[1] /\ Len(Tail(s)) = Len(s) - 1
      /\ \A i \in 1..(Len(s) - 1) : Tail(s)[i] = s[i + 1]
    BY HeadAndTail
<1>3. <<Head(s)>> \in Seq(S) /\ Len(<<Head(s)>>) = 1 /\ <<Head(s)>>[1] = Head(s)
    BY <1>1
<1>. DEFINE c == <<Head(s)>> \o Tail(s)
<1>4. /\ c \in Seq(S) /\ Len(c) = 1 + Len(Tail(s))
      /\ \A i \in 1..(1 + Len(Tail(s))) : c[i] = IF i <= 1 THEN Head(s) ELSE Tail(s)[i - 1]
    BY <1>1, <1>3, ConcatProperties
<1>. HIDE DEF c
<1>5. Len(c) = Len(s)
    BY <1>2, <1>4
<1>6. ASSUME NEW i \in 1..Len(s) PROVE c[i] = s[i]
    <2>1. CASE i = 1
        BY <2>1, <1>2, <1>4
    <2>2. CASE i # 1
        <3>1. i - 1 \in 1..(Len(s) - 1) /\ (i - 1) + 1 = i /\ ~ (i <= 1) /\ i \in 1..(1 + Len(Tail(s)))
            BY <2>2, <1>2
        <3>. QED
            BY <3>1, <1>2, <1>4
    <2>. QED
        BY <2>1, <2>2
<1>7. c = s
    BY <1>4, <1>5, <1>6, SeqEqual
<1>. QED
    BY <1>1, <1>7 DEF c

-----------------------------------------------------------------------------
(* Functions defined by a recurrence over 0..n: from base, by the function *)
(* step[i] on the way from i - 1 to i.                                     *)

Solves(f, n, V, base, step) ==
    /\ f \in [0..n -> V]
    /\ f[0] = base
    /\ \A i \in 1..n : f[i] = step[i][f[i - 1]]

(* The same of an f of which it is not known yet that its values are in V. *)
Follows(f, n, V, base, step) ==
    /\ f[0] = base
    /\ \A i \in 1..n : f[i - 1] \in V => f[i] = step[i][f[i - 1]]

Agree(f, g, n) == \A i \in 0..n : g[i] = f[i]

LEMMA RecurrenceHasSolution ==
    ASSUME NEW n \in Nat, NEW V, NEW base \in V, NEW step \in [1..n -> [V -> V]]
    PROVE  \E f : Solves(f, n, V, base, step)
<1>. DEFINE T == {m \in 0..n : \E f : Solves(f, m, V, base, step)}
<1>1. 0 \in T
    <2>1. Solves([i \in 0..0 |-> base], 0, V, base, step)
        BY DEF Solves
    <2>. QED
        BY <2>1
<1>2. ASSUME NEW m \in 1..n, m - 1 \in T PROVE m \in T
    <2>1. PICK f : Solves(f, m - 1, V, base, step)
        BY <1>2
    <2>2. /\ f \in [0..(m - 1) -> V] /\ f[0] = base
          /\ \A i \in 1..(m - 1) : f[i] = step[i][f[i - 1]]
        BY <2>1 DEF Solves
    <2>3. step[m][f[m - 1]] \in V
        BY <2>2
    <2>. DEFINE g == [i \in 0..m |-> IF i = m THEN step[m][f[m - 1]] ELSE f[i]]
    <2>4. g \in [0..m -> V]
        BY <2>2, <2>3
    <2>5. g[0] = base
        BY <2>2
    <2>6. ASSUME NEW i \in 1..m PROVE g[i] = step[i][g[i - 1]]
        <3>1. g[i - 1] = f[i - 1]
            OBVIOUS
        <3>2. CASE i = m
            BY <3>1, <3>2
        <3>3. CASE i # m
            <4>1. i \in 1..(m - 1) /\ g[i] = f[i]
                BY <3>3
            <4>. QED
                BY <3>1, <4>1, <2>2
        <3>. QED
            BY <3>2, <3>3
    <2>7. Solves(g, m, V, base, step)
        <3>. HIDE DEF g
        <3>. QED
            BY <2>4, <2>5, <2>6 DEF Solves
    <2>. QED
        BY <2>7
<1>3. \A i \in 0..n : i \in T
    <2>. HIDE DEF T
    <2>. QED
        BY <1>1, <1>2, UpTo
<1>. QED
    BY <1>3

(* It has only one. *)
LEMMA RecurrenceIsUnique ==
    ASSUME NEW n \in Nat, NEW V, NEW base \in V, NEW step \in [1..n -> [V -> V]],
           NEW f, Solves(f, n, V, base, step), NEW g, Follows(g, n, V, base, step)
    PROVE  Agree(f, g, n)
<1>. DEFINE T == {i \in 0..n : g[i] = f[i]}
<1>1. 0 \in T
    BY DEF Solves, Follows
<1>2. ASSUME NEW i \in 1..n, i - 1 \in T PROVE i \in T
    <2>1. f[i - 1] \in V /\ f[i] = step[i][f[i - 1]]
        BY DEF Solves
    <2>2. g[i - 1] = f[i - 1]
        BY <1>2
    <2>. QED
        BY <2>1, <2>2 DEF Follows
<1>3. \A i \in 0..n : i \in T
    <2>. HIDE DEF T
    <2>. QED
        BY <1>1, <1>2, UpTo
<1>. QED
    BY <1>3 DEF Agree

(* A function that follows a recurrence solves it. *)
LEMMA FollowsSolves ==
    ASSUME NEW n \in Nat, NEW V, NEW base \in V, NEW step \in [1..n -> [V -> V]],
           NEW g, g = [i \in 0..n |-> g[i]], Follows(g, n, V, base, step)
    PROVE  Solves(g, n, V, base, step)
<1>1. PICK f : Solves(f, n, V, base, step)
    BY RecurrenceHasSolution
<1>2. Agree(f, g, n)
    BY <1>1, RecurrenceIsUnique
<1>3. \A i \in 0..n : g[i] = f[i]
    BY <1>2 DEF Agree
<1>4. f \in [0..n -> V] /\ f[0] = base /\ \A i \in 1..n : f[i] = step[i][f[i - 1]]
    BY <1>1 DEF Solves
<1>5. g \in [0..n -> V]
    BY <1>3, <1>4
<1>6. g[0] = base
    BY <1>3, <1>4
<1>7. ASSUME NEW i \in 1..n PROVE g[i] = step[i][g[i - 1]]
    <2>1. i \in 0..n /\ i - 1 \in 0..n
        OBVIOUS
    <2>. QED
        BY <2>1, <1>3, <1>4
<1>. QED
    BY <1>5, <1>6, <1>7 DEF Solves

-----------------------------------------------------------------------------
(* The fan-out list.                                                       *)

LEMMA PaddedTypes == PaddedFanOut \in [1..(K + 1) -> 0..VocabSize]
<1>. USE ConfigAssumption
<1>1. Len(FanOut) \in 1..Len(FanOut)
    OBVIOUS
<1>2. \A i \in 1..(K + 1) : i <= Len(FanOut) => i \in 1..Len(FanOut)
    OBVIOUS
<1>. QED
    BY <1>1, <1>2 DEF PaddedFanOut

(* The sums of natural numbers that a recurrence defines.                  *)
IsSum(f, n, a) == f = [l \in 0..n |-> IF l = 0 THEN 0 ELSE f[l - 1] + a[l]]

Sums(f, n, a) ==
    /\ f \in [0..n -> Nat]
    /\ f[0] = 0
    /\ \A l \in 1..n : f[l] = f[l - 1] + a[l]

LEMMA SumTypes ==
    ASSUME NEW n \in Nat, NEW a \in [1..n -> Nat], NEW sum,
           sum = CHOOSE f : IsSum(f, n, a)
    PROVE  Sums(sum, n, a)
<1>. DEFINE step == [i \in 1..n |-> [v \in Nat |-> v + a[i]]]
<1>1. step \in [1..n -> [Nat -> Nat]]
    OBVIOUS
<1>2. \A i \in 1..n, v \in Nat : step[i][v] = v + a[i]
    OBVIOUS
<1>. HIDE DEF step
<1>3. PICK f : Solves(f, n, Nat, 0, step)
    BY <1>1, RecurrenceHasSolution
<1>4. f \in [0..n -> Nat] /\ f[0] = 0
    BY <1>3 DEF Solves
<1>5. ASSUME NEW i \in 1..n PROVE f[i] = f[i - 1] + a[i]
    <2>1. f[i] = step[i][f[i - 1]] /\ f[i - 1] \in Nat
        BY <1>3 DEF Solves
    <2>. QED
        BY <2>1, <1>2
<1>6. IsSum(f, n, a)
    BY <1>4, <1>5 DEF IsSum
<1>7. IsSum(sum, n, a)
    BY <1>6
<1>8. DOMAIN sum = 0..n /\ sum = [i \in 0..n |-> sum[i]] /\ sum[0] = 0
    <2>1. 0 \in 0..n
        OBVIOUS
    <2>2. sum = [l \in 0..n |-> IF l = 0 THEN 0 ELSE sum[l - 1] + a[l]]
        BY <1>7 DEF IsSum
    <2>3. DOMAIN sum = 0..n /\ sum = [i \in 0..n |-> sum[i]]
        BY ONLY <2>2, Zenon
    <2>4. sum[0] = IF 0 = 0 THEN 0 ELSE sum[0 - 1] + a[0]
        BY ONLY <2>1, <2>2, Zenon
    <2>. QED
        BY <2>3, <2>4
<1>9. ASSUME NEW i \in 1..n PROVE sum[i] = sum[i - 1] + a[i]
    <2>1. i \in 0..n /\ i # 0
        OBVIOUS
    <2>2. \A l \in 0..n : sum[l] = IF l = 0 THEN 0 ELSE sum[l - 1] + a[l]
        BY <1>7 DEF IsSum
    <2>. QED
        BY <2>1, <2>2
<1>10. Follows(sum, n, Nat, 0, step)
    BY <1>2, <1>8, <1>9 DEF Follows
<1>11. \A i \in 0..n : sum[i] = f[i]
    <2>1. 0 \in Nat
        OBVIOUS
    <2>2. Agree(f, sum, n)
        BY <2>1, <1>1, <1>3, <1>10, RecurrenceIsUnique
    <2>. QED
        BY <2>2 DEF Agree
<1>12. sum \in [0..n -> Nat]
    BY <1>4, <1>8, <1>11
<1>. QED
    BY <1>8, <1>9, <1>12 DEF Sums

(* FanOutBefore holds the sums of the padded list's levels.                *)
LEMMA FanOutSums == Sums(FanOutBefore, K + 1, PaddedFanOut)
<1>1. K + 1 \in Nat /\ PaddedFanOut \in [1..(K + 1) -> Nat]
    BY PaddedTypes, ConfigAssumption
<1>2. FanOutBefore = CHOOSE f : IsSum(f, K + 1, PaddedFanOut)
    BY DEF FanOutBefore, IsSum
<1>. QED
    BY ONLY <1>1, <1>2, SumTypes

(* The levels before l hold at most all the branches there are.            *)
LEMMA FanOutBounds ==
    /\ MqLen \in Nat
    /\ \A l \in 0..(K + 1) : FanOutBefore[l] <= MqLen
<1>. USE ConfigAssumption, FanOutSums DEF Sums
<1>1. MqLen \in Nat /\ K + 1 \in Nat
    BY DEF MqLen
<1>. DEFINE n == K + 1
            T == {i \in 0..n : FanOutBefore[n - i] <= MqLen}
<1>2. 0 \in T
    BY <1>1 DEF MqLen
<1>3. ASSUME NEW i \in 1..n, i - 1 \in T PROVE i \in T
    <2>1. PICK l \in 0..n : l = n - i
        OBVIOUS
    <2>2. l + 1 \in 1..n /\ l + 1 = n - (i - 1) /\ (l + 1) - 1 = l
        BY <2>1
    <2>3. FanOutBefore[l + 1] = FanOutBefore[l] + PaddedFanOut[l + 1]
        BY <2>2
    <2>4. PaddedFanOut[l + 1] \in Nat
        <3>1. PaddedFanOut[l + 1] \in 0..VocabSize
            BY <2>2, PaddedTypes
        <3>. QED
            BY ONLY <3>1, ConfigAssumption
    <2>7. FanOutBefore[l] \in Nat
        BY <2>1
    <2>5. FanOutBefore[l + 1] <= MqLen
        BY <1>3, <2>2
    <2>6. FanOutBefore[l] <= MqLen
        <3>. HIDE DEF n, T
        <3>. QED
            BY ONLY <2>3, <2>4, <2>7, <2>5, <1>1
    <2>. QED
        BY <2>1, <2>6
<1>. HIDE DEF T
<1>4. \A i \in 0..n : i \in T
    <2>1. n \in Nat
        OBVIOUS
    <2>. HIDE DEF n
    <2>. QED
        BY ONLY <2>1, <1>2, <1>3, UpTo
<1>5. ASSUME NEW l \in 0..n PROVE FanOutBefore[l] <= MqLen
    <2>1. n - l \in 0..n /\ n - (n - l) = l
        OBVIOUS
    <2>. QED
        BY <2>1, <1>4 DEF T
<1>. QED
    BY <1>1, <1>5

-----------------------------------------------------------------------------
(* Greedy verification.                                                    *)

(* The accepted positions are a prefix of the draft, every position of it  *)
(* matches, and the position after it, if any, does not (verify.py's       *)
(* cumprod and sum).                                                       *)
LEMMA AcceptedIsPrefix ==
    ASSUME NEW t \in TargetRow, NEW d \in Draft
    PROVE  /\ AcceptUntil(t, d) \in 0..K
           /\ AcceptedPositions(t, d) = 1..AcceptUntil(t, d)
           /\ \A i \in 1..AcceptUntil(t, d) : Matches(t, d, i)
           /\ AcceptUntil(t, d) < K => ~ Matches(t, d, AcceptUntil(t, d) + 1)
<1>. USE ConfigAssumption
<1>. DEFINE Mismatch == {i \in 1..K : ~ Matches(t, d, i)}
<1>1. \E n \in 0..K : /\ \A i \in 1..n : Matches(t, d, i)
                      /\ n < K => ~ Matches(t, d, n + 1)
    <2>1. CASE Mismatch = {}
        <3>1. \A i \in 1..K : Matches(t, d, i)
            BY <2>1
        <3>. QED
            BY <3>1
    <2>2. CASE Mismatch # {}
        <3>1. PICK m \in Mismatch : \A y \in Mismatch : m <= y
            <4>1. Mismatch \in SUBSET Nat
                OBVIOUS
            <4>. QED
                BY <4>1, <2>2, LeastNatural
        <3>2. m \in 1..K /\ ~ Matches(t, d, m)
            BY <3>1
        <3>3. \A i \in 1..(m - 1) : Matches(t, d, i)
            <4>. SUFFICES ASSUME NEW i \in 1..(m - 1) PROVE Matches(t, d, i)
                OBVIOUS
            <4>1. i \in 1..K /\ ~ (m <= i)
                BY <3>2
            <4>. QED
                BY <4>1, <3>1
        <3>4. m - 1 \in 0..K /\ (m - 1) + 1 = m
            BY <3>2
        <3>. QED
            BY <3>2, <3>3, <3>4
    <2>. QED
        BY <2>1, <2>2
<1>2. PICK n \in 0..K : /\ \A i \in 1..n : Matches(t, d, i)
                        /\ n < K => ~ Matches(t, d, n + 1)
    BY <1>1
<1>3. AcceptedPositions(t, d) = 1..n
    <2>1. ASSUME NEW p \in 1..n PROVE p \in AcceptedPositions(t, d)
        BY <1>2, <2>1 DEF AcceptedPositions
    <2>2. ASSUME NEW p \in AcceptedPositions(t, d) PROVE p \in 1..n
        <3>1. p \in 1..K /\ \A i \in 1..p : Matches(t, d, i)
            BY <2>2 DEF AcceptedPositions
        <3>2. ~ (n < p)
            <4>. SUFFICES ASSUME n < p PROVE FALSE
                OBVIOUS
            <4>1. n < K /\ n + 1 \in 1..p
                BY <3>1
            <4>. QED
                BY <4>1, <3>1, <1>2
        <3>. QED
            BY <3>1, <3>2
    <2>. QED
        BY <2>1, <2>2
<1>4. AcceptUntil(t, d) = n
    <2>1. Cardinality(1..n) = n
        BY FS_Interval
    <2>. QED
        BY <2>1, <1>3 DEF AcceptUntil
<1>. QED
    BY <1>2, <1>3, <1>4

(* A number with the closed form's characterisation is accept_until. *)
LEMMA AcceptUntilUnique ==
    ASSUME NEW t \in TargetRow, NEW d \in Draft, NEW n \in 0..K,
           \A i \in 1..n : Matches(t, d, i),
           n = K \/ ~ Matches(t, d, n + 1)
    PROVE  AcceptUntil(t, d) = n
<1>. USE ConfigAssumption
<1>. DEFINE m == AcceptUntil(t, d)
<1>1. /\ m \in 0..K
      /\ \A i \in 1..m : Matches(t, d, i)
      /\ m < K => ~ Matches(t, d, m + 1)
    BY AcceptedIsPrefix
<1>2. ~ (m < n)
    <2>. SUFFICES ASSUME m < n PROVE FALSE
        OBVIOUS
    <2>1. m < K /\ m + 1 \in 1..n
        BY <1>1
    <2>. QED
        BY <2>1, <1>1
<1>3. ~ (n < m)
    <2>. SUFFICES ASSUME n < m PROVE FALSE
        OBVIOUS
    <2>1. n # K /\ n + 1 \in 1..m
        BY <1>1
    <2>. QED
        BY <2>1, <1>1
<1>. QED
    BY <1>1, <1>2, <1>3
=============================================================================
