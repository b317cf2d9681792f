----------------------------- MODULE PagedProofs -----------------------------
(***************************************************************************)
(* Proofs about the paged cache and the scheduler's admissions, for every  *)
(* page size, pool, number of running sequences and stream of prompts.     *)
(***************************************************************************)
EXTENDS PagedScheduler, CommonLemmas

(* Multiples of n lie n apart. *)
LEMMA MultiplesApart ==
    ASSUME NEW n \in Nat \ {0}, NEW x \in Nat, NEW y \in Nat, x < y
    PROVE  x * n + n <= y * n
<1>. DEFINE d == y - x - 1
<1>1. d \in Nat /\ y = x + 1 + d
    OBVIOUS
<1>. HIDE DEF d
<1>2. y * n = x * n + n + d * n
    BY <1>1
<1>3. d * n >= 0
    BY <1>1
<1>4. x * n \in Int /\ d * n \in Int
    BY <1>1
<1>. QED
    BY <1>2, <1>3, <1>4

(* Division with remainder has one answer. *)
LEMMA DivisionIsUnique ==
    ASSUME NEW n \in Nat \ {0}, NEW b \in Nat, NEW c \in Nat,
           NEW o \in 0..(n - 1), NEW u \in 0..(n - 1), b * n + o = c * n + u
    PROVE  b = c /\ o = u
<1>1. ASSUME NEW x \in Nat, NEW y \in Nat, x < y PROVE x * n + n <= y * n
    BY <1>1, MultiplesApart
<1>2. b * n \in Int /\ c * n \in Int
    OBVIOUS
<1>3. ~ (b < c)
    BY <1>1, <1>2
<1>4. ~ (c < b)
    BY <1>1, <1>2
<1>5. b = c
    BY <1>3, <1>4
<1>. QED
    BY <1>5, <1>2

LEMMA DivisionWithRemainder ==
    ASSUME NEW n \in Nat \ {0}, NEW s \in Nat
    PROVE  s \div n \in Nat /\ s % n \in 0..(n - 1) /\ s = (s \div n) * n + (s % n)
OBVIOUS

-----------------------------------------------------------------------------
(* A slot of the flat cache is one place of one page.                      *)
LEMMA SlotLocates ==
    ASSUME NEW b \in Block, NEW o \in 0..(BlockSize - 1)
    PROVE  LocationOf(b * BlockSize + o) = <<b, o>> /\ <<b, o>> \in Location
<1>. DEFINE s == b * BlockSize + o
<1>1. BlockSize \in Nat \ {0} /\ NumBlocks \in Nat /\ b \in Nat /\ o \in Nat
    BY CacheShape DEF Block
<1>2. b * BlockSize \in Nat
    BY <1>1
<1>3. s \in Nat
    BY <1>1, <1>2
<1>. HIDE DEF s
<1>4. s \div BlockSize \in Nat /\ s % BlockSize \in 0..(BlockSize - 1)
      /\ s = (s \div BlockSize) * BlockSize + (s % BlockSize)
    BY <1>1, <1>3, DivisionWithRemainder
<1>5. b * BlockSize + o = (s \div BlockSize) * BlockSize + (s % BlockSize)
    BY <1>4 DEF s
<1>6. b = s \div BlockSize /\ o = s % BlockSize
    BY <1>1, <1>4, <1>5, DivisionIsUnique
<1>. QED
    BY <1>6 DEF LocationOf, Location, s

LEMMA PositionHasPage ==
    ASSUME NEW t \in Seq(Block), NEW p \in 0..(Len(t) * BlockSize - 1)
    PROVE  /\ p \div BlockSize + 1 \in 1..Len(t)
           /\ p % BlockSize \in 0..(BlockSize - 1)
           /\ p = (p \div BlockSize) * BlockSize + (p % BlockSize)
<1>. DEFINE d == p \div BlockSize
            m == p % BlockSize
            top == Len(t) * BlockSize
<1>1. BlockSize \in Nat \ {0} /\ p \in Nat /\ Len(t) \in Nat
    BY CacheShape
<1>2. d \in Nat /\ m \in 0..(BlockSize - 1) /\ p = d * BlockSize + m
    BY <1>1, DivisionWithRemainder
<1>3. top \in Nat /\ p < top
    BY <1>1
<1>4. d < Len(t)
    <2>. SUFFICES ASSUME d >= Len(t) PROVE FALSE
        BY <1>1, <1>2
    <2>. DEFINE e == d - Len(t)
    <2>1. e \in Nat /\ d = Len(t) + e
        BY <1>1, <1>2
    <2>. HIDE DEF e, d, m
    <2>2. d * BlockSize = top + e * BlockSize /\ e * BlockSize \in Nat
        BY <2>1, <1>1
    <2>. HIDE DEF top
    <2>. QED
        BY <2>2, <1>2, <1>3, <1>1
<1>. QED
    BY <1>1, <1>2, <1>4

(* A position is stored at its own offset in the page its table names for  *)
(* it (write_kv_slots, gather_kv_for_positions).                           *)
THEOREM SlotOfPosition ==
    ASSUME NEW t \in Seq(Block), NEW p \in 0..(Len(t) * BlockSize - 1)
    PROVE  /\ LocationOf(SlotOf(t, p)) = <<t[p \div BlockSize + 1], p % BlockSize>>
           /\ LocationOf(SlotOf(t, p)) \in Location
<1>1. p \div BlockSize + 1 \in 1..Len(t) /\ p % BlockSize \in 0..(BlockSize - 1)
    BY PositionHasPage
<1>2. t[p \div BlockSize + 1] \in Block
    BY <1>1
<1>. QED
    BY <1>1, <1>2, SlotLocates DEF SlotOf

(* If no page occurs twice in a table, no two positions of it share a      *)
(* place; if two tables have no page in common, none of their positions do.*)
THEOREM PlacesAreDistinct ==
    ASSUME NEW t \in Seq(Block), NEW u \in Seq(Block),
           NEW p \in 0..(Len(t) * BlockSize - 1), NEW q \in 0..(Len(u) * BlockSize - 1),
           LocationOf(SlotOf(t, p)) = LocationOf(SlotOf(u, q))
    PROVE  /\ \E i \in 1..Len(t), j \in 1..Len(u) : t[i] = u[j]
           /\ (t = u /\ \A i, j \in 1..Len(t) : t[i] = t[j] => i = j) => p = q
<1>1. /\ t[p \div BlockSize + 1] = u[q \div BlockSize + 1]
      /\ p % BlockSize = q % BlockSize
    BY SlotOfPosition
<1>2. /\ p \div BlockSize + 1 \in 1..Len(t) /\ q \div BlockSize + 1 \in 1..Len(u)
      /\ p = (p \div BlockSize) * BlockSize + (p % BlockSize)
      /\ q = (q \div BlockSize) * BlockSize + (q % BlockSize)
    BY PositionHasPage
<1>3. p \div BlockSize \in Int /\ q \div BlockSize \in Int
    BY CacheShape
<1>4. ASSUME t = u, \A i, j \in 1..Len(t) : t[i] = t[j] => i = j
      PROVE  p = q
    <2>1. p \div BlockSize + 1 = q \div BlockSize + 1
        BY <1>1, <1>2, <1>4
    <2>2. p \div BlockSize = q \div BlockSize
        BY <2>1, <1>3
    <2>. QED
        BY <2>2, <1>1, <1>2
<1>. QED
    BY <1>1, <1>2, <1>4

(* What is written to distinct slots is read back from them, and nothing   *)
(* else in the cache changes (write_kv_slots).                             *)
THEOREM WritesAreRead ==
    ASSUME NEW Value, NEW pages \in [Location -> Value], NEW slots \in Seq(Nat),
           NEW values \in Seq(Value), Len(values) = Len(slots),
           \A i \in 1..Len(slots) : LocationOf(slots[i]) \in Location,
           \A i, j \in 1..Len(slots) : LocationOf(slots[i]) = LocationOf(slots[j]) => i = j
    PROVE  LET written == WriteSlots(pages, slots, values)
           IN  /\ \A i \in 1..Len(slots) : written[LocationOf(slots[i])] = values[i]
               /\ \A l \in Location : (\A i \in 1..Len(slots) : LocationOf(slots[i]) # l)
                                        => written[l] = pages[l]
<1>. DEFINE writes(l) == {i \in 1..Len(slots) : LocationOf(slots[i]) = l}
            last(l) == CHOOSE i \in writes(l) : \A j \in writes(l) : j <= i
<1>1. ASSUME NEW i \in 1..Len(slots)
      PROVE  WriteSlots(pages, slots, values)[LocationOf(slots[i])] = values[i]
    <2>. DEFINE l == LocationOf(slots[i])
    <2>1. writes(l) = {i}
        OBVIOUS
    <2>2. last(l) = i
        <3>1. \A j \in writes(l) : j <= i
            BY <2>1
        <3>2. i \in writes(l)
            BY <2>1
        <3>3. last(l) \in writes(l)
            BY <3>1, <3>2
        <3>. QED
            BY <3>3, <2>1
    <2>3. l \in Location /\ writes(l) # {}
        BY <2>1
    <2>4. WriteSlots(pages, slots, values)[l] = values[last(l)]
        BY <2>3 DEF WriteSlots
    <2>. QED
        BY <2>2, <2>4
<1>2. ASSUME NEW l \in Location, \A i \in 1..Len(slots) : LocationOf(slots[i]) # l
      PROVE  WriteSlots(pages, slots, values)[l] = pages[l]
    <2>1. writes(l) = {}
        BY <1>2
    <2>. QED
        BY <2>1 DEF WriteSlots
<1>. QED
    BY <1>1, <1>2

(* The verify mask of a query of a branch is the branch mask's row of that *)
(* query: the two passes see the same tokens, and no later one             *)
(* (build_verify_mask, build_branch_mask).                                 *)
THEOREM MasksAgree ==
    ASSUME NEW n \in Nat, NEW len \in Nat, NEW q \in 0..(len - 1), NEW k \in 0..(n + len - 1)
    PROVE  /\ <<q, k>> \in VerifyMask(n, len) <=> <<n + q, k>> \in BranchMask(n, len)
           /\ <<q, k>> \in VerifyMask(n, len) <=> k <= n + q
BY DEF VerifyMask, BranchMask
-----------------------------------------------------------------------------
(* Pages.  The free list and the two tables of every sequence are shelves  *)
(* that pages lie on; a call takes pages off the end of one and puts them  *)
(* on another, and so every page goes on lying on one shelf, once.         *)
Distinct(q) == \A i, j \in 1..Len(q) : q[i] = q[j] => i = j

LEMMA ConcatDistinct ==
    ASSUME NEW S, NEW p \in Seq(S), NEW q \in Seq(S),
           Distinct(p), Distinct(q), Range(p) \cap Range(q) = {}
    PROVE  /\ p \o q \in Seq(S) /\ Distinct(p \o q)
           /\ Range(p \o q) = Range(p) \cup Range(q)
<1>. DEFINE c == p \o q
<1>1. /\ c \in Seq(S) /\ Len(c) = Len(p) + Len(q)
      /\ \A i \in 1..(Len(p) + Len(q)) : c[i] = IF i <= Len(p) THEN p[i] ELSE q[i - Len(p)]
    BY ConcatProperties
<1>2. Range(c) = Range(p) \cup Range(q)
    BY RangeConcatenation
<1>3. /\ \A i \in 1..Len(p) : p[i] \in Range(p)
      /\ \A i \in 1..Len(q) : q[i] \in Range(q)
    BY RangeEquality
<1>4. Len(p) \in Nat /\ Len(q) \in Nat
    OBVIOUS
<1>. HIDE DEF c
<1>5. Distinct(c)
    <2>. SUFFICES ASSUME NEW i \in 1..Len(c), NEW j \in 1..Len(c), c[i] = c[j] PROVE i = j
        BY DEF Distinct
    <2>1. CASE i <= Len(p) /\ j <= Len(p)
        <3>1. i \in 1..Len(p) /\ j \in 1..Len(p) /\ p[i] = p[j]
            BY <2>1, <1>1, <1>4
        <3>. QED
            BY <3>1 DEF Distinct
    <2>2. CASE ~ (i <= Len(p)) /\ ~ (j <= Len(p))
        <3>1. i - Len(p) \in 1..Len(q) /\ j - Len(p) \in 1..Len(q) /\ q[i - Len(p)] = q[j - Len(p)]
            BY <2>2, <1>1, <1>4
        <3>2. i - Len(p) = j - Len(p)
            BY <3>1 DEF Distinct
        <3>. QED
            BY <3>2, <1>1, <1>4
    <2>3. CASE i <= Len(p) /\ ~ (j <= Len(p))
        <3>1. i \in 1..Len(p) /\ j - Len(p) \in 1..Len(q) /\ p[i] = q[j - Len(p)]
            BY <2>3, <1>1, <1>4
        <3>. QED
            BY <3>1, <1>3
    <2>4. CASE ~ (i <= Len(p)) /\ j <= Len(p)
        <3>1. j \in 1..Len(p) /\ i - Len(p) \in 1..Len(q) /\ p[j] = q[i - Len(p)]
            BY <2>4, <1>1, <1>4
        <3>. QED
            BY <3>1, <1>3
    <2>. QED
        BY <2>1, <2>2, <2>3, <2>4
<1>. QED
    BY <1>1, <1>2, <1>5 DEF c

LEMMA AppendDistinct ==
    ASSUME NEW S, NEW q \in Seq(S), NEW e \in S
    PROVE  /\ Append(q, e) \in Seq(S) /\ Len(Append(q, e)) = Len(q) + 1
           /\ Range(Append(q, e)) = Range(q) \cup {e}
           /\ Distinct(q) /\ e \notin Range(q) => Distinct(Append(q, e))
<1>1. /\ <<e>> \in Seq(S) /\ Len(<<e>>) = 1 /\ Distinct(<<e>>)
      /\ Append(q, e) = q \o <<e>>
    BY AppendIsConcat DEF Distinct
<1>2. Range(<<e>>) = {e}
    BY DEF Range
<1>3. Append(q, e) \in Seq(S) /\ Len(Append(q, e)) = Len(q) + 1
    BY AppendProperties
<1>4. Range(q \o <<e>>) = Range(q) \cup Range(<<e>>)
    <2>. DEFINE one == <<e>>
    <2>1. one \in Seq(S)
        BY ONLY <1>1
    <2>. HIDE DEF one
    <2>2. Range(q \o one) = Range(q) \cup Range(one)
        BY ONLY <2>1, q \in Seq(S), RangeConcatenation
    <2>. QED
        BY ONLY <2>2 DEF one
<1>5. ASSUME Distinct(q), e \notin Range(q) PROVE Distinct(q \o <<e>>)
    <2>1. Range(q) \cap Range(<<e>>) = {}
        BY <1>2, <1>5
    <2>. QED
        BY ONLY <1>1, <2>1, <1>5, q \in Seq(S), ConcatDistinct
<1>. QED
    BY <1>1, <1>2, <1>3, <1>4, <1>5

(* The pages popped off a list and those that stay on it.                  *)
LEMMA PoppedPages ==
    ASSUME NEW f \in Seq(Block), NEW n \in Nat, n <= Len(f)
    PROVE  /\ Popped(f, n) \in Seq(Block) /\ Len(Popped(f, n)) = n
           /\ \A i \in 1..n : Popped(f, n)[i] = f[Len(f) - i + 1]
           /\ Rest(f, n) \in Seq(Block) /\ Len(Rest(f, n)) = Len(f) - n
           /\ \A i \in 1..(Len(f) - n) : Rest(f, n)[i] = f[i]
<1>1. Popped(f, n) \in [1..n -> Block]
    BY DEF Popped
<1>2. Popped(f, n) \in Seq(Block)
    BY <1>1
<1>3. Len(Popped(f, n)) = n
    BY <1>1
<1>4. \A i \in 1..n : Popped(f, n)[i] = f[Len(f) - i + 1]
    BY DEF Popped
<1>. QED
    BY <1>2, <1>3, <1>4 DEF Rest

LEMMA PoppedApart ==
    ASSUME NEW f \in Seq(Block), Distinct(f), NEW n \in Nat, n <= Len(f)
    PROVE  /\ Distinct(Popped(f, n)) /\ Distinct(Rest(f, n))
           /\ Range(Popped(f, n)) \cap Range(Rest(f, n)) = {}
           /\ Range(Popped(f, n)) \cup Range(Rest(f, n)) = Range(f)
<1>. DEFINE p == Popped(f, n)
            r == Rest(f, n)
            m == Len(f)
<1>1. /\ p \in Seq(Block) /\ Len(p) = n /\ r \in Seq(Block) /\ Len(r) = m - n
      /\ \A i \in 1..n : p[i] = f[m - i + 1]
      /\ \A i \in 1..(m - n) : r[i] = f[i]
    BY PoppedPages
<1>2. Range(p) = {p[i] : i \in 1..n} /\ Range(r) = {r[i] : i \in 1..(m - n)}
      /\ Range(f) = {f[i] : i \in 1..m} /\ m \in Nat
    <2>. HIDE DEF p, r
    <2>1. p \in Seq(Block) /\ r \in Seq(Block)
        BY <1>1
    <2>2. Range(p) = {p[i] : i \in 1..Len(p)}
        BY <2>1, RangeEquality
    <2>3. Range(r) = {r[i] : i \in 1..Len(r)}
        BY <2>1, RangeEquality
    <2>4. Range(f) = {f[i] : i \in 1..Len(f)}
        BY RangeEquality
    <2>. QED
        BY <1>1, <2>2, <2>3, <2>4
<1>. HIDE DEF p, r, m
<1>3. \A i, j \in 1..m : f[i] = f[j] => i = j
    BY DEF Distinct, m
<1>4. \A i \in 1..n : m - i + 1 \in 1..m
    BY <1>2 DEF m
<1>5. Distinct(p)
    <2>. SUFFICES ASSUME NEW i \in 1..n, NEW j \in 1..n, p[i] = p[j] PROVE i = j
        BY <1>1 DEF Distinct
    <2>1. m - i + 1 = m - j + 1
        BY <1>1, <1>3, <1>4
    <2>. QED
        BY <2>1, <1>2
<1>6. \A i \in 1..(m - n) : i \in 1..m
    BY <1>2
<1>7. Distinct(r)
    BY <1>1, <1>3, <1>6 DEF Distinct
<1>8. Range(p) \cap Range(r) = {}
    <2>. SUFFICES ASSUME NEW i \in 1..n, NEW j \in 1..(m - n), p[i] = r[j] PROVE FALSE
        BY <1>2
    <2>1. m - i + 1 = j
        BY <1>1, <1>3, <1>4, <1>6
    <2>. QED
        BY <2>1, <1>2
<1>9. Range(p) \cup Range(r) = Range(f)
    <2>1. \A i \in 1..n : p[i] \in Range(f)
        BY <1>1, <1>2, <1>4
    <2>2. \A i \in 1..(m - n) : r[i] \in Range(f)
        BY <1>1, <1>2, <1>6
    <2>3. ASSUME NEW i \in 1..m PROVE f[i] \in Range(p) \cup Range(r)
        <3>1. CASE i <= m - n
            <4>1. i \in 1..(m - n)
                BY <3>1, <1>2
            <4>. QED
                BY <4>1, <1>1, <1>2
        <3>2. CASE ~ (i <= m - n)
            <4>1. m - i + 1 \in 1..n /\ m - (m - i + 1) + 1 = i
                BY <3>2, <1>2
            <4>2. p[m - i + 1] = f[i]
                BY <4>1, <1>1
            <4>. QED
                BY <4>1, <4>2, <1>2
        <3>. QED
            BY <3>1, <3>2
    <2>. QED
        BY <2>1, <2>2, <2>3, <1>2
<1>. QED
    BY <1>5, <1>7, <1>8, <1>9 DEF p, r

Free == <<"free", 0>>
Target(s) == <<"target", s>>
Drafts(s) == <<"draft", s>>
Owner == {Free} \cup ({"target", "draft"} \X SeqId)

(* The shelves, for a free list and two tables of tables.                  *)
Shelves(f, t, d) ==
    [o \in Owner |-> IF o[1] = "free" THEN f
                     ELSE IF o[1] = "target" THEN t[o[2]] ELSE d[o[2]]]

OneOwner(sh) ==
    /\ \A o \in Owner : sh[o] \in Seq(Block) /\ Distinct(sh[o])
    /\ \A o, p \in Owner : o # p => Range(sh[o]) \cap Range(sh[p]) = {}
    /\ \A b \in Block : \E o \in Owner : b \in Range(sh[o])

Tables == [SeqId -> Seq(Block)]

LEMMA ShelfAt ==
    ASSUME NEW f \in Seq(Block), NEW t \in Tables, NEW d \in Tables, NEW s \in SeqId
    PROVE  /\ Shelves(f, t, d) \in [Owner -> Seq(Block)]
           /\ Shelves(f, t, d)[Free] = f /\ Free \in Owner
           /\ Shelves(f, t, d)[Target(s)] = t[s] /\ Target(s) \in Owner
           /\ Shelves(f, t, d)[Drafts(s)] = d[s] /\ Drafts(s) \in Owner
BY DEF Shelves, Owner, Free, Target, Drafts, Tables

LEMMA OwnerIs ==
    ASSUME NEW o \in Owner
    PROVE  o = Free \/ \E s \in SeqId : o = Target(s) \/ o = Drafts(s)
BY DEF Owner, Free, Target, Drafts

LEMMA ShelvesApart ==
    ASSUME NEW s, NEW r
    PROVE  /\ Target(s) # Free /\ Drafts(s) # Free /\ Target(s) # Drafts(r)
           /\ Target(s) = Target(r) => s = r
           /\ Drafts(s) = Drafts(r) => s = r
BY DEF Free, Target, Drafts

(* Pages moved between two shelves still have one owner.                   *)
LEMMA MovesKeepOwners ==
    ASSUME NEW sh, OneOwner(sh), NEW o \in Owner, NEW p \in Owner, o # p, NEW new,
           new[o] \in Seq(Block), Distinct(new[o]),
           new[p] \in Seq(Block), Distinct(new[p]),
           Range(new[o]) \cap Range(new[p]) = {},
           Range(new[o]) \cup Range(new[p]) = Range(sh[o]) \cup Range(sh[p]),
           \A q \in Owner \ {o, p} : new[q] = sh[q]
    PROVE  OneOwner(new)
<1>1. \A q \in Owner : new[q] \in Seq(Block) /\ Distinct(new[q])
    BY DEF OneOwner
<1>2. ASSUME NEW q \in Owner, NEW r \in Owner, q # r PROVE Range(new[q]) \cap Range(new[r]) = {}
    <2>1. \A x, y \in Owner : x # y => Range(sh[x]) \cap Range(sh[y]) = {}
        BY DEF OneOwner
    <2>2. CASE q \in {o, p} /\ r \in {o, p}
        BY <2>2, <1>2
    <2>3. CASE q \in {o, p} /\ r \notin {o, p}
        <3>1. new[r] = sh[r] /\ Range(new[q]) \subseteq Range(sh[o]) \cup Range(sh[p])
            BY <2>3
        <3>2. Range(sh[o]) \cap Range(sh[r]) = {} /\ Range(sh[p]) \cap Range(sh[r]) = {}
            BY <2>1, <2>3
        <3>. QED
            BY <3>1, <3>2
    <2>4. CASE q \notin {o, p} /\ r \in {o, p}
        <3>1. new[q] = sh[q] /\ Range(new[r]) \subseteq Range(sh[o]) \cup Range(sh[p])
            BY <2>4
        <3>2. Range(sh[o]) \cap Range(sh[q]) = {} /\ Range(sh[p]) \cap Range(sh[q]) = {}
            BY <2>1, <2>4
        <3>. QED
            BY <3>1, <3>2
    <2>5. CASE q \notin {o, p} /\ r \notin {o, p}
        BY <2>1, <2>5, <1>2
    <2>. QED
        BY <2>2, <2>3, <2>4, <2>5
<1>3. ASSUME NEW b \in Block PROVE \E q \in Owner : b \in Range(new[q])
    <2>1. PICK q \in Owner : b \in Range(sh[q])
        BY DEF OneOwner
    <2>2. CASE q \in {o, p}
        BY <2>1, <2>2
    <2>3. CASE q \notin {o, p}
        BY <2>1, <2>3
    <2>. QED
        BY <2>2, <2>3
<1>. QED
    BY <1>1, <1>2, <1>3 DEF OneOwner

(* Pages off the end of one shelf go onto the end of another.              *)
Pops(sh, new, o, p, n) ==
    /\ o \in Owner /\ p \in Owner /\ o # p /\ n \in Nat /\ n <= Len(sh[o])
    /\ new[o] = Rest(sh[o], n) /\ new[p] = sh[p] \o Popped(sh[o], n)
    /\ \A q \in Owner \ {o, p} : new[q] = sh[q]

LEMMA PopsKeepOwners ==
    ASSUME NEW sh, NEW new, NEW o, NEW p, NEW n, OneOwner(sh), Pops(sh, new, o, p, n)
    PROVE  OneOwner(new)
<1>. USE DEF Pops
<1>1. /\ sh[o] \in Seq(Block) /\ Distinct(sh[o]) /\ sh[p] \in Seq(Block) /\ Distinct(sh[p])
      /\ Range(sh[o]) \cap Range(sh[p]) = {}
    BY DEF OneOwner
<1>2. /\ Popped(sh[o], n) \in Seq(Block) /\ Rest(sh[o], n) \in Seq(Block)
      /\ Distinct(Popped(sh[o], n)) /\ Distinct(Rest(sh[o], n))
      /\ Range(Popped(sh[o], n)) \cap Range(Rest(sh[o], n)) = {}
      /\ Range(Popped(sh[o], n)) \cup Range(Rest(sh[o], n)) = Range(sh[o])
    BY <1>1, PoppedPages, PoppedApart
<1>3. Range(sh[p]) \cap Range(Popped(sh[o], n)) = {}
    BY <1>1, <1>2
<1>4. /\ new[p] \in Seq(Block) /\ Distinct(new[p])
      /\ Range(new[p]) = Range(sh[p]) \cup Range(Popped(sh[o], n))
    BY <1>1, <1>2, <1>3, ConcatDistinct
<1>5. /\ Range(new[o]) \cap Range(new[p]) = {}
      /\ Range(new[o]) \cup Range(new[p]) = Range(sh[o]) \cup Range(sh[p])
    BY <1>1, <1>2, <1>4
<1>6. new[o] \in Seq(Block) /\ Distinct(new[o])
    BY <1>2
<1>. QED
    BY <1>4, <1>5, <1>6, MovesKeepOwners

(* A whole shelf is cleared onto the end of another.                       *)
Clears(sh, new, o, p) ==
    /\ o \in Owner /\ p \in Owner /\ o # p
    /\ new[o] = <<>> /\ new[p] = sh[p] \o sh[o]
    /\ \A q \in Owner \ {o, p} : new[q] = sh[q]

LEMMA ClearKeepsOwners ==
    ASSUME NEW sh, NEW new, NEW o, NEW p, OneOwner(sh), Clears(sh, new, o, p)
    PROVE  OneOwner(new)
<1>. USE DEF Clears
<1>1. /\ sh[o] \in Seq(Block) /\ Distinct(sh[o]) /\ sh[p] \in Seq(Block) /\ Distinct(sh[p])
      /\ Range(sh[p]) \cap Range(sh[o]) = {}
    BY DEF OneOwner
<1>2. /\ new[p] \in Seq(Block) /\ Distinct(new[p])
      /\ Range(new[p]) = Range(sh[p]) \cup Range(sh[o])
    BY <1>1, ConcatDistinct
<1>3. new[o] \in Seq(Block) /\ Distinct(new[o]) /\ Range(new[o]) = {}
    BY DEF Distinct, Range
<1>4. /\ Range(new[o]) \cap Range(new[p]) = {}
      /\ Range(new[o]) \cup Range(new[p]) = Range(sh[o]) \cup Range(sh[p])
    BY <1>2, <1>3
<1>. QED
    BY <1>2, <1>3, <1>4, MovesKeepOwners

(* Of the shelves, a call on one table changes two.                        *)
SameBut(u, t, s) == \A r \in SeqId : r # s => u[r] = t[r]

LEMMA TargetShelf ==
    ASSUME NEW f \in Seq(Block), NEW g \in Seq(Block), 
           NEW t \in Tables, NEW u \in Tables, NEW d \in Tables, NEW s \in SeqId,
           SameBut(u, t, s)
    PROVE  /\ \A q \in Owner \ {Free, Target(s)} : Shelves(g, u, d)[q] = Shelves(f, t, d)[q]
           /\ Shelves(g, u, d)[Free] = g /\ Shelves(g, u, d)[Target(s)] = u[s]
<1>1. ASSUME NEW q \in Owner \ {Free, Target(s)} PROVE Shelves(g, u, d)[q] = Shelves(f, t, d)[q]
    <2>1. PICK r \in SeqId : q = Target(r) \/ q = Drafts(r)
        BY OwnerIs
    <2>2. CASE q = Target(r)
        <3>1. r # s
            BY <2>2
        <3>2. Shelves(g, u, d)[Target(r)] = u[r] /\ Shelves(f, t, d)[Target(r)] = t[r]
            BY ShelfAt
        <3>. QED
            BY <3>1, <3>2, <2>2 DEF SameBut
    <2>3. CASE q = Drafts(r)
        BY <2>3, ShelfAt
    <2>. QED
        BY <2>1, <2>2, <2>3
<1>2. Shelves(g, u, d)[Free] = g /\ Shelves(g, u, d)[Target(s)] = u[s]
    BY ShelfAt
<1>. QED
    BY <1>1, <1>2

LEMMA DraftShelf ==
    ASSUME NEW f \in Seq(Block), NEW g \in Seq(Block), 
           NEW t \in Tables, NEW u \in Tables, NEW d \in Tables, NEW s \in SeqId,
           SameBut(u, d, s)
    PROVE  /\ \A q \in Owner \ {Free, Drafts(s)} : Shelves(g, t, u)[q] = Shelves(f, t, d)[q]
           /\ Shelves(g, t, u)[Free] = g /\ Shelves(g, t, u)[Drafts(s)] = u[s]
<1>1. ASSUME NEW q \in Owner \ {Free, Drafts(s)} PROVE Shelves(g, t, u)[q] = Shelves(f, t, d)[q]
    <2>1. PICK r \in SeqId : q = Drafts(r) \/ q = Target(r)
        BY OwnerIs
    <2>2. CASE q = Drafts(r)
        <3>1. r # s
            BY <2>2
        <3>2. Shelves(g, t, u)[Drafts(r)] = u[r] /\ Shelves(f, t, d)[Drafts(r)] = d[r]
            BY ShelfAt
        <3>. QED
            BY <3>1, <3>2, <2>2 DEF SameBut
    <2>3. CASE q = Target(r)
        BY <2>3, ShelfAt
    <2>. QED
        BY <2>1, <2>2, <2>3
<1>2. Shelves(g, t, u)[Free] = g /\ Shelves(g, t, u)[Drafts(s)] = u[s]
    BY ShelfAt
<1>. QED
    BY <1>1, <1>2

(* What allocate takes for one table, off the free list.                   *)
LEMMA TargetTakes ==
    ASSUME NEW f \in Seq(Block), NEW t \in Tables, NEW d \in Tables, NEW s \in SeqId,
           OneOwner(Shelves(f, t, d)),
           NEW u \in Tables, SameBut(u, t, s), NEW g \in Seq(Block),
           NEW n \in Nat, n <= Len(f), g = Rest(f, n), u[s] = t[s] \o Popped(f, n)
    PROVE  OneOwner(Shelves(g, u, d))
<1>1. /\ Shelves(f, t, d)[Free] = f /\ Free \in Owner
      /\ Shelves(f, t, d)[Target(s)] = t[s] /\ Target(s) \in Owner
    BY ShelfAt
<1>2. Target(s) # Free
    BY ShelvesApart
<1>3. /\ \A q \in Owner \ {Free, Target(s)} : Shelves(g, u, d)[q] = Shelves(f, t, d)[q]
      /\ Shelves(g, u, d)[Free] = g /\ Shelves(g, u, d)[Target(s)] = u[s]
    BY ONLY f \in Seq(Block), g \in Seq(Block), t \in Tables, d \in Tables, u \in Tables,
            s \in SeqId, SameBut(u, t, s), TargetShelf
<1>4. Pops(Shelves(f, t, d), Shelves(g, u, d), Free, Target(s), n)
    BY <1>1, <1>2, <1>3 DEF Pops
<1>. QED
    BY <1>4, PopsKeepOwners

LEMMA DraftTakes ==
    ASSUME NEW f \in Seq(Block), NEW t \in Tables, NEW d \in Tables, NEW s \in SeqId,
           OneOwner(Shelves(f, t, d)),
           NEW u \in Tables, SameBut(u, d, s), NEW g \in Seq(Block),
           NEW n \in Nat, n <= Len(f), g = Rest(f, n), u[s] = d[s] \o Popped(f, n)
    PROVE  OneOwner(Shelves(g, t, u))
<1>1. /\ Shelves(f, t, d)[Free] = f /\ Free \in Owner
      /\ Shelves(f, t, d)[Drafts(s)] = d[s] /\ Drafts(s) \in Owner
    BY ShelfAt
<1>2. Drafts(s) # Free
    BY ShelvesApart
<1>3. /\ \A q \in Owner \ {Free, Drafts(s)} : Shelves(g, t, u)[q] = Shelves(f, t, d)[q]
      /\ Shelves(g, t, u)[Free] = g /\ Shelves(g, t, u)[Drafts(s)] = u[s]
    BY ONLY f \in Seq(Block), g \in Seq(Block), t \in Tables, d \in Tables, u \in Tables,
            s \in SeqId, SameBut(u, d, s), DraftShelf
<1>4. Pops(Shelves(f, t, d), Shelves(g, t, u), Free, Drafts(s), n)
    BY <1>1, <1>2, <1>3 DEF Pops
<1>. QED
    BY <1>4, PopsKeepOwners

(* What rollback takes off the end of a page table goes back to the list.  *)
LEMMA TargetDrops ==
    ASSUME NEW f \in Seq(Block), NEW t \in Tables, NEW d \in Tables, NEW s \in SeqId,
           OneOwner(Shelves(f, t, d)),
           NEW u \in Tables, SameBut(u, t, s), NEW g \in Seq(Block),
           NEW n \in Nat, n <= Len(t[s]), g = f \o Popped(t[s], n), u[s] = Rest(t[s], n)
    PROVE  OneOwner(Shelves(g, u, d))
<1>1. /\ Shelves(f, t, d)[Free] = f /\ Free \in Owner
      /\ Shelves(f, t, d)[Target(s)] = t[s] /\ Target(s) \in Owner
    BY ShelfAt
<1>2. Target(s) # Free
    BY ShelvesApart
<1>3. /\ \A q \in Owner \ {Free, Target(s)} : Shelves(g, u, d)[q] = Shelves(f, t, d)[q]
      /\ Shelves(g, u, d)[Free] = g /\ Shelves(g, u, d)[Target(s)] = u[s]
    BY ONLY f \in Seq(Block), g \in Seq(Block), t \in Tables, d \in Tables, u \in Tables,
            s \in SeqId, SameBut(u, t, s), TargetShelf
<1>4. Pops(Shelves(f, t, d), Shelves(g, u, d), Target(s), Free, n)
    BY <1>1, <1>2, <1>3 DEF Pops
<1>. QED
    BY <1>4, PopsKeepOwners

(* free_sequence: what the two tables hold goes back, the target's first.  *)
LEMMA TargetClears ==
    ASSUME NEW f \in Seq(Block), NEW t \in Tables, NEW d \in Tables, NEW s \in SeqId,
           OneOwner(Shelves(f, t, d)),
           NEW u \in Tables, SameBut(u, t, s), NEW g \in Seq(Block),
           g = f \o t[s], u[s] = <<>>
    PROVE  OneOwner(Shelves(g, u, d))
<1>1. /\ Shelves(f, t, d)[Free] = f /\ Free \in Owner
      /\ Shelves(f, t, d)[Target(s)] = t[s] /\ Target(s) \in Owner
    BY ShelfAt
<1>2. Target(s) # Free
    BY ShelvesApart
<1>3. /\ \A q \in Owner \ {Free, Target(s)} : Shelves(g, u, d)[q] = Shelves(f, t, d)[q]
      /\ Shelves(g, u, d)[Free] = g /\ Shelves(g, u, d)[Target(s)] = u[s]
    BY ONLY f \in Seq(Block), g \in Seq(Block), t \in Tables, d \in Tables, u \in Tables,
            s \in SeqId, SameBut(u, t, s), TargetShelf
<1>4. Clears(Shelves(f, t, d), Shelves(g, u, d), Target(s), Free)
    BY <1>1, <1>2, <1>3 DEF Clears
<1>. QED
    BY <1>4, ClearKeepsOwners

LEMMA DraftClears ==
    ASSUME NEW f \in Seq(Block), NEW t \in Tables, NEW d \in Tables, NEW s \in SeqId,
           OneOwner(Shelves(f, t, d)),
           NEW u \in Tables, SameBut(u, d, s), NEW g \in Seq(Block),
           g = f \o d[s], u[s] = <<>>
    PROVE  OneOwner(Shelves(g, t, u))
<1>1. /\ Shelves(f, t, d)[Free] = f /\ Free \in Owner
      /\ Shelves(f, t, d)[Drafts(s)] = d[s] /\ Drafts(s) \in Owner
    BY ShelfAt
<1>2. Drafts(s) # Free
    BY ShelvesApart
<1>3. /\ \A q \in Owner \ {Free, Drafts(s)} : Shelves(g, t, u)[q] = Shelves(f, t, d)[q]
      /\ Shelves(g, t, u)[Free] = g /\ Shelves(g, t, u)[Drafts(s)] = u[s]
    BY ONLY f \in Seq(Block), g \in Seq(Block), t \in Tables, d \in Tables, u \in Tables,
            s \in SeqId, SameBut(u, d, s), DraftShelf
<1>4. Clears(Shelves(f, t, d), Shelves(g, t, u), Drafts(s), Free)
    BY <1>1, <1>2, <1>3 DEF Clears
<1>. QED
    BY <1>4, ClearKeepsOwners

(* Pages that no other table counts go back in the order they are freed.   *)
IsReturned(g, d) ==
    g = [i \in 0..Len(d) |->
            IF i = 0 THEN <<>>
            ELSE IF refCount[d[i]] <= 1 THEN Append(g[i - 1], d[i])
            ELSE g[i - 1]]

LEMMA ReturnedAll ==
    ASSUME NEW d \in Seq(Block), \A i \in 1..Len(d) : refCount[d[i]] <= 1
    PROVE  Returned(d) = d
<1>. DEFINE n == Len(d)
            h == [i \in 0..n |-> SubSeq(d, 1, i)]
            g == CHOOSE x : IsReturned(x, d)
<1>1. n \in Nat
    OBVIOUS
<1>2. ASSUME NEW i \in 1..n PROVE Append(SubSeq(d, 1, i - 1), d[i]) = SubSeq(d, 1, i)
    <2>1. SubSeq(d, 1, i) = SubSeq(d, 1, i - 1) \o <<d[i]>>
        <3>1. 1 \in 1..Len(d) /\ i \in 1..Len(d)
            OBVIOUS
        <3>. QED
            BY <3>1, SubSeqRecursiveSecond
    <2>2. SubSeq(d, 1, i - 1) \in Seq(Block) /\ d[i] \in Block
        OBVIOUS
    <2>. QED
        BY <2>1, <2>2, AppendIsConcat
<1>3. IsReturned(h, d)
    <2>1. h[0] = <<>> /\ 0 \in 0..n
        BY SubSeqEmpty, <1>1
    <2>2. ASSUME NEW i \in 1..n PROVE h[i] = Append(h[i - 1], d[i]) /\ i \in 0..n
        <3>1. i \in 0..n /\ i - 1 \in 0..n
            BY <1>1
        <3>2. h[i] = SubSeq(d, 1, i) /\ h[i - 1] = SubSeq(d, 1, i - 1)
            BY <3>1
        <3>. HIDE DEF h
        <3>. QED
            BY <1>2, <3>1, <3>2
    <2>3. h = [i \in 0..n |-> h[i]]
        OBVIOUS
    <2>. HIDE DEF h
    <2>4. \A i \in 0..n : i = 0 \/ i \in 1..n
        BY <1>1
    <2>. QED
        BY <2>1, <2>2, <2>3, <2>4 DEF IsReturned
<1>4. IsReturned(g, d)
    BY <1>3
<1>. HIDE DEF g, h
<1>5. g[0] = <<>>
    BY <1>1, <1>4 DEF IsReturned
<1>6. ASSUME NEW i \in 1..n PROVE g[i] = Append(g[i - 1], d[i])
    <2>1. i \in 0..n /\ i # 0
        BY <1>1
    <2>. QED
        BY <2>1, <1>4 DEF IsReturned
<1>. DEFINE T == {i \in 0..n : g[i] = SubSeq(d, 1, i)}
<1>7. 0 \in T
    <2>1. SubSeq(d, 1, 0) = <<>> /\ 0 \in 0..n
        BY <1>1, SubSeqEmpty
    <2>. QED
        BY ONLY <2>1, <1>5
<1>8. ASSUME NEW i \in 1..n, i - 1 \in T PROVE i \in T
    <2>1. i \in 0..n /\ g[i - 1] = SubSeq(d, 1, i - 1)
        BY <1>1, <1>8
    <2>2. g[i] = SubSeq(d, 1, i)
        BY ONLY <2>1, <1>2, <1>6, i \in 1..n
    <2>. QED
        BY ONLY <2>1, <2>2
<1>9. n \in T
    <2>. HIDE DEF T, n
    <2>1. \A i \in 0..n : i \in T
        BY <1>1, <1>7, <1>8, UpTo
    <2>. QED
        BY <2>1, <1>1
<1>10. g[n] = d
    BY <1>9, SubSeqFull
<1>11. Returned(d) = g[n]
    BY DEF Returned, IsReturned, g
<1>. QED
    BY <1>10, <1>11

(* remove takes one request out of the list and leaves the others.         *)
LEMMA SubSeqDistinct ==
    ASSUME NEW S, NEW q \in Seq(S), Distinct(q),
           NEW m \in Int, NEW n \in Int, 1 <= m, n <= Len(q)
    PROVE  /\ SubSeq(q, m, n) \in Seq(S) /\ Distinct(SubSeq(q, m, n))
           /\ Len(SubSeq(q, m, n)) = IF m <= n THEN n - m + 1 ELSE 0
           /\ Range(SubSeq(q, m, n)) = {q[i] : i \in m..n}
<1>. DEFINE p == SubSeq(q, m, n)
<1>1. \A i \in m..n : i \in 1..Len(q)
    OBVIOUS
<1>2. /\ p \in Seq(S) /\ Len(p) = IF m <= n THEN n - m + 1 ELSE 0
      /\ \A i \in 1..(n - m + 1) : p[i] = q[m + i - 1]
    <2>1. \A i \in m..n : q[i] \in S
        BY <1>1
    <2>. QED
        BY <2>1, SubSeqProperties
<1>. HIDE DEF p
<1>3. \A i \in 1..Len(p) : i \in 1..(n - m + 1) /\ m + i - 1 \in m..n
    BY <1>2
<1>4. Range(p) = {p[i] : i \in 1..Len(p)}
    BY <1>2, RangeEquality
<1>5. Distinct(p)
    <2>. SUFFICES ASSUME NEW i \in 1..Len(p), NEW j \in 1..Len(p), p[i] = p[j] PROVE i = j
        BY DEF Distinct
    <2>1. m + i - 1 \in 1..Len(q) /\ m + j - 1 \in 1..Len(q) /\ q[m + i - 1] = q[m + j - 1]
        BY <1>1, <1>2, <1>3
    <2>2. m + i - 1 = m + j - 1
        BY <2>1 DEF Distinct
    <2>. QED
        BY <2>2, <1>2
<1>6. Range(p) = {q[i] : i \in m..n}
    <2>1. ASSUME NEW i \in m..n PROVE \E j \in 1..Len(p) : p[j] = q[i]
        <3>1. i - m + 1 \in 1..Len(p) /\ m + (i - m + 1) - 1 = i /\ i - m + 1 \in 1..(n - m + 1)
            BY <1>2
        <3>2. p[i - m + 1] = q[i]
            BY <3>1, <1>2
        <3>. QED
            BY <3>1, <3>2
    <2>2. ASSUME NEW j \in 1..Len(p) PROVE \E i \in m..n : p[j] = q[i]
        BY <1>2, <1>3
    <2>. DEFINE picked == {q[i] : i \in m..n}
    <2>3. Range(p) \subseteq picked
        BY ONLY <2>2, <1>4
    <2>4. picked \subseteq Range(p)
        BY ONLY <2>1, <1>4
    <2>. QED
        BY ONLY <2>3, <2>4
<1>. QED
    BY <1>2, <1>5, <1>6 DEF p

LEMMA RemovesOne ==
    ASSUME NEW S, NEW q \in Seq(S), Distinct(q), NEW s \in Range(q)
    PROVE  /\ Removed(q, s) \in Seq(S) /\ Distinct(Removed(q, s))
           /\ Len(Removed(q, s)) = Len(q) - 1
           /\ Range(Removed(q, s)) = Range(q) \ {s}
<1>. DEFINE n == Len(q)
            IsFirst(i) == q[i] = s /\ \A j \in 1..(i - 1) : q[j] # s
            k == CHOOSE i \in 1..n : IsFirst(i)
<1>1. Range(q) = {q[i] : i \in 1..n} /\ n \in Nat
    BY RangeEquality
<1>2. PICK x \in 1..n : q[x] = s
    BY <1>1
<1>3. \A i, j \in 1..n : q[i] = q[j] => i = j
    BY DEF Distinct
<1>4. IsFirst(x)
    <2>1. ASSUME NEW j \in 1..(x - 1) PROVE q[j] # s
        <3>1. j \in 1..n /\ j # x
            BY <1>1
        <3>. QED
            BY <3>1, <1>2, <1>3
    <2>. QED
        BY <2>1, <1>2
<1>5. k \in 1..n /\ q[k] = s
    BY <1>4
<1>. DEFINE a == SubSeq(q, 1, k - 1)
            b == SubSeq(q, k + 1, n)
<1>6. Removed(q, s) = a \o b
    BY DEF Removed
<1>. HIDE DEF k
<1>7. k - 1 \in Int /\ k + 1 \in Int /\ 1 <= k + 1 /\ k - 1 <= n
    BY <1>1, <1>5
<1>. HIDE DEF n
<1>8. /\ a \in Seq(S) /\ Distinct(a) /\ Range(a) = {q[i] : i \in 1..(k - 1)}
      /\ Len(a) = k - 1
    <2>1. a \in Seq(S) /\ Distinct(a) /\ Range(a) = {q[i] : i \in 1..(k - 1)}
          /\ Len(a) = IF 1 <= k - 1 THEN k - 1 - 1 + 1 ELSE 0
        BY <1>7, SubSeqDistinct DEF n
    <2>. HIDE DEF a
    <2>. QED
        BY <2>1, <1>1, <1>5
<1>9. /\ b \in Seq(S) /\ Distinct(b) /\ Range(b) = {q[i] : i \in (k + 1)..n}
      /\ Len(b) = n - k
    <2>1. b \in Seq(S) /\ Distinct(b) /\ Range(b) = {q[i] : i \in (k + 1)..n}
          /\ Len(b) = IF k + 1 <= n THEN n - (k + 1) + 1 ELSE 0
        BY <1>1, <1>7, SubSeqDistinct DEF n
    <2>. HIDE DEF b
    <2>. QED
        BY <2>1, <1>1, <1>5
<1>. HIDE DEF a, b
<1>10. /\ \A i \in 1..(k - 1) : i \in 1..n /\ i # k
       /\ \A i \in (k + 1)..n : i \in 1..n /\ i # k
       /\ \A i \in 1..n : i = k \/ i \in 1..(k - 1) \/ i \in (k + 1)..n
       /\ \A i \in 1..(k - 1), j \in (k + 1)..n : i # j
    BY <1>1, <1>5
<1>11. Range(a) \cap Range(b) = {}
    BY <1>3, <1>8, <1>9, <1>10
<1>12. /\ a \o b \in Seq(S) /\ Distinct(a \o b) /\ Range(a \o b) = Range(a) \cup Range(b)
    <2>1. a \in Seq(S) /\ Distinct(a) /\ b \in Seq(S) /\ Distinct(b)
        BY <1>8, <1>9
    <2>. QED
        BY ONLY <2>1, <1>11, ConcatDistinct
<1>13. Len(a \o b) = Len(a) + Len(b)
    BY <1>8, <1>9, ConcatProperties
<1>14. Range(a) \cup Range(b) = Range(q) \ {s}
    <2>1. \A i \in 1..n : i # k => q[i] # s
        BY <1>3, <1>5
    <2>. QED
        BY <2>1, <1>1, <1>5, <1>8, <1>9, <1>10
<1>15. Len(a \o b) = n - 1
    BY <1>1, <1>5, <1>8, <1>9, <1>13
<1>. QED
    BY <1>6, <1>12, <1>14, <1>15 DEF n

-----------------------------------------------------------------------------
(* The invariant of both drivers.  What waits is the ids from Oldest on,   *)
(* in order; what came before runs or has finished, once.  Only the oldest *)
(* that waits may hold pages, and only the target's.                       *)
Oldest == nextId - Len(waiting)

Types ==
    /\ mode \in DecodeMode /\ driver \in Drivers /\ pc \in {"client", "schedule"}
    /\ free \in Seq(Block)
    /\ waiting \in Seq(SeqId) /\ running \in Seq(SeqId) /\ finished \in Seq(SeqId)
    /\ nextId \in Nat
    /\ tokens \in [SeqId -> Nat] /\ completion \in [SeqId -> Nat]
    /\ table \in Tables /\ draftTable \in Tables

PagesOwned ==
    /\ OneOwner(Shelves(free, table, draftTable))
    /\ refCount = [b \in Block |-> IF b \in Range(free) THEN 0 ELSE 1]

IdsInOrder ==
    /\ \A i \in 1..Len(waiting) : waiting[i] = Oldest + i - 1
    /\ Range(running) \cup Range(finished) = 0..(Oldest - 1)
    /\ Range(running) \cap Range(finished) = {}
    /\ Distinct(running)
    /\ Len(running) + Len(finished) = Oldest

OnlyOldestHolds ==
    /\ \A s \in SeqId : /\ s >= Oldest => draftTable[s] = <<>>
                        /\ s > Oldest => table[s] = <<>>
    /\ \A s \in Range(finished) : table[s] = <<>> /\ draftTable[s] = <<>>

PagedInv == Types /\ PagesOwned /\ IdsInOrder /\ OnlyOldestHolds

(* The numbers the page manager works with.                                *)
LEMMA ExtraIsNat ==
    ASSUME NEW t \in Seq(Block), NEW n \in Nat
    PROVE  Extra(t, n) \in Nat /\ Blocks(n) \in Nat /\ Len(t) + Extra(t, n) >= Blocks(n)
<1>. DEFINE m == n + BlockSize - 1
<1>1. BlockSize \in Nat \ {0} /\ m \in Nat
    BY CacheShape
<1>. HIDE DEF m
<1>2. m \div BlockSize \in Nat
    BY <1>1, DivisionWithRemainder
<1>3. Blocks(n) \in Nat
    BY <1>2 DEF Blocks, m
<1>. QED
    BY <1>3 DEF Extra

(* More tokens need no fewer pages. *)
LEMMA BlocksGrow ==
    ASSUME NEW n \in Nat, NEW m \in Nat, n <= m
    PROVE  Blocks(n) <= Blocks(m)
<1>. DEFINE a == n + BlockSize - 1
            b == m + BlockSize - 1
            q == a \div BlockSize
            r == b \div BlockSize
<1>1. BlockSize \in Nat \ {0} /\ a \in Nat /\ b \in Nat /\ a <= b
    BY CacheShape
<1>. HIDE DEF a, b
<1>2. /\ q \in Nat /\ a % BlockSize \in 0..(BlockSize - 1)
      /\ a = q * BlockSize + (a % BlockSize)
    BY <1>1, DivisionWithRemainder
<1>3. /\ r \in Nat /\ b % BlockSize \in 0..(BlockSize - 1)
      /\ b = r * BlockSize + (b % BlockSize)
    BY <1>1, DivisionWithRemainder
<1>. HIDE DEF q, r
<1>4. q * BlockSize \in Int /\ r * BlockSize \in Int
    BY <1>1, <1>2, <1>3
<1>5. ~ (r < q)
    <2>1. r < q => r * BlockSize + BlockSize <= q * BlockSize
        BY <1>1, <1>2, <1>3, MultiplesApart
    <2>. QED
        BY <2>1, <1>1, <1>2, <1>3, <1>4
<1>6. q <= r
    BY <1>2, <1>3, <1>5
<1>. QED
    BY <1>6 DEF Blocks, a, b, q, r

(* A table lacks no fewer pages for more tokens. *)
LEMMA ExtraGrows ==
    ASSUME NEW t \in Seq(Block), NEW n \in Nat, NEW m \in Nat, n <= m
    PROVE  Extra(t, n) <= Extra(t, m)
<1>1. Blocks(n) <= Blocks(m) /\ Blocks(n) \in Nat /\ Blocks(m) \in Nat
    BY BlocksGrow, ExtraIsNat
<1>2. Len(t) \in Nat
    OBVIOUS
<1>. QED
    BY <1>1, <1>2 DEF Extra

LEMMA Reserves ==
    ASSUME mode \in DecodeMode
    PROVE  ReserveTokens \in Nat /\ DraftReserve \in Nat
<1>1. K \in Nat /\ MqLen \in Nat
    BY ConfigAssumption, FanOutBounds
<1>2. K * MqLen \in Nat
    BY <1>1
<1>. QED
    BY <1>1, <1>2 DEF ReserveTokens, DraftReserve

LEMMA KeptBounds ==
    ASSUME NEW s \in SeqId, table \in Tables, NEW n \in Nat, NEW m \in Nat
    PROVE  Kept(s, n, m) \in 0..Len(table[s])
<1>1. Blocks(n + m) \in Nat
    <2>1. n + m \in Nat /\ table[s] \in Seq(Block)
        BY DEF Tables
    <2>. QED
        BY <2>1, ExtraIsNat
<1>2. Len(table[s]) \in Nat
    BY DEF Tables
<1>. QED
    BY <1>1, <1>2 DEF Kept

(* The counts agree with the free list.                                    *)
LEMMA CountsTaken ==
    ASSUME NEW F, NEW G, NEW D, F = G \cup D, G \cap D = {},
           refCount = [b \in Block |-> IF b \in F THEN 0 ELSE 1]
    PROVE  Counted(D) = [b \in Block |-> IF b \in G THEN 0 ELSE 1]
<1>1. ASSUME NEW b \in Block
      PROVE  refCount[b] + (IF b \in D THEN 1 ELSE 0) = IF b \in G THEN 0 ELSE 1
    OBVIOUS
<1>. QED
    BY <1>1 DEF Counted

LEMMA OwnedApart ==
    ASSUME NEW f \in Seq(Block), NEW t \in Tables, NEW d \in Tables, NEW s \in SeqId,
           OneOwner(Shelves(f, t, d))
    PROVE  /\ f \in Seq(Block) /\ t[s] \in Seq(Block) /\ d[s] \in Seq(Block)
           /\ Distinct(f) /\ Distinct(t[s]) /\ Distinct(d[s])
           /\ Range(f) \cap Range(t[s]) = {} /\ Range(f) \cap Range(d[s]) = {}
           /\ Range(t[s]) \cap Range(d[s]) = {}
<1>. DEFINE sh == Shelves(f, t, d)
<1>1. /\ sh[Free] = f /\ Free \in Owner
      /\ sh[Target(s)] = t[s] /\ Target(s) \in Owner
      /\ sh[Drafts(s)] = d[s] /\ Drafts(s) \in Owner
    BY ShelfAt
<1>2. Target(s) # Free /\ Drafts(s) # Free /\ Target(s) # Drafts(s)
    BY ShelvesApart
<1>. HIDE DEF sh
<1>3. OneOwner(sh)
    BY DEF sh
<1>. QED
    BY <1>1, <1>2, <1>3 DEF OneOwner

LEMMA InitPaged == Init => PagedInv
<1>. SUFFICES ASSUME Init PROVE PagedInv
    OBVIOUS
<1>1. /\ free \in Seq(Block) /\ Len(free) = NumBlocks
      /\ \A i \in 1..NumBlocks : free[i] = i - 1
    <2>1. NumBlocks \in Nat
        BY CacheShape
    <2>2. free \in [1..NumBlocks -> Block] /\ \A i \in 1..NumBlocks : free[i] = i - 1
        BY <2>1 DEF Block, Init
    <2>. QED
        BY <2>1, <2>2
<1>2. Distinct(free) /\ Range(free) = Block
    <2>1. NumBlocks \in Nat
        BY CacheShape
    <2>2. Range(free) = {free[i] : i \in 1..NumBlocks}
        BY <1>1, RangeEquality
    <2>3. ASSUME NEW b \in Block PROVE b \in Range(free)
        <3>1. b + 1 \in 1..NumBlocks /\ (b + 1) - 1 = b
            BY <2>1 DEF Block
        <3>2. free[b + 1] = b
            BY <3>1, <1>1
        <3>. QED
            BY <3>1, <3>2, <2>2
    <2>4. \A i \in 1..NumBlocks : free[i] \in Block
        BY <1>1, <2>1 DEF Block
    <2>5. \A i, j \in 1..NumBlocks : free[i] = free[j] => i = j
        BY <1>1, <2>1
    <2>. QED
        BY <2>2, <2>3, <2>4, <2>5, <1>1 DEF Distinct
<1>3. /\ table \in Tables /\ draftTable \in Tables
      /\ \A s \in SeqId : table[s] = <<>> /\ draftTable[s] = <<>>
    BY DEF Tables, Init
<1>4. Types
    BY <1>1, <1>3, SchedulerAssumption DEF Types, Init
<1>5. OneOwner(Shelves(free, table, draftTable))
    <2>. DEFINE sh == Shelves(free, table, draftTable)
    <2>1. ASSUME NEW o \in Owner PROVE sh[o] = IF o = Free THEN free ELSE <<>>
        <3>1. CASE o = Free
            BY <3>1 DEF Shelves, Free
        <3>2. CASE o # Free
            <4>1. PICK s \in SeqId : o = Target(s) \/ o = Drafts(s)
                BY <3>2, OwnerIs
            <4>2. sh[Target(s)] = <<>> /\ sh[Drafts(s)] = <<>>
                <5>1. free \in Seq(Block) /\ table \in Tables /\ draftTable \in Tables
                    BY <1>1, <1>3
                <5>2. sh[Target(s)] = table[s] /\ sh[Drafts(s)] = draftTable[s]
                    BY <5>1, ShelfAt
                <5>. QED
                    BY <5>2, <1>3
            <4>. QED
                BY <3>2, <4>1, <4>2
        <3>. QED
            BY <3>1, <3>2
    <2>2. /\ <<>> \in Seq(Block) /\ Distinct(<<>>) /\ Range(<<>>) = {}
        BY DEF Distinct, Range
    <2>3. Free \in Owner
        BY DEF Owner
    <2>. HIDE DEF sh
    <2>. QED
        BY <2>1, <2>2, <2>3, <1>1, <1>2 DEF OneOwner, sh
<1>6. PagesOwned
    BY <1>2, <1>5 DEF PagesOwned, Init
<1>7. waiting = <<>> /\ Len(waiting) = 0 /\ Len(running) = 0 /\ Len(finished) = 0 /\ nextId = 0
    BY DEF Init
<1>8. Range(running) = {} /\ Range(finished) = {}
    BY DEF Range, Init
<1>9. Oldest = 0
    <2>1. Len(waiting) = 0 /\ nextId = 0
        BY <1>7
    <2>. QED
        BY ONLY <2>1 DEF Oldest
<1>10. IdsInOrder
    BY <1>7, <1>8, <1>9 DEF IdsInOrder, Distinct
<1>11. OnlyOldestHolds
    BY <1>3, <1>8 DEF OnlyOldestHolds
<1>. QED
    BY <1>4, <1>6, <1>10, <1>11 DEF PagedInv

LEMMA AddKeepsPaged ==
    ASSUME PagedInv, AddRequest
    PROVE  PagedInv'
<1>1. /\ pc' \in {"client", "schedule"} /\ nextId \in SeqId /\ nextId' = nextId + 1
      /\ waiting' = Append(waiting, nextId)
      /\ UNCHANGED <<mode, driver, free, refCount, table, draftTable, running, finished, completion>>
    BY DEF AddRequest, pageVars, PagedInv, Types
<1>2. PICK n \in PromptLengths : tokens' = [tokens EXCEPT ![nextId] = n]
    BY DEF AddRequest
<1>3. /\ waiting \in Seq(SeqId) /\ nextId \in Nat /\ tokens \in [SeqId -> Nat]
      /\ Len(waiting) \in Nat /\ n \in Nat
    BY SchedulerAssumption DEF PagedInv, Types
<1>4. Types'
    <2>1. waiting' \in Seq(SeqId) /\ tokens' \in [SeqId -> Nat] /\ nextId' \in Nat
        BY <1>1, <1>2, <1>3
    <2>. QED
        BY <1>1, <2>1 DEF PagedInv, Types
<1>5. PagesOwned'
    BY <1>1 DEF PagedInv, PagesOwned
<1>6. Len(waiting') = Len(waiting) + 1 /\ Oldest' = Oldest /\ Oldest \in Int
    BY <1>1, <1>3 DEF Oldest
<1>7. IdsInOrder'
    <2>1. ASSUME NEW i \in 1..Len(waiting') PROVE waiting'[i] = Oldest' + i - 1
        <3>1. CASE i = Len(waiting')
            BY <3>1, <1>1, <1>3, <1>6 DEF Oldest
        <3>2. CASE i # Len(waiting')
            <4>1. i \in 1..Len(waiting) /\ waiting'[i] = waiting[i]
                BY <3>2, <1>1, <1>3, <1>6
            <4>. QED
                BY <4>1, <1>6 DEF PagedInv, IdsInOrder
        <3>. QED
            BY <3>1, <3>2
    <2>. QED
        BY <2>1, <1>1, <1>6 DEF PagedInv, IdsInOrder
<1>8. OnlyOldestHolds'
    BY <1>1, <1>6 DEF PagedInv, OnlyOldestHolds
<1>. QED
    BY <1>4, <1>5, <1>7, <1>8 DEF PagedInv

(* What a round of generate changes.                                       *)
LEMMA RoundGrows ==
    ASSUME PagedInv, GenerateAppends
    PROVE  /\ pc = "client" /\ driver = "generate"
           /\ UNCHANGED <<mode, driver, pc, pageVars, queueVars, nextId>>
           /\ tokens' \in [SeqId -> Nat] /\ completion' \in [SeqId -> Nat]
           /\ \A s \in SeqId : tokens[s] <= tokens'[s]
<1>. DEFINE s == nextId - 1
            most == IF completion[s] = 0 \/ mode = "ar" THEN 1 ELSE K + 1
<1>1. PICK n \in 1..most : /\ tokens' = [tokens EXCEPT ![s] = @ + n]
                           /\ completion' = [completion EXCEPT ![s] = @ + n]
    BY DEF GenerateAppends
<1>2. n \in Nat
    <2>1. most \in Nat
        BY ConfigAssumption
    <2>. HIDE DEF most
    <2>. QED
        BY <2>1
<1>3. /\ tokens \in [SeqId -> Nat] /\ completion \in [SeqId -> Nat]
      /\ s \in SeqId /\ pc = "client" /\ driver = "generate"
      /\ UNCHANGED <<mode, driver, pc, pageVars, queueVars, nextId>>
    BY DEF GenerateAppends, PagedInv, Types
<1>. HIDE DEF s, most
<1>. QED
    BY <1>1, <1>2, <1>3

LEMMA RoundKeepsPaged ==
    ASSUME PagedInv, GenerateAppends
    PROVE  PagedInv'
<1>1. /\ UNCHANGED <<mode, driver, pc, pageVars, queueVars, nextId>>
      /\ tokens' \in [SeqId -> Nat] /\ completion' \in [SeqId -> Nat]
    BY RoundGrows
<1>. QED
    BY <1>1 DEF pageVars, queueVars, PagedInv, Types, PagesOwned, IdsInOrder,
                OnlyOldestHolds, Oldest

(* What schedule does when it admits nobody: the queue is as it was.       *)
Idles ==
    /\ pc' \in {"client", "schedule"}
    /\ UNCHANGED <<mode, driver, pageVars, queueVars, nextId, countVars>>

LEMMA WhoIdles ==
    ASSUME PagedInv, Schedule \/ ScheduleReturns \/ (\E s \in SeqId : NoTargetPages(s)) \/ UNCHANGED vars
    PROVE  Idles
<1>1. CASE Schedule
    BY <1>1 DEF Schedule, Idles
<1>2. CASE ScheduleReturns
    BY <1>2 DEF ScheduleReturns, Idles
<1>3. CASE UNCHANGED vars
    BY <1>3 DEF vars, Idles, pageVars, queueVars, countVars, PagedInv, Types
<1>4. CASE \E s \in SeqId : NoTargetPages(s)
    <2>1. waiting # <<>> /\ waiting' = <<Head(waiting)>> \o Tail(waiting)
        BY <1>4 DEF NoTargetPages, CanTry, PutBack
    <2>2. waiting \in Seq(SeqId)
        BY DEF PagedInv, Types
    <2>3. waiting' = waiting
        BY <2>1, <2>2, HeadThenTail
    <2>. QED
        BY <2>3, <1>4 DEF NoTargetPages, Idles, queueVars
<1>. QED
    BY <1>1, <1>2, <1>3, <1>4

LEMMA IdlingKeepsPaged ==
    ASSUME PagedInv, Idles
    PROVE  PagedInv'
BY DEF Idles, pageVars, queueVars, countVars, PagedInv, Types, PagesOwned, IdsInOrder,
       OnlyOldestHolds, Oldest

(* The head of the queue is tried; taken, drafts and left are what it is   *)
(* given, what its draft table lacks, and what the list has left between.  *)
LEMMA TryGives ==
    ASSUME PagedInv, NEW s \in SeqId, TryAdmit(s)
    PROVE  /\ pc = "schedule" /\ s = Oldest /\ waiting # <<>> /\ s \notin Range(finished)
           /\ Len(running) < MaxRunning
           /\ UNCHANGED <<mode, driver, finished, nextId, tokens, completion>>
           /\ free' \in Seq(Block) /\ table' \in Tables /\ draftTable' \in Tables
           /\ \A r \in SeqId : r # s => table'[r] = table[r] /\ draftTable'[r] = draftTable[r]
           /\ PagesOwned'
           /\ \/ waiting' = Tail(waiting) /\ running' = Append(running, s) /\ pc' = pc
              \/ waiting' = waiting /\ running' = running /\ pc' = "client" /\ draftTable' = draftTable
<1>. DEFINE lacks == Extra(table[s], tokens[s] + ReserveTokens)
            drafts == IF mode = "ar" THEN 0 ELSE Extra(draftTable[s], tokens[s] + DraftReserve)
            taken == Popped(free, lacks)
            left == Rest(free, lacks)
            admitted == drafts <= Len(left)
            given == IF admitted THEN drafts ELSE 0
            draftTaken == IF admitted THEN Popped(left, drafts) ELSE <<>>
<1>1. /\ pc = "schedule" /\ waiting # <<>> /\ s = Head(waiting) /\ Len(running) < MaxRunning
      /\ lacks <= Len(free)
    BY DEF TryAdmit, CanTry, CanAllocate
<1>2. /\ mode \in DecodeMode /\ free \in Seq(Block) /\ tokens \in [SeqId -> Nat]
      /\ waiting \in Seq(SeqId) /\ running \in Seq(SeqId) /\ finished \in Seq(SeqId)
      /\ table \in Tables /\ draftTable \in Tables /\ nextId \in Nat
      /\ table[s] \in Seq(Block) /\ draftTable[s] \in Seq(Block) /\ tokens[s] \in Nat
    BY DEF PagedInv, Types, Tables
<1>3. lacks \in Nat /\ drafts \in Nat
    <2>1. tokens[s] + ReserveTokens \in Nat /\ tokens[s] + DraftReserve \in Nat
        BY <1>2, Reserves
    <2>. QED
        BY <1>2, <2>1, ExtraIsNat
<1>4. OneOwner(Shelves(free, table, draftTable)) /\ Distinct(free)
      /\ refCount = [b \in Block |-> IF b \in Range(free) THEN 0 ELSE 1]
    BY <1>2, OwnedApart DEF PagedInv, PagesOwned
<1>5. /\ UNCHANGED <<mode, driver, finished, nextId, tokens, completion>>
      /\ table' = [table EXCEPT ![s] = @ \o taken]
      /\ draftTable' = [draftTable EXCEPT ![s] = @ \o draftTaken]
      /\ free' = Rest(left, Len(draftTaken))
      /\ refCount' = Counted(Range(taken) \cup Range(draftTaken))
      /\ admitted => waiting' = Tail(waiting) /\ running' = Append(running, s) /\ pc' = pc
      /\ ~ admitted => /\ waiting' = <<Head(waiting)>> \o Tail(waiting)
                       /\ pc' = "client" /\ running' = running
    <2>1. Len(taken) = lacks
        BY <1>1, <1>2, <1>3, PoppedPages
    <2>. QED
        BY <2>1 DEF TryAdmit, Taken, PutBack, countVars
<1>6. /\ taken \in Seq(Block) /\ Distinct(taken)
      /\ left \in Seq(Block) /\ Distinct(left) /\ Len(left) = Len(free) - lacks
      /\ Range(taken) \cap Range(left) = {} /\ Range(taken) \cup Range(left) = Range(free)
    <2>. HIDE DEF lacks
    <2>. QED
        BY <1>1, <1>2, <1>3, <1>4, PoppedPages, PoppedApart
<1>7. given \in Nat /\ given <= Len(left)
    <2>1. Len(left) \in Nat
        BY <1>6
    <2>. HIDE DEF left, drafts
    <2>. QED
        BY <1>3, <2>1
<1>. HIDE DEF lacks, taken, left, drafts
<1>8. draftTaken = Popped(left, given) /\ Len(draftTaken) = given
    <2>1. Len(Popped(left, given)) = given /\ Popped(left, given) \in Seq(Block)
        BY <1>6, <1>7, PoppedPages
    <2>2. CASE admitted
        BY <2>1, <2>2
    <2>3. CASE ~ admitted
        <3>1. given = 0
            BY <2>3
        <3>2. Popped(left, given) = <<>>
            <4>. HIDE DEF given
            <4>. QED
                BY <2>1, <3>1, EmptySeq
        <3>. QED
            BY <2>1, <2>3, <3>2
    <2>. QED
        BY <2>2, <2>3
<1>9. given = 0 \/ admitted
    OBVIOUS
<1>10. /\ admitted => waiting' = Tail(waiting) /\ running' = Append(running, s) /\ pc' = pc
       /\ ~ admitted => waiting' = waiting /\ pc' = "client" /\ running' = running
    BY <1>1, <1>2, <1>5, HeadThenTail
<1>. HIDE DEF draftTaken, given, admitted
<1>11. /\ draftTaken \in Seq(Block) /\ free' \in Seq(Block) /\ free' = Rest(left, given)
       /\ Range(draftTaken) \cap Range(free') = {}
       /\ Range(draftTaken) \cup Range(free') = Range(left)
    BY <1>5, <1>6, <1>7, <1>8, PoppedPages, PoppedApart
<1>12. /\ table' \in Tables /\ table'[s] = table[s] \o taken /\ SameBut(table', table, s)
    <2>1. table[s] \o taken \in Seq(Block)
        BY <1>2, <1>6, ConcatProperties
    <2>. QED
        BY <2>1, <1>2, <1>5 DEF Tables, SameBut
<1>13. /\ draftTable' \in Tables /\ draftTable'[s] = draftTable[s] \o draftTaken
       /\ SameBut(draftTable', draftTable, s)
    <2>1. draftTable[s] \o draftTaken \in Seq(Block)
        BY <1>2, <1>11, ConcatProperties
    <2>. QED
        BY <2>1, <1>2, <1>5 DEF Tables, SameBut
<1>14. PagesOwned'
    <2>1. OneOwner(Shelves(left, table', draftTable))
        <3>1. lacks \in Nat /\ lacks <= Len(free) /\ left = Rest(free, lacks)
              /\ table'[s] = table[s] \o Popped(free, lacks)
            BY <1>1, <1>3, <1>12 DEF left, taken
        <3>2. SameBut(table', table, s) /\ table' \in Tables /\ left \in Seq(Block)
            BY <1>6, <1>12
        <3>. QED
            BY <1>2, <1>4, <3>1, <3>2, TargetTakes
    <2>2. OneOwner(Shelves(free', table', draftTable'))
        BY <2>1, <1>2, <1>6, <1>7, <1>8, <1>11, <1>12, <1>13, DraftTakes
    <2>. DEFINE D == Range(taken) \cup Range(draftTaken)
    <2>3. Range(free) = Range(free') \cup D /\ Range(free') \cap D = {}
        BY <1>6, <1>11
    <2>. HIDE DEF D
    <2>4. Counted(D) = [b \in Block |-> IF b \in Range(free') THEN 0 ELSE 1]
        BY <1>4, <2>3, CountsTaken
    <2>5. refCount' = Counted(D)
        BY <1>5 DEF D
    <2>. QED
        BY <2>2, <2>4, <2>5 DEF PagesOwned
<1>15. ~ admitted => draftTable' = draftTable
    <2>. SUFFICES ASSUME ~ admitted PROVE draftTable' = draftTable
        OBVIOUS
    <2>1. draftTaken = <<>>
        BY DEF draftTaken
    <2>2. draftTable[s] \o draftTaken = draftTable[s]
        BY <2>1, <1>2
    <2>. QED
        BY <2>2, <1>2, <1>5 DEF Tables
<1>16. s = Oldest
    <2>1. 1 \in 1..Len(waiting) /\ s = waiting[1]
        BY <1>1, <1>2
    <2>. QED
        BY <2>1, <1>2 DEF PagedInv, IdsInOrder, Oldest
<1>17. s \notin Range(finished)
    BY <1>16, <1>2 DEF PagedInv, IdsInOrder, Oldest
<1>18. \A r \in SeqId : r # s => table'[r] = table[r] /\ draftTable'[r] = draftTable[r]
    BY <1>12, <1>13 DEF SameBut
<1>. QED
    BY <1>1, <1>5, <1>10, <1>11, <1>12, <1>13, <1>14, <1>15, <1>16, <1>17, <1>18

LEMMA TryKeepsPaged ==
    ASSUME PagedInv, NEW s \in SeqId, TryAdmit(s)
    PROVE  PagedInv'
<1>1. /\ s = Oldest /\ waiting # <<>> /\ s \notin Range(finished) /\ pc = "schedule"
      /\ UNCHANGED <<mode, driver, finished, nextId, tokens, completion>>
      /\ free' \in Seq(Block) /\ table' \in Tables /\ draftTable' \in Tables
      /\ \A r \in SeqId : r # s => table'[r] = table[r] /\ draftTable'[r] = draftTable[r]
      /\ PagesOwned'
      /\ \/ waiting' = Tail(waiting) /\ running' = Append(running, s) /\ pc' = pc
         \/ waiting' = waiting /\ running' = running /\ pc' = "client" /\ draftTable' = draftTable
    BY TryGives
<1>2. /\ Types /\ IdsInOrder /\ OnlyOldestHolds /\ SeqId \subseteq Nat
      /\ waiting \in Seq(SeqId) /\ running \in Seq(SeqId) /\ finished \in Seq(SeqId) /\ nextId \in Nat
    BY SchedulerAssumption DEF PagedInv, Types
<1>3. CASE waiting' = Tail(waiting) /\ running' = Append(running, s) /\ pc' = pc
    <2>1. /\ Len(waiting) \in Nat \ {0} /\ waiting' \in Seq(SeqId) /\ Len(waiting') = Len(waiting) - 1
          /\ \A i \in 1..(Len(waiting) - 1) : waiting'[i] = waiting[i + 1]
        BY <1>1, <1>2, <1>3, HeadAndTail
    <2>2. Oldest' = Oldest + 1 /\ Oldest \in Nat
        BY <1>1, <1>2, <2>1 DEF Oldest
    <2>3. s \notin Range(running)
        BY <1>1, <1>2, <2>2 DEF IdsInOrder
    <2>4. /\ running' \in Seq(SeqId) /\ Len(running') = Len(running) + 1
          /\ Range(running') = Range(running) \cup {s} /\ Distinct(running')
        BY <1>2, <1>3, <2>3, AppendDistinct DEF IdsInOrder
    <2>5. Types'
        BY <1>1, <1>2, <1>3, <2>1, <2>4 DEF Types
    <2>6. \A i \in 1..Len(waiting') : waiting'[i] = Oldest' + i - 1
        BY <1>2, <2>1, <2>2 DEF IdsInOrder
    <2>7. Range(running') \cup Range(finished') = 0..(Oldest' - 1)
        <3>1. Range(running) \cup Range(finished) = 0..(Oldest - 1)
            BY <1>2 DEF IdsInOrder
        <3>2. 0..(Oldest' - 1) = 0..(Oldest - 1) \cup {s}
            BY <1>1, <2>2
        <3>. QED
            BY <3>1, <3>2, <2>4, <1>1
    <2>8. Range(running') \cap Range(finished') = {}
        BY <1>1, <1>2, <2>4 DEF IdsInOrder
    <2>9. Len(running') + Len(finished') = Oldest'
        BY <1>1, <1>2, <2>2, <2>4 DEF IdsInOrder
    <2>10. OnlyOldestHolds'
        <3>1. ASSUME NEW r \in SeqId, r > s PROVE table'[r] = <<>> /\ draftTable'[r] = <<>>
            <4>1. r > Oldest /\ r >= Oldest /\ r # s
                BY <3>1, <1>1, <1>2, <2>2
            <4>2. table[r] = <<>> /\ draftTable[r] = <<>>
                BY <4>1, <1>2 DEF OnlyOldestHolds
            <4>. QED
                BY <4>1, <4>2, <1>1
        <3>2. ASSUME NEW r \in SeqId, r >= Oldest' \/ r > Oldest' PROVE r > s
            BY <3>2, <1>1, <1>2, <2>2
        <3>3. ASSUME NEW r \in Range(finished') PROVE table'[r] = <<>> /\ draftTable'[r] = <<>>
            <4>1. r \in Range(finished) /\ r # s /\ r \in SeqId
                BY <1>1, <1>2, RangeOfSeq
            <4>. QED
                BY <4>1, <1>1, <1>2 DEF OnlyOldestHolds
        <3>. QED
            BY <3>1, <3>2, <3>3 DEF OnlyOldestHolds
    <2>. QED
        BY <1>1, <2>4, <2>5, <2>6, <2>7, <2>8, <2>9, <2>10 DEF PagedInv, IdsInOrder
<1>4. CASE waiting' = waiting /\ running' = running /\ pc' = "client" /\ draftTable' = draftTable
    <2>1. Oldest' = Oldest
        BY <1>1, <1>4 DEF Oldest
    <2>2. Types'
        BY <1>1, <1>2, <1>4 DEF Types
    <2>3. IdsInOrder'
        BY <1>1, <1>2, <1>4, <2>1 DEF IdsInOrder
    <2>4. OnlyOldestHolds'
        <3>1. ASSUME NEW r \in SeqId, r > Oldest PROVE table'[r] = <<>>
            BY <3>1, <1>1, <1>2 DEF OnlyOldestHolds
        <3>2. ASSUME NEW r \in Range(finished') PROVE table'[r] = <<>> /\ draftTable'[r] = <<>>
            <4>1. r \in Range(finished) /\ r # s /\ r \in SeqId
                BY <1>1, <1>2, RangeOfSeq
            <4>. QED
                BY <4>1, <1>1, <1>2 DEF OnlyOldestHolds
        <3>. QED
            BY <3>1, <3>2, <2>1, <1>2, <1>4 DEF OnlyOldestHolds
    <2>. QED
        BY <1>1, <2>2, <2>3, <2>4 DEF PagedInv
<1>. QED
    BY <1>1, <1>3, <1>4

(* allocate for a sequence that runs.                                      *)
LEMMA ReserveKeepsPaged ==
    ASSUME PagedInv, NEW s \in SeqId, Reserve(s)
    PROVE  PagedInv'
<1>. DEFINE lacks == Extra(table[s], tokens[s] + ReserveTokens)
            taken == Popped(free, lacks)
<1>1. /\ s \in Range(running) /\ lacks <= Len(free)
      /\ UNCHANGED <<mode, driver, pc, draftTable, waiting, running, finished, nextId, tokens, completion>>
      /\ table' = [table EXCEPT ![s] = @ \o taken]
      /\ free' = Rest(free, Len(taken)) /\ refCount' = Counted(Range(taken))
    BY DEF Reserve, Steppable, CanAllocate, Taken, queueVars, countVars
<1>2. /\ mode \in DecodeMode /\ free \in Seq(Block) /\ tokens[s] \in Nat
      /\ table \in Tables /\ draftTable \in Tables /\ table[s] \in Seq(Block)
      /\ Types /\ IdsInOrder /\ OnlyOldestHolds /\ nextId \in Nat /\ waiting \in Seq(SeqId)
      /\ running \in Seq(SeqId) /\ finished \in Seq(SeqId) /\ SeqId \subseteq Nat
    BY SchedulerAssumption DEF PagedInv, Types, Tables
<1>3. lacks \in Nat
    <2>1. tokens[s] + ReserveTokens \in Nat
        BY <1>2, Reserves
    <2>. QED
        BY <1>2, <2>1, ExtraIsNat
<1>4. OneOwner(Shelves(free, table, draftTable)) /\ Distinct(free)
      /\ refCount = [b \in Block |-> IF b \in Range(free) THEN 0 ELSE 1]
    BY <1>2, OwnedApart DEF PagedInv, PagesOwned
<1>. HIDE DEF lacks
<1>5. /\ taken \in Seq(Block) /\ Len(taken) = lacks
      /\ Rest(free, lacks) \in Seq(Block)
      /\ Range(taken) \cap Range(Rest(free, lacks)) = {}
      /\ Range(taken) \cup Range(Rest(free, lacks)) = Range(free)
    BY <1>1, <1>2, <1>3, <1>4, PoppedPages, PoppedApart
<1>. HIDE DEF taken
<1>6. free' = Rest(free, lacks) /\ free' \in Seq(Block)
    BY <1>1, <1>5
<1>7. /\ table' \in Tables /\ table'[s] = table[s] \o taken /\ SameBut(table', table, s)
    <2>1. table[s] \o taken \in Seq(Block)
        BY <1>2, <1>5, ConcatProperties
    <2>. QED
        BY <2>1, <1>1, <1>2 DEF Tables, SameBut
<1>8. PagesOwned'
    <2>1. OneOwner(Shelves(free', table', draftTable))
        <3>1. table'[s] = table[s] \o Popped(free, lacks) /\ SameBut(table', table, s)
              /\ table' \in Tables
            BY <1>7 DEF taken
        <3>. QED
            BY <3>1, <1>1, <1>2, <1>3, <1>4, <1>6, TargetTakes
    <2>. DEFINE D == Range(taken)
    <2>2. Range(free) = Range(free') \cup D /\ Range(free') \cap D = {}
        BY <1>5, <1>6
    <2>. HIDE DEF D
    <2>3. Counted(D) = [b \in Block |-> IF b \in Range(free') THEN 0 ELSE 1]
        BY <1>4, <2>2, CountsTaken
    <2>4. refCount' = Counted(D)
        BY <1>1 DEF D
    <2>. QED
        BY <2>1, <2>3, <2>4, <1>1 DEF PagesOwned
<1>9. Types'
    BY <1>1, <1>2, <1>6, <1>7 DEF Types
<1>10. IdsInOrder' /\ Oldest' = Oldest
    BY <1>1, <1>2 DEF IdsInOrder, Oldest
<1>11. OnlyOldestHolds'
    <2>1. s < Oldest /\ s \notin Range(finished) /\ Oldest \in Int
        BY <1>1, <1>2 DEF IdsInOrder, Oldest
    <2>2. ASSUME NEW r \in SeqId, r > Oldest PROVE table'[r] = <<>>
        <3>1. r # s
            BY <2>1, <2>2, <1>2
        <3>2. table[r] = <<>>
            BY <2>2, <1>2 DEF OnlyOldestHolds
        <3>. QED
            BY <3>1, <3>2, <1>7 DEF SameBut
    <2>3. ASSUME NEW r \in Range(finished') PROVE table'[r] = <<>> /\ draftTable'[r] = <<>>
        <3>1. r \in Range(finished) /\ r # s /\ r \in SeqId
            BY <1>1, <1>2, <2>1, RangeOfSeq
        <3>. QED
            BY <3>1, <1>1, <1>2, <1>7 DEF OnlyOldestHolds, SameBut
    <2>. QED
        BY <2>2, <2>3, <1>1, <1>2, <1>10 DEF OnlyOldestHolds
<1>. QED
    BY <1>8, <1>9, <1>10, <1>11 DEF PagedInv

Joins(p, a, b) ==
    /\ p \in Seq(Block) /\ Len(p) = Len(a) + Len(b)
    /\ \A i \in 1..(Len(a) + Len(b)) : p[i] = IF i <= Len(a) THEN a[i] ELSE b[i - Len(a)]

LEMMA ConcatJoins ==
    ASSUME NEW a \in Seq(Block), NEW b \in Seq(Block)
    PROVE  Joins(a \o b, a, b)
BY ConcatProperties DEF Joins

LEMMA ConcatRegroups ==
    ASSUME NEW a \in Seq(Block), NEW b \in Seq(Block), NEW c \in Seq(Block)
    PROVE  (a \o b) \o c = a \o (b \o c)
<1>. DEFINE ab == a \o b
            bc == b \o c
<1>1. /\ ab \in Seq(Block) /\ Len(ab) = Len(a) + Len(b)
      /\ \A i \in 1..(Len(a) + Len(b)) : ab[i] = IF i <= Len(a) THEN a[i] ELSE b[i - Len(a)]
    BY ConcatProperties
<1>2. /\ bc \in Seq(Block) /\ Len(bc) = Len(b) + Len(c)
      /\ \A i \in 1..(Len(b) + Len(c)) : bc[i] = IF i <= Len(b) THEN b[i] ELSE c[i - Len(b)]
    BY ConcatProperties
<1>. HIDE DEF ab, bc
<1>. DEFINE p == ab \o c
            q == a \o bc
<1>3. /\ p \in Seq(Block) /\ Len(p) = Len(ab) + Len(c)
      /\ \A i \in 1..(Len(ab) + Len(c)) : p[i] = IF i <= Len(ab) THEN ab[i] ELSE c[i - Len(ab)]
    <2>1. ab \in Seq(Block)
        BY <1>1
    <2>2. Joins(p, ab, c)
        BY ONLY <2>1, c \in Seq(Block), ConcatJoins
    <2>. QED
        BY ONLY <2>2 DEF Joins
<1>4. /\ q \in Seq(Block) /\ Len(q) = Len(a) + Len(bc)
      /\ \A i \in 1..(Len(a) + Len(bc)) : q[i] = IF i <= Len(a) THEN a[i] ELSE bc[i - Len(a)]
    <2>1. bc \in Seq(Block)
        BY <1>2
    <2>2. Joins(q, a, bc)
        BY ONLY <2>1, a \in Seq(Block), ConcatJoins
    <2>. QED
        BY ONLY <2>2 DEF Joins
<1>. HIDE DEF p, q
<1>5. Len(a) \in Nat /\ Len(b) \in Nat /\ Len(c) \in Nat
    OBVIOUS
<1>6. Len(p) = Len(q)
    BY <1>1, <1>2, <1>3, <1>4, <1>5
<1>7. ASSUME NEW i \in 1..Len(p) PROVE p[i] = q[i]
    <2>1. CASE i <= Len(a)
        <3>1. i \in 1..(Len(a) + Len(b)) /\ i \in 1..(Len(a) + Len(bc))
            BY ONLY <2>1, <1>1, <1>2, <1>3, <1>4, <1>5, <1>6
        <3>2. p[i] = a[i]
            BY ONLY <2>1, <3>1, <1>1, <1>3
        <3>3. q[i] = a[i]
            BY ONLY <2>1, <3>1, <1>4
        <3>. QED
            BY <3>2, <3>3
    <2>2. CASE Len(a) < i /\ i <= Len(a) + Len(b)
        <3>1. i \in 1..(Len(a) + Len(b)) /\ i - Len(a) \in 1..(Len(b) + Len(c))
              /\ i - Len(a) <= Len(b) /\ ~ (i <= Len(a))
            BY <2>2, <1>5
        <3>2. p[i] = b[i - Len(a)]
            BY <3>1, <2>2, <1>1, <1>3, <1>5
        <3>3. q[i] = b[i - Len(a)]
            BY <3>1, <1>2, <1>3, <1>4, <1>6
        <3>. QED
            BY <3>2, <3>3
    <2>3. CASE Len(a) + Len(b) < i
        <3>1. /\ i - Len(a) \in 1..(Len(b) + Len(c)) /\ ~ (i - Len(a) <= Len(b))
              /\ ~ (i <= Len(a)) /\ (i - Len(a)) - Len(b) = i - (Len(a) + Len(b))
            BY <2>3, <1>1, <1>3, <1>5
        <3>2. p[i] = c[i - (Len(a) + Len(b))]
            BY <2>3, <1>1, <1>3, <1>5
        <3>3. q[i] = c[(i - Len(a)) - Len(b)]
            BY <3>1, <1>2, <1>3, <1>4, <1>6
        <3>. QED
            BY <3>1, <3>2, <3>3
    <2>. QED
        BY <2>1, <2>2, <2>3, <1>5
<1>8. p = q
    BY <1>3, <1>4, <1>6, <1>7, SeqEqual
<1>. QED
    BY <1>8 DEF p, q, ab, bc

Grouped(a, b, c) == (a \o b) \o c = a \o (b \o c)

LEMMA ConcatGrouped ==
    ASSUME NEW a \in Seq(Block), NEW b \in Seq(Block), NEW c \in Seq(Block)
    PROVE  Grouped(a, b, c)
BY ConcatRegroups DEF Grouped

(* Four lists of pages appended, whichever way they are grouped.           *)
Regroup(a, b, c, d) == a \o ((b \o c) \o d) = ((a \o b) \o c) \o d

LEMMA ConcatFour ==
    ASSUME NEW a \in Seq(Block), NEW b \in Seq(Block), NEW c \in Seq(Block),
           NEW d \in Seq(Block)
    PROVE  /\ (b \o c) \o d \in Seq(Block)
           /\ Range((b \o c) \o d) = (Range(b) \cup Range(c)) \cup Range(d)
           /\ (a \o b) \o c \in Seq(Block)
           /\ Regroup(a, b, c, d)
<1>1. /\ b \o c \in Seq(Block) /\ Range(b \o c) = Range(b) \cup Range(c)
    BY ConcatProperties, RangeConcatenation
<1>2. a \o b \in Seq(Block)
    BY ConcatProperties
<1>. DEFINE bc == b \o c
            ab == a \o b
<1>3. bc \in Seq(Block) /\ ab \in Seq(Block) /\ Range(bc) = Range(b) \cup Range(c)
    BY <1>1, <1>2
<1>4. ab \o c = a \o bc
    BY ConcatRegroups
<1>. HIDE DEF bc, ab
<1>5. bc \o d \in Seq(Block) /\ Range(bc \o d) = Range(bc) \cup Range(d)
    BY <1>3, ConcatProperties, RangeConcatenation
<1>6. ab \o c \in Seq(Block)
    BY <1>3, ConcatProperties
<1>7. a \o (bc \o d) = (a \o bc) \o d
    <2>1. Grouped(a, bc, d)
        BY ONLY <1>3, a \in Seq(Block), d \in Seq(Block), ConcatGrouped
    <2>. QED
        BY ONLY <2>1 DEF Grouped
<1>8. a \o (bc \o d) = (ab \o c) \o d
    BY <1>7, <1>4
<1>. QED
    BY <1>3, <1>5, <1>6, <1>8 DEF bc, ab, Regroup

(* The pages that postprocess and postprocess_speculative give back.       *)
LEMMA SettleGives ==
    ASSUME PagedInv, NEW s \in SeqId, NEW n \in Nat, NEW eos \in BOOLEAN,
           NEW kept \in 0..Len(table[s]), Settle(s, n, eos, kept)
    PROVE  /\ free' \in Seq(Block) /\ table' \in Tables /\ draftTable' \in Tables
           /\ PagesOwned'
           /\ \A r \in SeqId : r # s => table'[r] = table[r] /\ draftTable'[r] = draftTable[r]
           /\ \/ /\ running' = Removed(running, s) /\ finished' = Append(finished, s)
                 /\ table'[s] = <<>> /\ draftTable'[s] = <<>>
              \/ UNCHANGED <<draftTable, running, finished>>
<1>. DEFINE t == table[s]
            k == Len(t) - kept
            dropped == Popped(t, k)
            rest == Rest(t, k)
            dt == draftTable[s]
            all == dropped \o rest \o dt
<1>1. /\ free \in Seq(Block) /\ table \in Tables /\ draftTable \in Tables
      /\ t \in Seq(Block) /\ dt \in Seq(Block) /\ Len(t) \in Nat
    BY DEF PagedInv, Types, Tables
<1>2. k \in Nat /\ k <= Len(t)
    BY <1>1
<1>3. OneOwner(Shelves(free, table, draftTable))
      /\ refCount = [b \in Block |-> IF b \in Range(free) THEN 0 ELSE 1]
    BY DEF PagedInv, PagesOwned
<1>4. /\ Distinct(free) /\ Distinct(t) /\ Distinct(dt)
      /\ Range(free) \cap Range(t) = {} /\ Range(free) \cap Range(dt) = {}
      /\ Range(t) \cap Range(dt) = {}
    BY <1>1, <1>3, OwnedApart
<1>5. \/ /\ Release(all) /\ running' = Removed(running, s) /\ finished' = Append(finished, s)
         /\ table' = [table EXCEPT ![s] = <<>>] /\ draftTable' = [draftTable EXCEPT ![s] = <<>>]
      \/ /\ Release(dropped) /\ table' = [table EXCEPT ![s] = rest]
         /\ UNCHANGED <<draftTable, running, finished>>
    BY DEF Settle
<1>. HIDE DEF t, dt, k
<1>6. /\ dropped \in Seq(Block) /\ Distinct(dropped) /\ rest \in Seq(Block) /\ Distinct(rest)
      /\ Range(dropped) \cap Range(rest) = {} /\ Range(dropped) \cup Range(rest) = Range(t)
    BY <1>1, <1>2, <1>4, PoppedPages, PoppedApart
<1>7. ASSUME NEW d \in Seq(Block), Range(free) \cap Range(d) = {}
      PROVE  Returned(d) = d
    <2>1. ASSUME NEW i \in 1..Len(d) PROVE refCount[d[i]] <= 1
        <3>1. d[i] \in Block
            OBVIOUS
        <3>. QED
            BY <3>1, <1>3
    <2>. QED
        BY <2>1, ReturnedAll
<1>8. ASSUME NEW d \in Seq(Block), Range(free) \cap Range(d) = {}, Release(d),
             Range(free') = Range(free) \cup Range(d)
      PROVE  refCount' = [b \in Block |-> IF b \in Range(free') THEN 0 ELSE 1]
    <2>. DEFINE D == Range(d)
                F == Range(free)
                G == Range(free')
    <2>1. G = F \cup D /\ F \cap D = {}
        BY <1>8
    <2>2. refCount' = Uncounted(D)
        BY <1>8 DEF Release
    <2>3. refCount = [b \in Block |-> IF b \in F THEN 0 ELSE 1]
        BY <1>3
    <2>. HIDE DEF D, F, G
    <2>4. Uncounted(D) = [b \in Block |-> IF b \in G THEN 0 ELSE 1]
        <3>1. ASSUME NEW b \in Block
              PROVE  refCount[b] - (IF b \in D THEN 1 ELSE 0) = IF b \in G THEN 0 ELSE 1
            BY <2>1, <2>3
        <3>. QED
            BY ONLY <3>1 DEF Uncounted
    <2>5. refCount' = [b \in Block |-> IF b \in G THEN 0 ELSE 1]
        BY <2>2, <2>4
    <2>. QED
        BY <2>5 DEF G
<1>. HIDE DEF dropped, rest
<1>. DEFINE u == [table EXCEPT ![s] = rest]
            f == free \o dropped
<1>9. /\ u \in Tables /\ u[s] = rest /\ SameBut(u, table, s)
    BY <1>1, <1>6 DEF Tables, SameBut
<1>10. f \in Seq(Block) /\ Range(f) = Range(free) \cup Range(dropped)
    BY <1>1, <1>6, ConcatProperties, RangeConcatenation
<1>. HIDE DEF u, f
<1>11. OneOwner(Shelves(f, u, draftTable))
    <2>1. k <= Len(table[s]) /\ f = free \o Popped(table[s], k) /\ u[s] = Rest(table[s], k)
        BY <1>2, <1>9 DEF f, dropped, rest, t
    <2>. QED
        BY <2>1, <1>1, <1>2, <1>3, <1>9, <1>10, TargetDrops
<1>12. CASE /\ Release(dropped) /\ table' = u
            /\ UNCHANGED <<draftTable, running, finished>>
    <2>1. Range(free) \cap Range(dropped) = {}
        BY <1>4, <1>6
    <2>2. free' = f
        BY <1>6, <1>7, <1>12, <2>1 DEF Release, f
    <2>3. refCount' = [b \in Block |-> IF b \in Range(free') THEN 0 ELSE 1]
        BY <1>6, <1>8, <1>10, <1>12, <2>1, <2>2
    <2>4. PagesOwned'
        BY <1>11, <1>12, <2>2, <2>3 DEF PagesOwned
    <2>. QED
        BY <1>1, <1>9, <1>10, <1>12, <2>2, <2>4 DEF SameBut
<1>13. CASE /\ Release(all) /\ running' = Removed(running, s) /\ finished' = Append(finished, s)
            /\ table' = [table EXCEPT ![s] = <<>>] /\ draftTable' = [draftTable EXCEPT ![s] = <<>>]
    <2>1. /\ all \in Seq(Block) /\ Range(all) = Range(t) \cup Range(dt)
        <3>1. /\ all \in Seq(Block)
              /\ Range(all) = (Range(dropped) \cup Range(rest)) \cup Range(dt)
            BY <1>1, <1>6, ConcatFour
        <3>. QED
            BY <3>1, <1>6
    <2>. HIDE DEF all
    <2>2. Range(free) \cap Range(all) = {}
        BY <1>4, <2>1
    <2>3. free' = free \o all
        BY <1>7, <1>13, <2>1, <2>2 DEF Release
    <2>4. free' \in Seq(Block) /\ Range(free') = Range(free) \cup Range(all)
        BY <1>1, <2>1, <2>3, ConcatProperties, RangeConcatenation
    <2>5. refCount' = [b \in Block |-> IF b \in Range(free') THEN 0 ELSE 1]
        BY <1>8, <1>13, <2>1, <2>2, <2>4
    <2>6. /\ table' \in Tables /\ table'[s] = <<>> /\ SameBut(table', table, s)
          /\ draftTable' \in Tables /\ draftTable'[s] = <<>> /\ SameBut(draftTable', draftTable, s)
        BY <1>1, <1>13, EmptySeq DEF Tables, SameBut
    <2>. DEFINE e == f \o rest
    <2>7. e \in Seq(Block) /\ free' = e \o dt
        <3>1. free' = free \o ((dropped \o rest) \o dt)
            BY <2>3 DEF all
        <3>2. /\ (free \o dropped) \o rest \in Seq(Block)
              /\ free \o ((dropped \o rest) \o dt) = ((free \o dropped) \o rest) \o dt
            <4>1. /\ free \in Seq(Block) /\ dropped \in Seq(Block) /\ rest \in Seq(Block)
                  /\ dt \in Seq(Block)
                BY <1>1, <1>6
            <4>2. /\ (dropped \o rest) \o dt \in Seq(Block)
                  /\ (free \o dropped) \o rest \in Seq(Block)
                BY ONLY <4>1, ConcatFour
            <4>3. free \o ((dropped \o rest) \o dt) = ((free \o dropped) \o rest) \o dt
                <5>1. Regroup(free, dropped, rest, dt)
                    BY ONLY <4>1, ConcatFour
                <5>. QED
                    BY ONLY <5>1 DEF Regroup
            <4>. QED
                BY ONLY <4>2, <4>3
        <3>. QED
            BY <3>1, <3>2 DEF f
    <2>8. e = f \o u[s]
        BY <1>9
    <2>. HIDE DEF e
    <2>9. OneOwner(Shelves(e, table', draftTable))
        <3>1. SameBut(table', u, s)
            BY <1>9, <2>6 DEF SameBut
        <3>. QED
            BY <3>1, <1>1, <1>9, <1>10, <1>11, <2>6, <2>7, <2>8, TargetClears
    <2>10. OneOwner(Shelves(free', table', draftTable'))
        <3>1. free' = e \o draftTable[s]
            BY <2>7 DEF dt
        <3>. QED
            BY <3>1, <1>1, <2>4, <2>6, <2>7, <2>9, DraftClears
    <2>. QED
        BY <2>4, <2>5, <2>6, <2>10, <1>13 DEF PagesOwned, SameBut
<1>. QED
    BY <1>5, <1>12, <1>13 DEF u

LEMMA SettleKeepsPaged ==
    ASSUME PagedInv, NEW s \in SeqId, s \in Range(running), NEW n \in Nat, NEW eos \in BOOLEAN,
           NEW kept \in 0..Len(table[s]), Settle(s, n, eos, kept)
    PROVE  PagedInv'
<1>1. /\ free' \in Seq(Block) /\ table' \in Tables /\ draftTable' \in Tables /\ PagesOwned'
      /\ \A r \in SeqId : r # s => table'[r] = table[r] /\ draftTable'[r] = draftTable[r]
      /\ \/ /\ running' = Removed(running, s) /\ finished' = Append(finished, s)
            /\ table'[s] = <<>> /\ draftTable'[s] = <<>>
         \/ UNCHANGED <<draftTable, running, finished>>
    BY SettleGives
<1>2. /\ UNCHANGED <<mode, driver, pc, waiting, nextId>>
      /\ tokens' = [tokens EXCEPT ![s] = @ + n]
      /\ completion' = [completion EXCEPT ![s] = @ + n]
    BY DEF Settle
<1>3. /\ Types /\ IdsInOrder /\ OnlyOldestHolds /\ SeqId \subseteq Nat
      /\ waiting \in Seq(SeqId) /\ running \in Seq(SeqId) /\ finished \in Seq(SeqId)
      /\ nextId \in Nat /\ Oldest \in Int
    BY SchedulerAssumption DEF PagedInv, Types, Oldest
<1>4. tokens' \in [SeqId -> Nat] /\ completion' \in [SeqId -> Nat]
    <2>1. tokens \in [SeqId -> Nat] /\ completion \in [SeqId -> Nat]
        BY ONLY <1>3 DEF Types
    <2>2. tokens[s] + n \in Nat /\ completion[s] + n \in Nat
        BY ONLY <2>1, s \in SeqId, n \in Nat
    <2>. QED
        BY ONLY <2>1, <2>2, <1>2, s \in SeqId
<1>5. Oldest' = Oldest
    BY <1>2 DEF Oldest
<1>6. s < Oldest /\ s \notin Range(finished)
    <2>1. s \in 0..(Oldest - 1)
        BY <1>3 DEF IdsInOrder
    <2>. QED
        BY <2>1, <1>3 DEF IdsInOrder
<1>7. /\ \A i \in 1..Len(waiting') : waiting'[i] = Oldest' + i - 1
      /\ \A r \in SeqId : /\ r >= Oldest => draftTable'[r] = <<>>
                          /\ r > Oldest => table'[r] = <<>>
    <2>1. ASSUME NEW r \in SeqId, r >= Oldest
          PROVE  draftTable'[r] = draftTable[r] /\ table'[r] = table[r]
        <3>1. r # s
            BY <2>1, <1>3, <1>6
        <3>. QED
            BY <3>1, <1>1
    <2>2. \A r \in SeqId : r > Oldest => r >= Oldest
        BY <1>3
    <2>. QED
        BY <2>1, <2>2, <1>2, <1>3, <1>5 DEF IdsInOrder, OnlyOldestHolds
<1>8. \A r \in Range(finished) : r \in SeqId /\ table'[r] = <<>> /\ draftTable'[r] = <<>>
    <2>. SUFFICES ASSUME NEW r \in Range(finished)
                  PROVE  r \in SeqId /\ table'[r] = <<>> /\ draftTable'[r] = <<>>
        OBVIOUS
    <2>1. r \in SeqId /\ r # s
        BY <1>3, <1>6, RangeOfSeq
    <2>. QED
        BY <2>1, <1>1, <1>3 DEF OnlyOldestHolds
<1>9. CASE UNCHANGED <<draftTable, running, finished>>
    <2>1. Types'
        BY <1>1, <1>2, <1>3, <1>4, <1>9 DEF Types
    <2>2. IdsInOrder'
        BY <1>3, <1>5, <1>7, <1>9 DEF IdsInOrder
    <2>3. OnlyOldestHolds'
        BY <1>5, <1>7, <1>8, <1>9 DEF OnlyOldestHolds
    <2>. QED
        BY <1>1, <2>1, <2>2, <2>3 DEF PagedInv
<1>10. CASE /\ running' = Removed(running, s) /\ finished' = Append(finished, s)
            /\ table'[s] = <<>> /\ draftTable'[s] = <<>>
    <2>1. /\ running' \in Seq(SeqId) /\ Distinct(running') /\ Len(running') = Len(running) - 1
          /\ Range(running') = Range(running) \ {s}
        BY <1>3, <1>10, RemovesOne DEF IdsInOrder
    <2>2. /\ finished' \in Seq(SeqId) /\ Len(finished') = Len(finished) + 1
          /\ Range(finished') = Range(finished) \cup {s}
        BY <1>3, <1>10, AppendDistinct
    <2>3. Types'
        BY <1>1, <1>2, <1>3, <1>4, <2>1, <2>2 DEF Types
    <2>4. /\ Range(running') \cup Range(finished') = 0..(Oldest' - 1)
          /\ Range(running') \cap Range(finished') = {}
        <3>1. /\ Range(running) \cup Range(finished) = 0..(Oldest - 1)
              /\ Range(running) \cap Range(finished) = {}
            BY <1>3 DEF IdsInOrder
        <3>2. Range(running') \cup Range(finished') = Range(running) \cup Range(finished)
            BY <2>1, <2>2
        <3>3. Range(running') \cap Range(finished') = {}
            BY <3>1, <2>1, <2>2, <1>6
        <3>. QED
            BY ONLY <3>1, <3>2, <3>3, <1>5
    <2>5. Len(running') + Len(finished') = Oldest'
        <3>1. Len(running) \in Nat /\ Len(finished) \in Nat /\ Len(running) + Len(finished) = Oldest
            BY <1>3 DEF IdsInOrder
        <3>. QED
            BY ONLY <3>1, <2>1, <2>2, <1>5
    <2>6. IdsInOrder'
        BY <1>7, <2>1, <2>4, <2>5 DEF IdsInOrder
    <2>7. OnlyOldestHolds'
        BY <1>5, <1>7, <1>8, <1>10, <2>2 DEF OnlyOldestHolds
    <2>. QED
        BY <1>1, <2>3, <2>6, <2>7 DEF PagedInv
<1>. QED
    BY <1>1, <1>9, <1>10

LEMMA StepKeepsPaged ==
    ASSUME PagedInv, [Next]_vars
    PROVE  PagedInv'
<1>1. CASE AddRequest
    BY <1>1, AddKeepsPaged
<1>2. CASE Schedule \/ ScheduleReturns \/ (\E s \in SeqId : NoTargetPages(s)) \/ UNCHANGED vars
    BY <1>2, WhoIdles, IdlingKeepsPaged
<1>3. CASE \E s \in SeqId : TryAdmit(s)
    BY <1>3, TryKeepsPaged
<1>4. CASE \E s \in SeqId : Reserve(s)
    BY <1>4, ReserveKeepsPaged
<1>5. ASSUME NEW s \in SeqId, Postprocess(s) PROVE PagedInv'
    <2>1. PICK eos \in BOOLEAN : Settle(s, 1, eos, Len(table[s]))
        BY <1>5 DEF Postprocess
    <2>2. s \in Range(running) /\ Len(table[s]) \in 0..Len(table[s])
        BY <1>5 DEF Postprocess, Steppable, PagedInv, Types, Tables
    <2>. QED
        BY <2>1, <2>2, SettleKeepsPaged
<1>6. ASSUME NEW s \in SeqId, NEW n \in 0..K, PostprocessSpeculative(s, n) PROVE PagedInv'
    <2>. DEFINE kept == Kept(s, tokens[s] + n, n)
    <2>1. PICK eos \in BOOLEAN : Settle(s, n, eos, kept)
        BY <1>6 DEF PostprocessSpeculative
    <2>2. s \in Range(running) /\ table \in Tables /\ n \in Nat /\ tokens[s] + n \in Nat
        BY <1>6, ConfigAssumption DEF PostprocessSpeculative, Steppable, PagedInv, Types
    <2>3. kept \in 0..Len(table[s])
        BY <2>2, KeptBounds
    <2>. HIDE DEF kept
    <2>. QED
        BY <2>1, <2>2, <2>3, SettleKeepsPaged
<1>7. CASE GenerateAppends
    BY <1>7, RoundKeepsPaged
<1>. QED
    BY <1>1, <1>2, <1>3, <1>4, <1>5, <1>6, <1>7 DEF Next, InSchedule

(* Whatever the two drivers do, the invariant holds.                       *)
LEMMA AlwaysPaged == Spec => []PagedInv
<1>1. PagedInv /\ [Next]_vars => PagedInv'
    BY StepKeepsPaged
<1>. QED
    BY InitPaged, <1>1, PTL DEF Spec

(* The state of the scheduler and of the page manager keeps its types; in  *)
(* particular no page is ever counted below zero (PageManager._free_block).*)
THEOREM PagedTypeCorrect == Spec => []TypeOK
<1>1. PagedInv => TypeOK
    <2>. SUFFICES ASSUME PagedInv PROVE TypeOK
        OBVIOUS
    <2>1. refCount \in [Block -> Nat]
        <3>1. refCount = [b \in Block |-> IF b \in Range(free) THEN 0 ELSE 1]
            BY DEF PagedInv, PagesOwned
        <3>2. \A b \in Block : (IF b \in Range(free) THEN 0 ELSE 1) \in Nat
            OBVIOUS
        <3>. QED
            BY ONLY <3>1, <3>2
    <2>. QED
        BY <2>1 DEF TypeOK, PagedInv, Types, Tables
<1>. QED
    BY AlwaysPaged, <1>1, PTL

(* Requests are admitted in the order they came, and none is lost or runs  *)
(* twice, whatever is put back, finishes or is refused (Scheduler.schedule,*)
(* postprocess, postprocess_speculative).                                  *)
THEOREM AdmittedInOrderHolds == Spec => []AdmittedInOrder
<1>1. PagedInv => AdmittedInOrder
    <2>. SUFFICES ASSUME PagedInv PROVE AdmittedInOrder
        OBVIOUS
    <2>1. waiting \in Seq(SeqId) /\ IdsInOrder /\ nextId \in Nat
        BY DEF PagedInv, Types
    <2>2. waiting = [i \in 1..Len(waiting) |-> nextId - Len(waiting) + i - 1]
        <3>1. waiting \in [1..Len(waiting) -> SeqId]
            BY <2>1
        <3>2. \A i \in 1..Len(waiting) : waiting[i] = nextId - Len(waiting) + i - 1
            BY <2>1 DEF IdsInOrder, Oldest
        <3>. QED
            BY ONLY <3>1, <3>2
    <2>. QED
        BY <2>1, <2>2 DEF AdmittedInOrder, IdsInOrder, Oldest
<1>. QED
    BY AlwaysPaged, <1>1, PTL

(* Only the head of the queue holds pages while it waits, the target's,    *)
(* and what has finished holds nothing (Scheduler.schedule, postprocess).  *)
THEOREM OnlyHeadHoldsPagesHolds == Spec => []OnlyHeadHoldsPages
<1>1. PagedInv => OnlyHeadHoldsPages
    <2>. SUFFICES ASSUME PagedInv PROVE OnlyHeadHoldsPages
        OBVIOUS
    <2>1. /\ waiting \in Seq(SeqId) /\ IdsInOrder /\ OnlyOldestHolds /\ nextId \in Nat
          /\ SeqId \subseteq Nat
        BY SchedulerAssumption DEF PagedInv, Types
    <2>2. ASSUME NEW i \in 1..Len(waiting)
          PROVE  draftTable[waiting[i]] = <<>> /\ (i > 1 => table[waiting[i]] = <<>>)
        <3>1. waiting[i] = Oldest + i - 1 /\ waiting[i] \in SeqId /\ Oldest \in Int
            BY <2>1 DEF IdsInOrder, Oldest
        <3>2. waiting[i] >= Oldest /\ (i > 1 => waiting[i] > Oldest)
            BY <3>1
        <3>. QED
            BY <3>1, <3>2, <2>1 DEF OnlyOldestHolds
    <2>. QED
        BY <2>1, <2>2 DEF OnlyHeadHoldsPages, OnlyOldestHolds
<1>. QED
    BY AlwaysPaged, <1>1, PTL

-----------------------------------------------------------------------------
(* Counting the places where a page stands.                                *)
At(q, b) == {i \in 1..Len(q) : q[i] = b}
AtAny(t, b) == UNION {{<<s, i>> : i \in At(t[s], b)} : s \in SeqId}

LEMMA CountAt ==
    ASSUME NEW q \in Seq(Block), Distinct(q), NEW b \in Block
    PROVE  Cardinality(At(q, b)) = IF b \in Range(q) THEN 1 ELSE 0
<1>1. Range(q) = {q[i] : i \in 1..Len(q)}
    BY RangeEquality
<1>2. CASE b \in Range(q)
    <2>1. PICK x \in 1..Len(q) : q[x] = b
        BY <1>1, <1>2
    <2>2. At(q, b) = {x}
        BY <2>1 DEF At, Distinct
    <2>. QED
        BY <1>2, <2>2, FS_Singleton
<1>3. CASE b \notin Range(q)
    <2>1. At(q, b) = {}
        BY <1>1, <1>3 DEF At
    <2>. QED
        BY <1>3, <2>1, FS_EmptySet
<1>. QED
    BY <1>2, <1>3

LEMMA CountAtAny ==
    ASSUME NEW t \in Tables, NEW b \in Block,
           \A s \in SeqId : Distinct(t[s]),
           \A s, r \in SeqId : s # r => Range(t[s]) \cap Range(t[r]) = {}
    PROVE  Cardinality(AtAny(t, b)) = IF \E s \in SeqId : b \in Range(t[s]) THEN 1 ELSE 0
<1>1. \A s \in SeqId : t[s] \in Seq(Block)
    BY DEF Tables
<1>2. ASSUME NEW s \in SeqId
      PROVE  /\ b \in Range(t[s]) => \E i \in 1..Len(t[s]) : t[s][i] = b
             /\ b \notin Range(t[s]) => At(t[s], b) = {}
    <2>. DEFINE q == t[s]
    <2>1. q \in Seq(Block)
        BY <1>1
    <2>. HIDE DEF q
    <2>2. Range(q) = {q[i] : i \in 1..Len(q)}
        BY <2>1, RangeEquality
    <2>3. b \in Range(q) => \E i \in 1..Len(q) : q[i] = b
        BY <2>2
    <2>4. b \notin Range(q) => At(q, b) = {}
        BY <2>2 DEF At
    <2>. QED
        BY <2>3, <2>4 DEF q
<1>3. CASE \E s \in SeqId : b \in Range(t[s])
    <2>1. PICK s \in SeqId : b \in Range(t[s])
        BY <1>3
    <2>2. PICK x \in 1..Len(t[s]) : t[s][x] = b
        BY <1>2, <2>1
    <2>3. At(t[s], b) = {x}
        BY <2>2 DEF At, Distinct
    <2>4. ASSUME NEW r \in SeqId, r # s PROVE At(t[r], b) = {}
        <3>1. b \notin Range(t[r])
            BY <2>1, <2>4
        <3>. QED
            BY <3>1, <1>2
    <2>5. AtAny(t, b) = {<<s, x>>}
        BY <2>3, <2>4 DEF AtAny
    <2>. QED
        BY <1>3, <2>5, FS_Singleton
<1>4. CASE ~ \E s \in SeqId : b \in Range(t[s])
    <2>1. ASSUME NEW r \in SeqId PROVE At(t[r], b) = {}
        BY <1>2, <1>4
    <2>2. AtAny(t, b) = {}
        BY <2>1 DEF AtAny
    <2>. QED
        BY <1>4, <2>2, FS_EmptySet
<1>. QED
    BY <1>3, <1>4

(* The shelves, seen from the tables.                                      *)
ApartFrom(f, t) ==
    \A s \in SeqId : Distinct(t[s]) /\ Range(f) \cap Range(t[s]) = {}

ApartEach(t) ==
    \A s, r \in SeqId : s # r => Range(t[s]) \cap Range(t[r]) = {}

ApartBoth(t, d) ==
    \A s, r \in SeqId : Range(t[s]) \cap Range(d[r]) = {}

Everywhere(f, t, d) ==
    \A b \in Block : \/ b \in Range(f)
                     \/ \E s \in SeqId : b \in Range(t[s])
                     \/ \E s \in SeqId : b \in Range(d[s])

LEMMA OwnersOfTables ==
    ASSUME NEW f \in Seq(Block), NEW t \in Tables, NEW d \in Tables,
           OneOwner(Shelves(f, t, d))
    PROVE  /\ Distinct(f) /\ ApartFrom(f, t) /\ ApartFrom(f, d)
           /\ ApartEach(t) /\ ApartEach(d) /\ ApartBoth(t, d)
           /\ Everywhere(f, t, d)
<1>. DEFINE sh == Shelves(f, t, d)
<1>1. sh[Free] = f /\ Free \in Owner
    BY DEF Shelves, Owner, Free
<1>2. \A s \in SeqId : /\ sh[Target(s)] = t[s] /\ Target(s) \in Owner
                       /\ sh[Drafts(s)] = d[s] /\ Drafts(s) \in Owner
    BY ShelfAt
<1>. HIDE DEF sh
<1>3. OneOwner(sh)
    BY DEF sh
<1>4. \A s, r \in SeqId : /\ Target(s) # Free /\ Drafts(s) # Free /\ Target(s) # Drafts(r)
                          /\ s # r => Target(s) # Target(r) /\ Drafts(s) # Drafts(r)
    BY ShelvesApart
<1>5. ASSUME NEW b \in Block
      PROVE  \/ b \in Range(f)
             \/ \E s \in SeqId : b \in Range(t[s])
             \/ \E s \in SeqId : b \in Range(d[s])
    <2>1. PICK o \in Owner : b \in Range(sh[o])
        BY <1>3 DEF OneOwner
    <2>2. o = Free \/ \E s \in SeqId : o = Target(s) \/ o = Drafts(s)
        BY OwnerIs
    <2>. QED
        BY <2>1, <2>2, <1>1, <1>2
<1>6. /\ \A o \in Owner : Distinct(sh[o])
      /\ \A o, p \in Owner : o # p => Range(sh[o]) \cap Range(sh[p]) = {}
    BY <1>3 DEF OneOwner
<1>7. Distinct(f) /\ ApartFrom(f, t) /\ ApartFrom(f, d)
    BY ONLY <1>1, <1>2, <1>4, <1>6 DEF ApartFrom
<1>8. ApartEach(t) /\ ApartEach(d)
    BY ONLY <1>2, <1>4, <1>6 DEF ApartEach
<1>9. ApartBoth(t, d)
    BY ONLY <1>2, <1>4, <1>6 DEF ApartBoth
<1>. QED
    BY <1>5, <1>7, <1>8, <1>9 DEF Everywhere

(* Every page stands once in the free list, uncounted, or once in one      *)
(* table of one request, counted once: allocation, rollback and release    *)
(* lose, double and share none (PageManager).                              *)
THEOREM PagesHaveOneOwnerHolds == Spec => []PagesHaveOneOwner
<1>1. PagedInv => PagesHaveOneOwner
    <2>. SUFFICES ASSUME PagedInv, NEW b \in Block
                  PROVE  /\ Cardinality(At(free, b)) + Cardinality(AtAny(table, b))
                              + Cardinality(AtAny(draftTable, b)) = 1
                         /\ refCount[b] = Cardinality(AtAny(table, b))
                                            + Cardinality(AtAny(draftTable, b))
        BY DEF PagesHaveOneOwner, At, AtAny
    <2>1. /\ free \in Seq(Block) /\ table \in Tables /\ draftTable \in Tables
          /\ OneOwner(Shelves(free, table, draftTable))
          /\ refCount[b] = IF b \in Range(free) THEN 0 ELSE 1
        BY DEF PagedInv, Types, PagesOwned
    <2>. DEFINE inTable == \E s \in SeqId : b \in Range(table[s])
                inDraft == \E s \in SeqId : b \in Range(draftTable[s])
    <2>2. /\ Distinct(free) /\ ApartFrom(free, table) /\ ApartFrom(free, draftTable)
          /\ ApartEach(table) /\ ApartEach(draftTable) /\ ApartBoth(table, draftTable)
          /\ Everywhere(free, table, draftTable)
        BY <2>1, OwnersOfTables
    <2>3. Cardinality(At(free, b)) = IF b \in Range(free) THEN 1 ELSE 0
        BY <2>1, <2>2, CountAt
    <2>4. Cardinality(AtAny(table, b)) = IF inTable THEN 1 ELSE 0
        BY <2>1, <2>2, CountAtAny DEF ApartFrom, ApartEach
    <2>5. Cardinality(AtAny(draftTable, b)) = IF inDraft THEN 1 ELSE 0
        BY <2>1, <2>2, CountAtAny DEF ApartFrom, ApartEach
    <2>6. /\ ~ (b \in Range(free) /\ inTable) /\ ~ (b \in Range(free) /\ inDraft)
          /\ ~ (inTable /\ inDraft)
        BY <2>2 DEF ApartFrom, ApartBoth
    <2>7. b \in Range(free) \/ inTable \/ inDraft
        BY <2>2 DEF Everywhere
    <2>. HIDE DEF inTable, inDraft
    <2>8. CASE b \in Range(free)
        BY ONLY <2>8, <2>1, <2>3, <2>4, <2>5, <2>6
    <2>9. CASE inTable
        BY ONLY <2>9, <2>1, <2>3, <2>4, <2>5, <2>6
    <2>10. CASE inDraft
        BY ONLY <2>10, <2>1, <2>3, <2>4, <2>5, <2>6
    <2>. QED
        BY ONLY <2>7, <2>8, <2>9, <2>10
<1>. QED
    BY AlwaysPaged, <1>1, PTL

-----------------------------------------------------------------------------
(* A sequence that goes on after postprocess_speculative has a page for    *)
(* every token it was promised one for, whatever K, the page size and the  *)
(* number of accepted tokens, none and all of them included                *)
(* (rollback_speculative after append_tokens).                             *)
THEOREM RollbackKeepsTokensHolds == Spec => RollbackKeepsTokens
<1>. DEFINE Keeps(s, n) ==
        (/\ PostprocessSpeculative(s, n) /\ s \in Range(running')
         /\ Len(table[s]) >= Blocks(tokens[s] + n))
            => Len(table'[s]) >= Blocks(tokens'[s])
<1>1. ASSUME PagedInv, NEW s \in SeqId, NEW n \in 0..K, PostprocessSpeculative(s, n),
             s \in Range(running'), Len(table[s]) >= Blocks(tokens[s] + n)
      PROVE  Len(table'[s]) >= Blocks(tokens'[s])
    <2>. DEFINE now == tokens[s] + n
                kept == Kept(s, now, n)
                dropped == Len(table[s]) - kept
    <2>1. PICK eos \in BOOLEAN : Settle(s, n, eos, kept)
        BY <1>1 DEF PostprocessSpeculative
    <2>2. /\ table \in Tables /\ table[s] \in Seq(Block) /\ Len(table[s]) \in Nat
          /\ tokens \in [SeqId -> Nat] /\ n \in Nat /\ now \in Nat /\ now + n \in Nat
          /\ running \in Seq(SeqId) /\ Distinct(running) /\ s \in Range(running)
        <3>1. /\ table \in Tables /\ tokens \in [SeqId -> Nat]
              /\ running \in Seq(SeqId) /\ Distinct(running)
            BY ONLY PagedInv DEF PagedInv, Types, IdsInOrder
        <3>2. s \in Range(running)
            BY ONLY PostprocessSpeculative(s, n) DEF PostprocessSpeculative, Steppable
        <3>3. n \in Nat
            BY ConfigAssumption
        <3>4. table[s] \in Seq(Block) /\ Len(table[s]) \in Nat
            BY ONLY <3>1, s \in SeqId DEF Tables
        <3>5. now \in Nat /\ now + n \in Nat
            BY ONLY <3>1, <3>3, s \in SeqId
        <3>. QED
            BY ONLY <1>1, <3>1, <3>2, <3>3, <3>4, <3>5
    <2>3. tokens'[s] = now
        BY <2>1, <2>2 DEF Settle
    <2>4. Blocks(now) <= Blocks(now + n) /\ Blocks(now) \in Nat /\ Blocks(now + n) \in Nat
        BY <2>2, BlocksGrow, ExtraIsNat
    <2>5. kept >= Blocks(now) /\ kept \in 0..Len(table[s])
        <3>1. kept \in 0..Len(table[s])
            BY <2>2, KeptBounds
        <3>2. kept >= Blocks(now)
            BY <1>1, <2>2, <2>4 DEF Kept
        <3>. QED
            BY <3>1, <3>2
    <2>6. table'[s] = Rest(table[s], dropped)
        <3>1. ~ (running' = Removed(running, s))
            <4>1. running' = Removed(running, s) => Range(running') = Range(running) \ {s}
                BY <2>2, RemovesOne
            <4>. QED
                BY <4>1, <1>1
        <3>. HIDE DEF kept
        <3>2. table' = [table EXCEPT ![s] = Rest(table[s], dropped)]
            BY ONLY <3>1, <2>1 DEF Settle
        <3>. QED
            BY <3>2, <2>2 DEF Tables
    <2>. HIDE DEF now, kept
    <2>7. Len(table'[s]) = kept
        <3>1. dropped \in Nat /\ dropped <= Len(table[s])
            BY <2>2, <2>5
        <3>2. Len(Rest(table[s], dropped)) = Len(table[s]) - dropped
            BY <3>1, <2>2, PoppedPages
        <3>. QED
            BY <3>2, <2>2, <2>5, <2>6
    <2>. QED
        BY <2>3, <2>5, <2>7
<1>2. PagedInv /\ [Next]_vars => [\A s \in SeqId, n \in 0..K : Keeps(s, n)]_vars
    BY <1>1
<1>. QED
    BY AlwaysPaged, <1>2, PTL DEF Spec, RollbackKeepsTokens

-----------------------------------------------------------------------------
(* Admission under generate.  The head of the queue is refused when        *)
(* sixteen run, when its target pages cannot be had, or when its draft     *)
(* pages cannot be had beside them; generate gives nothing back, and the   *)
(* tokens it appends to a sequence that waits only make it ask for more,   *)
(* so a head that was refused once is refused for ever (Blocked), and      *)
(* whoever comes behind it waits with it.                                  *)
DraftLacks(s) == IF mode = "ar" THEN 0 ELSE Extra(draftTable[s], tokens[s] + DraftReserve)

Refused(s) ==
    \/ Len(running) >= MaxRunning
    \/ ~ CanAllocate(s, ReserveTokens)
    \/ ~ (DraftLacks(s) <= Len(free) - Extra(table[s], tokens[s] + ReserveTokens))

Blocked ==
    /\ (pc = "client" /\ waiting # <<>>) => Refused(Head(waiting))
    /\ (pc = "schedule" /\ Len(waiting) > 1) => Refused(Head(waiting))

Generating == driver = "generate" => Blocked

LEMMA AddKeepsBlocked ==
    ASSUME PagedInv, Blocked, driver = "generate", AddRequest
    PROVE  Blocked' /\ running' = running
<1>1. /\ pc = "client" /\ pc' = "schedule" /\ nextId \in SeqId
      /\ waiting' = Append(waiting, nextId)
      /\ UNCHANGED <<mode, free, table, draftTable, running>>
    BY DEF AddRequest, pageVars
<1>2. PICK n \in PromptLengths : tokens' = [tokens EXCEPT ![nextId] = n]
    BY DEF AddRequest
<1>3. /\ waiting \in Seq(SeqId) /\ nextId \in Nat /\ tokens \in [SeqId -> Nat]
      /\ Len(waiting) \in Nat /\ IdsInOrder
    BY DEF PagedInv, Types
<1>. SUFFICES ASSUME Len(waiting') > 1 PROVE Refused(Head(waiting))'
    BY <1>1 DEF Blocked
<1>4. waiting # <<>> /\ 1 \in 1..Len(waiting)
    BY <1>1, <1>3
<1>5. Head(waiting') = Head(waiting) /\ Head(waiting) = waiting[1] /\ Head(waiting) \in SeqId
    BY <1>1, <1>3, <1>4
<1>6. Head(waiting) # nextId
    <2>1. waiting[1] = Oldest
        BY <1>3, <1>4 DEF IdsInOrder, Oldest
    <2>2. Oldest < nextId
        BY <1>3, <1>4 DEF Oldest
    <2>. QED
        BY <2>1, <2>2, <1>3, <1>5 DEF Oldest
<1>7. tokens'[Head(waiting)] = tokens[Head(waiting)]
    BY <1>2, <1>3, <1>5, <1>6
<1>8. Refused(Head(waiting))
    BY <1>1, <1>4 DEF Blocked
<1>. QED
    BY <1>1, <1>5, <1>7, <1>8 DEF Refused, DraftLacks, CanAllocate, ReserveTokens, DraftReserve

(* The head may be the sequence that generate is decoding: it was refused  *)
(* for fewer tokens than it has now.                                       *)
LEMMA RoundKeepsBlocked ==
    ASSUME PagedInv, Blocked, GenerateAppends
    PROVE  Blocked' /\ running' = running
<1>1. /\ pc = "client" /\ tokens' \in [SeqId -> Nat] /\ \A s \in SeqId : tokens[s] <= tokens'[s]
      /\ UNCHANGED <<mode, pc, free, table, draftTable, waiting, running>>
    BY RoundGrows DEF pageVars, queueVars
<1>2. /\ mode \in DecodeMode /\ waiting \in Seq(SeqId) /\ tokens \in [SeqId -> Nat]
      /\ free \in Seq(Block) /\ table \in [SeqId -> Seq(Block)]
      /\ draftTable \in [SeqId -> Seq(Block)]
    BY DEF PagedInv, Types, Tables
<1>. SUFFICES ASSUME waiting # <<>> PROVE Refused(Head(waiting))'
    BY <1>1 DEF Blocked
<1>. DEFINE s == Head(waiting)
<1>3. s \in SeqId /\ s' = s /\ Refused(s)
    BY <1>1, <1>2 DEF Blocked
<1>. HIDE DEF s
<1>4. ReserveTokens' = ReserveTokens /\ DraftReserve' = DraftReserve
      /\ ReserveTokens \in Nat /\ DraftReserve \in Nat
    <2>1. ReserveTokens' = ReserveTokens /\ DraftReserve' = DraftReserve
        BY <1>1 DEF ReserveTokens, DraftReserve
    <2>. QED
        BY <2>1, <1>2, Reserves
<1>5. /\ table[s] \in Seq(Block) /\ draftTable[s] \in Seq(Block)
      /\ tokens[s] \in Nat /\ tokens'[s] \in Nat /\ tokens[s] <= tokens'[s]
      /\ Len(free) \in Nat
    BY <1>1, <1>2, <1>3
<1>6. /\ Extra(table[s], tokens[s] + ReserveTokens) <= Extra(table[s], tokens'[s] + ReserveTokens)
      /\ Extra(table[s], tokens[s] + ReserveTokens) \in Nat
      /\ Extra(table[s], tokens'[s] + ReserveTokens) \in Nat
    <2>1. /\ tokens[s] + ReserveTokens \in Nat /\ tokens'[s] + ReserveTokens \in Nat
          /\ tokens[s] + ReserveTokens <= tokens'[s] + ReserveTokens
        BY <1>4, <1>5
    <2>. QED
        BY <2>1, <1>5, ExtraGrows, ExtraIsNat
<1>7. DraftLacks(s) <= DraftLacks(s)' /\ DraftLacks(s) \in Nat /\ DraftLacks(s)' \in Nat
    <2>1. /\ tokens[s] + DraftReserve \in Nat /\ tokens'[s] + DraftReserve \in Nat
          /\ tokens[s] + DraftReserve <= tokens'[s] + DraftReserve
        BY <1>4, <1>5
    <2>2. /\ Extra(draftTable[s], tokens[s] + DraftReserve)
                <= Extra(draftTable[s], tokens'[s] + DraftReserve)
          /\ Extra(draftTable[s], tokens[s] + DraftReserve) \in Nat
          /\ Extra(draftTable[s], tokens'[s] + DraftReserve) \in Nat
        BY <2>1, <1>5, ExtraGrows, ExtraIsNat
    <2>. QED
        BY <2>2, <1>1, <1>3, <1>4 DEF DraftLacks
<1>8. Refused(s)'
    BY <1>1, <1>3, <1>4, <1>5, <1>6, <1>7 DEF Refused, CanAllocate
<1>. QED
    BY <1>8 DEF s

LEMMA ReturnKeepsBlocked ==
    ASSUME PagedInv, ScheduleReturns \/ \E s \in SeqId : NoTargetPages(s)
    PROVE  Blocked' /\ running' = running
<1>1. pc' = "client" /\ Idles
    <2>1. Idles
        BY WhoIdles
    <2>. QED
        BY <2>1 DEF ScheduleReturns, NoTargetPages
<1>2. waiting # <<>> => Refused(Head(waiting))
    BY DEF ScheduleReturns, NoTargetPages, CanTry, Refused
<1>3. UNCHANGED <<mode, free, table, draftTable, waiting, running, tokens>>
    BY <1>1 DEF Idles, pageVars, queueVars, countVars
<1>. QED
    BY <1>1, <1>2, <1>3
        DEF Blocked, Refused, DraftLacks, CanAllocate, ReserveTokens, DraftReserve

(* The head of the queue is tried.  It is admitted only if it came alone,  *)
(* and if it is not it is refused for its draft pages from then on.        *)
LEMMA TryKeepsBlocked ==
    ASSUME PagedInv, Blocked, NEW s \in SeqId, TryAdmit(s)
    PROVE  Blocked' /\ (running' = running \/ (running' = Append(running, s) /\ s = nextId - 1))
<1>. DEFINE lacks == Extra(table[s], tokens[s] + ReserveTokens)
            drafts == DraftLacks(s)
            taken == Popped(free, lacks)
            left == Rest(free, lacks)
            admitted == drafts <= Len(left)
            draftTaken == IF admitted THEN Popped(left, drafts) ELSE <<>>
<1>1. /\ mode \in DecodeMode /\ pc = "schedule" /\ free \in Seq(Block)
      /\ waiting \in Seq(SeqId) /\ waiting # <<>> /\ running \in Seq(SeqId)
      /\ tokens \in [SeqId -> Nat] /\ nextId \in Nat
      /\ table \in [SeqId -> Seq(Block)] /\ draftTable \in [SeqId -> Seq(Block)]
      /\ s = Head(waiting) /\ Len(running) < MaxRunning /\ MaxRunning \in Nat
    BY SchedulerAssumption DEF PagedInv, Types, Tables, TryAdmit, CanTry
<1>2. lacks \in Nat /\ drafts \in Nat
      /\ Len(table[s]) + lacks >= Blocks(tokens[s] + ReserveTokens)
      /\ Blocks(tokens[s] + ReserveTokens) \in Nat
    <2>1. tokens[s] + ReserveTokens \in Nat /\ tokens[s] + DraftReserve \in Nat
          /\ table[s] \in Seq(Block) /\ draftTable[s] \in Seq(Block)
        <3>1. ReserveTokens \in Nat /\ DraftReserve \in Nat
            BY ONLY <1>1, Reserves
        <3>2. tokens[s] \in Nat
            BY ONLY <1>1, s \in SeqId
        <3>3. table[s] \in Seq(Block) /\ draftTable[s] \in Seq(Block)
            BY ONLY <1>1, s \in SeqId
        <3>. QED
            BY ONLY <3>1, <3>2, <3>3
    <2>. QED
        BY <2>1, ExtraIsNat DEF DraftLacks
<1>3. lacks <= Len(free) /\ CanAllocate(s, ReserveTokens)
    BY DEF TryAdmit, CanAllocate
<1>4. /\ taken \in Seq(Block) /\ Len(taken) = lacks
      /\ left \in Seq(Block) /\ Len(left) = Len(free) - lacks
    BY <1>1, <1>2, <1>3, PoppedPages
<1>5. /\ UNCHANGED <<mode, tokens>>
      /\ table' = [table EXCEPT ![s] = @ \o taken]
      /\ free' = Rest(left, Len(draftTaken))
      /\ draftTable' = [draftTable EXCEPT ![s] = @ \o draftTaken]
      /\ admitted => waiting' = Tail(waiting) /\ running' = Append(running, s)
      /\ ~ admitted => /\ waiting' = <<Head(waiting)>> \o Tail(waiting)
                       /\ pc' = "client" /\ running' = running
    BY <1>4 DEF TryAdmit, Taken, PutBack, DraftLacks, countVars
<1>6. 1 \in 1..Len(waiting) /\ Len(waiting) \in Nat /\ s = waiting[1]
    BY <1>1
<1>7. CASE admitted
    <2>1. waiting' = Tail(waiting) /\ running' = Append(running, s)
        BY <1>5, <1>7
    <2>2. drafts <= Len(free) - lacks
        BY <1>4, <1>7
    <2>. HIDE DEF taken, draftTaken, left, lacks, admitted, drafts
    <2>3. Len(waiting) = 1
        <3>1. ~ Refused(s)
            BY <1>1, <1>3, <2>2 DEF Refused, lacks, drafts
        <3>2. Len(waiting) > 1 => Refused(s)
            BY <1>1 DEF Blocked
        <3>. QED
            BY <1>6, <3>1, <3>2
    <2>4. waiting' = <<>>
        BY ONLY <2>1, <2>3, <1>1, HeadAndTail
    <2>5. s = nextId - 1
        <3>1. waiting[1] = Oldest + 1 - 1
            BY <1>6 DEF PagedInv, IdsInOrder
        <3>. QED
            BY <3>1, <2>3, <1>1, <1>6 DEF Oldest
    <2>. QED
        BY <2>1, <2>4, <2>5 DEF Blocked
<1>8. CASE ~ admitted
    <2>1. draftTaken = <<>>
        BY <1>8
    <2>2. waiting' = waiting /\ running' = running /\ pc' = "client"
        <3>. HIDE DEF admitted
        <3>1. <<Head(waiting)>> \o Tail(waiting) = waiting
            BY <1>1
        <3>. QED
            BY <3>1, <1>5, <1>8
    <2>. HIDE DEF taken, draftTaken
    <2>3. draftTable' = draftTable
        <3>1. draftTable[s] \o draftTaken = draftTable[s]
            BY <2>1, <1>1
        <3>. QED
            BY <3>1, <1>1, <1>5
    <2>4. ReserveTokens' = ReserveTokens /\ DraftReserve' = DraftReserve
        BY <1>5 DEF ReserveTokens, DraftReserve
    <2>5. Extra(table'[s], tokens'[s] + ReserveTokens') = 0
        <3>1. table'[s] = table[s] \o taken
            BY <1>1, <1>5
        <3>. HIDE DEF lacks, left, drafts, admitted
        <3>2. table[s] \in Seq(Block) /\ taken \in Seq(Block) /\ Len(taken) = lacks
            BY <1>1, <1>4
        <3>3. Len(table'[s]) = Len(table[s]) + lacks
            BY <3>1, <3>2
        <3>4. Len(table'[s]) \in Nat
            <4>1. Len(table[s]) \in Nat /\ lacks \in Nat
                BY ONLY <3>2, <1>2
            <4>. QED
                BY ONLY <4>1, <3>3
        <3>5. tokens'[s] = tokens[s]
            BY ONLY <1>5
        <3>. QED
            BY <3>3, <3>4, <3>5, <1>2, <2>4 DEF Extra
    <2>6. DraftLacks(s)' = drafts
        BY <2>3, <2>4, <1>5 DEF DraftLacks
    <2>7. Len(free') = Len(left)
        <3>1. Len(draftTaken) = 0 /\ 0 <= Len(left)
            BY <2>1, <1>4
        <3>. HIDE DEF left
        <3>. QED
            BY <3>1, <1>4, <1>5, PoppedPages
    <2>8. Refused(s)'
        <3>. HIDE DEF left, lacks
        <3>1. Len(left) \in Int /\ drafts \in Nat
            BY <1>2, <1>4
        <3>2. ~ (DraftLacks(s)' <= Len(free') - Extra(table'[s], tokens'[s] + ReserveTokens'))
            BY <3>1, <2>5, <2>6, <2>7, <1>8
        <3>. QED
            BY <3>2 DEF Refused
    <2>9. Blocked'
        BY <2>2, <2>8, <1>1 DEF Blocked
    <2>. QED
        BY <2>2, <2>9
<1>. QED
    BY <1>7, <1>8

(* Whatever generate's steps are, only the prompt just added starts to run.*)
LEMMA StepGenerating ==
    ASSUME PagedInv, Generating, [Next]_vars
    PROVE  /\ Generating'
           /\ driver = "generate" => (running' = running \/ running' = Append(running, nextId - 1))
<1>1. driver' = driver
    <2>1. CASE AddRequest \/ Schedule \/ ScheduleReturns
        BY ONLY <2>1 DEF AddRequest, Schedule, ScheduleReturns
    <2>2. CASE \E s \in SeqId : NoTargetPages(s) \/ TryAdmit(s)
        BY ONLY <2>2 DEF NoTargetPages, TryAdmit
    <2>3. CASE \E s \in SeqId : Postprocess(s) \/ (\E n \in 0..K : PostprocessSpeculative(s, n))
        <3>1. \E s, n, eos, kept : Settle(s, n, eos, kept)
            BY ONLY Zenon, <2>3 DEF Postprocess, PostprocessSpeculative
        <3>2. ASSUME NEW s, NEW n, NEW eos, NEW kept, Settle(s, n, eos, kept) PROVE driver' = driver
            BY ONLY Zenon, <3>2 DEF Settle
        <3>. QED
            BY ONLY <3>1, <3>2
    <2>4. CASE \E s \in SeqId : Reserve(s)
        BY ONLY <2>4 DEF Reserve
    <2>5. CASE GenerateAppends \/ UNCHANGED vars
        BY ONLY <2>5 DEF vars, GenerateAppends
    <2>. QED
        BY <2>1, <2>2, <2>3, <2>4, <2>5 DEF Next, InSchedule
<1>. SUFFICES ASSUME driver = "generate"
              PROVE  Blocked' /\ (running' = running \/ running' = Append(running, nextId - 1))
    BY <1>1 DEF Generating
<1>2. Blocked
    BY DEF Generating
<1>3. CASE AddRequest
    BY <1>2, <1>3, AddKeepsBlocked
<1>4. CASE ScheduleReturns \/ \E s \in SeqId : NoTargetPages(s)
    BY <1>4, ReturnKeepsBlocked
<1>5. CASE \E s \in SeqId : TryAdmit(s)
    BY <1>2, <1>5, TryKeepsBlocked
<1>6. CASE UNCHANGED vars
    BY <1>2, <1>6 DEF vars, pageVars, queueVars, countVars, Blocked, Refused, DraftLacks,
                      CanAllocate, ReserveTokens, DraftReserve
<1>7. CASE GenerateAppends
    BY <1>2, <1>7, RoundKeepsBlocked
<1>. QED
    BY <1>3, <1>4, <1>5, <1>6, <1>7
        DEF Next, InSchedule, Schedule, Postprocess, PostprocessSpeculative, Reserve, Steppable

(* For every number of running sequences, page size, pool, K and fan-out:  *)
(* under generate a prompt its own schedule call does not admit never runs,*)
(* however many tokens it and the others get between two calls             *)
(* (LLMEngine.generate, Scheduler.schedule).                               *)
THEOREM GenerateAdmitsNowOrNeverHolds == Spec => GenerateAdmitsNowOrNever
<1>1. PagedInv /\ Generating /\ [Next]_vars =>
        [driver = "generate" => Range(running') \subseteq Range(running) \cup {nextId - 1}]_vars
    <2>. SUFFICES ASSUME PagedInv, Generating, [Next]_vars, driver = "generate"
                  PROVE  Range(running') \subseteq Range(running) \cup {nextId - 1}
        OBVIOUS
    <2>1. running \in Seq(SeqId)
        BY DEF PagedInv, Types
    <2>2. CASE running' = running
        BY <2>2 DEF Range
    <2>3. CASE running' = Append(running, nextId - 1)
        <3>1. /\ DOMAIN running' = 1..(Len(running) + 1) /\ DOMAIN running = 1..Len(running)
              /\ \A i \in 1..Len(running) : running'[i] = running[i]
              /\ running'[Len(running) + 1] = nextId - 1 /\ Len(running) \in Nat
            BY <2>1, <2>3
        <3>2. \A i \in 1..(Len(running) + 1) : i \in 1..Len(running) \/ i = Len(running) + 1
            BY <3>1
        <3>. QED
            BY <3>1, <3>2 DEF Range
    <2>. QED
        BY <2>2, <2>3, StepGenerating
<1>2. Init => Generating
    BY DEF Init, Generating, Blocked
<1>3. PagedInv /\ Generating /\ [Next]_vars => Generating'
    BY StepGenerating
<1>. QED
    BY AlwaysPaged, <1>1, <1>2, <1>3, PTL DEF Spec, GenerateAdmitsNowOrNever
=============================================================================
