------------------------------ MODULE EnvProofs ------------------------------
(***************************************************************************)
(* Proofs about the .env files, for all files by hand in which a script    *)
(* that sees a line of a key sees the last one, and whatever the shell     *)
(* exports and the VM's address is.                                        *)
(***************************************************************************)
EXTENDS EnvFile, CommonLemmas

-----------------------------------------------------------------------------
(* Reading a file.                                                         *)

(* A set of line numbers has a last one. *)
LEMMA LastNumber ==
    ASSUME NEW n \in Nat, NEW S \in SUBSET (1..n), S # {}
    PROVE  \E i \in S : \A j \in S : j <= i
<1>. DEFINE T == {m \in Nat : \E i \in S : m = n - i}
<1>1. T \in SUBSET Nat /\ T # {}
    <2>1. PICK i \in S : TRUE
        OBVIOUS
    <2>2. n - i \in T
        BY <2>1
    <2>. QED
        BY <2>2
<1>2. PICK m \in T : \A y \in T : m <= y
    <2>. HIDE DEF T
    <2>. QED
        BY <1>1, LeastNatural
<1>3. PICK i \in S : m = n - i
    BY <1>2
<1>4. ASSUME NEW j \in S PROVE j <= i
    <2>1. n - j \in T
        OBVIOUS
    <2>2. m <= n - j
        BY <2>1, <1>2
    <2>. QED
        BY <2>2, <1>3
<1>. QED
    BY <1>4

(* Line i of the file sets key k, for a reader of these forms. *)
SetBy(lines, k, forms, i) == lines[i].key = k /\ lines[i].form \in forms

IsLast(lines, k, forms, i) ==
    /\ i \in 1..Len(lines)
    /\ SetBy(lines, k, forms, i)
    /\ \A j \in 1..Len(lines) : SetBy(lines, k, forms, j) => j <= i

(* A key has the value of its last line, or none. *)
LEMMA LastOfValue ==
    ASSUME NEW lines, Len(lines) \in Nat, NEW k, NEW forms, NEW i, IsLast(lines, k, forms, i)
    PROVE  LastOf(lines, k, forms) = lines[i].value
<1>. DEFINE set == {j \in 1..Len(lines) : lines[j].key = k /\ lines[j].form \in forms}
<1>1. i \in set /\ (\A j \in set : j <= i) /\ set \in SUBSET Int
    BY DEF IsLast, SetBy
<1>2. LastOf(lines, k, forms) =
        IF set = {} THEN Unset ELSE lines[CHOOSE h \in set : \A j \in set : j <= h].value
    BY DEF LastOf
<1>. HIDE DEF set
<1>. DEFINE c == CHOOSE h \in set : \A j \in set : j <= h
<1>3. c \in set /\ \A j \in set : j <= c
    BY ONLY <1>1, Zenon
<1>4. c = i
    <2>. HIDE DEF c
    <2>. QED
        BY <1>1, <1>3
<1>. QED
    BY <1>1, <1>2, <1>4

LEMMA LastOfNone ==
    ASSUME NEW lines, NEW k, NEW forms, \A j \in 1..Len(lines) : ~ SetBy(lines, k, forms, j)
    PROVE  LastOf(lines, k, forms) = Unset
BY DEF LastOf, SetBy

LEMMA LastExists ==
    ASSUME NEW lines, Len(lines) \in Nat, NEW k, NEW forms,
           \E j \in 1..Len(lines) : SetBy(lines, k, forms, j)
    PROVE  \E i : IsLast(lines, k, forms, i)
<1>. DEFINE S == {j \in 1..Len(lines) : SetBy(lines, k, forms, j)}
<1>1. S \in SUBSET (1..Len(lines)) /\ S # {}
    OBVIOUS
<1>2. PICK i \in S : \A j \in S : j <= i
    <2>. HIDE DEF S
    <2>. QED
        BY <1>1, LastNumber
<1>. QED
    BY <1>2 DEF IsLast

(* A value is a sequence of parts. *)
LEMMA LastOfType ==
    ASSUME NEW lines \in Seq(EnvLine), NEW k, NEW forms
    PROVE  LastOf(lines, k, forms) \in Seq(STRING)
<1>1. Len(lines) \in Nat /\ \A i \in 1..Len(lines) : lines[i].value \in Seq(STRING)
    <2>1. \A i \in 1..Len(lines) : lines[i] \in EnvLine
        OBVIOUS
    <2>2. \A l \in EnvLine : l.value \in Seq(STRING)
        BY DEF EnvLine
    <2>. QED
        BY <2>1, <2>2
<1>2. CASE \E j \in 1..Len(lines) : SetBy(lines, k, forms, j)
    <2>1. PICK i : IsLast(lines, k, forms, i)
        BY <1>1, <1>2, LastExists
    <2>2. i \in 1..Len(lines)
        BY <2>1 DEF IsLast
    <2>. QED
        BY <1>1, <2>1, <2>2, LastOfValue
<1>3. CASE ~ \E j \in 1..Len(lines) : SetBy(lines, k, forms, j)
    <2>1. LastOf(lines, k, forms) = <<>>
        BY <1>3, LastOfNone DEF Unset
    <2>. QED
        BY <2>1
<1>. QED
    BY <1>2, <1>3
-----------------------------------------------------------------------------
(* Rewriting a file: what the two scripts have in common.                  *)

Seen(lines, data, forms, i) == lines[i].form \in forms /\ lines[i].key \in DOMAIN data

SetTo(line, data) == line.key \in DOMAIN data /\ line = Line(line.key, data[line.key])

(* A script that sees these forms replaces what it sees and appends the    *)
(* keys it has not seen.                                                   *)
Rewrites(m, lines, data, forms) ==
    /\ Len(lines) <= Len(m)
    /\ \A i \in 1..Len(lines) :
          IF Seen(lines, data, forms, i)
          THEN m[i].key = lines[i].key /\ SetTo(m[i], data)
          ELSE m[i] = lines[i]
    /\ \A i \in (Len(lines) + 1)..Len(m) : SetTo(m[i], data)
    /\ \A k \in DOMAIN data :
          \/ \E i \in 1..Len(lines) : Seen(lines, data, forms, i) /\ lines[i].key = k
          \/ \E i \in (Len(lines) + 1)..Len(m) : m[i].key = k

Setters == Form \ {"comment"}

(* A line it writes is plain and has the data's value. *)
LEMMA WrittenLine ==
    ASSUME NEW line, NEW data, SetTo(line, data)
    PROVE  line.form = "plain" /\ line.value = data[line.key] /\ line.key \in DOMAIN data
<1>1. Line(line.key, data[line.key]).form = "plain"
    BY DEF Line
<1>2. Line(line.key, data[line.key]).value = data[line.key]
    BY DEF Line
<1>. QED
    BY <1>1, <1>2 DEF SetTo

(* The last line of each key is seen afterwards too. *)
LEMMA RewritingIsSeen ==
    ASSUME NEW lines \in Seq(EnvLine), NEW m \in Seq(EnvLine), NEW data, NEW forms,
           Rewrites(m, lines, data, forms), "plain" \in forms, LastIsSeen(lines, forms)
    PROVE  LastIsSeen(m, forms)
<1>. SUFFICES ASSUME NEW i \in 1..Len(m), NEW j \in 1..Len(m), i < j, m[i].key = m[j].key,
                     m[i].form \in forms, m[j].form # "comment"
              PROVE  m[j].form \in forms
    BY DEF LastIsSeen
<1>0. Len(m) \in Nat /\ Len(lines) \in Nat
    OBVIOUS
<1>1. CASE j \notin 1..Len(lines)
    <2>1. SetTo(m[j], data)
        BY <1>0, <1>1 DEF Rewrites
    <2>. QED
        BY <2>1, WrittenLine
<1>2. CASE j \in 1..Len(lines)
    <2>1. i \in 1..Len(lines)
        BY <1>0, <1>2
    <2>2. CASE Seen(lines, data, forms, j)
        <3>1. SetTo(m[j], data)
            BY <1>2, <2>2 DEF Rewrites
        <3>. QED
            BY <3>1, WrittenLine
    <2>3. CASE ~ Seen(lines, data, forms, j)
        <3>1. m[j] = lines[j]
            BY <1>2, <2>3 DEF Rewrites
        <3>2. m[i].key = lines[i].key /\ lines[i].form \in forms
            BY <2>1 DEF Rewrites, Seen
        <3>. QED
            BY <1>2, <2>1, <3>1, <3>2 DEF LastIsSeen
    <2>. QED
        BY <2>2, <2>3
<1>. QED
    BY <1>1, <1>2

(* A key that is not given keeps its value. *)
LEMMA OtherKeysStay ==
    ASSUME NEW lines \in Seq(EnvLine), NEW m \in Seq(EnvLine), NEW data, NEW forms,
           Rewrites(m, lines, data, forms), NEW k, k \notin DOMAIN data
    PROVE  LastOf(m, k, Setters) = LastOf(lines, k, Setters)
<1>0. Len(m) \in Nat /\ Len(lines) \in Nat /\ Len(lines) <= Len(m)
    BY DEF Rewrites
<1>1. ASSUME NEW i \in 1..Len(m), SetBy(m, k, Setters, i)
      PROVE  i \in 1..Len(lines) /\ m[i] = lines[i]
    <2>1. m[i].key = k
        BY <1>1 DEF SetBy
    <2>2. ~ SetTo(m[i], data)
        BY <2>1, WrittenLine
    <2>3. i \in 1..Len(lines)
        BY <1>0, <2>2 DEF Rewrites
    <2>. QED
        BY <2>2, <2>3 DEF Rewrites
<1>2. ASSUME NEW i \in 1..Len(lines), SetBy(lines, k, Setters, i)
      PROVE  i \in 1..Len(m) /\ m[i] = lines[i]
    <2>1. ~ Seen(lines, data, forms, i)
        BY <1>2 DEF SetBy, Seen
    <2>. QED
        BY <2>1, <1>0 DEF Rewrites
<1>3. CASE \E j \in 1..Len(lines) : SetBy(lines, k, Setters, j)
    <2>1. PICK i : IsLast(lines, k, Setters, i)
        BY <1>0, <1>3, LastExists
    <2>2. i \in 1..Len(lines) /\ SetBy(lines, k, Setters, i)
        BY <2>1 DEF IsLast
    <2>3. i \in 1..Len(m) /\ m[i] = lines[i]
        BY <1>2, <2>2
    <2>4. SetBy(m, k, Setters, i)
        BY <2>2, <2>3 DEF SetBy
    <2>5. ASSUME NEW j \in 1..Len(m), SetBy(m, k, Setters, j) PROVE j <= i
        <3>1. j \in 1..Len(lines) /\ m[j] = lines[j]
            BY <1>1, <2>5
        <3>2. SetBy(lines, k, Setters, j)
            BY <3>1, <2>5 DEF SetBy
        <3>. QED
            BY <3>1, <3>2, <2>1 DEF IsLast
    <2>6. IsLast(m, k, Setters, i)
        BY <2>3, <2>4, <2>5 DEF IsLast
    <2>. QED
        BY <1>0, <2>1, <2>3, <2>6, LastOfValue
<1>4. CASE ~ \E j \in 1..Len(lines) : SetBy(lines, k, Setters, j)
    <2>1. ASSUME NEW j \in 1..Len(m), SetBy(m, k, Setters, j) PROVE FALSE
        BY <1>1, <1>4, <2>1 DEF SetBy
    <2>. QED
        BY <1>4, <2>1, LastOfNone
<1>. QED
    BY <1>3, <1>4

(* A key that is given has the value given. *)
LEMMA GivenKeysSet ==
    ASSUME NEW lines \in Seq(EnvLine), NEW m \in Seq(EnvLine), NEW data, NEW forms,
           Rewrites(m, lines, data, forms), forms \subseteq Setters, LastIsSeen(lines, forms),
           NEW k \in DOMAIN data
    PROVE  LastOf(m, k, Setters) = data[k]
<1>0. Len(m) \in Nat /\ Len(lines) \in Nat /\ Len(lines) <= Len(m)
    BY DEF Rewrites
<1>1. ASSUME NEW i \in 1..Len(m), SetTo(m[i], data), m[i].key = k
      PROVE  SetBy(m, k, Setters, i) /\ m[i].value = data[k]
    BY <1>1, WrittenLine DEF SetBy, Setters, Form
<1>2. CASE \E i \in (Len(lines) + 1)..Len(m) : m[i].key = k
    <2>1. PICK h \in (Len(lines) + 1)..Len(m) : m[h].key = k
        BY <1>2
    <2>2. h \in 1..Len(m) /\ SetTo(m[h], data)
        BY <1>0, <2>1 DEF Rewrites
    <2>3. SetBy(m, k, Setters, h)
        BY <1>1, <2>1, <2>2
    <2>4. PICK i : IsLast(m, k, Setters, i)
        BY <1>0, <2>2, <2>3, LastExists
    <2>5. i \in 1..Len(m) /\ m[i].key = k /\ h <= i
        BY <2>2, <2>3, <2>4 DEF IsLast, SetBy
    <2>6. i \in (Len(lines) + 1)..Len(m)
        BY <1>0, <2>1, <2>5
    <2>7. SetTo(m[i], data)
        BY <2>6 DEF Rewrites
    <2>8. m[i].value = data[k]
        BY <1>1, <2>5, <2>7
    <2>. QED
        BY <1>0, <2>4, <2>8, LastOfValue
<1>3. CASE ~ \E i \in (Len(lines) + 1)..Len(m) : m[i].key = k
    <2>1. PICK h \in 1..Len(lines) : Seen(lines, data, forms, h) /\ lines[h].key = k
        BY <1>3 DEF Rewrites
    <2>2. h \in 1..Len(m) /\ m[h].key = k /\ SetTo(m[h], data)
        BY <1>0, <2>1 DEF Rewrites
    <2>3. SetBy(m, k, Setters, h)
        BY <1>1, <2>2
    <2>4. PICK i : IsLast(m, k, Setters, i)
        BY <1>0, <2>2, <2>3, LastExists
    <2>5. i \in 1..Len(m) /\ SetBy(m, k, Setters, i) /\ m[i].key = k /\ h <= i
        BY <2>2, <2>3, <2>4 DEF IsLast, SetBy
    <2>6. i \in 1..Len(lines)
        BY <1>0, <1>3, <2>5
    <2>7. Seen(lines, data, forms, i)
        <3>. SUFFICES ASSUME ~ Seen(lines, data, forms, i) PROVE FALSE
            OBVIOUS
        <3>1. m[i] = lines[i]
            BY <2>6 DEF Rewrites
        <3>2. lines[i].form # "comment" /\ lines[i].key = k
            BY <3>1, <2>5 DEF SetBy, Setters
        <3>3. h # i /\ h < i
            BY <2>1, <2>5, <2>6, <1>0
        <3>4. lines[i].form \in forms
            BY <3>2, <3>3, <2>1, <2>6 DEF LastIsSeen, Seen
        <3>. QED
            BY <3>2, <3>4 DEF Seen
    <2>8. SetTo(m[i], data)
        BY <2>6, <2>7 DEF Rewrites
    <2>9. m[i].value = data[k]
        BY <1>1, <2>5, <2>8
    <2>. QED
        BY <1>0, <2>4, <2>9, LastOfValue
<1>. QED
    BY <1>2, <1>3

(* So the file reads as the map it was, overridden. *)
LEMMA RewritingOverrides ==
    ASSUME NEW lines \in Seq(EnvLine), NEW m \in Seq(EnvLine), NEW data, NEW forms,
           Rewrites(m, lines, data, forms), forms \subseteq Setters, LastIsSeen(lines, forms)
    PROVE  Dotenv(m) = Overridden(Dotenv(lines), data)
<1>1. \A k \in EnvKey : LastOf(m, k, Setters) =
        IF k \in DOMAIN data THEN data[k] ELSE LastOf(lines, k, Setters)
    BY OtherKeysStay, GivenKeysSet
<1>. QED
    BY <1>1 DEF Dotenv, Overridden, Setters
-----------------------------------------------------------------------------
(* write_env_key is such a rewriting, of one key.                          *)

LEMMA LineType ==
    ASSUME NEW k \in EnvKey, NEW v \in Seq(STRING)
    PROVE  Line(k, v) \in EnvLine
BY DEF Line, EnvLine, Form

LEMMA WriteEnvKeyRewrites ==
    ASSUME NEW lines \in Seq(EnvLine), NEW k \in EnvKey, NEW v \in Seq(STRING)
    PROVE  /\ WriteEnvKey(lines, k, v) \in Seq(EnvLine)
           /\ Rewrites(WriteEnvKey(lines, k, v), lines, [q \in {k} |-> v], {"plain", "spaced"})
<1>. DEFINE n == Len(lines)
            matches(l) == l.key = k /\ l.form \in {"plain", "spaced"}
            out == [i \in 1..n |-> IF matches(lines[i]) THEN Line(k, v) ELSE lines[i]]
            found == \E i \in 1..n : matches(lines[i])
            data == [q \in {k} |-> v]
            forms == {"plain", "spaced"}
            m == WriteEnvKey(lines, k, v)
<1>1. n \in Nat /\ (\A i \in 1..n : lines[i] \in EnvLine) /\ Line(k, v) \in EnvLine
    BY LineType
<1>2. out \in Seq(EnvLine) /\ Len(out) = n
    BY <1>1
<1>3. m = IF found THEN out ELSE Append(out, Line(k, v))
    BY DEF WriteEnvKey
<1>4. \A i \in 1..n : out[i] = IF matches(lines[i]) THEN Line(k, v) ELSE lines[i]
    OBVIOUS
<1>5. Line(k, v).key = k /\ SetTo(Line(k, v), data)
    BY DEF Line, SetTo
<1>6. ASSUME NEW i PROVE matches(lines[i]) <=> Seen(lines, data, forms, i)
    BY DEF Seen
<1>. HIDE DEF out, matches, data, forms, m
<1>7. CASE found
    <2>1. m = out /\ Len(m) = n
        BY <1>2, <1>3, <1>7
    <2>2. \A i \in 1..n : IF Seen(lines, data, forms, i)
                          THEN m[i].key = lines[i].key /\ SetTo(m[i], data) ELSE m[i] = lines[i]
        BY <2>1, <1>4, <1>5, <1>6 DEF matches
    <2>3. \A q \in DOMAIN data : \E i \in 1..n : Seen(lines, data, forms, i) /\ lines[i].key = q
        BY <1>6, <1>7 DEF matches, data
    <2>. QED
        BY <1>1, <1>2, <2>1, <2>2, <2>3 DEF Rewrites, data, forms, m
<1>8. CASE ~ found
    <2>1. m = Append(out, Line(k, v))
        BY <1>3, <1>8
    <2>2. /\ m \in Seq(EnvLine) /\ Len(m) = n + 1 /\ m[n + 1] = Line(k, v)
          /\ \A i \in 1..n : m[i] = out[i]
        BY <1>1, <1>2, <2>1, AppendProperties
    <2>3. \A i \in 1..n : IF Seen(lines, data, forms, i)
                          THEN m[i].key = lines[i].key /\ SetTo(m[i], data) ELSE m[i] = lines[i]
        BY <2>2, <1>4, <1>5, <1>6 DEF matches
    <2>4. \A i \in (n + 1)..Len(m) : i = n + 1
        BY <1>1, <2>2
    <2>5. \A i \in (n + 1)..Len(m) : SetTo(m[i], data)
        BY <2>2, <2>4, <1>5
    <2>6. n + 1 \in (n + 1)..Len(m) /\ m[n + 1].key = k /\ n <= Len(m)
        BY <1>1, <2>2, <1>5
    <2>7. \A q \in DOMAIN data : \E i \in (n + 1)..Len(m) : m[i].key = q
        BY <2>6 DEF data
    <2>. QED
        BY <2>2, <2>3, <2>5, <2>6, <2>7 DEF Rewrites, data, forms, m
<1>. QED
    BY <1>7, <1>8

-----------------------------------------------------------------------------
(* The script on the VM is such a rewriting, of the data's keys.           *)

NewLines(f, data, keys) ==
    f = [i \in 0..Len(KeyOrder) |->
            IF i = 0 THEN <<>>
            ELSE IF KeyOrder[i] \in keys
                 THEN Append(f[i - 1], Line(KeyOrder[i], data[KeyOrder[i]]))
                 ELSE f[i - 1]]

KeyNames == {KeyOrder[i] : i \in 1..Len(KeyOrder)}

LEMMA KeyOrderTypes ==
    /\ Len(KeyOrder) = 12
    /\ KeyNames \subseteq EnvKey
    /\ Passed \subseteq KeyNames
    /\ {"HF_TOKEN", "MODEL_PROFILE", "JAX_PLATFORMS", "TARGET_MODEL_PATH", "DRAFT_MODEL_PATH",
        "TPU_VM_NAME", "GCS_BUCKET", "GCS_MODEL_PREFIX"} \subseteq KeyNames
<1>1. Len(KeyOrder) = 12
    BY DEF KeyOrder
<1>2. KeyNames \subseteq EnvKey
    BY EnvAssumption DEF KeyNames
<1>3. Passed \subseteq KeyNames
    BY <1>1 DEF Passed, KeyNames
<1>4. /\ KeyOrder[1] = "HF_TOKEN" /\ KeyOrder[2] = "MODEL_PROFILE" /\ KeyOrder[3] = "JAX_PLATFORMS"
      /\ KeyOrder[4] = "TARGET_MODEL_PATH" /\ KeyOrder[5] = "DRAFT_MODEL_PATH"
      /\ KeyOrder[8] = "TPU_VM_NAME" /\ KeyOrder[10] = "GCS_BUCKET"
      /\ KeyOrder[11] = "GCS_MODEL_PREFIX"
    BY DEF KeyOrder
<1>5. {1, 2, 3, 4, 5, 8, 10, 11} \subseteq 1..Len(KeyOrder)
    BY <1>1
<1>. QED
    BY <1>1, <1>2, <1>3, <1>4, <1>5 DEF KeyNames

(* Lines for all of these keys, with the data's values. *)
LinesFor(new, data, keys) ==
    /\ new \in Seq(EnvLine)
    /\ \A i \in 1..Len(new) : SetTo(new[i], data)
    /\ \A k \in keys : \E i \in 1..Len(new) : new[i].key = k

(* It appends one line for each key it has not seen. *)
LEMMA LinesOfKeys ==
    ASSUME NEW data, DOMAIN data \subseteq KeyNames, \A k \in DOMAIN data : data[k] \in Seq(STRING),
           NEW keys \in SUBSET DOMAIN data
    PROVE  LinesFor(LinesOf(data, keys), data, keys)
<1>. DEFINE n == Len(KeyOrder)
            V == Seq(EnvLine)
            base == <<>>
            step == [i \in 1..n |-> [v \in V |->
                        IF KeyOrder[i] \in keys
                        THEN Append(v, Line(KeyOrder[i], data[KeyOrder[i]])) ELSE v]]
            new == CHOOSE f : NewLines(f, data, keys)
<1>1. n \in Nat /\ base \in V
    BY KeyOrderTypes
<1>2. ASSUME NEW i \in 1..n, KeyOrder[i] \in keys
      PROVE  /\ Line(KeyOrder[i], data[KeyOrder[i]]) \in EnvLine
             /\ SetTo(Line(KeyOrder[i], data[KeyOrder[i]]), data)
             /\ Line(KeyOrder[i], data[KeyOrder[i]]).key = KeyOrder[i]
    <2>1. KeyOrder[i] \in DOMAIN data /\ KeyOrder[i] \in EnvKey
        BY <1>2, KeyOrderTypes
    <2>2. Line(KeyOrder[i], data[KeyOrder[i]]).key = KeyOrder[i]
        BY DEF Line
    <2>. QED
        BY <2>1, <2>2, LineType DEF SetTo
<1>3. step \in [1..n -> [V -> V]]
    <2>1. \A i \in 1..n, v \in V :
              (IF KeyOrder[i] \in keys
               THEN Append(v, Line(KeyOrder[i], data[KeyOrder[i]])) ELSE v) \in V
        BY <1>2, AppendProperties
    <2>. QED
        BY <2>1
<1>4. \A i \in 1..n, v \in V : step[i][v] =
          IF KeyOrder[i] \in keys THEN Append(v, Line(KeyOrder[i], data[KeyOrder[i]])) ELSE v
    OBVIOUS
<1>5. LinesOf(data, keys) = new[n]
    BY DEF LinesOf, NewLines
<1>. HIDE DEF step, new, base, V
<1>6. PICK h : Solves(h, n, V, base, step)
    BY ONLY <1>1, <1>3, RecurrenceHasSolution
<1>7. /\ h \in [0..n -> V] /\ h[0] = base
      /\ \A i \in 1..n : h[i] = step[i][h[i - 1]]
    BY ONLY <1>6 DEF Solves
<1>8. NewLines(h, data, keys)
    <2>1. ASSUME NEW i \in 0..n
          PROVE  h[i] = IF i = 0 THEN <<>>
                        ELSE IF KeyOrder[i] \in keys
                             THEN Append(h[i - 1], Line(KeyOrder[i], data[KeyOrder[i]]))
                             ELSE h[i - 1]
        <3>1. CASE i = 0
            BY <3>1, <1>7 DEF base
        <3>2. CASE i # 0
            <4>1. i \in 1..n /\ i - 1 \in 0..n
                BY <1>1, <3>2
            <4>2. h[i - 1] \in V /\ h[i] = step[i][h[i - 1]]
                BY <4>1, <1>7
            <4>. QED
                BY <4>1, <4>2, <3>2, <1>4
        <3>. QED
            BY <3>1, <3>2
    <2>. QED
        BY <2>1, <1>7 DEF NewLines
<1>9. NewLines(new, data, keys)
    BY <1>8 DEF new
<1>10. /\ new = [i \in 0..n |-> new[i]] /\ new[0] = base
       /\ \A i \in 1..n : new[i - 1] \in V => new[i] = step[i][new[i - 1]]
    <2>1. new = [i \in 0..n |-> new[i]]
        BY ONLY <1>9, Zenon DEF NewLines
    <2>2. \A i \in 0..n : new[i] =
              IF i = 0 THEN <<>>
              ELSE IF KeyOrder[i] \in keys
                   THEN Append(new[i - 1], Line(KeyOrder[i], data[KeyOrder[i]]))
                   ELSE new[i - 1]
        BY ONLY <1>9, Zenon DEF NewLines
    <2>3. 0 \in 0..n /\ \A i \in 1..n : i \in 0..n /\ i # 0
        BY <1>1
    <2>. QED
        BY <2>1, <2>2, <2>3, <1>4 DEF base
<1>11. Solves(new, n, V, base, step)
    <2>1. Follows(new, n, V, base, step)
        BY <1>10 DEF Follows
    <2>. QED
        BY ONLY <1>1, <1>3, <1>10, <2>1, FollowsSolves
<1>12. /\ new \in [0..n -> V] /\ new[0] = <<>>
       /\ \A i \in 1..n : new[i] = IF KeyOrder[i] \in keys
              THEN Append(new[i - 1], Line(KeyOrder[i], data[KeyOrder[i]])) ELSE new[i - 1]
    <2>1. /\ new \in [0..n -> V] /\ new[0] = base
          /\ \A i \in 1..n : new[i] = step[i][new[i - 1]]
        BY ONLY <1>11 DEF Solves
    <2>2. \A i \in 1..n : i - 1 \in 0..n
        BY <1>1
    <2>. QED
        BY <2>1, <2>2, <1>4 DEF base
<1>. DEFINE Good(i) == /\ \A j \in 1..Len(new[i]) : SetTo(new[i][j], data)
                       /\ \A q \in 1..i : KeyOrder[q] \in keys =>
                              \E j \in 1..Len(new[i]) : new[i][j].key = KeyOrder[q]
            T == {i \in 0..n : Good(i)}
<1>13. 0 \in T
    BY <1>1, <1>12
<1>14. ASSUME NEW i \in 1..n, i - 1 \in T PROVE i \in T
    <2>. DEFINE old == new[i - 1]
                line == Line(KeyOrder[i], data[KeyOrder[i]])
    <2>0. i \in 0..n /\ i - 1 \in 0..n /\ old \in Seq(EnvLine) /\ Good(i - 1)
        BY <1>1, <1>12, <1>14 DEF V
    <2>1. CASE KeyOrder[i] \notin keys
        <3>1. new[i] = old
            BY <1>12, <2>1
        <3>2. \A q \in 1..i : q = i \/ q \in 1..(i - 1)
            OBVIOUS
        <3>3. Good(i)
            BY <3>1, <3>2, <2>0, <2>1
        <3>. QED
            BY <3>3, <2>0
    <2>2. CASE KeyOrder[i] \in keys
        <3>1. new[i] = Append(old, line)
            BY <1>12, <2>2
        <3>2. line \in EnvLine /\ SetTo(line, data) /\ line.key = KeyOrder[i]
            BY <1>2, <2>2
        <3>. HIDE DEF old, line
        <3>3. /\ Len(new[i]) = Len(old) + 1 /\ Len(old) \in Nat
              /\ new[i][Len(old) + 1] = line
              /\ \A j \in 1..Len(old) : new[i][j] = old[j]
            BY <2>0, <3>1, <3>2, AppendProperties
        <3>4. \A j \in 1..Len(new[i]) : SetTo(new[i][j], data)
            <4>1. \A j \in 1..Len(new[i]) : j \in 1..Len(old) \/ j = Len(old) + 1
                BY <3>3
            <4>. QED
                BY <4>1, <2>0, <3>2, <3>3 DEF old
        <3>5. ASSUME NEW q \in 1..i, KeyOrder[q] \in keys
              PROVE  \E j \in 1..Len(new[i]) : new[i][j].key = KeyOrder[q]
            <4>1. CASE q = i
                <5>1. Len(old) + 1 \in 1..Len(new[i])
                    BY <3>3
                <5>. QED
                    BY <5>1, <4>1, <3>2, <3>3
            <4>2. CASE q # i
                <5>1. q \in 1..(i - 1)
                    BY <4>2
                <5>2. PICK j \in 1..Len(old) : old[j].key = KeyOrder[q]
                    BY <5>1, <3>5, <2>0 DEF old
                <5>3. j \in 1..Len(new[i])
                    BY <3>3
                <5>. QED
                    BY <5>2, <5>3, <3>3
            <4>. QED
                BY <4>1, <4>2
        <3>6. Good(i)
            BY <3>4, <3>5
        <3>. QED
            BY <3>6, <2>0
    <2>. QED
        BY <2>1, <2>2
<1>15. n \in 0..n /\ Good(n)
    <2>1. \A i \in 0..n : i \in T
        <3>. HIDE DEF T
        <3>. QED
            BY <1>1, <1>13, <1>14, UpTo
    <2>2. n \in 0..n
        BY <1>1
    <2>. QED
        BY <2>1, <2>2
<1>16. \A k \in keys : \E q \in 1..n : KeyOrder[q] = k
    BY DEF KeyNames
<1>17. LinesFor(new[n], data, keys)
    <2>1. new[n] \in Seq(EnvLine)
        BY <1>12, <1>15 DEF V
    <2>2. \A i \in 1..Len(new[n]) : SetTo(new[n][i], data)
        BY ONLY <1>15
    <2>3. \A q \in 1..n : KeyOrder[q] \in keys => \E i \in 1..Len(new[n]) : new[n][i].key = KeyOrder[q]
        BY ONLY <1>15
    <2>4. \A k \in keys : \E i \in 1..Len(new[n]) : new[n][i].key = k
        BY ONLY <1>16, <2>3
    <2>. QED
        BY ONLY <2>1, <2>2, <2>4 DEF LinesFor
<1>. QED
    BY ONLY <1>5, <1>17
LEMMA MergedRewrites ==
    ASSUME NEW lines \in Seq(EnvLine), NEW data, DOMAIN data \subseteq KeyNames,
           \A k \in DOMAIN data : data[k] \in Seq(STRING)
    PROVE  /\ Merged(lines, data) \in Seq(EnvLine)
           /\ Rewrites(Merged(lines, data), lines, data, {"plain"})
<1>. DEFINE n == Len(lines)
            kept == KeptLines(lines, data)
            keys == NewKeys(lines, data)
            new == LinesOf(data, keys)
            m == Merged(lines, data)
            forms == {"plain"}
<1>1. n \in Nat /\ \A i \in 1..n : lines[i] \in EnvLine
    OBVIOUS
<1>2. \A i \in 1..n : Hit(lines[i], data) <=> Seen(lines, data, forms, i)
    BY DEF Hit, Seen
<1>3. ASSUME NEW i \in 1..n, Hit(lines[i], data)
      PROVE  Line(lines[i].key, data[lines[i].key]) \in EnvLine
    <2>1. lines[i].key \in DOMAIN data /\ lines[i].key \in EnvKey
        BY <1>3, KeyOrderTypes DEF Hit
    <2>. QED
        BY <2>1, LineType
<1>4. /\ kept = [i \in 1..n |-> IF Hit(lines[i], data)
                                THEN Line(lines[i].key, data[lines[i].key]) ELSE lines[i]]
      /\ kept \in Seq(EnvLine) /\ Len(kept) = n
    BY <1>1, <1>3 DEF KeptLines
<1>5. keys \in SUBSET DOMAIN data
    BY DEF NewKeys
<1>6. /\ new \in Seq(EnvLine)
      /\ \A i \in 1..Len(new) : SetTo(new[i], data)
      /\ \A k \in keys : \E i \in 1..Len(new) : new[i].key = k
    <2>1. LinesFor(new, data, keys)
        BY <1>5, LinesOfKeys
    <2>. QED
        BY ONLY <2>1 DEF LinesFor
<1>7. m = kept \o new
    BY DEF Merged
<1>. HIDE DEF kept, new, m, forms
<1>8. /\ m \in Seq(EnvLine) /\ Len(m) = n + Len(new) /\ Len(new) \in Nat
      /\ \A i \in 1..n : m[i] = kept[i]
      /\ \A i \in 1..Len(new) : m[n + i] = new[i]
    BY <1>1, <1>4, <1>6, <1>7
<1>9. ASSUME NEW i \in 1..n
      PROVE  IF Seen(lines, data, forms, i)
             THEN m[i].key = lines[i].key /\ SetTo(m[i], data) ELSE m[i] = lines[i]
    <2>1. CASE Hit(lines[i], data)
        <3>1. m[i] = Line(lines[i].key, data[lines[i].key]) /\ lines[i].key \in DOMAIN data
            BY <1>4, <1>8, <2>1 DEF Hit
        <3>2. m[i].key = lines[i].key
            BY <3>1 DEF Line
        <3>. QED
            BY <3>1, <3>2, <2>1, <1>2 DEF SetTo
    <2>2. CASE ~ Hit(lines[i], data)
        BY <1>4, <1>8, <2>2, <1>2
    <2>. QED
        BY <2>1, <2>2
<1>10. ASSUME NEW i \in (n + 1)..Len(m) PROVE SetTo(m[i], data)
    <2>1. i - n \in 1..Len(new) /\ n + (i - n) = i
        BY <1>1, <1>8
    <2>2. m[i] = new[i - n]
        BY <2>1, <1>8
    <2>. QED
        BY <2>1, <2>2, <1>6
<1>11. ASSUME NEW k \in DOMAIN data
       PROVE  \/ \E i \in 1..n : Seen(lines, data, forms, i) /\ lines[i].key = k
              \/ \E i \in (n + 1)..Len(m) : m[i].key = k
    <2>1. CASE k \in keys
        <3>1. PICK j \in 1..Len(new) : new[j].key = k
            BY <2>1, <1>6
        <3>2. n + j \in (n + 1)..Len(m) /\ m[n + j] = new[j]
            BY <1>1, <1>8
        <3>. QED
            BY <3>1, <3>2
    <2>2. CASE k \notin keys
        BY <2>2, <1>2 DEF NewKeys
    <2>. QED
        BY <2>1, <2>2
<1>12. n <= Len(m)
    BY <1>1, <1>8
<1>13. Rewrites(m, lines, data, forms)
    BY <1>9, <1>10, <1>11, <1>12 DEF Rewrites
<1>. QED
    BY <1>8, <1>13 DEF forms, m

-----------------------------------------------------------------------------
(* The invariant: the files have lines, and the scripts see the last line  *)
(* of every key they rewrite, for what they write is as they would read it.*)

EnvInv ==
    /\ localEnv \in Seq(EnvLine) /\ LastIsSeen(localEnv, {"plain", "spaced"})
    /\ vmEnv \in Seq(EnvLine) /\ LastIsSeen(vmEnv, {"plain"})
    /\ pushed \in BOOLEAN

LEMMA SettingType ==
    ASSUME EnvInv, NEW k \in EnvKey
    PROVE  Setting(k) \in Seq(STRING)
<1>1. Dotenv(localEnv)[k] \in Seq(STRING)
    BY LastOfType DEF EnvInv, Dotenv
<1>2. Shell[k] \in Seq(STRING)
    BY EnvAssumption
<1>. QED
    BY <1>1, <1>2 DEF Setting, OrDefault

(* The code's words are strings. *)
LEMMA WordTypes ==
    /\ \A p \in DOMAIN PROFILES :
          p \in STRING /\ PROFILES[p].target \in STRING /\ PROFILES[p].draft \in STRING
    /\ "google" \in STRING /\ "./models" \in STRING /\ "models" \in STRING /\ "tpu" \in STRING
    /\ "user" \in STRING /\ "vm-2" \in STRING /\ "ssd-tpu-v6e-vm" \in STRING
BY EnvAssumption DEF Words

(* A place is a sequence, and the hub's is not a bucket's nor the local    *)
(* directory.                                                              *)
LEMMA PlaceTypes ==
    ASSUME NEW p, NEW bucketUrl \in Seq(STRING), NEW prefix \in Seq(STRING), prefix # Unset
    PROVE  /\ Place(p, bucketUrl, prefix) \in Seq(STRING)
           /\ p \in OfHub <=> Place(p, bucketUrl, prefix) = <<"google">>
<1>1. <<"google">> \in Seq(STRING) /\ <<"./models">> \in Seq(STRING) /\ <<"google">> # <<"./models">>
    <2>1. <<"google">>[1] = "google" /\ <<"./models">>[1] = "./models"
        OBVIOUS
    <2>. QED
        BY <2>1, WordTypes
<1>2. ASSUME bucketUrl # Unset
      PROVE  bucketUrl \o prefix \in Seq(STRING) /\ bucketUrl \o prefix # <<"google">>
    <2>1. Len(bucketUrl) >= 1 /\ Len(prefix) >= 1 /\ Len(bucketUrl) \in Nat /\ Len(prefix) \in Nat
        BY <1>2, EmptySeq DEF Unset
    <2>2. bucketUrl \o prefix \in Seq(STRING) /\ Len(bucketUrl \o prefix) = Len(bucketUrl) + Len(prefix)
        BY ConcatProperties
    <2>3. Len(<<"google">>) = 1
        OBVIOUS
    <2>. QED
        BY <2>1, <2>2, <2>3
<1>. QED
    BY <1>1, <1>2 DEF Place

(* What is pushed: values for keys of the list, among them the profile and *)
(* the paths of its two models in one place.                               *)
LEMMA UpdatesOfProfile ==
    ASSUME EnvInv, NEW p \in DOMAIN PROFILES
    PROVE  /\ DOMAIN EnvUpdates(p) \subseteq KeyNames
           /\ \A k \in DOMAIN EnvUpdates(p) : EnvUpdates(p)[k] \in Seq(STRING)
           /\ {"MODEL_PROFILE", "TARGET_MODEL_PATH", "DRAFT_MODEL_PATH"} \subseteq DOMAIN EnvUpdates(p)
           /\ EnvUpdates(p)["MODEL_PROFILE"] = <<p>>
           /\ \E place \in Seq(STRING) :
                 /\ EnvUpdates(p)["TARGET_MODEL_PATH"] = Append(place, PROFILES[p].target)
                 /\ EnvUpdates(p)["DRAFT_MODEL_PATH"] = Append(place, PROFILES[p].draft)
                 /\ p \in OfHub <=> place = <<"google">>
<1>. DEFINE bucketUrl == Setting("GCS_BUCKET")
            prefix == OrDefault(Setting("GCS_MODEL_PREFIX"), <<"models">>)
            place == Place(p, bucketUrl, prefix)
            first == [HF_TOKEN |-> HfToken, MODEL_PROFILE |-> <<p>>,
                      JAX_PLATFORMS |-> OrDefault(Setting("JAX_PLATFORMS"), <<"tpu">>)]
            defaults == ProfileEnvDefaults(p, bucketUrl, prefix)
            passed == [k \in {q \in Passed : Setting(q) # Unset} |-> Setting(k)]
            named == {"MODEL_PROFILE", "TARGET_MODEL_PATH", "DRAFT_MODEL_PATH"}
<1>1. /\ {"HF_TOKEN", "JAX_PLATFORMS", "GCS_BUCKET", "GCS_MODEL_PREFIX"} \cup named \subseteq KeyNames
      /\ Passed \subseteq KeyNames /\ KeyNames \subseteq EnvKey
    BY KeyOrderTypes
<1>2. \A k \in KeyNames : Setting(k) \in Seq(STRING)
    BY <1>1, SettingType
<1>3. /\ bucketUrl \in Seq(STRING) /\ prefix \in Seq(STRING) /\ prefix # Unset
      /\ OrDefault(Setting("JAX_PLATFORMS"), <<"tpu">>) \in Seq(STRING)
    <2>1. <<"models">> \in Seq(STRING) /\ <<"models">> # Unset /\ <<"tpu">> \in Seq(STRING)
        <3>1. Len(<<"models">>) = 1 /\ Len(<<>>) = 0
            OBVIOUS
        <3>. QED
            BY <3>1, WordTypes DEF Unset
    <2>2. /\ Setting("GCS_BUCKET") \in Seq(STRING) /\ Setting("GCS_MODEL_PREFIX") \in Seq(STRING)
          /\ Setting("JAX_PLATFORMS") \in Seq(STRING)
        BY <1>1, <1>2
    <2>. QED
        BY ONLY <2>1, <2>2 DEF OrDefault, bucketUrl, prefix
<1>4. place \in Seq(STRING) /\ (p \in OfHub <=> place = <<"google">>)
    <2>. HIDE DEF bucketUrl, prefix
    <2>. QED
        BY <1>3, PlaceTypes
<1>5. p \in STRING /\ PROFILES[p].target \in STRING /\ PROFILES[p].draft \in STRING
    BY WordTypes
<1>. DEFINE target == Append(place, PROFILES[p].target)
            draft == Append(place, PROFILES[p].draft)
<1>6. target \in Seq(STRING) /\ draft \in Seq(STRING) /\ <<p>> \in Seq(STRING)
    <2>. HIDE DEF place
    <2>. QED
        BY <1>4, <1>5, AppendProperties
<1>7. /\ DOMAIN defaults = named
      /\ defaults["MODEL_PROFILE"] = <<p>>
      /\ defaults["TARGET_MODEL_PATH"] = target
      /\ defaults["DRAFT_MODEL_PATH"] = draft
    <2>. HIDE DEF bucketUrl, prefix
    <2>. QED
        BY DEF ProfileEnvDefaults, PathsOf, Update
<1>8. DOMAIN first = {"HF_TOKEN", "MODEL_PROFILE", "JAX_PLATFORMS"}
      /\ \A k \in DOMAIN first : first[k] \in Seq(STRING)
    <2>1. ASSUME NEW S, NEW u \in S, NEW v \in S, NEW w \in S
          PROVE  LET f == [HF_TOKEN |-> u, MODEL_PROFILE |-> v, JAX_PLATFORMS |-> w]
                 IN  /\ DOMAIN f = {"HF_TOKEN", "MODEL_PROFILE", "JAX_PLATFORMS"}
                     /\ \A k \in DOMAIN f : f[k] \in S
        OBVIOUS
    <2>2. HfToken \in Seq(STRING)
        <3>1. "HF_TOKEN" \in EnvKey /\ "HUGGING_FACE_HUB_TOKEN" \in EnvKey
            BY <1>1, EnvAssumption
        <3>. QED
            BY <3>1, SettingType DEF HfToken, OrDefault
    <2>. QED
        BY ONLY <2>1, <2>2, <1>3, <1>6 DEF first
<1>9. DOMAIN passed \subseteq Passed /\ \A k \in DOMAIN passed : passed[k] \in Seq(STRING)
    BY <1>1, <1>2
<1>10. named \cap Passed = {}
    BY DEF Passed, KeyOrder
<1>11. EnvUpdates(p) = Update(Update(first, defaults), passed)
    BY DEF EnvUpdates
<1>. HIDE DEF first, defaults, passed, target, draft, place
<1>. DEFINE data == Update(Update(first, defaults), passed)
<1>12. DOMAIN data = DOMAIN first \cup DOMAIN defaults \cup DOMAIN passed
    BY DEF Update
<1>13. \A k \in DOMAIN data : data[k] = IF k \in DOMAIN passed THEN passed[k]
                                       ELSE IF k \in DOMAIN defaults THEN defaults[k] ELSE first[k]
    BY DEF Update
<1>14. \A k \in DOMAIN defaults : defaults[k] \in Seq(STRING)
    BY <1>6, <1>7
<1>15. \A k \in DOMAIN data : data[k] \in Seq(STRING)
    BY <1>8, <1>9, <1>12, <1>13, <1>14
<1>16. \A k \in named : k \in DOMAIN data /\ data[k] = defaults[k]
    BY <1>7, <1>9, <1>10, <1>12, <1>13
<1>17. DOMAIN data \subseteq KeyNames
    BY <1>1, <1>7, <1>8, <1>9, <1>12
<1>. HIDE DEF data
<1>. QED
    BY <1>4, <1>7, <1>11, <1>15, <1>16, <1>17 DEF data, target, draft
-----------------------------------------------------------------------------
(* The steps.                                                              *)

LEMMA PushSteps ==
    ASSUME EnvInv, Push
    PROVE  /\ EnvInv'
           /\ ProfileName[1] \in DOMAIN PROFILES
           /\ Dotenv(vmEnv') = Overridden(Dotenv(vmEnv), EnvUpdates(ProfileName[1]))
<1>. DEFINE p == ProfileName[1]
            data == EnvUpdates(p)
<1>1. p \in DOMAIN PROFILES
    <2>1. PICK q \in DOMAIN PROFILES : ProfileName = <<q>>
        BY DEF Push, Known
    <2>2. ProfileName[1] = q
        BY <2>1
    <2>. QED
        BY <2>2
<1>2. DOMAIN data \subseteq KeyNames /\ \A k \in DOMAIN data : data[k] \in Seq(STRING)
    <2>. HIDE DEF p
    <2>. QED
        BY <1>1, UpdatesOfProfile
<1>3. vmEnv' = Merged(vmEnv, data) /\ pushed' = TRUE /\ localEnv' = localEnv
    BY DEF Push
<1>. HIDE DEF data
<1>4. vmEnv' \in Seq(EnvLine) /\ Rewrites(vmEnv', vmEnv, data, {"plain"})
    BY <1>2, <1>3, MergedRewrites DEF EnvInv
<1>5. {"plain"} \subseteq Setters
    BY DEF Setters, Form
<1>6. LastIsSeen(vmEnv', {"plain"})
    BY <1>4, RewritingIsSeen DEF EnvInv
<1>7. Dotenv(vmEnv') = Overridden(Dotenv(vmEnv), data)
    BY <1>4, <1>5, RewritingOverrides DEF EnvInv
<1>8. EnvInv'
    BY <1>3, <1>4, <1>6 DEF EnvInv
<1>. QED
    BY <1>1, <1>7, <1>8 DEF data

(* One write_env_key. *)
LEMMA WriteEnvKeySteps ==
    ASSUME NEW lines \in Seq(EnvLine), LastIsSeen(lines, {"plain", "spaced"}),
           NEW k \in EnvKey, NEW v \in Seq(STRING)
    PROVE  /\ WriteEnvKey(lines, k, v) \in Seq(EnvLine)
           /\ LastIsSeen(WriteEnvKey(lines, k, v), {"plain", "spaced"})
           /\ Dotenv(WriteEnvKey(lines, k, v)) = Overridden(Dotenv(lines), [q \in {k} |-> v])
<1>1. /\ WriteEnvKey(lines, k, v) \in Seq(EnvLine)
      /\ Rewrites(WriteEnvKey(lines, k, v), lines, [q \in {k} |-> v], {"plain", "spaced"})
    BY WriteEnvKeyRewrites
<1>2. {"plain", "spaced"} \subseteq Setters /\ "plain" \in {"plain", "spaced"}
    BY DEF Setters, Form
<1>3. LastIsSeen(WriteEnvKey(lines, k, v), {"plain", "spaced"})
    BY <1>1, <1>2, RewritingIsSeen
<1>4. Dotenv(WriteEnvKey(lines, k, v)) = Overridden(Dotenv(lines), [q \in {k} |-> v])
    BY <1>1, <1>2, RewritingOverrides
<1>. QED
    BY <1>1, <1>3, <1>4

LEMMA UpdateEnvSteps ==
    ASSUME EnvInv, NEW host \in Seq(STRING), NEW vm \in Seq(STRING), UpdateEnv(host, vm)
    PROVE  /\ EnvInv'
           /\ Dotenv(localEnv') = Overridden(Dotenv(localEnv),
                  [k \in {"TPU_SSH_HOST", "TPU_SSH_USER", "TPU_VM_NAME"} |->
                      IF k = "TPU_VM_NAME" THEN vm ELSE IF k = "TPU_SSH_HOST" THEN host ELSE <<"user">>])
<1>. DEFINE forms == {"plain", "spaced"}
            one == WriteEnvKey(localEnv, "TPU_SSH_HOST", host)
            two == WriteEnvKey(one, "TPU_SSH_USER", <<"user">>)
            three == WriteEnvKey(two, "TPU_VM_NAME", vm)
<1>1. {"TPU_SSH_HOST", "TPU_SSH_USER", "TPU_VM_NAME"} \subseteq EnvKey
    BY EnvAssumption, KeyOrderTypes
<1>2. <<"user">> \in Seq(STRING)
    BY WordTypes
<1>3. /\ localEnv \in Seq(EnvLine) /\ LastIsSeen(localEnv, forms)
      /\ localEnv' = three /\ UNCHANGED <<vmEnv, pushed>>
    BY DEF EnvInv, UpdateEnv
<1>4. /\ one \in Seq(EnvLine) /\ LastIsSeen(one, forms)
      /\ Dotenv(one) = Overridden(Dotenv(localEnv), [q \in {"TPU_SSH_HOST"} |-> host])
    BY <1>1, <1>3, WriteEnvKeySteps
<1>. HIDE DEF one
<1>5. /\ two \in Seq(EnvLine) /\ LastIsSeen(two, forms)
      /\ Dotenv(two) = Overridden(Dotenv(one), [q \in {"TPU_SSH_USER"} |-> <<"user">>])
    BY <1>1, <1>2, <1>4, WriteEnvKeySteps
<1>. HIDE DEF two
<1>6. /\ three \in Seq(EnvLine) /\ LastIsSeen(three, forms)
      /\ Dotenv(three) = Overridden(Dotenv(two), [q \in {"TPU_VM_NAME"} |-> vm])
    BY <1>1, <1>5, WriteEnvKeySteps
<1>. HIDE DEF three
<1>7. EnvInv'
    BY <1>3, <1>6 DEF EnvInv
<1>8. Dotenv(three) = Overridden(Dotenv(localEnv),
          [k \in {"TPU_SSH_HOST", "TPU_SSH_USER", "TPU_VM_NAME"} |->
              IF k = "TPU_VM_NAME" THEN vm ELSE IF k = "TPU_SSH_HOST" THEN host ELSE <<"user">>])
    <2>. DEFINE user == <<"user">>
                e == Dotenv(localEnv)
    <2>. HIDE DEF user, e
    <2>1. Dotenv(three) = Overridden(Overridden(Overridden(e, [q \in {"TPU_SSH_HOST"} |-> host]),
                              [q \in {"TPU_SSH_USER"} |-> user]), [q \in {"TPU_VM_NAME"} |-> vm])
        BY ONLY <1>4, <1>5, <1>6 DEF user, e
    <2>2. Dotenv(three) = Overridden(e,
              [k \in {"TPU_SSH_HOST", "TPU_SSH_USER", "TPU_VM_NAME"} |->
                  IF k = "TPU_VM_NAME" THEN vm ELSE IF k = "TPU_SSH_HOST" THEN host ELSE user])
        BY ONLY <2>1 DEF Overridden
    <2>. QED
        BY ONLY <2>2 DEF user, e
<1>. QED
    BY <1>3, <1>7, <1>8

(* A line of the file names the VM unless the caller does. *)
LEMMA UpdateAnySteps ==
    ASSUME EnvInv, UpdateAny
    PROVE  EnvInv'
<1>1. PICK host \in Host, arg \in {Unset, <<"vm-2">>} :
          UpdateEnv(host, OrDefault(arg, OrDefault(LoadEnv(localEnv, "TPU_VM_NAME"), <<"ssd-tpu-v6e-vm">>)))
    BY DEF UpdateAny
<1>. DEFINE vm == OrDefault(arg, OrDefault(LoadEnv(localEnv, "TPU_VM_NAME"), <<"ssd-tpu-v6e-vm">>))
<1>2. host \in Seq(STRING)
    BY EnvAssumption
<1>3. <<"vm-2">> \in Seq(STRING) /\ <<"ssd-tpu-v6e-vm">> \in Seq(STRING)
    BY WordTypes
<1>4. arg \in Seq(STRING)
    <2>1. Unset \in Seq(STRING)
        BY DEF Unset
    <2>2. arg = Unset \/ arg = <<"vm-2">>
        OBVIOUS
    <2>. QED
        BY ONLY <1>3, <2>1, <2>2
<1>5. LoadEnv(localEnv, "TPU_VM_NAME") \in Seq(STRING)
    BY LastOfType DEF EnvInv, LoadEnv
<1>6. vm \in Seq(STRING)
    BY ONLY <1>3, <1>4, <1>5 DEF OrDefault
<1>. HIDE DEF vm
<1>7. UpdateEnv(host, vm)
    BY <1>1 DEF vm
<1>. QED
    BY <1>2, <1>6, <1>7, UpdateEnvSteps

LEMMA EnvStart == EnvInit => EnvInv
BY EnvAssumption DEF EnvInit, EnvInv

LEMMA EnvStep == EnvInv /\ [EnvNext]_envVars => EnvInv'
<1>. SUFFICES ASSUME EnvInv, [EnvNext]_envVars PROVE EnvInv'
    OBVIOUS
<1>1. CASE EditByHand
    BY <1>1, EnvAssumption DEF EnvInv, EditByHand
<1>2. CASE UpdateAny
    BY <1>2, UpdateAnySteps
<1>3. CASE Push
    BY <1>3, PushSteps
<1>4. CASE UNCHANGED envVars
    BY <1>4 DEF EnvInv, envVars
<1>. QED
    BY <1>1, <1>2, <1>3, <1>4 DEF EnvNext

(* Every rewriting of a file, by push_hf_token.py or by                    *)
(* update_env_from_gcloud.py, overrides exactly the keys it is given, for  *)
(* python-dotenv, whatever the forms of the lines.                         *)
THEOREM EnvFilesAreMapsHolds == EnvSpec => EnvFilesAreMaps
<1>. DEFINE Maps ==
        /\ Push => Dotenv(vmEnv') = Overridden(Dotenv(vmEnv), EnvUpdates(ProfileName[1]))
        /\ \A host \in Host, vm \in {<<"vm-2">>} :
             UpdateEnv(host, vm) =>
                 Dotenv(localEnv') = Overridden(Dotenv(localEnv),
                     [k \in {"TPU_SSH_HOST", "TPU_SSH_USER", "TPU_VM_NAME"} |->
                         IF k = "TPU_VM_NAME" THEN vm ELSE IF k = "TPU_SSH_HOST" THEN host ELSE <<"user">>])
<1>1. EnvInv => Maps
    <2>. SUFFICES ASSUME EnvInv PROVE Maps
        OBVIOUS
    <2>1. Push => Dotenv(vmEnv') = Overridden(Dotenv(vmEnv), EnvUpdates(ProfileName[1]))
        BY PushSteps
    <2>2. Host \subseteq Seq(STRING) /\ \A vm \in {<<"vm-2">>} : vm \in Seq(STRING)
        BY EnvAssumption, WordTypes
    <2>3. ASSUME NEW host \in Host, NEW vm \in {<<"vm-2">>}, UpdateEnv(host, vm)
          PROVE  Dotenv(localEnv') = Overridden(Dotenv(localEnv),
                     [k \in {"TPU_SSH_HOST", "TPU_SSH_USER", "TPU_VM_NAME"} |->
                         IF k = "TPU_VM_NAME" THEN vm ELSE IF k = "TPU_SSH_HOST" THEN host ELSE <<"user">>])
        <3>1. host \in Seq(STRING) /\ vm \in Seq(STRING)
            BY <2>2
        <3>. QED
            BY <2>3, <3>1, UpdateEnvSteps
    <2>. QED
        BY <2>1, <2>3
<1>2. EnvInv /\ [EnvNext]_envVars => [Maps]_envVars
    <2>. HIDE DEF Maps
    <2>. QED
        BY <1>1
<1>. QED
    BY <1>2, EnvStart, EnvStep, PTL DEF EnvSpec, EnvFilesAreMaps

(* The VM has the target and the draft of one profile, from one place.     *)
THEOREM VmProfileIsWholeHolds == EnvSpec => []VmProfileIsWhole
<1>1. EnvInit => VmProfileIsWhole
    BY DEF EnvInit, VmProfileIsWhole
<1>2. ASSUME EnvInv, Push PROVE VmProfileIsWhole'
    <2>. DEFINE p == ProfileName[1]
                data == EnvUpdates(p)
                env == Dotenv(vmEnv)
    <2>1. p \in DOMAIN PROFILES /\ env' = Overridden(env, data)
        BY <1>2, PushSteps
    <2>. HIDE DEF p
    <2>2. {"MODEL_PROFILE", "TARGET_MODEL_PATH", "DRAFT_MODEL_PATH"} \subseteq DOMAIN data
          /\ data["MODEL_PROFILE"] = <<p>>
        BY <1>2, <2>1, UpdatesOfProfile
    <2>3. PICK place \in Seq(STRING) :
              /\ data["TARGET_MODEL_PATH"] = Append(place, PROFILES[p].target)
              /\ data["DRAFT_MODEL_PATH"] = Append(place, PROFILES[p].draft)
              /\ p \in OfHub <=> place = <<"google">>
        BY <1>2, <2>1, UpdatesOfProfile
    <2>. HIDE DEF data
    <2>4. {"MODEL_PROFILE", "TARGET_MODEL_PATH", "DRAFT_MODEL_PATH"} \subseteq EnvKey
        BY KeyOrderTypes
    <2>5. /\ env'["MODEL_PROFILE"] = <<p>>
          /\ env'["TARGET_MODEL_PATH"] = Append(place, PROFILES[p].target)
          /\ env'["DRAFT_MODEL_PATH"] = Append(place, PROFILES[p].draft)
        BY <2>1, <2>2, <2>3, <2>4 DEF Overridden
    <2>. DEFINE target == Append(place, PROFILES[p].target)
    <2>6. target # Unset /\ SubSeq(target, 1, Len(target) - 1) = place
        <3>1. PROFILES[p].target \in STRING
            BY <2>1, WordTypes
        <3>2. /\ target \in Seq(STRING) /\ Len(target) = Len(place) + 1 /\ Len(place) \in Nat
              /\ \A i \in 1..Len(place) : target[i] = place[i]
            BY <3>1, AppendProperties
        <3>. HIDE DEF target
        <3>3. target # Unset
            BY <3>2 DEF Unset
        <3>. DEFINE front == SubSeq(target, 1, Len(target) - 1)
        <3>4. front \in Seq(STRING) /\ Len(front) = Len(place)
              /\ \A i \in 1..Len(place) : front[i] = place[i]
            BY <3>2
        <3>5. front = place
            <4>. HIDE DEF front
            <4>. QED
                BY <3>4, SeqEqual
        <3>. QED
            BY <3>3, <3>5
    <2>7. /\ PathsOf(p, place)["TARGET_MODEL_PATH"] = Append(place, PROFILES[p].target)
          /\ PathsOf(p, place)["DRAFT_MODEL_PATH"] = Append(place, PROFILES[p].draft)
        BY DEF PathsOf
    <2>. HIDE DEF env
    <2>8. \A k \in {"TARGET_MODEL_PATH", "DRAFT_MODEL_PATH"} : env'[k] = PathsOf(p, place)[k]
        BY <2>5, <2>7
    <2>. HIDE DEF target
    <2>9. env'["TARGET_MODEL_PATH"] = target
        BY <2>5 DEF target
    <2>. QED
        BY <2>1, <2>3, <2>5, <2>6, <2>8, <2>9 DEF VmProfileIsWhole, env
<1>3. VmProfileIsWhole /\ EnvInv /\ [EnvNext]_envVars => VmProfileIsWhole'
    <2>. SUFFICES ASSUME VmProfileIsWhole, EnvInv, [EnvNext]_envVars PROVE VmProfileIsWhole'
        OBVIOUS
    <2>1. CASE Push
        BY <2>1, <1>2
    <2>2. CASE EditByHand \/ UpdateAny \/ UNCHANGED envVars
        <3>1. vmEnv' = vmEnv /\ pushed' = pushed
            BY <2>2 DEF EditByHand, UpdateAny, UpdateEnv, envVars
        <3>. QED
            BY <3>1 DEF VmProfileIsWhole
    <2>. QED
        BY <2>1, <2>2 DEF EnvNext
<1>. QED
    BY <1>1, <1>3, EnvStart, EnvStep, PTL DEF EnvSpec
=============================================================================
