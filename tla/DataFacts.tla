----------------------------- MODULE DataFacts -----------------------------
(***************************************************************************)
(* Facts about numbers, sequences and sums that the other proofs rest on.  *)
(***************************************************************************)
EXTENDS Integers, Sequences, SequencesExt, FiniteSetTheorems, FunctionTheorems,
        SequenceTheorems, NaturalsInduction, WellFoundedInduction, TLAPS

(* A nonempty set of bounded numbers has a largest one, which Max chooses.  *)
LEMMA MaxOfInterval ==
    ASSUME NEW n \in Nat, NEW S \in SUBSET (0 .. n), S # {}
    PROVE  Max(S) \in S /\ \A y \in S : y <= Max(S)
  <1> DEFINE T == {n - x : x \in S}
             Less == {p \in Nat \X Nat : p[1] < p[2]}
  <1>1. T \subseteq Nat /\ T # {}
    <2>1. \A x \in S : x \in 0 .. n
      OBVIOUS
    <2>2. \A x \in 0 .. n : n - x \in Nat
      OBVIOUS
    <2>3. T \subseteq Nat
      BY <2>1, <2>2
    <2>4. PICK x \in S : TRUE
      OBVIOUS
    <2>5. n - x \in T
      OBVIOUS
    <2>6. QED
      BY <2>3, <2>5
  <1>2. IsWellFoundedOn(Less, Nat)
    BY NatLessThanWellFounded DEF OpToRel
  <1>3. PICK m \in T : \A y \in T : ~ (<<y, m>> \in Less)
    <2> HIDE DEF T, Less
    <2>1. QED
      BY <1>1, <1>2, WFMin
  <1>4. PICK x \in S : m = n - x
    BY <1>3
  <1>5. ASSUME NEW y \in S
        PROVE  x >= y
    <2>1. n - y \in T /\ ~ (<<n - y, m>> \in Less)
      BY <1>3
    <2>2. x \in Nat /\ y \in Nat /\ x <= n /\ y <= n
      OBVIOUS
    <2>3. ~ (n - y < n - x)
      BY <2>1, <2>2, <1>4
    <2>4. QED
      BY <2>2, <2>3
  <1>6. QED
    <2>1. \E b \in S : \A y \in S : b >= y
      BY <1>5
    <2>2. Max(S) \in S /\ \A y \in S : Max(S) >= y
      BY <2>1 DEF Max
    <2>3. \A y \in S : y \in 0 .. n
      OBVIOUS
    <2>4. QED
      BY <2>2, <2>3

(* Induction up to a bound, about membership in a set.                     *)
LEMMA BoundedInduction ==
    ASSUME NEW n \in Nat, NEW S, 0 \in S, \A k \in 0 .. n - 1 : k \in S => k + 1 \in S
    PROVE  0 .. n \subseteq S
  <1> DEFINE Reached == {k \in 0 .. n : 0 .. k \subseteq S}
  <1>1. 0 \in Reached
    OBVIOUS
  <1>2. Max(Reached) \in Reached /\ \A y \in Reached : y <= Max(Reached)
    <2>1. Reached \in SUBSET (0 .. n) /\ Reached # {}
      BY <1>1
    <2> HIDE DEF Reached
    <2>2. QED
      BY <2>1, MaxOfInterval
  <1>3. PICK m \in Reached : \A y \in Reached : y <= m
    BY <1>2
  <1>4. ASSUME m # n
        PROVE  FALSE
    <2>1. m + 1 \in S
      BY <1>3, <1>4
    <2>2. 0 .. m + 1 \subseteq S
      BY <1>3, <2>1
    <2>3. m + 1 \in Reached
      BY <1>3, <1>4, <2>2
    <2>4. QED
      BY <1>3, <2>3
  <1>5. QED
    BY <1>3, <1>4

(* Running totals exist for every finite list of numbers ...               *)
LEMMA TotalsExist ==
    ASSUME NEW n \in Nat, NEW g \in [1 .. n -> Nat]
    PROVE  \E h : h = [k \in 0 .. n |-> IF k = 0 THEN 0 ELSE h[k - 1] + g[k]]
  <1> DEFINE Total(m, h) == h = [k \in 0 .. m |-> IF k = 0 THEN 0 ELSE h[k - 1] + g[k]]
             S == {m \in 0 .. n : \E h : Total(m, h)}
  <1>1. 0 \in S
    <2>1. PICK z : z = [k \in 0 .. 0 |-> 0]
      OBVIOUS
    <2>2. Total(0, z)
      BY <2>1
    <2> HIDE DEF Total
    <2>3. QED
      BY <2>2
  <1>2. ASSUME NEW m \in 0 .. n - 1, m \in S
        PROVE  m + 1 \in S
    <2>1. PICK h : Total(m, h)
      BY <1>2
    <2>2. \A k \in 0 .. m : h[k] = IF k = 0 THEN 0 ELSE h[k - 1] + g[k]
      BY <2>1
    <2>3. PICK e : e = [k \in 0 .. m + 1 |-> IF k = m + 1 THEN h[m] + g[m + 1] ELSE h[k]]
      OBVIOUS
    <2>4. \A k \in 0 .. m + 1 : e[k] = IF k = 0 THEN 0 ELSE e[k - 1] + g[k]
      BY <2>2, <2>3
    <2>5. Total(m + 1, e)
      BY <2>3, <2>4
    <2>6. m + 1 \in 0 .. n
      OBVIOUS
    <2> HIDE DEF Total
    <2>7. QED
      BY <2>5, <2>6
  <1>3. n \in S
    <2> HIDE DEF S
    <2>1. 0 .. n \subseteq S
      BY <1>1, <1>2, BoundedInduction
    <2>2. QED
      BY <2>1
  <1>4. QED
    BY <1>3

(* ... and stay below the number of terms times a bound on each.           *)
LEMMA TotalsBounded ==
    ASSUME NEW n \in Nat, NEW g \in [1 .. n -> Nat], NEW B \in Nat,
           \A k \in 1 .. n : g[k] <= B,
           NEW h, h = [k \in 0 .. n |-> IF k = 0 THEN 0 ELSE h[k - 1] + g[k]]
    PROVE  \A k \in 0 .. n : h[k] \in Nat /\ h[k] <= k * B
  <1> DEFINE S == {k \in 0 .. n : h[k] \in Nat /\ h[k] <= k * B}
  <1>1. \A k \in 0 .. n : h[k] = IF k = 0 THEN 0 ELSE h[k - 1] + g[k]
    OBVIOUS
  <1>2. 0 \in S
    BY <1>1
  <1>3. ASSUME NEW k \in 0 .. n - 1, k \in S
        PROVE  k + 1 \in S
    <2>1. h[k + 1] = h[k] + g[k + 1]
      BY <1>1
    <2>2. g[k + 1] \in Nat /\ g[k + 1] <= B /\ k \in Nat
      OBVIOUS
    <2>3. k * B \in Nat /\ (k + 1) * B = k * B + B
      BY <2>2
    <2>4. h[k] \in Nat /\ h[k] <= k * B
      BY <1>3
    <2>5. PICK x, y, p, q : x = h[k] /\ y = g[k + 1] /\ p = k * B /\ q = (k + 1) * B
      OBVIOUS
    <2>6. x \in Nat /\ y \in Nat /\ p \in Nat /\ x <= p /\ y <= B /\ q = p + B
      BY <2>2, <2>3, <2>4, <2>5
    <2>7. x + y \in Nat /\ x + y <= q
      BY <2>6
    <2>8. QED
      BY <2>1, <2>5, <2>7
  <1>4. 0 .. n \subseteq S
    <2> HIDE DEF S
    <2>1. QED
      BY <1>2, <1>3, BoundedInduction
  <1>5. QED
    BY <1>4

(* Appending puts the new element, and nothing else, into the range.       *)
LEMMA ToSetAppend ==
    ASSUME NEW S, NEW s \in Seq(S), NEW x \in S
    PROVE  ToSet(Append(s, x)) = ToSet(s) \cup {x}
  <1>1. Append(s, x) \in Seq(S) /\ Len(Append(s, x)) = Len(s) + 1 /\ Len(s) \in Nat
    BY AppendProperties, LenProperties
  <1>2. DOMAIN s = 1 .. Len(s) /\ DOMAIN Append(s, x) = 1 .. Len(s) + 1
    BY <1>1, LenProperties
  <1>3. \A i \in 1 .. Len(s) : Append(s, x)[i] = s[i]
    BY AppendProperties
  <1>4. Append(s, x)[Len(s) + 1] = x
    BY AppendProperties
  <1>5. QED
    BY <1>1, <1>2, <1>3, <1>4 DEF ToSet

(* What Head and Tail are, element by element, with no mention of sets.    *)
LEMMA TailFacts ==
    ASSUME NEW S, NEW s \in Seq(S), s # <<>>
    PROVE  /\ Len(s) \in Nat /\ Len(s) > 0
           /\ Head(s) = s[1]
           /\ Tail(s) \in Seq(S) /\ Len(Tail(s)) = Len(s) - 1
           /\ \A i \in 1 .. Len(s) - 1 : Tail(s)[i] = s[i + 1]
           /\ Tail(s) = <<>> <=> Len(s) = 1
  <1>1. Len(s) \in Nat /\ Len(s) # 0
    BY EmptySeq, LenProperties
  <1>2. Head(s) = s[1]
    OBVIOUS
  <1>3. /\ Tail(s) \in Seq(S) /\ Len(Tail(s)) = Len(s) - 1
        /\ \A i \in 1 .. Len(Tail(s)) : Tail(s)[i] = s[i + 1]
    BY HeadTailProperties
  <1>4. Tail(s) = <<>> <=> Len(Tail(s)) = 0
    BY <1>3, EmptySeq
  <1>5. QED
    BY <1>1, <1>2, <1>3, <1>4

(* The range is the first element and the range of the rest.               *)
LEMMA ToSetHeadTail ==
    ASSUME NEW S, NEW s \in Seq(S), s # <<>>
    PROVE  /\ Head(s) \in ToSet(s)
           /\ ToSet(Tail(s)) \subseteq ToSet(s)
           /\ ToSet(s) \subseteq {Head(s)} \cup ToSet(Tail(s))
  <1>1. Len(s) \in Nat \ {0} /\ DOMAIN s = 1 .. Len(s)
    BY EmptySeq, LenProperties
  <1>2. Head(s) = s[1]
    OBVIOUS
  <1>3. /\ Tail(s) \in Seq(S) /\ Len(Tail(s)) = Len(s) - 1
        /\ \A i \in 1 .. Len(Tail(s)) : Tail(s)[i] = s[i + 1]
    BY HeadTailProperties
  <1>4. DOMAIN Tail(s) = 1 .. Len(s) - 1
    BY <1>3, LenProperties
  <1>5. Head(s) \in ToSet(s) /\ ToSet(Tail(s)) \subseteq ToSet(s)
    BY <1>1, <1>2, <1>3, <1>4 DEF ToSet
  <1>6. ASSUME NEW i \in 1 .. Len(s)
        PROVE  s[i] \in {Head(s)} \cup ToSet(Tail(s))
    <2>1. CASE i = 1
      BY <2>1, <1>2
    <2>2. CASE i # 1
      <3>1. i - 1 \in DOMAIN Tail(s) /\ Tail(s)[i - 1] = s[i]
        BY <2>2, <1>1, <1>3, <1>4
      <3>2. QED
        BY <3>1 DEF ToSet
    <2>3. QED
      BY <2>1, <2>2
  <1>7. QED
    BY <1>1, <1>5, <1>6 DEF ToSet

(* A prefix has the given length and only elements of the whole.           *)
LEMMA ToSetPrefix ==
    ASSUME NEW S, NEW s \in Seq(S), NEW n \in 0 .. Len(s)
    PROVE  /\ SubSeq(s, 1, n) \in Seq(S)
           /\ Len(SubSeq(s, 1, n)) = n
           /\ ToSet(SubSeq(s, 1, n)) \subseteq ToSet(s)
  <1>1. /\ SubSeq(s, 1, n) \in Seq(S) /\ Len(SubSeq(s, 1, n)) = n
        /\ \A i \in 1 .. n : SubSeq(s, 1, n)[i] = s[i]
    <2>1. Len(s) \in Nat /\ \A i \in 1 .. n : s[i] \in S
      BY LenProperties
    <2>2. n \in Int /\ n >= 0
      BY <2>1
    <2>3. QED
      BY <2>1, <2>2, SubSeqProperties
  <1>2. DOMAIN s = 1 .. Len(s) /\ Len(s) \in Nat /\ DOMAIN SubSeq(s, 1, n) = 1 .. n
    BY <1>1, LenProperties
  <1>3. QED
    BY <1>1, <1>2 DEF ToSet

(* A prefix agrees with the whole, element by element.                     *)
LEMMA PrefixPointwise ==
    ASSUME NEW S, NEW s \in Seq(S), NEW t \in Seq(S)
    PROVE  IsPrefix(s, t) <=> Len(s) <= Len(t) /\ \A i \in 1 .. Len(s) : s[i] = t[i]
  <1>1. /\ Len(s) \in Nat /\ Len(t) \in Nat
        /\ \A i \in 1 .. Len(s) : s[i] \in S
        /\ \A i \in 1 .. Len(t) : t[i] \in S
    BY LenProperties
  <1> SUFFICES ASSUME Len(s) <= Len(t)
               PROVE  SubSeq(s, 1, Len(s)) = SubSeq(t, 1, Len(s))
                          <=> \A i \in 1 .. Len(s) : s[i] = t[i]
    BY DEF IsPrefix
  <1> DEFINE n == Len(s)
             a == SubSeq(s, 1, n)
             b == SubSeq(t, 1, n)
  <1>2. /\ n \in Nat /\ 1 \in Int
        /\ \A i \in 1 .. n : s[i] \in S
        /\ \A i \in 1 .. n : t[i] \in S
    BY <1>1
  <1>3. a \in Seq(S) /\ Len(a) = n /\ \A i \in 1 .. n : a[i] = s[i]
    <2> HIDE DEF n
    <2>1. a \in Seq(S) /\ Len(a) = (IF 1 <= n THEN n - 1 + 1 ELSE 0)
          /\ \A i \in 1 .. n - 1 + 1 : a[i] = s[1 + i - 1]
      BY <1>2, SubSeqProperties
    <2>2. QED
      BY <1>2, <2>1
  <1>4. b \in Seq(S) /\ Len(b) = n /\ \A i \in 1 .. n : b[i] = t[i]
    <2> HIDE DEF n
    <2>1. b \in Seq(S) /\ Len(b) = (IF 1 <= n THEN n - 1 + 1 ELSE 0)
          /\ \A i \in 1 .. n - 1 + 1 : b[i] = t[1 + i - 1]
      BY <1>2, SubSeqProperties
    <2>2. QED
      BY <1>2, <2>1
  <1> HIDE DEF a, b
  <1>5. (\A i \in 1 .. n : a[i] = b[i]) => a = b
    BY <1>3, <1>4, SeqEqual
  <1>6. QED
    BY <1>3, <1>4, <1>5 DEF n, a, b

(* A sequence is a prefix of itself.                                       *)
LEMMA PrefixOfItself ==
    ASSUME NEW S, NEW s \in Seq(S)
    PROVE  IsPrefix(s, s)
  <1>1. Len(s) \in Nat /\ Len(s) <= Len(s)
    BY LenProperties
  <1>2. QED
    BY <1>1, PrefixPointwise

(* The indices of a sequence and the sets of them are finite.              *)
LEMMA IndicesFinite ==
    ASSUME NEW n \in Nat, NEW A \in SUBSET (1 .. n)
    PROVE  IsFiniteSet(A) /\ Cardinality(A) \in Nat
  <1>1. PICK a \in Int, b \in Int : a = 1 /\ b = n
    OBVIOUS
  <1>2. IsFiniteSet(a .. b)
    BY FS_Interval
  <1>3. A \in SUBSET (a .. b)
    BY <1>1
  <1>4. IsFiniteSet(A)
    BY <1>2, <1>3, FS_Subset
  <1>5. QED
    BY <1>4, FS_CardinalityType

----------------------------------------------------------------------------
(***************************************************************************)
(* Remainders.                                                             *)
(***************************************************************************)

(* A number that is less than one word away wraps around once.             *)
LEMMA WrapsOnce ==
    ASSUME NEW w \in Nat \ {0}, NEW a \in Int, - w <= a, a < 2 * w
    PROVE  a % w = IF a < 0 THEN a + w ELSE IF a < w THEN a ELSE a - w
  OBVIOUS

(* There is one remainder.                                                 *)
LEMMA RemainderUnique ==
    ASSUME NEW w \in Nat \ {0}, NEW a \in Int, NEW q \in Int, NEW r \in 0 .. w - 1,
           a = w * q + r
    PROVE  a % w = r
  OBVIOUS

(* Whole words do not show in it.                                          *)
LEMMA WholeWords ==
    ASSUME NEW w \in Nat \ {0}, NEW a \in Int, NEW k \in Int
    PROVE  (a + k * w) % w = a % w
  <1>1. a \div w \in Int /\ a % w \in 0 .. w - 1
    OBVIOUS
  <1>2. a = w * (a \div w) + (a % w)
    OBVIOUS
  <1>3. PICK q \in Int, r \in 0 .. w - 1 : a = w * q + r /\ r = a % w
    BY <1>1, <1>2
  <1>4. a + k * w = w * (q + k) + r /\ q + k \in Int
    BY <1>3
  <1>5. a + k * w \in Int
    <2>1. k * w \in Int
      OBVIOUS
    <2>2. QED
      BY <2>1
  <1>6. (a + k * w) % w = r
    BY <1>4, <1>5, RemainderUnique
  <1>7. QED
    BY <1>3, <1>6

----------------------------------------------------------------------------
(***************************************************************************)
(* Sums over finite sets.  SumFunctionOnSet takes away one chosen element  *)
(* after the other; Sums is the function it defines by that.               *)
(***************************************************************************)
Chosen(s) == CHOOSE x \in s : TRUE

Sums(f, S, g) ==
    g = [s \in SUBSET S |-> IF s = {} THEN 0 ELSE f[Chosen(s)] + g[s \ {Chosen(s)}]]

(* What holds of the empty set and of a set when it holds of the set       *)
(* without its chosen element holds of every finite set.                   *)
LEMMA SubsetInduction ==
    ASSUME NEW S, IsFiniteSet(S), NEW Good, {} \in Good,
           \A s \in SUBSET S : s # {} /\ s \ {Chosen(s)} \in Good => s \in Good
    PROVE  SUBSET S \subseteq Good
  <1> DEFINE N == Cardinality(S)
             T == {n \in 0 .. N : \A s \in SUBSET S : Cardinality(s) <= n => s \in Good}
  <1>1. N \in Nat /\ \A s \in SUBSET S : IsFiniteSet(s) /\ Cardinality(s) \in 0 .. N
    <2>1. ASSUME NEW s \in SUBSET S
          PROVE  IsFiniteSet(s) /\ Cardinality(s) <= Cardinality(S)
      BY FS_Subset
    <2>2. \A s \in SUBSET S : Cardinality(s) \in Nat
      BY <2>1, FS_CardinalityType
    <2>3. N \in Nat
      BY FS_CardinalityType
    <2>4. QED
      BY <2>1, <2>2, <2>3
  <1> HIDE DEF N
  <1>2. 0 \in T
    <2>1. \A s \in SUBSET S : Cardinality(s) <= 0 => s = {}
      BY <1>1, FS_EmptySet
    <2>2. QED
      BY <1>1, <2>1
  <1>3. ASSUME NEW n \in 0 .. N - 1, n \in T
        PROVE  n + 1 \in T
    <2>1. ASSUME NEW s \in SUBSET S, Cardinality(s) <= n + 1
          PROVE  s \in Good
      <3>1. CASE s = {}
        BY <3>1
      <3>2. CASE s # {}
        <4>1. Chosen(s) \in s
          BY <3>2 DEF Chosen
        <4>2. Cardinality(s \ {Chosen(s)}) = Cardinality(s) - 1
          BY <1>1, <4>1, FS_RemoveElement
        <4>3. Cardinality(s \ {Chosen(s)}) <= n
          BY <1>1, <2>1, <4>2
        <4>4. s \ {Chosen(s)} \in Good
          BY <1>3, <4>3
        <4>5. QED
          BY <3>2, <4>4
      <3>3. QED
        BY <3>1, <3>2
    <2>2. QED
      BY <1>1, <2>1
  <1>4. 0 .. N \subseteq T
    <2> HIDE DEF T
    <2>1. QED
      BY <1>1, <1>2, <1>3, BoundedInduction
  <1>5. N \in T
    BY <1>1, <1>4
  <1>6. QED
    BY <1>1, <1>5

(* The function exists, so that a sum is what it says.                     *)
LEMMA SumsExist ==
    ASSUME NEW S, IsFiniteSet(S), NEW f
    PROVE  \E g : Sums(f, S, g) /\ SumFunctionOnSet(f, S) = g[S]
  <1> DEFINE N == Cardinality(S)
             Small(n) == {s \in SUBSET S : Cardinality(s) <= n}
             Step(g, s) == IF s = {} THEN 0 ELSE f[Chosen(s)] + g[s \ {Chosen(s)}]
             T == {n \in 0 .. N : \E g : g = [s \in Small(n) |-> Step(g, s)]}
  <1>1. N \in Nat /\ \A s \in SUBSET S : IsFiniteSet(s) /\ Cardinality(s) \in 0 .. N
    <2>1. ASSUME NEW s \in SUBSET S
          PROVE  IsFiniteSet(s) /\ Cardinality(s) <= Cardinality(S)
      BY FS_Subset
    <2>2. \A s \in SUBSET S : Cardinality(s) \in Nat
      BY <2>1, FS_CardinalityType
    <2>3. N \in Nat
      BY FS_CardinalityType
    <2>4. QED
      BY <2>1, <2>2, <2>3
  <1> HIDE DEF N
  <1>2. ASSUME NEW s \in SUBSET S, s # {}
        PROVE  s \ {Chosen(s)} \in SUBSET S /\ Cardinality(s \ {Chosen(s)}) = Cardinality(s) - 1
    <2>1. Chosen(s) \in s
      BY <1>2 DEF Chosen
    <2>2. QED
      BY <1>1, <2>1, FS_RemoveElement
  <1>3. 0 \in T
    <2>1. \A s \in Small(0) : s = {}
      BY <1>1, FS_EmptySet
    <2>2. PICK z : z = [s \in Small(0) |-> 0]
      OBVIOUS
    <2>3. z = [s \in Small(0) |-> Step(z, s)]
      BY <2>1, <2>2
    <2> HIDE DEF Step, Small
    <2>4. QED
      BY <1>1, <2>3
  <1>4. ASSUME NEW n \in 0 .. N - 1, n \in T
        PROVE  n + 1 \in T
    <2>1. PICK g : g = [s \in Small(n) |-> Step(g, s)]
      BY <1>4
    <2>2. PICK h : h = [s \in Small(n + 1) |-> Step(g, s)]
      OBVIOUS
    <2>3. ASSUME NEW s \in Small(n)
          PROVE  h[s] = g[s]
      <3>1. s \in Small(n + 1)
        BY <1>1
      <3>2. h[s] = Step(g, s) /\ g[s] = Step(g, s)
        <4> HIDE DEF Step, Small
        <4>1. QED
          BY <2>1, <2>2, <2>3, <3>1
      <3>3. QED
        BY <3>2
    <2>4. ASSUME NEW s \in Small(n + 1)
          PROVE  Step(g, s) = Step(h, s)
      <3>1. s # {} => s \ {Chosen(s)} \in Small(n)
        BY <1>1, <1>2
      <3>2. QED
        BY <2>3, <3>1
    <2>5. h = [s \in Small(n + 1) |-> Step(h, s)]
      <3> HIDE DEF Step, Small
      <3>1. QED
        BY <2>2, <2>4
    <2> HIDE DEF Step, Small
    <2>6. QED
      BY <1>1, <2>5
  <1>5. N \in T
    <2> HIDE DEF T
    <2>1. 0 .. N \subseteq T
      BY <1>1, <1>3, <1>4, BoundedInduction
    <2>2. QED
      BY <1>1, <2>1
  <1>6. Small(N) = SUBSET S
    BY <1>1
  <1>7. \E g : Sums(f, S, g)
    BY <1>5, <1>6 DEF Sums
  <1>8. SumFunctionOnSet(f, S) = (CHOOSE g : Sums(f, S, g))[S]
    BY DEF SumFunctionOnSet, FoldFunctionOnSet, MapThenFoldSet, Sums, Chosen
  <1>9. QED
    BY <1>7, <1>8

(* A sum of integers is one, and a sum of numbers is at least each of them.*)
LEMMA SumTyped ==
    ASSUME NEW S, IsFiniteSet(S), NEW f
    PROVE  /\ (\A x \in S : f[x] \in Int) => SumFunctionOnSet(f, S) \in Int
           /\ (\A x \in S : f[x] \in Nat) =>
                  /\ SumFunctionOnSet(f, S) \in Nat
                  /\ \A x \in S : f[x] <= SumFunctionOnSet(f, S)
  <1>1. PICK g : Sums(f, S, g) /\ SumFunctionOnSet(f, S) = g[S]
    BY SumsExist
  <1>2. /\ g[{}] = 0
        /\ \A s \in SUBSET S :
               s # {} => Chosen(s) \in s /\ g[s] = f[Chosen(s)] + g[s \ {Chosen(s)}]
    BY <1>1 DEF Sums, Chosen
  <1>3. ASSUME \A x \in S : f[x] \in Int
        PROVE  SumFunctionOnSet(f, S) \in Int
    <2> DEFINE Good == {s \in SUBSET S : g[s] \in Int}
    <2>1. {} \in Good
      BY <1>2
    <2>2. \A s \in SUBSET S : s # {} /\ s \ {Chosen(s)} \in Good => s \in Good
      BY <1>2, <1>3
    <2> HIDE DEF Good
    <2>3. SUBSET S \subseteq Good
      BY <2>1, <2>2, SubsetInduction
    <2>4. QED
      BY <1>1, <2>3 DEF Good
  <1>4. ASSUME \A x \in S : f[x] \in Nat
        PROVE  /\ SumFunctionOnSet(f, S) \in Nat
               /\ \A x \in S : f[x] <= SumFunctionOnSet(f, S)
    <2> DEFINE Good == {s \in SUBSET S : g[s] \in Nat /\ \A x \in s : f[x] <= g[s]}
    <2>1. {} \in Good
      BY <1>2
    <2>2. ASSUME NEW s \in SUBSET S, s # {}, s \ {Chosen(s)} \in Good
          PROVE  s \in Good
      <3>1. /\ Chosen(s) \in s /\ f[Chosen(s)] \in Nat /\ g[s \ {Chosen(s)}] \in Nat
            /\ g[s] = f[Chosen(s)] + g[s \ {Chosen(s)}]
        BY <1>2, <1>4, <2>2
      <3>2. \A x \in s : x # Chosen(s) => f[x] <= g[s \ {Chosen(s)}]
        BY <2>2
      <3>3. ASSUME NEW x \in s
            PROVE  f[x] <= g[s]
        <4>1. f[x] \in Nat
          BY <1>4
        <4>2. CASE x = Chosen(s)
          BY <3>1, <4>2
        <4>3. CASE x # Chosen(s)
          <5>1. f[x] <= g[s \ {Chosen(s)}]
            BY <3>2, <4>3
          <5>2. QED
            BY <3>1, <4>1, <5>1
        <4>4. QED
          BY <4>2, <4>3
      <3>4. QED
        BY <3>1, <3>3
    <2> HIDE DEF Good
    <2>3. SUBSET S \subseteq Good
      BY <2>1, <2>2, SubsetInduction
    <2>4. QED
      BY <1>1, <2>3 DEF Good
  <1>5. QED
    BY <1>3, <1>4

(* Where all terms are zero the sum is.                                    *)
LEMMA SumOfZeros ==
    ASSUME NEW S, IsFiniteSet(S), NEW f, \A x \in S : f[x] = 0
    PROVE  SumFunctionOnSet(f, S) = 0
  <1>1. PICK g : Sums(f, S, g) /\ SumFunctionOnSet(f, S) = g[S]
    BY SumsExist
  <1>2. /\ g[{}] = 0
        /\ \A s \in SUBSET S :
               s # {} => Chosen(s) \in s /\ g[s] = f[Chosen(s)] + g[s \ {Chosen(s)}]
    BY <1>1 DEF Sums, Chosen
  <1> DEFINE Good == {s \in SUBSET S : g[s] = 0}
  <1>3. {} \in Good
    BY <1>2
  <1>4. \A s \in SUBSET S : s # {} /\ s \ {Chosen(s)} \in Good => s \in Good
    BY <1>2
  <1> HIDE DEF Good
  <1>5. SUBSET S \subseteq Good
    BY <1>3, <1>4, SubsetInduction
  <1>6. QED
    BY <1>1, <1>5 DEF Good

(* A change of one term changes the sum by as much.                        *)
LEMMA SumChange ==
    ASSUME NEW S, IsFiniteSet(S), NEW f, NEW e, NEW a \in S,
           \A x \in S : f[x] \in Int /\ e[x] \in Int,
           \A x \in S : x # a => e[x] = f[x]
    PROVE  SumFunctionOnSet(e, S) = SumFunctionOnSet(f, S) - f[a] + e[a]
  <1>1. PICK g : Sums(f, S, g) /\ SumFunctionOnSet(f, S) = g[S]
    BY SumsExist
  <1>2. PICK h : Sums(e, S, h) /\ SumFunctionOnSet(e, S) = h[S]
    BY SumsExist
  <1>3. /\ g[{}] = 0 /\ h[{}] = 0
        /\ \A s \in SUBSET S :
               s # {} => /\ Chosen(s) \in s
                         /\ g[s] = f[Chosen(s)] + g[s \ {Chosen(s)}]
                         /\ h[s] = e[Chosen(s)] + h[s \ {Chosen(s)}]
    BY <1>1, <1>2 DEF Sums, Chosen
  <1> DEFINE Good == {s \in SUBSET S : /\ g[s] \in Int /\ h[s] \in Int
                                      /\ h[s] = IF a \in s THEN g[s] - f[a] + e[a] ELSE g[s]}
  <1>4. {} \in Good
    BY <1>3
  <1>5. ASSUME NEW s \in SUBSET S, s # {}, s \ {Chosen(s)} \in Good
        PROVE  s \in Good
    <2> DEFINE r == s \ {Chosen(s)}
    <2>1. /\ Chosen(s) \in s
          /\ g[s] = f[Chosen(s)] + g[r] /\ h[s] = e[Chosen(s)] + h[r]
      BY <1>3, <1>5
    <2>2. /\ g[r] \in Int /\ h[r] \in Int
          /\ h[r] = IF a \in r THEN g[r] - f[a] + e[a] ELSE g[r]
      BY <1>5
    <2>3. f[Chosen(s)] \in Int /\ e[Chosen(s)] \in Int /\ f[a] \in Int /\ e[a] \in Int
      BY <2>1
    <2>4. CASE Chosen(s) = a
      <3>1. a \notin r /\ a \in s
        BY <2>1, <2>4
      <3>2. h[s] = g[s] - f[a] + e[a]
        BY <2>1, <2>2, <2>3, <2>4, <3>1
      <3>3. QED
        BY <2>1, <2>2, <2>3, <3>1, <3>2
    <2>5. CASE Chosen(s) # a
      <3>1. (a \in r <=> a \in s) /\ e[Chosen(s)] = f[Chosen(s)]
        BY <2>1, <2>5
      <3>2. h[s] = IF a \in s THEN g[s] - f[a] + e[a] ELSE g[s]
        BY <2>1, <2>2, <2>3, <3>1
      <3>3. QED
        BY <2>1, <2>2, <2>3, <3>2
    <2>6. QED
      BY <2>4, <2>5
  <1> HIDE DEF Good
  <1>6. SUBSET S \subseteq Good
    BY <1>4, <1>5, SubsetInduction
  <1>7. QED
    BY <1>1, <1>2, <1>6 DEF Good

(* Two terms of a sum of numbers are together no more than the sum.        *)
LEMMA SumOfTwo ==
    ASSUME NEW S, IsFiniteSet(S), NEW f, \A x \in S : f[x] \in Nat,
           NEW a \in S, NEW b \in S, a # b
    PROVE  f[a] + f[b] <= SumFunctionOnSet(f, S)
  <1> DEFINE e == [x \in S |-> IF x = a THEN 0 ELSE f[x]]
  <1>1. /\ \A x \in S : e[x] \in Nat
        /\ e[a] = 0 /\ e[b] = f[b] /\ f[a] \in Nat /\ f[b] \in Nat
    OBVIOUS
  <1>2. \A x \in S : f[x] \in Int /\ e[x] \in Int
    BY <1>1
  <1>3. \A x \in S : x # a => e[x] = f[x]
    OBVIOUS
  <1> HIDE DEF e
  <1>4. SumFunctionOnSet(e, S) = SumFunctionOnSet(f, S) - f[a] + e[a]
    BY <1>2, <1>3, SumChange
  <1>5. e[b] <= SumFunctionOnSet(e, S) /\ SumFunctionOnSet(e, S) \in Nat
    BY <1>1, SumTyped
  <1>6. SumFunctionOnSet(f, S) \in Nat
    BY SumTyped
  <1>7. QED
    BY <1>1, <1>4, <1>5, <1>6

=============================================================================
