------------------------- MODULE SortedWrite_proofs -------------------------
(***************************************************************************)
(* The theorems about SortedWrite, for any tag files, keys and numbers of  *)
(* records, and for every size of the buffers and pipes.                   *)
(***************************************************************************)
EXTENDS SortedWrite, FunctionTheorems, FiniteSetTheorems, SequenceTheorems, TLAPS

LEMMA FilesFacts ==
  /\ Len(Files) \in Nat \ {0}
  /\ \A i \in 1 .. Len(Files) : Files[i] \in Db
  /\ \A i, j \in 1 .. Len(Files) : Files[i] = Files[j] => i = j
  /\ \A f \in Db : \E i \in 1 .. Len(Files) : Files[i] = f
  /\ Gtags \notin Db
<1>1. DOMAIN Files = 1 .. Len(Files) /\ Len(Files) \in Nat \ {0}
  BY FilesAssumption, EmptySeq
<1> QED
  BY <1>1, FilesAssumption DEF Db, Range, IsInjective, Gtags

LEMMA KeysFacts ==
  /\ Cut \notin Keys
  /\ Cut \in Lines
  /\ \A k \in Keys : k \in Lines
  /\ \A k \in Lines : k \in Nat
BY SizesAssumption DEF Cut, Lines

-----------------------------------------------------------------------------
(* Counting.                                                               *)

LEMMA CountIsFinite ==
  ASSUME NEW S, NEW s \in Seq(S), NEW k
  PROVE  /\ IsFiniteSet({i \in DOMAIN s : s[i] = k})
         /\ Count(s, k) \in Nat
<1>1. IsFiniteSet(DOMAIN s)
  BY FS_Interval
<1>2. {i \in DOMAIN s : s[i] = k} \in SUBSET (DOMAIN s)
  OBVIOUS
<1> HIDE DEF Count
<1>3. IsFiniteSet({i \in DOMAIN s : s[i] = k})
  BY <1>1, <1>2, FS_Subset
<1> QED
  BY <1>3, FS_CardinalityType DEF Count

LEMMA CountAppend ==
  ASSUME NEW S, NEW s \in Seq(S), NEW x \in S, NEW k
  PROVE  Count(Append(s, x), k) = Count(s, k) + (IF x = k THEN 1 ELSE 0)
<1> DEFINE t == Append(s, x)
           n == Len(s)
           A == {i \in 1 .. n : s[i] = k}
           B == {i \in 1 .. n + 1 : t[i] = k}
<1>1. /\ n \in Nat /\ DOMAIN s = 1 .. n
      /\ t \in Seq(S) /\ Len(t) = n + 1 /\ DOMAIN t = 1 .. n + 1
      /\ \A i \in 1 .. n : t[i] = s[i]
      /\ t[n + 1] = x
  BY LenProperties, AppendProperties
<1>2. Count(s, k) = Cardinality(A) /\ Count(t, k) = Cardinality(B) /\ IsFiniteSet(A)
  BY <1>1, CountIsFinite DEF Count
<1>3. Cardinality(A) \in Nat
  BY <1>2, FS_CardinalityType
<1> HIDE DEF t, n
<1>4. CASE x = k
  <2>1. B = A \cup {n + 1} /\ n + 1 \notin A
    BY <1>1, <1>4
  <2> QED BY <2>1, <1>2, <1>4, FS_AddElement DEF t
<1>5. CASE x # k
  <2>1. B = A
    BY <1>1, <1>5
  <2>2. Count(t, k) = Count(s, k) /\ Count(s, k) \in Nat
    BY <2>1, <1>2, <1>3
  <2> QED BY <2>2, <1>5 DEF t
<1> QED BY <1>4, <1>5

LEMMA CountConcat ==
  ASSUME NEW S, NEW s \in Seq(S), NEW t \in Seq(S), NEW k
  PROVE  Count(s \o t, k) = Count(s, k) + Count(t, k)
<1> DEFINE m == Len(s)
           n == Len(t)
           u == s \o t
           A == {i \in 1 .. m : s[i] = k}
           B == {i \in 1 .. n : t[i] = k}
           C == {i \in 1 .. m + n : u[i] = k}
           D == C \ A
           q == [i \in B |-> i + m]
<1>1. /\ m \in Nat /\ n \in Nat /\ DOMAIN s = 1 .. m /\ DOMAIN t = 1 .. n
      /\ u \in Seq(S) /\ Len(u) = m + n /\ DOMAIN u = 1 .. m + n
      /\ \A i \in 1 .. m + n : u[i] = IF i <= m THEN s[i] ELSE t[i - m]
  BY LenProperties, ConcatProperties
<1>2. /\ Count(s, k) = Cardinality(A) /\ Count(t, k) = Cardinality(B) /\ Count(u, k) = Cardinality(C)
      /\ IsFiniteSet(A) /\ IsFiniteSet(B)
  BY <1>1, CountIsFinite DEF Count
<1> HIDE DEF m, n, u
<1>3. C = A \cup D /\ A \cap D = {}
  <2>1. ASSUME NEW i \in A
        PROVE  i \in C
    BY <1>1
  <2> QED BY <2>1
<1>4. \A i : i \in D <=> i \in m + 1 .. m + n /\ t[i - m] = k
  BY <1>1
<1>5. q \in Injection(B, D) /\ q \in Surjection(B, D)
  <2>1. q \in [B -> D]
    <3>1. ASSUME NEW i \in B
          PROVE  i + m \in D
      <4>1. i + m \in m + 1 .. m + n /\ (i + m) - m = i
        BY <1>1
      <4> QED BY <4>1, <1>4
    <3> QED BY <3>1
  <2>2. \A i, j \in B : q[i] = q[j] => i = j
    BY <1>1
  <2>3. ASSUME NEW d \in D
        PROVE  \E i \in B : q[i] = d
    <3>1. d - m \in B /\ (d - m) + m = d
      BY <1>1, <1>4
    <3> QED BY <3>1
  <2> QED BY <2>1, <2>2, <2>3 DEF Injection, IsInjective, Surjection
<1>6. IsFiniteSet(D) /\ Cardinality(D) = Cardinality(B)
  <2>1. ExistsBijection(B, D)
    BY <1>5 DEF ExistsBijection, Bijection
  <2> QED BY <2>1, <1>2, FS_Bijection
<1> HIDE DEF A, B, C, D
<1>7. /\ Cardinality(A \cup D) = Cardinality(A) + Cardinality(D) - Cardinality(A \cap D)
      /\ Cardinality(A \cap D) = 0 /\ Cardinality(A) \in Nat /\ Cardinality(D) \in Nat
  <2>1. Cardinality(A \cup D) = Cardinality(A) + Cardinality(D) - Cardinality(A \cap D)
    BY <1>2, <1>6, FS_Union
  <2>2. Cardinality(A \cap D) = 0
    BY <1>3, FS_EmptySet
  <2> QED BY <2>1, <2>2, <1>2, <1>6, FS_CardinalityType
<1>8. Cardinality(C) = Cardinality(A) + Cardinality(B)
  BY <1>3, <1>6, <1>7
<1> QED BY <1>2, <1>8 DEF u

(* A record more in the middle.                                            *)
LEMMA CountBetween ==
  ASSUME NEW S, NEW r \in Seq(S), NEW s \in Seq(S), NEW t \in Seq(S), NEW x \in S, NEW k
  PROVE  Count((r \o Append(s, x)) \o t, k) = Count((r \o s) \o t, k) + (IF x = k THEN 1 ELSE 0)
<1> DEFINE a == Append(s, x)
<1>1. a \in Seq(S) /\ Count(a, k) = Count(s, k) + (IF x = k THEN 1 ELSE 0)
  BY AppendProperties, CountAppend
<1> HIDE DEF a
<1>2. ASSUME NEW y \in Seq(S)
      PROVE  Count((r \o y) \o t, k) = (Count(r, k) + Count(y, k)) + Count(t, k)
  <2>1. r \o y \in Seq(S) /\ Count(r \o y, k) = Count(r, k) + Count(y, k)
    BY CountConcat, ConcatProperties
  <2> DEFINE z == r \o y
  <2> HIDE DEF z
  <2>2. z \in Seq(S) => Count(z \o t, k) = Count(z, k) + Count(t, k)
    BY CountConcat
  <2> QED BY <2>1, <2>2 DEF z
<1>3. Count(r, k) \in Nat /\ Count(s, k) \in Nat /\ Count(t, k) \in Nat
  BY CountIsFinite
<1>4. /\ Count((r \o a) \o t, k) = (Count(r, k) + Count(a, k)) + Count(t, k)
      /\ Count((r \o s) \o t, k) = (Count(r, k) + Count(s, k)) + Count(t, k)
  BY <1>1, <1>2
<1>5. Count((r \o a) \o t, k) = Count((r \o s) \o t, k) + (IF x = k THEN 1 ELSE 0)
  BY <1>1, <1>3, <1>4
<1> QED BY <1>5 DEF a

(* What a queue holds, when a record is added or taken away.               *)
LEMMA RangeOf ==
  ASSUME NEW S, NEW s \in Seq(S)
  PROVE  /\ \A x \in S : Range(Append(s, x)) = Range(s) \cup {x}
         /\ s # <<>> => Range(Tail(s)) \subseteq Range(s) /\ Head(s) \in Range(s)
         /\ Range(<<>>) = {}
<1>1. ASSUME NEW x \in S
      PROVE  Range(Append(s, x)) = Range(s) \cup {x}
  <2>1. /\ Len(s) \in Nat /\ DOMAIN s = 1 .. Len(s) /\ DOMAIN Append(s, x) = 1 .. Len(s) + 1
        /\ \A i \in 1 .. Len(s) : Append(s, x)[i] = s[i]
        /\ Append(s, x)[Len(s) + 1] = x
    BY LenProperties, AppendProperties
  <2> QED BY <2>1 DEF Range
<1>2. ASSUME s # <<>>
      PROVE  Range(Tail(s)) \subseteq Range(s) /\ Head(s) \in Range(s)
  <2>1. /\ Len(s) \in Nat \ {0} /\ DOMAIN s = 1 .. Len(s) /\ DOMAIN Tail(s) = 1 .. Len(s) - 1
        /\ \A i \in 1 .. Len(s) - 1 : Tail(s)[i] = s[i + 1]
        /\ Head(s) = s[1]
    BY <1>2, LenProperties, HeadTailProperties, EmptySeq
  <2> QED BY <2>1 DEF Range
<1>3. Range(<<>>) = {}
  BY DEF Range
<1> QED BY <1>1, <1>2, <1>3

(* sort(1) loses no line and adds none (POSIX_SORT).                       *)
LEMMA SortKeepsLines ==
  ASSUME NEW s \in Seq(Keys), NEW r \in SortLines(s)
  PROVE  /\ r \in Seq(Keys)
         /\ Len(r) = Len(s)
         /\ Ascending(r)
         /\ \A k : Count(r, k) = Count(s, k)
<1> DEFINE n == Len(s)
<1>1. n \in Nat /\ s \in [1 .. n -> Keys] /\ DOMAIN s = 1 .. n
  BY LenProperties
<1>2. PICK p \in Bijection(1 .. n, 1 .. n) : r = [i \in 1 .. n |-> s[p[i]]]
  BY DEF SortLines, Orders
<1> HIDE DEF n
<1>3. /\ p \in [1 .. n -> 1 .. n]
      /\ \A i \in 1 .. n : \E j \in 1 .. n : p[j] = i
      /\ \A i, j \in 1 .. n : p[i] = p[j] => i = j
  BY DEF Bijection, Injection, Surjection, IsInjective
<1>4. r \in [1 .. n -> Keys] /\ DOMAIN r = 1 .. n
  BY <1>1, <1>2, <1>3
<1>5. r \in Seq(Keys) /\ Len(r) = n
  BY <1>1, <1>4
<1>6. Ascending(r)
  BY DEF SortLines
<1>8. ASSUME NEW k
      PROVE  Count(r, k) = Count(s, k)
  <2> DEFINE A == {i \in 1 .. n : r[i] = k}
             B == {i \in 1 .. n : s[i] = k}
             q == [i \in A |-> p[i]]
  <2>1. q \in [A -> B]
    BY <1>2, <1>3
  <2>2. q \in Injection(A, B)
    BY <2>1, <1>3 DEF Injection, IsInjective
  <2>3. q \in Surjection(A, B)
    <3>1. ASSUME NEW b \in B PROVE \E a \in A : q[a] = b
      <4>1. PICK a \in 1 .. n : p[a] = b
        BY <1>3
      <4>2. a \in A
        BY <4>1, <1>2
      <4> QED BY <4>1, <4>2
    <3> QED BY <3>1, <2>1 DEF Surjection
  <2>4. IsFiniteSet(A)
    <3>1. IsFiniteSet(1 .. n) /\ A \in SUBSET (1 .. n)
      BY <1>1, FS_Interval
    <3> QED BY <3>1, FS_Subset
  <2>5. ExistsBijection(A, B)
    BY <2>2, <2>3 DEF ExistsBijection, Bijection
  <2>6. Cardinality(A) = Cardinality(B)
    BY <2>4, <2>5, FS_Bijection
  <2> QED BY <2>6, <1>1, <1>4 DEF Count
<1> QED
  BY <1>5, <1>6, <1>8 DEF n

(* A sequence of the records that were written for f, of some of them; the *)
(* beginning of a sorted one, but for a last line that may be cut.         *)
IsAll(s, f)  == \A k \in Keys : Count(s, k) = Expected(f, k)
IsSome(s, f) == \A k \in Keys : Count(s, k) <= Expected(f, k)
Begins(s, r) ==
  \A i \in 1 .. Len(s) : (i <= Len(r) /\ s[i] = r[i]) \/ (i = Len(s) /\ s[i] = Cut)
Sorted(s, f)  == s \in Seq(Keys) /\ Ascending(s) /\ IsAll(s, f)
Partial(s, f) == s = <<>> \/ \E r \in Seq(Keys) : Ascending(r) /\ IsSome(r, f) /\ Begins(s, r)

LEMMA PartialIsLess ==
  ASSUME NEW f \in Db, NEW s \in Seq(Lines), put[f] \in Seq(Keys), again[f] \in Seq(Keys), Partial(s, f)
  PROVE  /\ \A k \in Keys : Count(s, k) <= Expected(f, k)
         /\ \A i \in 1 .. Len(s) : s[i] = Cut => i = Len(s)
         /\ \A i, j \in 1 .. Len(s) : i < j /\ s[j] # Cut => s[i] <= s[j]
<1>0. \A k : Expected(f, k) \in Nat
  <2>1. \A k : Count(put[f], k) \in Nat /\ Count(again[f], k) \in Nat
    BY CountIsFinite
  <2> QED BY <2>1 DEF Expected
<1>1. CASE s = <<>>
  <2>1. \A k : {i \in DOMAIN s : s[i] = k} = {}
    BY <1>1
  <2>2. \A k : Count(s, k) = 0
    BY <2>1, FS_EmptySet DEF Count
  <2> QED BY <1>1, <2>2, <1>0
<1>2. CASE s # <<>>
  <2>1. PICK r \in Seq(Keys) : Ascending(r) /\ IsSome(r, f) /\ Begins(s, r)
    BY <1>2 DEF Partial
  <2>2. /\ r \in Seq(Keys) /\ Ascending(r)
        /\ \A k \in Keys : Count(r, k) <= Expected(f, k)
    BY <2>1 DEF IsSome
  <2> DEFINE m == Len(s)
             n == Len(r)
  <2>3. /\ m \in Nat /\ n \in Nat
        /\ DOMAIN s = 1 .. m /\ DOMAIN r = 1 .. n
        /\ \A i \in 1 .. n : r[i] \in Keys
        /\ \A i \in 1 .. m : (i <= n /\ s[i] = r[i]) \/ (i = m /\ s[i] = Cut)
        /\ \A i, j \in 1 .. n : i < j => r[i] <= r[j]
    BY <2>1, <2>2, LenProperties, ElementOfSeq DEF Begins, Ascending
  <2> HIDE DEF m, n
  <2>4. ASSUME NEW k \in Keys
        PROVE  Count(s, k) <= Expected(f, k)
    <3> DEFINE A == {i \in DOMAIN s : s[i] = k}
               B == {i \in DOMAIN r : r[i] = k}
    <3>1. A \in SUBSET B
      BY <2>3, KeysFacts
    <3>2. IsFiniteSet(B)
      BY <2>2, CountIsFinite
    <3>3. Cardinality(A) <= Cardinality(B)
      BY <3>1, <3>2, FS_Subset
    <3>4. Count(s, k) <= Count(r, k) /\ Count(s, k) \in Nat /\ Count(r, k) \in Nat
      BY <3>3, <2>2, CountIsFinite DEF Count
    <3> QED BY <3>4, <2>2, <1>0
  <2>5. ASSUME NEW i \in 1 .. m, s[i] = Cut
        PROVE  i = m
    BY <2>5, <2>3, KeysFacts
  <2>6. ASSUME NEW i \in 1 .. m, NEW j \in 1 .. m, i < j, s[j] # Cut
        PROVE  s[i] <= s[j]
    <3>1. i \in 1 .. n /\ j \in 1 .. n /\ s[i] = r[i] /\ s[j] = r[j]
      BY <2>6, <2>3
    <3> QED BY <3>1, <2>6, <2>3
  <2> QED BY <2>4, <2>5, <2>6 DEF m
<1> QED BY <1>1, <1>2

(* A beginning of a beginning.                                             *)
LEMMA PartialFront ==
  ASSUME NEW s \in Seq(Lines), NEW t \in Seq(Lines), NEW f, Partial(s \o t, f)
  PROVE  Partial(s, f)
<1>1. CASE s = <<>>
  BY <1>1 DEF Partial
<1>2. CASE s # <<>>
  <2>1. s \o t # <<>>
    BY <1>2
  <2>2. PICK r \in Seq(Keys) : Ascending(r) /\ IsSome(r, f) /\ Begins(s \o t, r)
    BY <2>1 DEF Partial
  <2>3. /\ Len(s) \in Nat /\ Len(t) \in Nat
        /\ Len(s \o t) = Len(s) + Len(t)
        /\ \A i \in 1 .. Len(s) : (s \o t)[i] = s[i]
    BY ConcatProperties
  <2>4. Begins(s, r)
    BY <2>2, <2>3 DEF Begins
  <2> QED BY <2>2, <2>4 DEF Partial
<1> QED BY <1>1, <1>2

(* What is a beginning stays one when more is written.                     *)
LEMMA PartialStays ==
  ASSUME NEW f \in Db, NEW s, Partial(s, f),
         \A k \in Keys : Expected(f, k)' \in Nat /\ Expected(f, k) \in Nat /\ Expected(f, k) <= Expected(f, k)'
  PROVE  Partial(s, f)'
<1>1. CASE s = <<>>
  BY <1>1 DEF Partial
<1>2. CASE s # <<>>
  <2>1. PICK r \in Seq(Keys) : Ascending(r) /\ IsSome(r, f) /\ Begins(s, r)
    BY <1>2 DEF Partial
  <2>2. \A k \in Keys : Count(r, k) \in Nat
    BY <2>1, CountIsFinite
  <2>3. IsSome(r, f)'
    BY <2>1, <2>2 DEF IsSome
  <2> QED BY <2>1, <2>3 DEF Partial
<1> QED BY <1>1, <1>2

(* What has come out of a sort that was still writing, and a cut line.     *)
LEMMA PartialOfSorted ==
  ASSUME NEW s \in Seq(Lines), NEW t \in Seq(Keys), NEW f \in Db, Sorted(s \o t, f),
         put[f] \in Seq(Keys), again[f] \in Seq(Keys)
  PROVE  Partial(s, f) /\ (t # <<>> => Partial(Append(s, Cut), f))
<1>1. /\ Len(s) \in Nat /\ Len(t) \in Nat
      /\ Len(s \o t) = Len(s) + Len(t)
      /\ \A i \in 1 .. Len(s) : (s \o t)[i] = s[i]
  <2>1. t \in Seq(Lines)
    BY SeqMonotonic, KeysFacts
  <2> QED BY <2>1, ConcatProperties
<1>2. /\ Len(Append(s, Cut)) = Len(s) + 1
      /\ \A i \in 1 .. Len(s) : Append(s, Cut)[i] = s[i]
      /\ Append(s, Cut)[Len(s) + 1] = Cut
  BY AppendProperties
<1>3. Begins(s, s \o t) /\ Begins(Append(s, Cut), s \o t)
  BY <1>1, <1>2 DEF Begins
<1>4. IsSome(s \o t, f)
  <2>1. \A k \in Keys : Count(s \o t, k) = Expected(f, k) /\ Expected(f, k) \in Nat
    BY CountIsFinite DEF Sorted, IsAll, Expected
  <2> QED BY <2>1 DEF IsSome
<1> QED BY <1>3, <1>4 DEF Partial, Sorted

Associative(S) == \A s, t, u \in Seq(S) : (s \o t) \o u = s \o (t \o u)

LEMMA SequencesAssociate == ASSUME NEW S PROVE Associative(S)
<1>1. \A s, t, u \in Seq(S) : (s \o t) \o u = s \o (t \o u)
  BY ConcatAssociative
<1> QED BY <1>1 DEF Associative

(* A record that goes from one place to the next changes nothing of the    *)
(* two together.                                                           *)
LEMMA MoveOne ==
  ASSUME NEW S, NEW s \in Seq(S), NEW t \in Seq(S), t # <<>>
  PROVE  /\ Head(t) \in S
         /\ Append(s, Head(t)) \in Seq(S)
         /\ Tail(t) \in Seq(S)
         /\ Append(s, Head(t)) \o Tail(t) = s \o t
<1> DEFINE h == Head(t)
           u == Tail(t)
           m == Len(s)
           n == Len(t)
           a == Append(s, h)
<1>1. /\ m \in Nat /\ n \in Nat \ {0}
      /\ h \in S /\ u \in Seq(S) /\ Len(u) = n - 1
      /\ \A i \in 1 .. n - 1 : u[i] = t[i + 1]
      /\ h = t[1]
  BY HeadTailProperties, EmptySeq, LenProperties
<1>2. /\ a \in Seq(S) /\ Len(a) = m + 1
      /\ \A i \in 1 .. m : a[i] = s[i]
      /\ a[m + 1] = h
  BY <1>1, AppendProperties
<1>3. /\ s \o t \in Seq(S) /\ Len(s \o t) = m + n
      /\ \A i \in 1 .. m + n : (s \o t)[i] = IF i <= m THEN s[i] ELSE t[i - m]
  BY ConcatProperties
<1> HIDE DEF h, u, m, n, a
<1>4. /\ a \o u \in Seq(S) /\ Len(a \o u) = m + n
      /\ \A i \in 1 .. m + n : (a \o u)[i] = IF i <= m + 1 THEN a[i] ELSE u[i - (m + 1)]
  <2>1. Len(a) + Len(u) = m + n
    BY <1>1, <1>2
  <2>2. /\ a \o u \in Seq(S) /\ Len(a \o u) = Len(a) + Len(u)
        /\ \A i \in 1 .. Len(a) + Len(u) : (a \o u)[i] = IF i <= Len(a) THEN a[i] ELSE u[i - Len(a)]
    BY <1>1, <1>2, ConcatProperties
  <2> QED BY <2>1, <2>2, <1>2
<1> DEFINE x == a \o u
           y == s \o t
           l == m + n
<1>5. /\ x \in Seq(S) /\ y \in Seq(S) /\ Len(x) = l /\ Len(y) = l
      /\ \A i \in 1 .. l : x[i] = IF i <= m + 1 THEN a[i] ELSE u[i - (m + 1)]
      /\ \A i \in 1 .. l : y[i] = IF i <= m THEN s[i] ELSE t[i - m]
  BY <1>3, <1>4
<1> HIDE DEF x, y
<1>6. ASSUME NEW i \in 1 .. l
      PROVE  x[i] = y[i]
  <2>1. i \in Int /\ 1 <= i /\ i <= m + n
    BY <1>1
  <2>2. CASE i <= m
    <3>1. i \in 1 .. m /\ i <= m + 1
      BY <2>1, <2>2, <1>1
    <3>2. x[i] = a[i] /\ y[i] = s[i]
      BY <1>5, <3>1, <2>2
    <3> QED BY <3>1, <3>2, <1>2
  <2>3. CASE i = m + 1
    <3>1. x[i] = a[i] /\ y[i] = t[1]
      BY <1>5, <1>1, <2>3
    <3> QED BY <3>1, <1>1, <1>2, <2>3
  <2>4. CASE i > m + 1
    <3>1. i - (m + 1) \in 1 .. n - 1 /\ (i - (m + 1)) + 1 = i - m
      BY <2>1, <2>4, <1>1
    <3>2. x[i] = u[i - (m + 1)] /\ y[i] = t[i - m]
      BY <1>5, <2>1, <2>4, <1>1
    <3> QED BY <3>1, <3>2, <1>1
  <2> QED BY <2>1, <2>2, <2>3, <2>4, <1>1
<1>7. x = y
  BY <1>5, <1>6, SeqEqual
<1> QED
  BY <1>1, <1>2, <1>7 DEF x, y, a, u, h

LEMMA AppendBehind ==
  ASSUME NEW S, NEW r \in Seq(S), NEW s \in Seq(S), NEW x \in S
  PROVE  r \o Append(s, x) = Append(r \o s, x)
<1>1. <<x>> \in Seq(S) /\ r \o s \in Seq(S)
  BY ConcatProperties
<1>2. r \o Append(s, x) = r \o (s \o <<x>>)
  BY AppendIsConcat
<1>3. Append(r \o s, x) = (r \o s) \o <<x>>
  BY <1>1, AppendIsConcat
<1> QED BY <1>1, <1>2, <1>3, ConcatAssociative

-----------------------------------------------------------------------------
(* The inductive invariant.                                                *)

Uses(f)  == sort[f] \notin {"none", "absent"}
Filling  == pc \in {"open", "parent", "opened", "put", "flush"}
Opening  == pc \in {"open", "parent", "opened"}
Closing  == pc \in {"fclose", "read", "wait"}
Past(f)  == \E i \in 1 .. turn - 1 : Files[i] = f
Failed(f) == sort[f] \in {"failed", "unexecuted"}

(* What is on its way to the sort of f, and what is on its way back.       *)
Going(f)  == lines[f] \o opipe[f] \o buffer[f]
Coming(f) == tree[f] \o ipipe[f] \o lines[f]

(* No buffer is full but the one that is flushed, and every file is opened *)
(* before the others are put (gtags_open, dbop_put).                       *)
Started ==
  /\ Opening => \A f \in Db : Len(buffer[f]) < BufSize /\ (sort[f] = "none" => ~Past(f))
  /\ pc \notin {"open", "parent", "opened", "killed"} => \A f \in Db : sort[f] # "none"
  /\ pc \in {"parent", "read", "wait"} => Uses(File)
  /\ pc = "opened" => sort[File] # "none" /\ turn # Len(Files)
  /\ pc \in {"put", "flush"} => turn = 1
  /\ pc = "put" => \A f \in Db : Len(buffer[f]) < BufSize
  /\ pc = "flush" => /\ Uses(current) /\ buffer[current] # <<>>
                     /\ \A f \in Db \ {current} : Len(buffer[f]) < BufSize

(* Who holds which end: a sort that works has the end of the pipe that     *)
(* gtags reads open, and gtags the one it writes; gtags gives its end of   *)
(* the input away only when its buffer is empty; a file is closed when its *)
(* sort has ended and the pipe is empty (start_sort_process, dbop_close).  *)
Holders(f) ==
  /\ Alive(f) => f \in holds[f]["ipipe_w"]
  /\ Alive(f) /\ pc # "killed" => Gtags \in holds[f]["ipipe_r"]
  /\ Uses(f) /\ pc # "killed" =>
       \/ Gtags \in holds[f]["opipe_w"]
       \/ /\ pc = "done" \/ (Closing /\ Past(f)) \/ (pc \in {"read", "wait"} /\ f = File)
          /\ buffer[f] = <<>>
  /\ sort[f] \in {"writing", "exited"} => holds[f]["opipe_w"] = {}
  /\ pc = "done" \/ (Closing /\ Past(f)) \/ (pc = "wait" /\ f = File) =>
       ~Alive(f) /\ ipipe[f] = <<>>

(* Where the records are: before it sorts, all of them between gtags and   *)
(* sort; afterwards, what has come back and what sort still has is a       *)
(* sorted order of them; of a sort that failed, a beginning has come back. *)
Flow(f) ==
  /\ sort[f] = "none" => put[f] = <<>>
  /\ ~Uses(f) => /\ buffer[f] = <<>> /\ opipe[f] = <<>> /\ lines[f] = <<>> /\ ipipe[f] = <<>>
                 /\ tree[f] = put[f] /\ again[f] = <<>>
  /\ sort[f] \in {"forked", "reading"} => IsAll(Going(f), f)
  /\ sort[f] \in {"forked", "dying", "reading"} => tree[f] = <<>> /\ ipipe[f] = <<>>
  /\ sort[f] \in {"writing", "exited"} /\ pc # "killed" =>
       opipe[f] = <<>> /\ buffer[f] = <<>> /\ Sorted(Coming(f), f)
  /\ sort[f] = "exited" /\ pc # "killed" => lines[f] = <<>>
  /\ Failed(f) /\ pc # "killed" => Partial(tree[f] \o ipipe[f], f)
  /\ Failed(f) /\ Filling => tree[f] = <<>> /\ ipipe[f] = <<>>
  /\ sort[f] # "absent" /\ pc = "killed" => Partial(tree[f], f)

(* What the child for g has inherited of the buffer of f: it can write it  *)
(* as long as it has not executed sort (start_sort_process).               *)
Inherited(g, f) ==
  copy[g][f] # <<>> =>
    /\ g # f /\ Uses(f)
    /\ sort[g] \in {"forked", "dying"}
    /\ g \in holds[f]["opipe_w"]

(* Copies are of records that were put, and written again only by a child  *)
(* that could not execute sort.                                            *)
Copied(f) ==
  /\ \A g \in Db : Range(copy[g][f]) \subseteq Range(put[f])
  /\ Range(buffer[f]) \subseteq Range(put[f])
  /\ Range(again[f]) \subseteq Range(put[f])
  /\ again[f] # <<>> => \E g \in Db \ {f} : sort[g] \in {"dying", "unexecuted"}

Inherits == \A f \in Db : Copied(f) /\ \A g \in Db : Inherited(g, f)

Safe == TypeOK /\ Started /\ Inherits /\ \A f \in Db : Holders(f) /\ Flow(f)

-----------------------------------------------------------------------------
LEMMA TypedData ==
  ASSUME TypeOK, NEW f \in Db
  PROVE  /\ {buffer[f], opipe[f], lines[f], put[f], again[f]} \subseteq Seq(Keys)
         /\ {buffer[f], opipe[f], lines[f], put[f], again[f], ipipe[f], tree[f]} \subseteq Seq(Lines)
         /\ \A k : Expected(f, k) \in Nat
         /\ Len(buffer[f]) \in Nat /\ Len(opipe[f]) \in Nat /\ Len(ipipe[f]) \in Nat
<1>1. /\ buffer[f] \in Seq(Keys) /\ opipe[f] \in Seq(Keys) /\ lines[f] \in Seq(Keys) /\ put[f] \in Seq(Keys)
      /\ ipipe[f] \in Seq(Lines) /\ tree[f] \in Seq(Lines) /\ again[f] \in Seq(Keys)
  BY DEF TypeOK
<1>2. Keys \subseteq Lines
  BY KeysFacts
<1>3. /\ buffer[f] \in Seq(Lines) /\ opipe[f] \in Seq(Lines)
      /\ lines[f] \in Seq(Lines) /\ put[f] \in Seq(Lines) /\ again[f] \in Seq(Lines)
  BY <1>1, <1>2, SeqMonotonic
<1>4. \A k : Expected(f, k) \in Nat
  <2>1. \A k : Count(put[f], k) \in Nat /\ Count(again[f], k) \in Nat
    BY <1>1, CountIsFinite
  <2> QED BY <2>1 DEF Expected
<1> QED BY <1>1, <1>3, <1>4, LenProperties

(* A step that leaves the records and the sort of a file alone.            *)
LEMMA FlowStays ==
  ASSUME NEW f \in Db, Flow(f), UNCHANGED <<buffer, opipe, lines, ipipe, tree, put, again>>, sort'[f] = sort[f],
         pc' # "killed", pc # "killed", Filling' => Filling
  PROVE  Flow(f)'
BY DEF Flow, Uses, Failed, Going, Coming, Filling, Partial, Sorted, IsAll, IsSome, Expected

(* The same, when the records of the file alone are left alone.            *)
LEMMA FlowStaysHere ==
  ASSUME NEW f \in Db, Flow(f), pc' = pc, sort'[f] = sort[f], buffer'[f] = buffer[f], opipe'[f] = opipe[f],
         lines'[f] = lines[f], ipipe'[f] = ipipe[f], tree'[f] = tree[f], put'[f] = put[f], again'[f] = again[f]
  PROVE  Flow(f)'
BY DEF Flow, Uses, Failed, Going, Coming, Filling, Partial, Sorted, IsAll, IsSome, Expected

(* A step in which no child inherits anything or goes on as if it had.     *)
LEMMA InheritsStays ==
  ASSUME Inherits, UNCHANGED <<put, again>>,
         \A f \in Db : Range(buffer'[f]) \subseteq Range(buffer[f]),
         \A f \in Db : Uses(f) => Uses(f)',
         \A g \in Db : sort[g] \in {"dying", "unexecuted"} => sort'[g] \in {"dying", "unexecuted"},
         \A g, f \in Db : \/ copy'[g][f] = <<>>
                          \/ /\ copy'[g][f] = copy[g][f]
                             /\ sort[g] \in {"forked", "dying"} => sort'[g] \in {"forked", "dying"}
                             /\ g # f /\ g \in holds[f]["opipe_w"] => g \in holds'[f]["opipe_w"]
  PROVE  Inherits'
<1>1. Range(<<>>) = {}
  BY DEF Range
<1>2. ASSUME NEW f \in Db
      PROVE  Copied(f)'
  <2>1. Copied(f)
    BY DEF Inherits
  <2>2. \A g \in Db : Range(copy'[g][f]) \subseteq Range(put[f])
    BY <2>1, <1>1 DEF Copied
  <2>3. again[f] # <<>> => \E g \in Db \ {f} : sort'[g] \in {"dying", "unexecuted"}
    BY <2>1 DEF Copied
  <2>4. Range(buffer'[f]) \subseteq Range(put[f]) /\ Range(again[f]) \subseteq Range(put[f])
    BY <2>1 DEF Copied
  <2> HIDE DEF Range
  <2> QED BY <2>2, <2>3, <2>4 DEF Copied
<1>3. ASSUME NEW f \in Db, NEW g \in Db
      PROVE  Inherited(g, f)'
  <2>1. Inherited(g, f)
    BY DEF Inherits
  <2> QED BY <2>1 DEF Inherited
<1> QED BY <1>2, <1>3 DEF Inherits

(* A step of a sort process alone.                                         *)
LEMMA StartedStays ==
  ASSUME TypeOK, Started, UNCHANGED <<pc, turn, current, buffer>>,
         \A f \in Db : (sort'[f] = "none" <=> sort[f] = "none") /\ (sort'[f] = "absent" <=> sort[f] = "absent")
  PROVE  Started'
<1>1. File \in Db /\ current \in Db
  BY FilesFacts DEF TypeOK, File
<1>2. File' = File /\ \A f \in Db : (Past(f)' <=> Past(f)) /\ (Uses(f)' <=> Uses(f))
  BY DEF File, Past, Uses
<1> QED BY <1>1, <1>2 DEF Started, Opening

LEMMA SafeInitially == Init => Safe
<1> SUFFICES ASSUME Init
             PROVE  Safe
  OBVIOUS
<1>1. <<>> \in Seq(Keys) /\ <<>> \in Seq(Lines) /\ Len(<<>>) = 0
  BY EmptySeq
<1>2. \A f \in Db : /\ buffer[f] = <<>> /\ opipe[f] = <<>> /\ lines[f] = <<>> /\ ipipe[f] = <<>>
                    /\ tree[f] = <<>> /\ put[f] = <<>> /\ again[f] = <<>>
                    /\ \A g \in Db : copy[g][f] = <<>>
                    /\ sort[f] \in {"none", "absent"}
  BY DEF Init, Nothing
<1>3. TypeOK
  <2>1. holds \in [Db -> [Ends -> SUBSET Procs]]
    BY DEF Init
  <2>2. sort \in [Db -> SortStates]
    BY DEF Init, SortStates
  <2>3. /\ buffer \in [Db -> Seq(Keys)] /\ opipe \in [Db -> Seq(Keys)]
        /\ lines \in [Db -> Seq(Keys)] /\ put \in [Db -> Seq(Keys)]
        /\ ipipe \in [Db -> Seq(Lines)] /\ tree \in [Db -> Seq(Lines)]
        /\ again \in [Db -> Seq(Keys)] /\ copy \in [Db -> [Db -> Seq(Keys)]]
    BY <1>1 DEF Init, Nothing
  <2>4. current \in Db /\ turn \in 1 .. Len(Files) /\ cloexec \subseteq Db /\ pc = "open"
    BY FilesFacts DEF Init
  <2> QED BY <2>1, <2>2, <2>3, <2>4, <1>1, <1>2, SizesAssumption DEF TypeOK
<1>4. Started
  <2>1. pc = "open" /\ \A f \in Db : ~Past(f)
    BY DEF Init, Past
  <2> QED BY <2>1, <1>1, <1>2, SizesAssumption DEF Started, Opening
<1>5. \A f \in Db : Holders(f) /\ Flow(f)
  BY <1>2 DEF Holders, Flow, Alive, Uses, Failed, Init, Closing, Filling
<1>6. Inherits
  <2>1. Range(<<>>) = {}
    BY DEF Range
  <2> QED BY <2>1, <1>2 DEF Inherits, Copied, Inherited
<1> QED BY <1>3, <1>4, <1>5, <1>6 DEF Safe

-----------------------------------------------------------------------------
(* The files are opened.                                                   *)

LEMMA OpenedNext ==
  ASSUME Safe, pc \in {"open", "parent"}, sort[File] # "none", OpenNext, UNCHANGED <<sort, buffer, current>>
  PROVE  Started' /\ pc' \in {"opened", "put"} /\ turn' \in 1 .. Len(Files)
<1>1. /\ turn \in 1 .. Len(Files) /\ Len(Files) \in Nat \ {0}
      /\ \A f \in Db : Len(buffer[f]) < BufSize /\ (sort[f] = "none" => ~Past(f))
  BY FilesFacts DEF Safe, TypeOK, Started, Opening
<1>2. CASE turn = Len(Files)
  <2>1. pc' = "put" /\ turn' = 1
    BY <1>2 DEF OpenNext
  <2>2. ASSUME NEW f \in Db
        PROVE  sort[f] # "none"
    <3>1. PICK i \in 1 .. Len(Files) : Files[i] = f
      BY FilesFacts
    <3>2. CASE i = turn
      BY <3>1, <3>2 DEF File
    <3>3. CASE i # turn
      <4>1. i \in 1 .. turn - 1
        BY <3>3, <1>1, <1>2
      <4> QED BY <4>1, <3>1, <1>1 DEF Past
    <3> QED BY <3>2, <3>3
  <2> QED BY <2>1, <2>2, <1>1 DEF Started, Opening
<1>3. CASE turn # Len(Files)
  <2>1. pc' = "opened" /\ turn' = turn
    BY <1>3 DEF OpenNext
  <2>2. File' = File /\ \A f \in Db : Past(f)' <=> Past(f)
    BY <2>1 DEF File, Past
  <2> QED BY <2>1, <2>2, <1>1, <1>3 DEF Started, Opening
<1> QED BY <1>2, <1>3

LEMMA NoSortStep == Safe /\ NoSort => Safe'
<1> SUFFICES ASSUME Safe, NoSort
             PROVE  Safe'
  OBVIOUS
<1>1. Started' /\ pc' \in {"opened", "put"} /\ turn' \in 1 .. Len(Files)
  BY OpenedNext DEF NoSort
<1>2. TypeOK'
  BY <1>1 DEF NoSort, Safe, TypeOK
<1>3. ASSUME NEW f \in Db
      PROVE  Holders(f)' /\ Flow(f)'
  <2>1. Holders(f) /\ Flow(f)
    BY DEF Safe
  <2>2. Holders(f)'
    BY <2>1, <1>1 DEF NoSort, Holders, Alive, Uses, Closing
  <2>3. Flow(f)'
    BY <2>1, <1>1, FlowStays DEF NoSort, Filling
  <2> QED BY <2>2, <2>3
<1>4. Inherits'
  BY InheritsStays DEF NoSort, Safe, Uses
<1> QED BY <1>1, <1>2, <1>3, <1>4 DEF Safe

LEMMA OpenAnotherStep == Safe /\ OpenAnother => Safe'
<1> SUFFICES ASSUME Safe, OpenAnother
             PROVE  Safe'
  OBVIOUS
<1>1. /\ pc = "opened" /\ pc' = "open" /\ turn' = turn + 1
      /\ turn \in 1 .. Len(Files) /\ turn' \in 1 .. Len(Files) /\ Len(Files) \in Nat
      /\ \A f \in Db : Len(buffer[f]) < BufSize /\ (sort[f] = "none" => ~Past(f))
      /\ UNCHANGED <<current, sort, holds, cloexec, buffer, copy, opipe, lines, ipipe, tree, put, again>>
  BY FilesFacts DEF OpenAnother, Safe, TypeOK, Started, Opening
<1>2. TypeOK'
  BY <1>1 DEF Safe, TypeOK
<1>3. Started'
  <2>1. ASSUME NEW f \in Db, sort[f] = "none"
        PROVE  ~Past(f)'
    <3>1. \A i \in 1 .. turn - 1 : Files[i] # f
      BY <2>1, <1>1 DEF Past
    <3>2. Files[turn] # f
      BY <2>1, <1>1 DEF File, Safe, Started
    <3>3. \A i \in 1 .. turn : Files[i] # f
      BY <3>1, <3>2, <1>1
    <3> QED BY <3>3, <1>1 DEF Past
  <2> QED BY <2>1, <1>1 DEF Started, Opening
<1>4. ASSUME NEW f \in Db
      PROVE  Holders(f)' /\ Flow(f)'
  <2>1. Holders(f) /\ Flow(f)
    BY DEF Safe
  <2>2. Holders(f)'
    BY <2>1, <1>1 DEF Holders, Alive, Uses, Closing
  <2>3. Flow(f)'
    BY <2>1, <1>1, FlowStays DEF Filling
  <2> QED BY <2>2, <2>3
<1>5. Inherits'
  BY <1>1, InheritsStays DEF Safe, Uses
<1> QED BY <1>2, <1>3, <1>4, <1>5 DEF Safe

LEMMA ForkStep == Safe /\ Fork => Safe'
<1> SUFFICES ASSUME Safe, Fork
             PROVE  Safe'
  OBVIOUS
<1>1. /\ File \in Db /\ turn \in 1 .. Len(Files)
      /\ sort[File] = "none"
      /\ holds \in [Db -> [Ends -> SUBSET Procs]]
      /\ sort \in [Db -> SortStates]
      /\ copy \in [Db -> [Db -> Seq(Keys)]] /\ buffer \in [Db -> Seq(Keys)]
      /\ put \in [Db -> Seq(Keys)] /\ again \in [Db -> Seq(Keys)]
  BY FilesFacts DEF Safe, TypeOK, Fork, File
<1>2. TypeOK'
  <2>1. holds' \in [Db -> [Ends -> SUBSET Procs]]
    BY <1>1 DEF Fork, Procs
  <2>2. sort' \in [Db -> SortStates] /\ copy' \in [Db -> [Db -> Seq(Keys)]]
    BY <1>1 DEF Fork, SortStates
  <2> QED BY <2>1, <2>2 DEF Safe, TypeOK, Fork
<1>3. /\ sort'[File] = "forked"
      /\ \A f \in Db \ {File} : sort'[f] = sort[f]
      /\ copy'[File] = buffer
      /\ \A g \in Db \ {File} : copy'[g] = copy[g]
  BY <1>1 DEF Fork
<1>4. /\ \A x \in Ends : holds'[File][x] = {Gtags, File}
      /\ \A f \in Db \ {File}, x \in Ends :
           holds'[f][x] = IF Gtags \in holds[f][x] THEN holds[f][x] \cup {File} ELSE holds[f][x]
  BY <1>1 DEF Fork
<1>5. Started'
  BY <1>1, <1>3 DEF Safe, Started, Opening, Fork, Uses, Past, File
<1>6. ASSUME NEW f \in Db
      PROVE  Holders(f)' /\ Flow(f)'
  <2>1. Holders(f) /\ Flow(f)
    BY DEF Safe
  <2>2. pc = "open" /\ pc' = "parent" /\ UNCHANGED <<turn, buffer, opipe, lines, ipipe, tree, put, again>>
    BY DEF Fork
  <2>3. CASE f = File
    <3>1. Holders(f)'
      BY <2>2, <2>3, <1>3, <1>4 DEF Holders, Alive, Uses, Closing, Ends
    <3>2. /\ put[f] = <<>> /\ again[f] = <<>> /\ tree[f] = <<>> /\ ipipe[f] = <<>>
          /\ lines[f] = <<>> /\ opipe[f] = <<>> /\ buffer[f] = <<>>
      BY <2>1, <2>3, <1>1 DEF Flow, Uses
    <3>3. <<>> \o <<>> = <<>> /\ <<>> \in Seq(Keys)
      BY ConcatEmptySeq, EmptySeq
    <3>4. \A k : Count(<<>>, k) = 0
      <4>1. \A k : {i \in DOMAIN <<>> : <<>>[i] = k} = {}
        OBVIOUS
      <4> QED BY <4>1, FS_EmptySet DEF Count
    <3>5. IsAll(Going(f), f)'
      <4>1. Going(f)' = <<>> /\ \A k : Expected(f, k)' = 0
        BY <3>2, <3>3, <3>4, <2>2 DEF Going, Expected
      <4> QED BY <4>1, <3>4 DEF IsAll
    <3>6. Flow(f)'
      BY <3>2, <3>5, <2>2, <2>3, <1>3 DEF Flow, Uses, Failed
    <3> QED BY <3>1, <3>6
  <2>4. CASE f # File
    <3>1. Holders(f)'
      BY <2>1, <2>2, <2>4, <1>3, <1>4, FilesFacts, <1>1 DEF Holders, Alive, Uses, Closing, Ends
    <3>2. Flow(f)'
      BY <2>1, <2>2, <2>4, <1>3, FlowStays DEF Filling
    <3> QED BY <3>1, <3>2
  <2> QED BY <2>3, <2>4
<1>7. Inherits'
  <2>1. UNCHANGED <<buffer, put, again>>
    BY DEF Fork
  <2>2. ASSUME NEW f \in Db
        PROVE  Copied(f)'
    <3>1. Copied(f)
      BY DEF Safe, Inherits
    <3>2. \A g \in Db : Range(copy'[g][f]) \subseteq Range(put[f])
      BY <3>1, <1>3 DEF Copied
    <3>3. again[f] # <<>> => \E g \in Db \ {f} : sort'[g] \in {"dying", "unexecuted"}
      BY <3>1, <1>1, <1>3 DEF Copied
    <3> HIDE DEF Range
    <3> QED BY <3>1, <3>2, <3>3, <2>1 DEF Copied
  <2>3. ASSUME NEW f \in Db, NEW g \in Db
        PROVE  Inherited(g, f)'
    <3>1. Inherited(g, f) /\ Flow(f) /\ Holders(f) /\ pc = "open"
      BY DEF Safe, Inherits, Fork
    <3>2. Uses(f) => Uses(f)'
      BY <1>3 DEF Uses
    <3>3. CASE g = File
      <4> SUFFICES ASSUME buffer[f] # <<>>
                   PROVE  g # f /\ Uses(f) /\ g \in holds'[f]["opipe_w"]
        BY <3>2, <3>3, <1>3 DEF Inherited
      <4>1. Uses(f) /\ f # File
        BY <3>1, <1>1 DEF Flow, Uses
      <4>2. Gtags \in holds[f]["opipe_w"]
        BY <3>1, <4>1 DEF Holders, Closing
      <4> QED BY <4>1, <4>2, <3>3, <1>4 DEF Ends
    <3>4. CASE g # File
      <4>1. copy'[g][f] = copy[g][f] /\ sort'[g] = sort[g]
        BY <3>4, <1>3
      <4>2. Uses(f) => f # File
        BY <1>1 DEF Uses
      <4> QED BY <3>1, <3>2, <4>1, <4>2, <1>4 DEF Inherited, Ends
    <3> QED BY <3>3, <3>4
  <2> QED BY <2>2, <2>3 DEF Inherits
<1> QED BY <1>2, <1>5, <1>6, <1>7 DEF Safe

LEMMA AfterForkStep == Safe /\ AfterFork => Safe'
<1> SUFFICES ASSUME Safe, AfterFork
             PROVE  Safe'
  OBVIOUS
<1>1. /\ File \in Db /\ turn \in 1 .. Len(Files)
      /\ holds \in [Db -> [Ends -> SUBSET Procs]]
      /\ Uses(File)
  BY FilesFacts DEF Safe, TypeOK, Started, AfterFork, File
<1>2. Started' /\ pc' \in {"opened", "put"} /\ turn' \in 1 .. Len(Files)
  BY <1>1, OpenedNext DEF AfterFork, Uses
<1>3. /\ holds' \in [Db -> [Ends -> SUBSET Procs]]
      /\ \A f \in Db, x \in Ends :
           holds'[f][x] = IF f \in {File} /\ x \in {"opipe_r", "ipipe_w"} THEN holds[f][x] \ {Gtags} ELSE holds[f][x]
  BY <1>1 DEF AfterFork, Close
<1>4. TypeOK'
  BY <1>1, <1>2, <1>3 DEF AfterFork, Safe, TypeOK, Marked
<1>5. ASSUME NEW f \in Db
      PROVE  Holders(f)' /\ Flow(f)'
  <2>1. Holders(f) /\ Flow(f)
    BY DEF Safe
  <2>2. Holders(f)'
    BY <2>1, <1>2, <1>3, FilesFacts DEF AfterFork, Holders, Alive, Uses, Closing, Ends
  <2>3. Flow(f)'
    BY <2>1, <1>2, FlowStays DEF AfterFork, Filling
  <2> QED BY <2>2, <2>3
<1>6. Inherits'
  BY <1>3, InheritsStays, FilesFacts DEF AfterFork, Safe, Uses, Ends
<1> QED BY <1>2, <1>4, <1>5, <1>6 DEF Safe

-----------------------------------------------------------------------------
(* A sort process.                                                         *)

LEMMA ExecStep ==
  ASSUME Safe, NEW g \in Db, Exec(g)
  PROVE  Safe'
<1>1. /\ holds \in [Db -> [Ends -> SUBSET Procs]]
      /\ sort \in [Db -> SortStates]
      /\ copy \in [Db -> [Db -> Seq(Keys)]]
  BY DEF Safe, TypeOK
<1>2. /\ holds' \in [Db -> [Ends -> SUBSET Procs]]
      /\ \A f \in Db, x \in Ends :
           holds'[f][x] = IF f \in cloexec \cup {g} /\ x \in {"opipe_w", "ipipe_r"} THEN holds[f][x] \ {g} ELSE holds[f][x]
  BY <1>1 DEF Exec, Close
<1>3. /\ sort' \in [Db -> SortStates]
      /\ sort[g] = "forked" /\ sort'[g] = "reading"
      /\ \A f \in Db \ {g} : sort'[f] = sort[f]
  BY <1>1 DEF Exec, SortStates
<1>4. UNCHANGED <<pc, turn, current, cloexec, buffer, opipe, lines, ipipe, tree, put, again>>
  BY DEF Exec
<1>5. TypeOK' /\ (\A f \in Db : copy'[g][f] = <<>>) /\ \A h \in Db \ {g} : copy'[h] = copy[h]
  <2>1. <<>> \in Seq(Keys)
    BY EmptySeq
  <2>2. copy' = [copy EXCEPT ![g] = [f \in Db |-> <<>>]]
    BY DEF Exec, Nothing
  <2>3. copy' \in [Db -> [Db -> Seq(Keys)]]
    BY <2>1, <2>2, <1>1
  <2> QED BY <2>2, <2>3, <1>1, <1>2, <1>3, <1>4 DEF Safe, TypeOK
<1>6. Started'
  BY <1>3, <1>4, StartedStays DEF Safe
<1>7. ASSUME NEW f \in Db
      PROVE  Holders(f)' /\ Flow(f)'
  <2>1. Holders(f) /\ Flow(f) /\ g # Gtags
    BY FilesFacts DEF Safe
  <2>2. Holders(f)'
    BY <2>1, <1>2, <1>3, <1>4 DEF Holders, Alive, Uses, Closing, Past, Ends, File
  <2>3. CASE f = g
    <3>1. IsAll(Going(f), f) /\ tree[f] = <<>> /\ ipipe[f] = <<>>
      BY <2>1, <2>3, <1>3 DEF Flow
    <3>2. Going(f)' = Going(f) /\ \A k : Expected(f, k)' = Expected(f, k)
      BY <1>4 DEF Going, Expected
    <3>3. IsAll(Going(f), f)'
      BY <3>1, <3>2 DEF IsAll
    <3> QED BY <3>1, <3>3, <2>2, <2>3, <1>3, <1>4 DEF Flow, Uses, Failed, Partial
  <2>4. CASE f # g
    BY <2>1, <2>2, <2>4, <1>3, <1>4, FlowStaysHere
  <2> QED BY <2>3, <2>4
<1>8. Inherits'
  BY <1>2, <1>3, <1>4, <1>5, InheritsStays DEF Safe, Uses, Ends
<1> QED BY <1>5, <1>6, <1>7, <1>8 DEF Safe

LEMMA ExecFailsStep ==
  ASSUME Safe, NEW g \in Db, ExecFails(g)
  PROVE  Safe'
<1>1. /\ holds \in [Db -> [Ends -> SUBSET Procs]]
      /\ sort \in [Db -> SortStates]
      /\ UNCHANGED <<pc, turn, current, cloexec, buffer, copy, opipe, lines, ipipe, tree, put, again>>
  BY DEF Safe, TypeOK, ExecFails
<1>2. /\ holds' \in [Db -> [Ends -> SUBSET Procs]]
      /\ \A f \in Db, x \in Ends :
           holds'[f][x] = IF f = g /\ x \in {"opipe_w", "ipipe_r"} THEN holds[f][x] \ {g} ELSE holds[f][x]
  BY <1>1 DEF ExecFails, Close
<1>3. /\ sort' \in [Db -> SortStates]
      /\ sort[g] = "forked" /\ sort'[g] = "dying"
      /\ \A f \in Db \ {g} : sort'[f] = sort[f]
  BY <1>1 DEF ExecFails, SortStates
<1>4. TypeOK'
  BY <1>1, <1>2, <1>3 DEF Safe, TypeOK
<1>5. Started'
  BY <1>1, <1>3, StartedStays DEF Safe
<1>6. ASSUME NEW f \in Db
      PROVE  Holders(f)' /\ Flow(f)'
  <2>1. Holders(f) /\ Flow(f) /\ g # Gtags
    BY FilesFacts DEF Safe
  <2>2. Holders(f)'
    BY <2>1, <1>1, <1>2, <1>3 DEF Holders, Alive, Uses, Closing, Past, Ends, File
  <2>3. CASE f = g
    <3>1. tree[f] = <<>> /\ ipipe[f] = <<>>
      BY <2>1, <2>3, <1>3 DEF Flow
    <3> QED BY <3>1, <2>2, <2>3, <1>1, <1>3 DEF Flow, Uses, Failed, Partial
  <2>4. CASE f # g
    BY <2>1, <2>2, <2>4, <1>1, <1>3, FlowStaysHere
  <2> QED BY <2>3, <2>4
<1>7. Inherits'
  <2>1. copy[g][g] = <<>>
    BY DEF Safe, Inherits, Inherited
  <2> QED BY <2>1, <1>1, <1>2, <1>3, InheritsStays DEF Safe, Uses, Ends
<1> QED BY <1>4, <1>5, <1>6, <1>7 DEF Safe

(* Pop changes one file.                                                   *)
LEMMA PopOne ==
  ASSUME NEW S, NEW q \in [Db -> Seq(S)], NEW f \in Db, q[f] # <<>>
  PROVE  /\ Head(q[f]) \in S
         /\ Pop(q, f) \in [Db -> Seq(S)]
         /\ Pop(q, f)[f] = Tail(q[f])
         /\ Len(Pop(q, f)[f]) = Len(q[f]) - 1
         /\ \A g \in Db \ {f} : Pop(q, f)[g] = q[g]
<1>1. Head(q[f]) \in S /\ Tail(q[f]) \in Seq(S) /\ Len(Tail(q[f])) = Len(q[f]) - 1
  BY HeadTailProperties
<1> QED BY <1>1 DEF Pop

(* A record leaves one queue for another.                                  *)
IsMove(S, T, q, r, u, v, f) ==
  /\ u \in [Db -> Seq(S)] /\ v \in [Db -> Seq(T)]
  /\ Len(u[f]) = Len(q[f]) - 1 /\ Len(v[f]) = Len(r[f]) + 1
  /\ \A g \in Db \ {f} : u[g] = q[g] /\ v[g] = r[g]
  /\ v[f] \o u[f] = r[f] \o q[f]
  /\ \A x \in Seq(T) : (x \o v[f]) \o u[f] = (x \o r[f]) \o q[f]

LEMMA Moved ==
  ASSUME NEW S, NEW T, \A k \in S : k \in T,
         NEW q \in [Db -> Seq(S)], NEW r \in [Db -> Seq(T)], NEW f \in Db, q[f] # <<>>,
         NEW u, NEW v, u = Pop(q, f), v = Push(r, f, Head(q[f]))
  PROVE  IsMove(S, T, q, r, u, v, f)
<1>1. /\ Head(q[f]) \in S
      /\ Pop(q, f) \in [Db -> Seq(S)]
      /\ Pop(q, f)[f] = Tail(q[f])
      /\ Len(Pop(q, f)[f]) = Len(q[f]) - 1
      /\ \A g \in Db \ {f} : Pop(q, f)[g] = q[g]
  BY PopOne, Zenon
<1> DEFINE h == Head(q[f])
<1>2. h \in T
  BY <1>1
<1> HIDE DEF h
<1>3. /\ Push(r, f, h) \in [Db -> Seq(T)]
      /\ Push(r, f, h)[f] = Append(r[f], h)
      /\ Len(Push(r, f, h)[f]) = Len(r[f]) + 1
      /\ \A g \in Db \ {f} : Push(r, f, h)[g] = r[g]
  <2>1. \A x \in Seq(T), k \in T : Append(x, k) \in Seq(T) /\ Len(Append(x, k)) = Len(x) + 1
    BY AppendProperties
  <2>2. Append(r[f], h) \in Seq(T) /\ Len(Append(r[f], h)) = Len(r[f]) + 1
    BY <1>2, <2>1
  <2> QED BY <2>2 DEF Push
<1>4. q[f] \in Seq(T) /\ r[f] \in Seq(T)
  <2>1. q[f] \in Seq(S)
    OBVIOUS
  <2>2. \A x \in Seq(S) : x \in Seq(T)
    BY SeqMonotonic
  <2> QED BY <2>1, <2>2
<1> DEFINE s == r[f]
           t == q[f]
<1> HIDE DEF s, t
<1>5. s \in Seq(T) /\ t \in Seq(T) /\ t # <<>>
  BY <1>4 DEF s, t
<1>6. /\ Head(t) \in T
      /\ Append(s, Head(t)) \in Seq(T)
      /\ Tail(t) \in Seq(T)
      /\ Append(s, Head(t)) \o Tail(t) = s \o t
  BY <1>5, MoveOne, Zenon
<1>7. ASSUME NEW x \in Seq(T)
      PROVE  (x \o Append(s, Head(t))) \o Tail(t) = (x \o s) \o t
  <2> DEFINE a == Append(s, Head(t))
             w == Tail(t)
  <2>1. a \in Seq(T) /\ w \in Seq(T) /\ a \o w = s \o t
    BY <1>6, Zenon
  <2> HIDE DEF a, w
  <2>2. Associative(T)
    BY SequencesAssociate
  <2>3. (x \o a) \o w = x \o (a \o w)
    BY <2>1, <2>2, Zenon DEF Associative
  <2>4. (x \o s) \o t = x \o (s \o t)
    BY <1>5, <2>2, Zenon DEF Associative
  <2>5. (x \o a) \o w = (x \o s) \o t
    BY <2>1, <2>3, <2>4, Zenon
  <2> QED BY <2>5, Zenon DEF a, w
<1>8. u[f] = Tail(t) /\ v[f] = Append(s, Head(t))
  BY <1>1, <1>3 DEF s, t, h
<1>9. v[f] \o u[f] = r[f] \o q[f]
  BY <1>6, <1>8, Zenon DEF s, t
<1>10. \A x \in Seq(T) : (x \o v[f]) \o u[f] = (x \o r[f]) \o q[f]
  BY <1>7, <1>8, Zenon DEF s, t
<1> QED BY <1>1, <1>3, <1>9, <1>10 DEF h, IsMove

LEMMA ReadLineStep ==
  ASSUME Safe, NEW g \in Db, ReadLine(g)
  PROVE  Safe'
<1>1. /\ lines \in [Db -> Seq(Keys)] /\ opipe \in [Db -> Seq(Keys)] /\ buffer \in [Db -> Seq(Keys)]
      /\ opipe[g] # <<>> /\ sort[g] = "reading"
      /\ UNCHANGED <<pc, turn, current, sort, holds, cloexec, buffer, copy, ipipe, tree, put, again>>
      /\ lines' = Push(lines, g, Head(opipe[g])) /\ opipe' = Pop(opipe, g)
  BY DEF Safe, TypeOK, ReadLine
<1> SUFFICES ASSUME IsMove(Keys, Keys, opipe, lines, opipe', lines', g)
             PROVE  Safe'
  BY <1>1, Moved, Zenon
<1>2. /\ lines' \in [Db -> Seq(Keys)] /\ opipe' \in [Db -> Seq(Keys)]
      /\ Len(opipe'[g]) = Len(opipe[g]) - 1
      /\ \A f \in Db \ {g} : lines'[f] = lines[f] /\ opipe'[f] = opipe[f]
      /\ lines'[g] \o opipe'[g] = lines[g] \o opipe[g]
  BY DEF IsMove
<1>3. TypeOK'
  <2>1. ASSUME NEW f \in Db
        PROVE  Len(opipe'[f]) <= PipeSize
    <3>1. Len(opipe[f]) \in Nat /\ Len(opipe[f]) <= PipeSize /\ PipeSize \in Nat
      BY TypedData, SizesAssumption DEF Safe, TypeOK
    <3>2. CASE f = g
      BY <3>1, <3>2, <1>1, <1>2
    <3>3. CASE f # g
      BY <3>1, <3>3, <1>2
    <3> QED BY <3>2, <3>3
  <2> QED BY <2>1, <1>1, <1>2 DEF Safe, TypeOK
<1>4. Started'
  BY <1>1, StartedStays DEF Safe
<1>5. ASSUME NEW f \in Db
      PROVE  Holders(f)' /\ Flow(f)'
  <2>1. Holders(f) /\ Flow(f)
    BY DEF Safe
  <2>2. Holders(f)'
    BY <2>1, <1>1 DEF Holders, Alive, Uses, Closing, Past, File
  <2>3. CASE f = g
    <3>1. IsAll(Going(f), f) /\ tree[f] = <<>> /\ ipipe[f] = <<>>
      BY <2>1, <2>3, <1>1 DEF Flow
    <3>2. Going(f)' = Going(f) /\ \A k : Expected(f, k)' = Expected(f, k)
      BY <2>3, <1>1, <1>2 DEF Going, Expected
    <3>3. IsAll(Going(f), f)'
      BY <3>1, <3>2 DEF IsAll
    <3> QED BY <2>2, <2>3, <3>1, <3>3, <1>1 DEF Flow, Uses, Failed, Partial
  <2>4. CASE f # g
    BY <2>1, <2>2, <2>4, <1>1, <1>2, FlowStaysHere
  <2> QED BY <2>3, <2>4
<1>6. Inherits'
  BY <1>1, InheritsStays DEF Safe, Uses
<1> QED BY <1>3, <1>4, <1>5, <1>6 DEF Safe

(* At the end of its input sort has everything: gtags gave its end away    *)
(* with an empty buffer.                                                   *)
LEMMA EndOfInputStep ==
  ASSUME Safe, NEW g \in Db, EndOfInput(g)
  PROVE  Safe'
<1>1. /\ sort \in [Db -> SortStates]
      /\ lines \in [Db -> Seq(Keys)]
      /\ sort[g] = "reading" /\ opipe[g] = <<>> /\ holds[g]["opipe_w"] = {}
      /\ UNCHANGED <<pc, turn, current, holds, cloexec, buffer, copy, opipe, ipipe, tree, put, again>>
      /\ sort' = [sort EXCEPT ![g] = "writing"]
  BY DEF Safe, TypeOK, EndOfInput
<1>2. PICK r \in SortLines(lines[g]) : lines' = [lines EXCEPT ![g] = r]
  BY DEF EndOfInput
<1>3. r \in Seq(Keys)
  BY <1>1, <1>2, SortKeepsLines
<1>4. /\ sort' \in [Db -> SortStates]
      /\ sort'[g] = "writing"
      /\ lines' \in [Db -> Seq(Keys)]
      /\ lines'[g] = r
      /\ \A f \in Db \ {g} : sort'[f] = sort[f] /\ lines'[f] = lines[f]
  BY <1>1, <1>2, <1>3 DEF SortStates
<1>5. TypeOK'
  BY <1>1, <1>4 DEF Safe, TypeOK
<1>6. Started'
  BY <1>1, <1>4, StartedStays DEF Safe
<1>7. ASSUME NEW f \in Db
      PROVE  Holders(f)' /\ Flow(f)'
  <2>1. Holders(f) /\ Flow(f)
    BY DEF Safe
  <2>2. Holders(f)'
    BY <2>1, <1>1, <1>4 DEF Holders, Alive, Uses, Closing, Past, File
  <2>3. CASE f = g
    <3>1. pc # "killed" => buffer[f] = <<>>
      BY <2>1, <2>3, <1>1 DEF Holders, Uses
    <3>2. lines[f] \in Seq(Keys) /\ (lines[f] \o <<>>) \o <<>> = lines[f]
      BY <1>1, ConcatEmptySeq
    <3>3. pc # "killed" => IsAll(lines[f], f)
      BY <2>1, <2>3, <3>1, <3>2, <1>1 DEF Flow, Going
    <3>4. (<<>> \o <<>>) \o r = r /\ Ascending(r) /\ \A k : Count(r, k) = Count(lines[f], k)
      BY <2>3, <1>1, <1>2, <1>3, SortKeepsLines, ConcatEmptySeq, EmptySeq
    <3>5. tree[f] = <<>> /\ ipipe[f] = <<>>
      BY <2>1, <2>3, <1>1 DEF Flow
    <3>6. Coming(f)' = r /\ \A k : Expected(f, k)' = Expected(f, k)
      BY <3>4, <3>5, <2>3, <1>1, <1>4 DEF Coming, Expected
    <3>7. pc # "killed" => Sorted(Coming(f), f)' /\ opipe'[f] = <<>> /\ buffer'[f] = <<>>
      BY <3>1, <3>3, <3>4, <3>6, <2>3, <1>1, <1>3 DEF Sorted, IsAll
    <3>8. Partial(tree[f], f)'
      BY <3>5, <1>1 DEF Partial
    <3> QED BY <2>2, <2>3, <3>7, <3>8, <1>1, <1>4 DEF Flow, Uses, Failed
  <2>4. CASE f # g
    BY <2>1, <2>2, <2>4, <1>1, <1>4, FlowStaysHere
  <2> QED BY <2>3, <2>4
<1>8. Inherits'
  BY <1>1, <1>4, InheritsStays DEF Safe, Uses
<1> QED BY <1>5, <1>6, <1>7, <1>8 DEF Safe

LEMMA WriteLineStep ==
  ASSUME Safe, NEW g \in Db, WriteLine(g)
  PROVE  Safe'
<1>1. /\ lines \in [Db -> Seq(Keys)] /\ ipipe \in [Db -> Seq(Lines)] /\ tree \in [Db -> Seq(Lines)]
      /\ lines[g] # <<>> /\ sort[g] = "writing" /\ Len(ipipe[g]) < PipeSize
      /\ UNCHANGED <<pc, turn, current, sort, holds, cloexec, buffer, copy, opipe, tree, put, again>>
      /\ lines' = Pop(lines, g) /\ ipipe' = Push(ipipe, g, Head(lines[g]))
  BY DEF Safe, TypeOK, WriteLine
<1>2. \A k \in Keys : k \in Lines
  BY KeysFacts
<1> SUFFICES ASSUME IsMove(Keys, Lines, lines, ipipe, lines', ipipe', g)
             PROVE  Safe'
  BY <1>1, <1>2, Moved, Zenon
<1>3. /\ lines' \in [Db -> Seq(Keys)] /\ ipipe' \in [Db -> Seq(Lines)]
      /\ Len(ipipe'[g]) = Len(ipipe[g]) + 1
      /\ \A f \in Db \ {g} : lines'[f] = lines[f] /\ ipipe'[f] = ipipe[f]
      /\ \A x \in Seq(Lines) : (x \o ipipe'[g]) \o lines'[g] = (x \o ipipe[g]) \o lines[g]
  BY DEF IsMove
<1>4. TypeOK'
  <2>1. ASSUME NEW f \in Db
        PROVE  Len(ipipe'[f]) <= PipeSize
    <3>1. Len(ipipe[f]) \in Nat /\ Len(ipipe[f]) <= PipeSize /\ PipeSize \in Nat
      BY TypedData, SizesAssumption DEF Safe, TypeOK
    <3>2. CASE f = g
      BY <3>1, <3>2, <1>1, <1>3
    <3>3. CASE f # g
      BY <3>1, <3>3, <1>3
    <3> QED BY <3>2, <3>3
  <2> QED BY <2>1, <1>1, <1>3 DEF Safe, TypeOK
<1>5. Started'
  BY <1>1, StartedStays DEF Safe
<1>6. ASSUME NEW f \in Db
      PROVE  Holders(f)' /\ Flow(f)'
  <2>1. Holders(f) /\ Flow(f)
    BY DEF Safe
  <2>2. Holders(f)'
    BY <2>1, <1>1, <1>3 DEF Holders, Alive, Uses, Closing, Past, File
  <2>3. CASE f = g
    <3>1. Coming(f)' = Coming(f) /\ \A k : Expected(f, k)' = Expected(f, k)
      BY <2>3, <1>1, <1>3 DEF Coming, Expected
    <3>2. pc # "killed" => Sorted(Coming(f), f)' /\ opipe[f] = <<>> /\ buffer[f] = <<>>
      BY <2>1, <2>3, <3>1, <1>1 DEF Flow, Sorted, IsAll
    <3>3. pc = "killed" => Partial(tree[f], f)'
      BY <2>1, <2>3, <3>1, <1>1 DEF Flow, Partial, IsSome
    <3> QED BY <2>2, <2>3, <3>2, <3>3, <1>1 DEF Flow, Uses, Failed
  <2>4. CASE f # g
    BY <2>1, <2>2, <2>4, <1>1, <1>3, FlowStaysHere
  <2> QED BY <2>3, <2>4
<1>7. Inherits'
  BY <1>1, InheritsStays DEF Safe, Uses
<1> QED BY <1>4, <1>5, <1>6, <1>7 DEF Safe

(* A dying child writes what it inherited: g is the child, h the file.     *)
LEMMA WriteCopyStep ==
  ASSUME Safe, NEW g \in Db, NEW h \in Db, WriteCopy(g, h)
  PROVE  Safe'
<1> DEFINE k == Head(copy[g][h])
<1>1. /\ copy \in [Db -> [Db -> Seq(Keys)]] /\ copy[g] \in [Db -> Seq(Keys)]
      /\ opipe \in [Db -> Seq(Keys)] /\ again \in [Db -> Seq(Keys)]
      /\ sort[g] = "dying" /\ copy[g][h] # <<>> /\ Len(opipe[h]) < PipeSize
      /\ opipe' = Push(opipe, h, k) /\ again' = Push(again, h, k)
      /\ copy' = [copy EXCEPT ![g] = Pop(copy[g], h)]
      /\ UNCHANGED <<pc, turn, current, sort, holds, cloexec, buffer, lines, ipipe, tree, put>>
  BY DEF Safe, TypeOK, WriteCopy
<1>2. /\ k \in Keys
      /\ Pop(copy[g], h) \in [Db -> Seq(Keys)]
      /\ Pop(copy[g], h)[h] = Tail(copy[g][h])
      /\ \A f \in Db \ {h} : Pop(copy[g], h)[f] = copy[g][f]
  <2> DEFINE q == copy[g]
  <2>1. q \in [Db -> Seq(Keys)] /\ q[h] # <<>>
    BY <1>1
  <2> HIDE DEF q
  <2>2. /\ Head(q[h]) \in Keys
        /\ Pop(q, h) \in [Db -> Seq(Keys)]
        /\ Pop(q, h)[h] = Tail(q[h])
        /\ \A f \in Db \ {h} : Pop(q, h)[f] = q[f]
    BY <2>1, PopOne
  <2> QED BY <2>2, Zenon DEF q
<1>3. /\ g # h /\ Uses(h) /\ g \in holds[h]["opipe_w"]
      /\ Holders(h) /\ Flow(h) /\ Copied(h) /\ Started /\ TypeOK
  BY <1>1 DEF Safe, Inherits, Inherited
<1> HIDE DEF k
<1>4. /\ Append(opipe[h], k) \in Seq(Keys) /\ Len(Append(opipe[h], k)) = Len(opipe[h]) + 1
      /\ Append(again[h], k) \in Seq(Keys) /\ Append(again[h], k) # <<>>
  <2>1. \A x \in Seq(Keys) : /\ Append(x, k) \in Seq(Keys) /\ Append(x, k) # <<>>
                            /\ Len(Append(x, k)) = Len(x) + 1
    BY <1>2, AppendProperties
  <2>2. opipe[h] \in Seq(Keys) /\ again[h] \in Seq(Keys)
    BY <1>1
  <2> QED BY <2>1, <2>2
<1>5. /\ opipe' \in [Db -> Seq(Keys)] /\ again' \in [Db -> Seq(Keys)]
      /\ opipe'[h] = Append(opipe[h], k) /\ again'[h] = Append(again[h], k)
      /\ \A f \in Db \ {h} : opipe'[f] = opipe[f] /\ again'[f] = again[f]
      /\ copy' \in [Db -> [Db -> Seq(Keys)]]
      /\ copy'[g][h] = Tail(copy[g][h])
      /\ \A f \in Db \ {h} : copy'[g][f] = copy[g][f]
      /\ \A p \in Db \ {g} : copy'[p] = copy[p]
  BY <1>1, <1>2, <1>4 DEF Push
<1>6. TypeOK'
  <2>1. ASSUME NEW f \in Db
        PROVE  Len(opipe'[f]) <= PipeSize
    <3>1. Len(opipe[f]) \in Nat /\ Len(opipe[f]) <= PipeSize /\ PipeSize \in Nat
      BY <1>3, TypedData, SizesAssumption DEF TypeOK
    <3>2. CASE f = h
      BY <3>1, <3>2, <1>1, <1>4, <1>5
    <3>3. CASE f # h
      BY <3>1, <3>3, <1>5
    <3> QED BY <3>2, <3>3
  <2> QED BY <2>1, <1>1, <1>3, <1>5 DEF TypeOK
<1>7. Started'
  BY <1>1, StartedStays DEF Safe
<1>8. sort[h] \notin {"writing", "exited"}
  BY <1>3 DEF Holders
<1>9. ASSUME NEW i \in Keys
      PROVE  /\ Expected(h, i)' = Expected(h, i) + (IF k = i THEN 1 ELSE 0)
             /\ Expected(h, i) \in Nat /\ Expected(h, i)' \in Nat
  <2>1. Count(again'[h], i) = Count(again[h], i) + (IF k = i THEN 1 ELSE 0)
    BY <1>1, <1>2, <1>5, CountAppend
  <2>2. Count(again[h], i) \in Nat /\ Count(put[h], i) \in Nat
    BY <1>1, <1>3, CountIsFinite DEF TypeOK
  <2>3. Expected(h, i) = Count(put[h], i) + Count(again[h], i)
    BY DEF Expected
  <2>4. Expected(h, i)' = Count(put[h], i) + Count(again'[h], i)
    BY <1>1 DEF Expected
  <2> QED BY <2>1, <2>2, <2>3, <2>4
<1>10. Flow(h)'
  <2>1. ASSUME IsAll(Going(h), h)
        PROVE  IsAll(Going(h), h)'
    <3>1. ASSUME NEW i \in Keys
          PROVE  Count(Going(h)', i) = Expected(h, i)'
      <4>1. lines[h] \in Seq(Keys) /\ opipe[h] \in Seq(Keys) /\ buffer[h] \in Seq(Keys)
        BY <1>3 DEF TypeOK
      <4>2. Count((lines[h] \o Append(opipe[h], k)) \o buffer[h], i)
              = Count((lines[h] \o opipe[h]) \o buffer[h], i) + (IF k = i THEN 1 ELSE 0)
        BY <4>1, <1>2, CountBetween
      <4>3. Going(h)' = (lines[h] \o Append(opipe[h], k)) \o buffer[h]
        BY <1>1, <1>5 DEF Going
      <4>4. Count(Going(h), i) = Expected(h, i)
        BY <2>1 DEF IsAll
      <4> QED BY <4>2, <4>3, <4>4, <1>9 DEF Going
    <3> QED BY <3>1 DEF IsAll
  <2>2. ASSUME NEW x, Partial(x, h)
        PROVE  Partial(x, h)'
    <3>1. \A i \in Keys : Expected(h, i) <= Expected(h, i)'
      BY <1>9
    <3> QED BY <3>1, <1>9, <2>2, PartialStays
  <2>3. Partial(tree[h], h) => Partial(tree[h], h)'
    <3>1. \A x : Partial(x, h) => Partial(x, h)'
      BY <2>2
    <3>2. tree' = tree
      BY <1>1
    <3> QED BY <3>1, <3>2 DEF Partial
  <2>4. Partial(tree[h] \o ipipe[h], h) => Partial(tree[h] \o ipipe[h], h)'
    <3>1. \A x : Partial(x, h) => Partial(x, h)'
      BY <2>2
    <3>2. tree' = tree /\ ipipe' = ipipe
      BY <1>1
    <3> QED BY <3>1, <3>2 DEF Partial
  <2> QED BY <2>1, <2>3, <2>4, <1>1, <1>3, <1>8 DEF Flow, Uses, Failed, Filling
<1>11. ASSUME NEW f \in Db
       PROVE  Holders(f)' /\ Flow(f)'
  <2>1. Holders(f) /\ Flow(f)
    BY DEF Safe
  <2>2. Holders(f)'
    BY <2>1, <1>1 DEF Holders, Alive, Uses, Closing, Past, File
  <2>3. CASE f = h
    BY <2>2, <2>3, <1>10
  <2>4. CASE f # h
    BY <2>1, <2>2, <2>4, <1>1, <1>5, FlowStaysHere
  <2> QED BY <2>3, <2>4
<1>12. Inherits'
  <2>1. /\ Range(Append(again[h], k)) = Range(again[h]) \cup {k}
        /\ Range(Tail(copy[g][h])) \subseteq Range(copy[g][h])
        /\ k \in Range(copy[g][h])
    BY <1>1, <1>2, RangeOf DEF k
  <2>2. ASSUME NEW f \in Db
        PROVE  Copied(f)'
    <3>1. Copied(f)
      BY DEF Safe, Inherits
    <3> HIDE DEF Range
    <3>2. \A p \in Db : Range(copy'[p][f]) \subseteq Range(copy[p][f])
      BY <2>1, <1>5
    <3>3. Range(again'[f]) \subseteq Range(put[f])
      BY <3>1, <2>1, <1>5 DEF Copied
    <3>4. again'[f] # <<>> => \E p \in Db \ {f} : sort'[p] \in {"dying", "unexecuted"}
      BY <3>1, <1>1, <1>3, <1>5 DEF Copied
    <3> QED BY <3>1, <3>2, <3>3, <3>4, <1>1 DEF Copied
  <2>3. ASSUME NEW f \in Db, NEW p \in Db
        PROVE  Inherited(p, f)'
    <3>1. Inherited(p, f)
      BY DEF Safe, Inherits
    <3>2. copy'[p][f] # <<>> => copy[p][f] # <<>>
      BY <1>1, <1>5
    <3> QED BY <3>1, <3>2, <1>1 DEF Inherited, Uses
  <2> QED BY <2>2, <2>3 DEF Inherits
<1> QED BY <1>6, <1>7, <1>11, <1>12 DEF Safe

(* The end of a sort or of a child, whatever its cause.                    *)
LEMMA SortEndsStep ==
  ASSUME Safe, NEW g \in Db, Alive(g), NEW how \in {"exited", "failed", "unexecuted"}, SortEnds(g, how),
         how = "exited" => sort[g] = "writing",
         sort[g] = "dying" <=> how = "unexecuted",
         ipipe' \in [Db -> Seq(Lines)], Len(ipipe'[g]) <= PipeSize,
         \A f \in Db \ {g} : ipipe'[f] = ipipe[f],
         Flow(g)'
  PROVE  Safe'
<1>1. /\ holds \in [Db -> [Ends -> SUBSET Procs]]
      /\ sort \in [Db -> SortStates]
      /\ lines \in [Db -> Seq(Keys)] /\ copy \in [Db -> [Db -> Seq(Keys)]]
      /\ UNCHANGED <<pc, turn, current, cloexec, buffer, opipe, tree, put, again>>
      /\ sort' = [sort EXCEPT ![g] = how]
      /\ lines' = [lines EXCEPT ![g] = <<>>]
      /\ copy' = [copy EXCEPT ![g] = [f \in Db |-> <<>>]]
  BY DEF Safe, TypeOK, SortEnds, Nothing
<1>2. /\ holds' \in [Db -> [Ends -> SUBSET Procs]]
      /\ \A f \in Db, x \in Ends : holds'[f][x] = holds[f][x] \ {g}
  BY <1>1 DEF SortEnds, Close
<1>3. <<>> \in Seq(Keys)
  BY EmptySeq
<1>4. /\ sort' \in [Db -> SortStates]
      /\ lines' \in [Db -> Seq(Keys)]
      /\ copy' \in [Db -> [Db -> Seq(Keys)]]
      /\ sort'[g] = how
      /\ \A f \in Db : copy'[g][f] = <<>>
      /\ \A f \in Db \ {g} : sort'[f] = sort[f] /\ lines'[f] = lines[f] /\ copy'[f] = copy[f]
  BY <1>1, <1>3 DEF SortStates
<1>5. TypeOK'
  <2>1. \A f \in Db : Len(ipipe'[f]) <= PipeSize
    BY DEF Safe, TypeOK
  <2> QED BY <2>1, <1>1, <1>2, <1>4 DEF Safe, TypeOK
<1>6. Started'
  BY <1>1, <1>4, StartedStays DEF Safe, Alive
<1>7. ASSUME NEW f \in Db
      PROVE  Holders(f)' /\ Flow(f)'
  <2>1. Holders(f) /\ Flow(f) /\ g # Gtags
    BY FilesFacts DEF Safe
  <2>2. CASE f = g
    <3>1. /\ ~Alive(f)' /\ Uses(f)' /\ Uses(f)
          /\ ~(pc = "done" \/ (Closing /\ Past(f)) \/ (pc = "wait" /\ f = File))
      BY <2>1, <2>2, <1>1, <1>4 DEF Alive, Uses, Holders
    <3>2. (Closing' <=> Closing) /\ (Past(f)' <=> Past(f)) /\ File' = File
      BY <1>1 DEF Closing, Past, File
    <3>3. Holders(f)'
      BY <2>1, <2>2, <3>1, <3>2, <1>1, <1>2, <1>4 DEF Holders, Ends
    <3> QED BY <3>3, <2>2
  <2>3. CASE f # g
    <3>1. Holders(f)'
      BY <2>1, <2>3, <1>1, <1>2, <1>4 DEF Holders, Alive, Uses, Closing, Past, Ends, File
    <3> QED BY <2>1, <2>3, <3>1, <1>1, <1>4, FlowStaysHere
  <2> QED BY <2>2, <2>3
<1>8. Inherits'
  <2>1. \A p \in Db : sort[p] \in {"dying", "unexecuted"} => sort'[p] \in {"dying", "unexecuted"}
    BY <1>4 DEF Alive
  <2>2. \A p, f \in Db : \/ copy'[p][f] = <<>>
                        \/ /\ copy'[p][f] = copy[p][f] /\ sort'[p] = sort[p]
                           /\ p # f /\ p \in holds[f]["opipe_w"] => p \in holds'[f]["opipe_w"]
    BY <1>2, <1>4 DEF Ends
  <2>3. \A f \in Db : Uses(f) => Uses(f)'
    BY <1>4 DEF Uses
  <2> QED BY <2>1, <2>2, <2>3, <1>1, InheritsStays DEF Safe
<1> QED BY <1>5, <1>6, <1>7, <1>8 DEF Safe

LEMMA SortExitsStep ==
  ASSUME Safe, NEW g \in Db, SortExits(g)
  PROVE  Safe'
<1>1. /\ sort[g] = "writing" /\ SortEnds(g, "exited") /\ ipipe' = ipipe
      /\ lines[g] = <<>> \/ holds[g]["ipipe_r"] = {}
      /\ Holders(g) /\ Flow(g)
      /\ ipipe \in [Db -> Seq(Lines)] /\ Len(ipipe[g]) <= PipeSize
      /\ lines \in [Db -> Seq(Keys)]
      /\ sort \in [Db -> SortStates]
  BY DEF SortExits, Safe, TypeOK
<1>2. pc # "killed" => lines[g] = <<>>
  BY <1>1 DEF Holders, Alive
<1>3. /\ sort'[g] = "exited" /\ lines'[g] = <<>>
      /\ UNCHANGED <<pc, buffer, opipe, tree, put, again>>
  BY <1>1 DEF SortEnds
<1>4. Flow(g)'
  <2>1. pc # "killed" => Sorted(Coming(g), g)' /\ opipe[g] = <<>> /\ buffer[g] = <<>>
    BY <1>1, <1>2, <1>3 DEF Flow, Sorted, IsAll, Coming, Expected
  <2>2. pc = "killed" => Partial(tree[g], g)'
    BY <1>1, <1>3 DEF Flow, Partial, IsSome, Expected
  <2> QED BY <2>1, <2>2, <1>1, <1>3 DEF Flow, Uses, Failed
<1> QED BY <1>1, <1>4, SortEndsStep DEF Alive

LEMMA DiesStep ==
  ASSUME Safe, NEW g \in Db, Dies(g)
  PROVE  Safe'
<1>1. /\ sort[g] = "dying" /\ SortEnds(g, "unexecuted") /\ ipipe' = ipipe
      /\ Flow(g) /\ sort \in [Db -> SortStates]
      /\ ipipe \in [Db -> Seq(Lines)] /\ Len(ipipe[g]) <= PipeSize
  BY DEF Dies, Safe, TypeOK
<1>2. sort'[g] = "unexecuted" /\ tree' = tree
  BY <1>1 DEF SortEnds
<1>3. tree[g] = <<>> /\ ipipe[g] = <<>> /\ <<>> \o <<>> = <<>>
  BY <1>1, ConcatEmptySeq, EmptySeq DEF Flow
<1>4. Flow(g)'
  BY <1>1, <1>2, <1>3 DEF Flow, Uses, Failed, Partial
<1> QED BY <1>1, <1>4, SortEndsStep DEF Alive

LEMMA SortFailsStep ==
  ASSUME Safe, NEW g \in Db, SortFails(g)
  PROVE  Safe'
<1> DEFINE how == IF sort[g] = "dying" THEN "unexecuted" ELSE "failed"
<1>1. /\ Alive(g) /\ SortEnds(g, how)
      /\ Holders(g) /\ Flow(g)
      /\ ipipe \in [Db -> Seq(Lines)] /\ Len(ipipe[g]) <= PipeSize
      /\ tree[g] \in Seq(Lines) /\ lines[g] \in Seq(Keys) /\ ipipe[g] \in Seq(Lines)
      /\ put[g] \in Seq(Keys) /\ again[g] \in Seq(Keys)
      /\ lines \in [Db -> Seq(Keys)]
      /\ sort \in [Db -> SortStates]
  BY DEF SortFails, Safe, TypeOK
<1>2. /\ sort'[g] = how /\ lines'[g] = <<>>
      /\ UNCHANGED <<pc, buffer, opipe, tree, put, again>>
  BY <1>1 DEF SortEnds
<1>3. how \in {"exited", "failed", "unexecuted"} /\ (sort[g] = "dying" <=> how = "unexecuted") /\ how # "exited"
  OBVIOUS
<1>4. Append(ipipe[g], Cut) \in Seq(Lines) /\ Len(Append(ipipe[g], Cut)) = Len(ipipe[g]) + 1
  BY <1>1, KeysFacts, AppendProperties
<1>5. sort[g] = "writing" => ~Filling
  BY <1>1 DEF Holders, Uses, Filling, Closing
<1>6. ASSUME ipipe' = ipipe \/ (sort[g] = "writing" /\ ipipe'[g] = Append(ipipe[g], Cut)),
             pc # "killed" => Partial(tree[g] \o ipipe'[g], g)
      PROVE  Flow(g)'
  <2>1. sort[g] # "writing" => tree[g] = <<>> /\ ipipe[g] = <<>>
    BY <1>1 DEF Alive, Flow
  <2>2. \A x : Partial(x, g)' <=> Partial(x, g)
    BY <1>2 DEF Partial, IsSome, Expected
  <2>3. pc # "killed" => Partial(tree[g] \o ipipe[g], g)'
    <3>1. Partial(tree[g] \o ipipe[g], g)' <=> Partial(tree[g] \o ipipe'[g], g)
      BY <1>2 DEF Partial, IsSome, Expected
    <3> QED BY <3>1, <1>6
  <2>4. pc = "killed" => Partial(tree[g], g)'
    <3>1. Partial(tree[g], g)' <=> Partial(tree[g], g)
      BY <1>2 DEF Partial, IsSome, Expected
    <3> QED BY <3>1, <1>1 DEF Flow, Alive
  <2>5. Filling => tree[g] = <<>> /\ ipipe'[g] = <<>>
    BY <2>1, <1>5, <1>6
  <2> QED BY <2>3, <2>4, <2>5, <1>2 DEF Flow, Uses, Failed, Filling
<1>7. CASE ipipe' = ipipe
  <2>1. ASSUME pc # "killed"
        PROVE  Partial(tree[g] \o ipipe[g], g)
    <3>1. CASE sort[g] = "writing"
      <4>1. tree[g] \o ipipe[g] \in Seq(Lines)
        BY <1>1, ConcatProperties
      <4>2. Sorted((tree[g] \o ipipe[g]) \o lines[g], g)
        BY <1>1, <2>1, <3>1 DEF Flow, Coming
      <4> QED BY <4>1, <4>2, <1>1, PartialOfSorted, Zenon
    <3>2. CASE sort[g] # "writing"
      <4>1. tree[g] = <<>> /\ ipipe[g] = <<>> /\ <<>> \o <<>> = <<>>
        BY <1>1, <3>2, ConcatEmptySeq, EmptySeq DEF Flow, Alive
      <4> QED BY <4>1 DEF Partial
    <3> QED BY <3>1, <3>2
  <2>2. Flow(g)'
    BY <2>1, <1>6, <1>7
  <2> HIDE DEF how
  <2> QED BY <2>2, <1>1, <1>3, <1>7, SortEndsStep
<1>8. CASE ipipe' # ipipe
  <2>1. /\ sort[g] = "writing" /\ lines[g] # <<>> /\ Len(ipipe[g]) < PipeSize
        /\ ipipe' = [ipipe EXCEPT ![g] = Append(ipipe[g], Cut)]
    BY <1>8 DEF SortFails, Push
  <2>2. /\ ipipe' \in [Db -> Seq(Lines)]
        /\ ipipe'[g] = Append(ipipe[g], Cut)
        /\ \A f \in Db \ {g} : ipipe'[f] = ipipe[f]
    BY <2>1, <1>1, <1>4
  <2>3. Len(ipipe'[g]) <= PipeSize
    BY <2>1, <2>2, <1>1, <1>4, SizesAssumption, LenProperties
  <2>4. ASSUME pc # "killed"
        PROVE  Partial(tree[g] \o ipipe'[g], g)
    <3>1. tree[g] \o ipipe[g] \in Seq(Lines)
      BY <1>1, ConcatProperties
    <3>2. Sorted((tree[g] \o ipipe[g]) \o lines[g], g)
      BY <1>1, <2>1, <2>4 DEF Flow, Coming
    <3>3. Partial(Append(tree[g] \o ipipe[g], Cut), g)
      BY <3>1, <3>2, <1>1, <2>1, PartialOfSorted, Zenon
    <3>4. tree[g] \o Append(ipipe[g], Cut) = Append(tree[g] \o ipipe[g], Cut)
      <4>1. \A x, y \in Seq(Lines) : x \o Append(y, Cut) = Append(x \o y, Cut)
        BY KeysFacts, AppendBehind
      <4> QED BY <4>1, <1>1, Zenon
    <3> QED BY <2>2, <3>3, <3>4, Zenon
  <2>5. Flow(g)'
    BY <2>1, <2>2, <2>4, <1>6
  <2> HIDE DEF how
  <2> QED BY <2>2, <2>3, <2>5, <1>1, <1>3, SortEndsStep
<1> QED BY <1>7, <1>8

-----------------------------------------------------------------------------
(* gtags puts records.                                                     *)

LEMMA PutStep ==
  ASSUME Safe, NEW g \in Db, NEW k \in Keys, Put(g, k)
  PROVE  Safe'
<1>1. /\ pc \in {"put", "opened"} /\ Started /\ Holders(g) /\ Flow(g)
      /\ buffer \in [Db -> Seq(Keys)] /\ put \in [Db -> Seq(Keys)] /\ tree \in [Db -> Seq(Lines)]
      /\ again \in [Db -> Seq(Keys)]
      /\ sort[g] # "none"
      /\ UNCHANGED <<turn, sort, holds, cloexec, copy, opipe, lines, ipipe, again>>
      /\ put' = [put EXCEPT ![g] = Append(put[g], k)]
      /\ pc = "opened" => Len(buffer[g]) + 1 < BufSize
  BY DEF Safe, TypeOK, Started, Put, Push
<1>2. /\ Append(put[g], k) \in Seq(Keys)
      /\ Append(buffer[g], k) \in Seq(Keys) /\ Len(Append(buffer[g], k)) = Len(buffer[g]) + 1
      /\ Append(buffer[g], k) # <<>>
      /\ Append(tree[g], k) \in Seq(Lines)
  <2>1. /\ \A x \in Seq(Keys) : Append(x, k) \in Seq(Keys) /\ Append(x, k) # <<>> /\ Len(Append(x, k)) = Len(x) + 1
        /\ \A x \in Seq(Lines) : Append(x, k) \in Seq(Lines)
    BY KeysFacts, AppendProperties
  <2>2. put[g] \in Seq(Keys) /\ buffer[g] \in Seq(Keys) /\ tree[g] \in Seq(Lines)
    BY <1>1
  <2> QED BY <2>1, <2>2, Zenon
<1>3. /\ put' \in [Db -> Seq(Keys)]
      /\ put'[g] = Append(put[g], k)
      /\ \A f \in Db \ {g} : put'[f] = put[f]
  BY <1>1, <1>2
<1>9. ASSUME NEW f \in Db, Range(buffer'[f]) \subseteq Range(buffer[f]) \cup (IF f = g THEN {k} ELSE {})
      PROVE  Copied(f)'
  <2>1. Copied(f)
    BY DEF Safe, Inherits
  <2>2. Range(put'[g]) = Range(put[g]) \cup {k}
    BY <1>1, <1>3, RangeOf
  <2> HIDE DEF Range
  <2>3. Range(put[f]) \subseteq Range(put'[f]) /\ (f = g => k \in Range(put'[f]))
    BY <2>2, <1>3
  <2> QED BY <2>1, <2>3, <1>1, <1>9 DEF Copied
<1>10. \A f, h \in Db : Inherited(h, f)'
  <2>1. \A f, h \in Db : Inherited(h, f)
    BY DEF Safe, Inherits
  <2> QED BY <2>1, <1>1 DEF Inherited, Uses
<1>4. CASE sort[g] = "absent"
  <2>1. /\ UNCHANGED <<pc, current, buffer>>
        /\ tree' = [tree EXCEPT ![g] = Append(tree[g], k)]
    BY <1>4 DEF Put, Push
  <2>2. /\ tree' \in [Db -> Seq(Lines)]
        /\ tree'[g] = Append(tree[g], k)
        /\ \A f \in Db \ {g} : tree'[f] = tree[f]
    BY <2>1, <1>1, <1>2
  <2>3. TypeOK'
    BY <2>1, <2>2, <1>1, <1>3 DEF Safe, TypeOK
  <2>4. Started'
    BY <2>1, <1>1, StartedStays DEF Safe
  <2>5. ASSUME NEW f \in Db
        PROVE  Holders(f)' /\ Flow(f)'
    <3>1. Holders(f) /\ Flow(f)
      BY DEF Safe
    <3>2. Holders(f)'
      BY <3>1, <2>1, <1>1 DEF Holders, Alive, Uses, Closing, Past, File
    <3>3. CASE f = g
      BY <3>1, <3>2, <3>3, <2>1, <2>2, <1>1, <1>3, <1>4 DEF Flow, Uses, Failed
    <3>4. CASE f # g
      BY <3>1, <3>2, <3>4, <2>1, <2>2, <1>1, <1>3, FlowStaysHere
    <3> QED BY <3>3, <3>4
  <2>6. Inherits'
    <3>1. \A f \in Db : Copied(f)'
      BY <1>9, <2>1
    <3> QED BY <3>1, <1>10 DEF Inherits
  <2> QED BY <2>3, <2>4, <2>5, <2>6 DEF Safe
<1>5. CASE sort[g] # "absent"
  <2>1. /\ tree' = tree
        /\ buffer' = [buffer EXCEPT ![g] = Append(buffer[g], k)]
        /\ IF Len(buffer'[g]) = BufSize THEN pc' = "flush" /\ current' = g ELSE UNCHANGED <<pc, current>>
    BY <1>5 DEF Put, Push
  <2>2. /\ buffer' \in [Db -> Seq(Keys)]
        /\ buffer'[g] = Append(buffer[g], k)
        /\ \A f \in Db \ {g} : buffer'[f] = buffer[f]
        /\ buffer'[g] # <<>>
    BY <2>1, <1>1, <1>2
  <2>3. /\ \A f \in Db : Len(buffer[f]) \in Nat /\ Len(buffer[f]) < BufSize
        /\ Len(buffer'[g]) = Len(buffer[g]) + 1
        /\ BufSize \in Nat
    BY <2>2, <1>1, <1>2, SizesAssumption, LenProperties DEF Started, Opening
  <2>4. /\ Len(buffer'[g]) <= BufSize
        /\ \A f \in Db \ {g} : Len(buffer'[f]) < BufSize
    BY <2>2, <2>3
  <2>5. TypeOK'
    BY <2>1, <2>2, <2>4, <1>1, <1>3 DEF Safe, TypeOK
  <2>6. Uses(g) /\ (Uses(g)' <=> Uses(g)) /\ pc' \in {"put", "flush", "opened"}
    BY <2>1, <1>1, <1>5 DEF Uses
  <2>7. Started'
    <3>1. CASE Len(buffer'[g]) = BufSize
      <4>1. pc = "put"
        BY <3>1, <2>3, <1>1
      <4> QED BY <3>1, <4>1, <2>1, <2>2, <2>4, <2>6, <1>1 DEF Started, Opening
    <3>2. CASE Len(buffer'[g]) # BufSize
      <4>1. Len(buffer'[g]) < BufSize
        BY <3>2, <2>3, <2>4
      <4>2. pc' = pc /\ current' = current
        BY <3>2, <2>1
      <4>3. File' = File /\ \A f \in Db : (Past(f)' <=> Past(f)) /\ (Uses(f)' <=> Uses(f))
        BY <1>1 DEF File, Past, Uses
      <4> QED BY <4>1, <4>2, <4>3, <2>1, <2>4, <1>1 DEF Started, Opening
    <3> QED BY <3>1, <3>2
  <2>8. ASSUME NEW f \in Db
        PROVE  Holders(f)' /\ Flow(f)'
    <3>1. Holders(f) /\ Flow(f)
      BY DEF Safe
    <3>2. Holders(f)'
      BY <3>1, <2>6, <1>1 DEF Holders, Alive, Uses, Closing, Past, File
    <3>3. CASE f = g
      <4>1. sort[g] \notin {"writing", "exited"}
        BY <2>6, <1>1 DEF Holders, Closing
      <4>2. ASSUME IsAll(Going(g), g)
            PROVE  IsAll(Going(g), g)'
        <5>1. lines[g] \o opipe[g] \in Seq(Keys) /\ buffer[g] \in Seq(Keys)
          BY ConcatProperties DEF Safe, TypeOK
        <5>2. (lines[g] \o opipe[g]) \o Append(buffer[g], k) = Append(Going(g), k)
          <6>1. \A x, y \in Seq(Keys) : x \o Append(y, k) = Append(x \o y, k)
            BY AppendBehind
          <6> QED BY <6>1, <5>1, Zenon DEF Going
        <5>3. Going(g)' = (lines[g] \o opipe[g]) \o Append(buffer[g], k)
          BY <2>2, <1>1 DEF Going
        <5>4. Going(g) \in Seq(Keys)
          BY <5>1, ConcatProperties DEF Going
        <5>5. ASSUME NEW i \in Keys
              PROVE  Count(Going(g)', i) = Expected(g, i)'
          <6>1. Count(Going(g)', i) = Count(Going(g), i) + (IF k = i THEN 1 ELSE 0)
            BY <5>2, <5>3, <5>4, CountAppend
          <6>2. Count(put'[g], i) = Count(put[g], i) + (IF k = i THEN 1 ELSE 0)
            BY <1>1, <1>3, CountAppend
          <6>3. /\ Expected(g, i) = Count(put[g], i) + Count(again[g], i)
                /\ Expected(g, i)' = Count(put'[g], i) + Count(again[g], i)
            BY <1>1 DEF Expected
          <6>4. Count(put[g], i) \in Nat /\ Count(again[g], i) \in Nat
            BY <1>1, CountIsFinite
          <6>5. Count(Going(g), i) = Expected(g, i)
            BY <4>2 DEF IsAll
          <6> QED BY <6>1, <6>2, <6>3, <6>4, <6>5
        <5> QED BY <5>5 DEF IsAll
      <4>3. <<>> \o <<>> = <<>>
        BY ConcatEmptySeq, EmptySeq
      <4>4. pc # "killed" /\ pc' # "killed" /\ Filling
        BY <2>6, <1>1 DEF Filling
      <4>5. Flow(g)'
        BY <4>1, <4>2, <4>3, <4>4, <2>1, <2>6, <1>1 DEF Flow, Uses, Failed, Partial
      <4> QED BY <4>5, <3>2, <3>3
    <3>4. CASE f # g
      <4>1. Filling' /\ Filling /\ pc # "killed" /\ pc' # "killed"
        BY <2>6, <1>1 DEF Filling
      <4> QED BY <3>1, <3>2, <3>4, <4>1, <2>1, <2>2, <2>6, <1>1, <1>3
            DEF Flow, Uses, Failed, Going, Coming, Partial, Sorted, IsAll, IsSome, Expected
    <3> QED BY <3>3, <3>4
  <2>9. Inherits'
    <3>1. Range(buffer'[g]) = Range(buffer[g]) \cup {k}
      BY <2>2, <1>1, RangeOf
    <3> HIDE DEF Range
    <3>2. \A f \in Db : Range(buffer'[f]) \subseteq Range(buffer[f]) \cup (IF f = g THEN {k} ELSE {})
      BY <3>1, <2>2
    <3>3. \A f \in Db : Copied(f)'
      BY <3>2, <1>9
    <3> QED BY <3>3, <1>10 DEF Inherits
  <2> QED BY <2>5, <2>7, <2>8, <2>9 DEF Safe
<1> QED BY <1>4, <1>5

(* Whatever has come back so far from sort is a beginning of its output.   *)
LEMMA TreeIsPartial ==
  ASSUME Safe, NEW f \in Db, sort[f] # "absent"
  PROVE  Partial(tree[f], f)
<1>1. /\ Flow(f)
      /\ tree[f] \in Seq(Lines) /\ ipipe[f] \in Seq(Lines) /\ lines[f] \in Seq(Keys)
      /\ put[f] \in Seq(Keys) /\ again[f] \in Seq(Keys)
      /\ tree[f] \o ipipe[f] \in Seq(Lines)
      /\ sort \in [Db -> SortStates]
  BY ConcatProperties DEF Safe, TypeOK
<1>2. CASE pc = "killed"
  BY <1>1, <1>2 DEF Flow
<1>3. CASE sort[f] \in {"none", "forked", "dying", "reading"}
  BY <1>1, <1>3 DEF Flow, Uses, Partial
<1>4. CASE pc # "killed" /\ sort[f] \in {"writing", "exited"}
  <2>1. Sorted((tree[f] \o ipipe[f]) \o lines[f], f)
    BY <1>1, <1>4 DEF Flow, Coming
  <2>2. Partial(tree[f] \o ipipe[f], f)
    BY <1>1, <2>1, PartialOfSorted, Zenon
  <2> QED BY <1>1, <2>2, PartialFront, Zenon
<1>5. CASE pc # "killed" /\ Failed(f)
  <2>1. Partial(tree[f] \o ipipe[f], f)
    BY <1>1, <1>5 DEF Flow
  <2> QED BY <1>1, <2>1, PartialFront, Zenon
<1> QED BY <1>1, <1>2, <1>3, <1>4, <1>5 DEF SortStates, Failed

(* gtags is killed: of a file that was made with sort, a beginning of the  *)
(* sorted records is in the tree.                                          *)
LEMMA KilledStep ==
  ASSUME Safe, pc # "killed", pc' = "killed", holds' = Close(Gtags, Db, Ends),
         UNCHANGED <<turn, current, sort, cloexec, buffer, copy, opipe, lines, tree, put, again>>,
         ipipe' \in [Db -> Seq(Lines)],
         \A f \in Db : Len(ipipe'[f]) <= PipeSize /\ (ipipe[f] = <<>> => ipipe'[f] = <<>>)
  PROVE  Safe'
<1>1. /\ holds \in [Db -> [Ends -> SUBSET Procs]]
      /\ sort \in [Db -> SortStates]
  BY DEF Safe, TypeOK
<1>2. /\ holds' \in [Db -> [Ends -> SUBSET Procs]]
      /\ \A f \in Db, x \in Ends : holds'[f][x] = holds[f][x] \ {Gtags}
  BY <1>1 DEF Close
<1>3. TypeOK'
  BY <1>1, <1>2 DEF Safe, TypeOK
<1>4. Started'
  BY DEF Started, Opening
<1>5. ASSUME NEW f \in Db
      PROVE  Holders(f)' /\ Flow(f)'
  <2>1. Holders(f) /\ Flow(f) /\ f # Gtags
    BY FilesFacts DEF Safe
  <2>2. Holders(f)'
    BY <2>1, <1>2 DEF Holders, Alive, Uses, Closing, Ends
  <2>3. sort[f] # "absent" => Partial(tree[f], f)'
    <3>1. sort[f] # "absent" => Partial(tree[f], f)
      BY TreeIsPartial
    <3> QED BY <3>1 DEF Partial, IsSome, Expected
  <2>4. IsAll(Going(f), f) => IsAll(Going(f), f)'
    BY DEF IsAll, Going, Expected
  <2>5. Flow(f)'
    BY <2>1, <2>3, <2>4 DEF Flow, Uses, Failed, Filling
  <2> QED BY <2>2, <2>5
<1>6. Inherits'
  BY <1>2, FilesFacts, InheritsStays DEF Safe, Uses, Ends
<1> QED BY <1>3, <1>4, <1>5, <1>6 DEF Safe

(* The buffer of g is written, by flush or by fclose.                      *)
LEMMA DrainStep ==
  ASSUME Safe, NEW g \in Db, Drain(g), pc \in {"flush", "fclose"},
         pc = "flush" => g = current, Uses(g), buffer[g] # <<>>,
         UNCHANGED <<turn, current, sort, cloexec, copy, lines, ipipe, tree, put, again>>
  PROVE  Safe'
<1>1. CASE holds[g]["opipe_r"] = {}
  <2>1. pc' = "killed" /\ holds' = Close(Gtags, Db, Ends) /\ UNCHANGED <<buffer, opipe>>
    BY <1>1 DEF Drain
  <2>2. ipipe' \in [Db -> Seq(Lines)] /\ \A f \in Db : Len(ipipe'[f]) <= PipeSize
    BY DEF Safe, TypeOK
  <2> QED BY <2>1, <2>2, KilledStep
<1>2. CASE holds[g]["opipe_r"] # {}
  <2>1. /\ buffer \in [Db -> Seq(Keys)] /\ opipe \in [Db -> Seq(Keys)]
        /\ Len(opipe[g]) < PipeSize
        /\ buffer' = Pop(buffer, g) /\ opipe' = Push(opipe, g, Head(buffer[g]))
        /\ pc' = IF pc = "flush" /\ Len(buffer[g]) = 1 THEN "put" ELSE pc
        /\ holds' = holds
    BY <1>2 DEF Safe, TypeOK, Drain
  <2> SUFFICES ASSUME IsMove(Keys, Keys, buffer, opipe, buffer', opipe', g)
               PROVE  Safe'
    BY <2>1, Moved, Zenon
  <2>2. /\ buffer' \in [Db -> Seq(Keys)] /\ opipe' \in [Db -> Seq(Keys)]
        /\ Len(buffer'[g]) = Len(buffer[g]) - 1 /\ Len(opipe'[g]) = Len(opipe[g]) + 1
        /\ \A f \in Db \ {g} : buffer'[f] = buffer[f] /\ opipe'[f] = opipe[f]
        /\ \A x \in Seq(Keys) : (x \o opipe'[g]) \o buffer'[g] = (x \o opipe[g]) \o buffer[g]
    BY DEF IsMove
  <2>9. Inherits'
    <3>1. buffer'[g] = Tail(buffer[g]) /\ Range(Tail(buffer[g])) \subseteq Range(buffer[g])
      <4>1. buffer'[g] = Tail(buffer[g]) /\ buffer[g] \in Seq(Keys)
        BY <2>1 DEF Pop
      <4> QED BY <4>1, RangeOf, Zenon
    <3> HIDE DEF Range
    <3>2. \A f \in Db : Range(buffer'[f]) \subseteq Range(buffer[f])
      BY <3>1, <2>2
    <3> QED BY <3>2, <2>1, InheritsStays DEF Safe, Uses
  <2>3. /\ \A f \in Db : Len(buffer[f]) \in Nat /\ Len(opipe[f]) \in Nat
        /\ \A f \in Db : Len(buffer[f]) <= BufSize /\ Len(opipe[f]) <= PipeSize
        /\ BufSize \in Nat \ {0} /\ PipeSize \in Nat \ {0}
    BY TypedData, SizesAssumption DEF Safe, TypeOK
  <2>4. \A f \in Db : Len(buffer'[f]) <= BufSize /\ Len(opipe'[f]) <= PipeSize
    <3> TAKE f \in Db
    <3>1. CASE f = g
      BY <3>1, <2>1, <2>2, <2>3
    <3>2. CASE f # g
      BY <3>2, <2>2, <2>3
    <3> QED BY <3>1, <3>2
  <2>5. TypeOK'
    BY <2>1, <2>2, <2>4 DEF Safe, TypeOK
  <2>6. (\A f \in Db : Uses(f)' <=> Uses(f)) /\ current \in Db
    BY DEF Uses, Safe, TypeOK
  <2>7. Started'
    <3>1. CASE pc = "flush" /\ Len(buffer[g]) = 1
      <4>1. pc' = "put" /\ turn' = 1 /\ (\A f \in Db \ {g} : Len(buffer[f]) < BufSize)
            /\ \A f \in Db : sort[f] # "none"
        BY <3>1, <2>1 DEF Safe, Started, Opening
      <4>2. Len(buffer'[g]) < BufSize
        BY <3>1, <2>2, <2>3
      <4> QED BY <4>1, <4>2, <2>2 DEF Started, Opening
    <3>2. CASE pc = "flush" /\ Len(buffer[g]) # 1
      <4>1. buffer'[g] # <<>>
        <5>1. Len(buffer'[g]) # 0
          BY <3>2, <2>2, <2>3
        <5> QED BY <5>1, EmptySeq
      <4>2. pc' = "flush" /\ turn' = 1 /\ (\A f \in Db \ {g} : Len(buffer[f]) < BufSize)
            /\ \A f \in Db : sort[f] # "none"
        BY <3>2, <2>1 DEF Safe, Started, Opening
      <4> QED BY <4>1, <4>2, <3>2, <2>2, <2>6 DEF Started, Opening
    <3>3. CASE pc = "fclose"
      BY <3>3, <2>1 DEF Safe, Started, Opening
    <3> QED BY <3>1, <3>2, <3>3
  <2>8. ASSUME NEW f \in Db
        PROVE  Holders(f)' /\ Flow(f)'
    <3>1. Holders(f) /\ Flow(f) /\ Holders(g) /\ Flow(g) /\ pc' # "killed" /\ pc # "killed"
      BY <2>1 DEF Safe
    <3>2. /\ (Alive(f)' <=> Alive(f)) /\ (Past(f)' <=> Past(f)) /\ File' = File
          /\ (Closing' <=> Closing) /\ (Filling' <=> Filling)
          /\ pc \notin {"read", "wait", "done"} /\ pc' \notin {"read", "wait", "done"}
      BY <2>1 DEF Alive, Past, File, Closing, Filling
    <3>3. CASE f = g
      <4>1. Gtags \in holds[g]["opipe_w"] /\ sort[g] \notin {"writing", "exited"}
        BY <3>1 DEF Holders
      <4>2. Holders(f)'
        BY <3>1, <3>2, <3>3, <4>1, <2>1, <2>6 DEF Holders
      <4>3. Going(f)' = Going(f)
        <5>1. lines[g] \in Seq(Keys)
          BY DEF Safe, TypeOK
        <5> QED BY <5>1, <2>2, <3>3 DEF Going
      <4>4. IsAll(Going(f), f) => IsAll(Going(f), f)'
        BY <4>3 DEF IsAll, Expected
      <4>6. Failed(f) => Partial(tree[f] \o ipipe[f], f)'
        <5>1. Partial(tree[f] \o ipipe[f], f)' <=> Partial(tree[f] \o ipipe[f], f)
          BY DEF Partial, IsSome, Expected
        <5> QED BY <5>1, <3>1 DEF Flow
      <4>7. Flow(f)'
        BY <3>1, <3>2, <3>3, <4>1, <4>4, <4>6, <2>6 DEF Flow, Failed
      <4> QED BY <4>2, <4>7
    <3>4. CASE f # g
      <4>1. Holders(f)'
        BY <3>1, <3>2, <3>4, <2>1, <2>2, <2>6 DEF Holders
      <4>2. Flow(f)'
        BY <3>1, <3>2, <3>4, <2>2, <2>6
           DEF Flow, Failed, Going, Coming, Partial, Sorted, IsAll, IsSome, Expected
      <4> QED BY <4>1, <4>2
    <3> QED BY <3>3, <3>4
  <2> QED BY <2>5, <2>7, <2>8, <2>9 DEF Safe
<1> QED BY <1>1, <1>2

LEMMA FlushStep == Safe /\ Flush => Safe'
<1> SUFFICES ASSUME Safe, Flush
             PROVE  Safe'
  OBVIOUS
<1>1. pc = "flush" /\ current \in Db /\ Uses(current) /\ buffer[current] # <<>>
  BY DEF Flush, Safe, TypeOK, Started
<1> QED BY <1>1, DrainStep DEF Flush

-----------------------------------------------------------------------------
(* gtags closes the files.                                                 *)

LEMMA StartClosingStep == Safe /\ StartClosing => Safe'
<1> SUFFICES ASSUME Safe, StartClosing
             PROVE  Safe'
  OBVIOUS
<1>1. /\ pc = "put" /\ pc' = "fclose" /\ turn = 1
      /\ UNCHANGED <<turn, current, sort, holds, cloexec, buffer, copy, opipe, lines, ipipe, tree, put, again>>
  BY DEF StartClosing, Safe, Started
<1>2. TypeOK'
  BY <1>1 DEF Safe, TypeOK
<1>3. Started'
  BY <1>1 DEF Safe, Started, Opening
<1>5. Inherits'
  BY <1>1, InheritsStays DEF Safe, Uses
<1>4. ASSUME NEW f \in Db
      PROVE  Holders(f)' /\ Flow(f)'
  <2>1. Holders(f) /\ Flow(f) /\ ~Past(f)'
    BY <1>1 DEF Safe, Past
  <2>2. Holders(f)'
    BY <2>1, <1>1 DEF Holders, Alive, Uses, Closing
  <2>3. Flow(f)'
    BY <2>1, <1>1, FlowStays DEF Filling
  <2> QED BY <2>2, <2>3
<1> QED BY <1>2, <1>3, <1>4, <1>5 DEF Safe

(* dbop_close() of a file is over.                                         *)
LEMMA CloseNextStep ==
  ASSUME Safe, CloseNext, pc \in {"fclose", "wait"}, ~Alive(File), ipipe[File] = <<>>,
         UNCHANGED <<current, sort, holds, cloexec, buffer, copy, opipe, lines, ipipe, tree, put, again>>
  PROVE  Safe'
<1>1. turn \in 1 .. Len(Files) /\ Len(Files) \in Nat \ {0}
  BY FilesFacts DEF Safe, TypeOK
<1>2. /\ pc' \in {"done", "fclose"} /\ turn' \in 1 .. Len(Files)
      /\ pc' = "done" => turn = Len(Files)
      /\ pc' = "fclose" => turn' = turn + 1
  BY <1>1 DEF CloseNext
<1>3. TypeOK'
  BY <1>2 DEF Safe, TypeOK
<1>4. Started'
  BY <1>2 DEF Safe, Started, Opening
<1>6. Inherits'
  BY InheritsStays DEF Safe, Uses
<1>5. ASSUME NEW f \in Db
      PROVE  Holders(f)' /\ Flow(f)'
  <2>1. Holders(f) /\ Flow(f) /\ pc' # "killed" /\ pc # "killed"
    BY <1>2 DEF Safe
  <2>2. (pc' = "done" \/ (Closing' /\ Past(f)') \/ (pc' = "wait" /\ f = File')) => Past(f) \/ f = File
    <3>1. CASE pc' = "done"
      <4>1. PICK i \in 1 .. Len(Files) : Files[i] = f
        BY FilesFacts
      <4>2. i = turn \/ i \in 1 .. turn - 1
        BY <1>1, <1>2, <3>1
      <4> QED BY <4>1, <4>2 DEF Past, File
    <3>2. CASE pc' = "fclose" /\ Past(f)'
      <4>1. PICK i \in 1 .. turn : Files[i] = f
        BY <3>2, <1>1, <1>2 DEF Past
      <4>2. i = turn \/ i \in 1 .. turn - 1
        BY <1>1
      <4> QED BY <4>1, <4>2 DEF Past, File
    <3> QED BY <3>1, <3>2, <1>2
  <2>3. Past(f) \/ f = File => pc' = "done" \/ (Closing' /\ Past(f)')
    <3> SUFFICES ASSUME Past(f) \/ f = File, pc' # "done"
                 PROVE  Closing' /\ Past(f)'
      OBVIOUS
    <3>1. pc' = "fclose" /\ turn' = turn + 1
      BY <1>2
    <3>2. PICK i \in 1 .. turn : Files[i] = f
      BY <1>1 DEF Past, File
    <3>3. i \in 1 .. turn' - 1
      BY <3>1, <1>1
    <3> QED BY <3>1, <3>2, <3>3 DEF Past, Closing
  <2>4. Holders(f)'
    BY <2>1, <2>2, <2>3, <1>2 DEF Holders, Alive, Uses, Closing
  <2>5. Flow(f)'
    BY <2>1, <1>2, FlowStays DEF Filling
  <2> QED BY <2>4, <2>5
<1> QED BY <1>3, <1>4, <1>5, <1>6 DEF Safe

LEMMA FcloseStep == Safe /\ Fclose => Safe'
<1> SUFFICES ASSUME Safe, Fclose
             PROVE  Safe'
  OBVIOUS
<1>1. /\ pc = "fclose" /\ File \in Db /\ turn \in 1 .. Len(Files) /\ sort[File] # "none"
      /\ holds \in [Db -> [Ends -> SUBSET Procs]]
      /\ UNCHANGED <<current, sort, cloexec, copy, lines, ipipe, tree, put, again>>
      /\ Holders(File) /\ Flow(File)
  BY FilesFacts DEF Safe, TypeOK, Started, Opening, Fclose, File
<1>2. CASE sort[File] = "absent"
  <2>1. CloseNext /\ UNCHANGED <<holds, buffer, opipe>>
    BY <1>2 DEF Fclose
  <2>2. ~Alive(File) /\ ipipe[File] = <<>>
    BY <1>1, <1>2 DEF Alive, Uses, Flow
  <2> QED BY <2>1, <2>2, <1>1, CloseNextStep
<1>3. CASE sort[File] # "absent" /\ buffer[File] # <<>>
  <2>1. Drain(File) /\ UNCHANGED turn
    BY <1>3 DEF Fclose
  <2> QED BY <2>1, <1>1, <1>3, DrainStep DEF Uses
<1>4. CASE sort[File] # "absent" /\ buffer[File] = <<>>
  <2>1. /\ holds' = Close(Gtags, {File}, {"opipe_w"}) /\ pc' = "read"
        /\ UNCHANGED <<turn, buffer, opipe>>
    BY <1>4 DEF Fclose
  <2>2. /\ holds' \in [Db -> [Ends -> SUBSET Procs]]
        /\ \A f \in Db, x \in Ends :
             holds'[f][x] = IF f \in {File} /\ x \in {"opipe_w"} THEN holds[f][x] \ {Gtags} ELSE holds[f][x]
    BY <2>1, <1>1 DEF Close
  <2>3. TypeOK'
    BY <2>1, <2>2, <1>1 DEF Safe, TypeOK
  <2>4. Started'
    BY <2>1, <1>1, <1>4 DEF Safe, Started, Opening, Uses, File
  <2>6. Inherits'
    BY <2>1, <2>2, <1>1, FilesFacts, InheritsStays DEF Safe, Uses, Ends
  <2>5. ASSUME NEW f \in Db
        PROVE  Holders(f)' /\ Flow(f)'
    <3>1. Holders(f) /\ Flow(f) /\ f # Gtags
      BY FilesFacts DEF Safe
    <3>2. Holders(f)'
      BY <3>1, <2>1, <2>2, <1>1, <1>4 DEF Holders, Alive, Uses, Closing, Past, Ends, File
    <3>3. Flow(f)'
      BY <3>1, <2>1, <1>1, FlowStays DEF Filling
    <3> QED BY <3>2, <3>3
  <2> QED BY <2>3, <2>4, <2>5, <2>6 DEF Safe
<1> QED BY <1>2, <1>3, <1>4

LEMMA ReadBackStep == Safe /\ ReadBack => Safe'
<1> SUFFICES ASSUME Safe, ReadBack
             PROVE  Safe'
  OBVIOUS
<1>1. /\ pc = "read" /\ File \in Db /\ turn \in 1 .. Len(Files)
      /\ ipipe \in [Db -> Seq(Lines)] /\ tree \in [Db -> Seq(Lines)]
      /\ ipipe[File] # <<>> /\ ipipe' = Pop(ipipe, File)
      /\ Uses(File)
      /\ UNCHANGED <<turn, current, sort, cloexec, buffer, copy, opipe, lines, put, again>>
  BY FilesFacts DEF Safe, TypeOK, Started, ReadBack, File
<1>2. IsMove(Lines, Lines, ipipe, tree, ipipe', Push(tree, File, Head(ipipe[File])), File)
  BY <1>1, Moved, Zenon
<1>3. /\ ipipe' \in [Db -> Seq(Lines)]
      /\ Len(ipipe'[File]) = Len(ipipe[File]) - 1
      /\ \A f \in Db \ {File} : ipipe'[f] = ipipe[f]
  BY <1>2 DEF IsMove
<1>4. \A f \in Db : Len(ipipe'[f]) <= PipeSize
  <2> TAKE f \in Db
  <2>1. Len(ipipe[f]) \in Nat /\ Len(ipipe[f]) <= PipeSize /\ PipeSize \in Nat
    BY TypedData, SizesAssumption DEF Safe, TypeOK
  <2>2. CASE f = File
    BY <2>1, <2>2, <1>3
  <2>3. CASE f # File
    BY <2>1, <2>3, <1>3
  <2> QED BY <2>2, <2>3
<1>5. CASE pc' = "killed" /\ holds' = Close(Gtags, Db, Ends) /\ tree' = tree
  BY <1>1, <1>3, <1>4, <1>5, KilledStep
<1>6. CASE tree' = Push(tree, File, Head(ipipe[File])) /\ UNCHANGED <<pc, holds>>
  <2>1. /\ tree' \in [Db -> Seq(Lines)]
        /\ \A f \in Db \ {File} : tree'[f] = tree[f]
        /\ tree'[File] \o ipipe'[File] = tree[File] \o ipipe[File]
    BY <1>2, <1>6 DEF IsMove
  <2>2. TypeOK'
    BY <2>1, <1>1, <1>3, <1>4, <1>6 DEF Safe, TypeOK
  <2>3. Started'
    BY <1>1, <1>6, StartedStays DEF Safe
  <2>4. ASSUME NEW f \in Db
        PROVE  Holders(f)' /\ Flow(f)'
    <3>1. Holders(f) /\ Flow(f)
      BY DEF Safe
    <3>2. /\ (Alive(f)' <=> Alive(f)) /\ (Uses(f)' <=> Uses(f)) /\ (Past(f)' <=> Past(f)) /\ File' = File
          /\ (Closing' <=> Closing) /\ ~Filling'
      BY <1>1, <1>6 DEF Alive, Uses, Past, File, Closing, Filling
    <3>3. CASE f = File
      <4>1. Holders(f)'
        BY <3>1, <3>2, <3>3, <1>1, <1>6 DEF Holders
      <4>2. Coming(f)' = Coming(f) /\ \A k : Expected(f, k)' = Expected(f, k)
        BY <2>1, <1>1, <3>3 DEF Coming, Expected
      <4>3. sort[f] \in {"writing", "exited"} => Sorted(Coming(f), f)'
        BY <3>1, <4>2, <1>1 DEF Flow, Sorted, IsAll
      <4>4. Failed(f) => Partial(tree[f] \o ipipe[f], f)'
        <5>1. (tree[f] \o ipipe[f])' = tree[f] \o ipipe[f]
          BY <2>1, <3>3
        <5> QED BY <3>1, <4>2, <5>1, <1>1 DEF Flow, Partial, IsSome
      <4>5. sort[f] \notin {"forked", "dying", "reading"}
        BY <3>1, <3>3, <1>1 DEF Flow
      <4>6. Flow(f)'
        BY <3>1, <3>2, <3>3, <4>3, <4>4, <4>5, <2>1, <1>1, <1>6 DEF Flow, Failed
      <4> QED BY <4>1, <4>6
    <3>4. CASE f # File
      <4>1. Holders(f)'
        BY <3>1, <3>2, <3>4, <1>1, <1>3, <1>6 DEF Holders
      <4>2. Flow(f)'
        BY <3>1, <3>4, <2>1, <1>1, <1>3, <1>6, FlowStaysHere
      <4> QED BY <4>1, <4>2
    <3> QED BY <3>3, <3>4
  <2>5. Inherits'
    BY <1>1, <1>6, InheritsStays DEF Safe, Uses
  <2> QED BY <2>2, <2>3, <2>4, <2>5 DEF Safe
<1> QED BY <1>5, <1>6 DEF ReadBack

(* The end of file is seen when the sort has ended.                        *)
LEMMA ReadEndStep == Safe /\ ReadEnd => Safe'
<1> SUFFICES ASSUME Safe, ReadEnd
             PROVE  Safe'
  OBVIOUS
<1>1. /\ pc = "read" /\ pc' = "wait" /\ File \in Db /\ turn \in 1 .. Len(Files)
      /\ holds \in [Db -> [Ends -> SUBSET Procs]]
      /\ UNCHANGED <<turn, current, sort, cloexec, buffer, copy, opipe, lines, ipipe, tree, put, again>>
      /\ ipipe[File] = <<>> /\ holds[File]["ipipe_w"] = {}
      /\ Holders(File)
  BY FilesFacts DEF Safe, TypeOK, ReadEnd, EndOfFile, File
<1>2. ~Alive(File)
  BY <1>1 DEF Holders
<1>3. /\ holds' \in [Db -> [Ends -> SUBSET Procs]]
      /\ \A f \in Db, x \in Ends :
           holds'[f][x] = IF f \in {File} /\ x \in {"ipipe_r"} THEN holds[f][x] \ {Gtags} ELSE holds[f][x]
  BY <1>1 DEF ReadEnd, Close
<1>4. TypeOK'
  BY <1>1, <1>3 DEF Safe, TypeOK
<1>5. Started'
  BY <1>1 DEF Safe, Started, Opening, Uses, File
<1>7. Inherits'
  BY <1>1, <1>3, FilesFacts, InheritsStays DEF Safe, Uses, Ends
<1>6. ASSUME NEW f \in Db
      PROVE  Holders(f)' /\ Flow(f)'
  <2>1. Holders(f) /\ Flow(f)
    BY DEF Safe
  <2>2. Holders(f)'
    BY <2>1, <1>1, <1>2, <1>3 DEF Holders, Alive, Uses, Closing, Past, Ends, File
  <2>3. Flow(f)'
    BY <2>1, <1>1, FlowStays DEF Filling
  <2> QED BY <2>2, <2>3
<1> QED BY <1>4, <1>5, <1>6, <1>7 DEF Safe

LEMMA WaitStep == Safe /\ Wait => Safe'
<1> SUFFICES ASSUME Safe, Wait
             PROVE  Safe'
  OBVIOUS
<1>1. pc = "wait" /\ File \in Db
  BY FilesFacts DEF Safe, TypeOK, Wait, File
<1>2. ~Alive(File) /\ ipipe[File] = <<>>
  BY <1>1 DEF Safe, Holders
<1> QED BY <1>1, <1>2, CloseNextStep DEF Wait

LEMMA StutterStep == Safe /\ UNCHANGED vars => Safe'
<1> SUFFICES ASSUME Safe, UNCHANGED vars
             PROVE  Safe'
  OBVIOUS
<1>1. UNCHANGED <<pc, turn, current, sort, holds, cloexec, buffer, copy, opipe, lines, ipipe, tree, put, again>>
  BY DEF vars
<1>2. TypeOK'
  BY <1>1 DEF Safe, TypeOK
<1>3. Started'
  BY <1>1, StartedStays DEF Safe
<1>4. ASSUME NEW f \in Db
      PROVE  Holders(f)' /\ Flow(f)'
  <2>1. Holders(f) /\ Flow(f)
    BY DEF Safe
  <2>2. Flow(f)'
    BY <2>1, <1>1, FlowStaysHere
  <2> QED BY <2>1, <2>2, <1>1 DEF Holders, Alive, Uses, Closing, Past, File
<1>5. Inherits'
  BY <1>1, InheritsStays DEF Safe, Uses
<1> QED BY <1>2, <1>3, <1>4, <1>5 DEF Safe

LEMMA NextKeepsSafe == Safe /\ [Next]_vars => Safe'
<1> SUFFICES ASSUME Safe, [Next]_vars
             PROVE  Safe'
  OBVIOUS
<1>1. CASE GtagsStep
  BY <1>1, NoSortStep, ForkStep, AfterForkStep, OpenAnotherStep, FlushStep, StartClosingStep, FcloseStep, ReadBackStep,
     ReadEndStep, WaitStep, PutStep DEF GtagsStep
<1>2. ASSUME NEW f \in Db, SortStep(f) \/ ExecFails(f) \/ SortFails(f)
      PROVE  Safe'
  BY <1>2, ExecStep, ExecFailsStep, ReadLineStep, EndOfInputStep, WriteLineStep, WriteCopyStep, SortExitsStep,
     DiesStep, SortFailsStep DEF SortStep
<1>3. CASE UNCHANGED vars
  BY <1>3, StutterStep
<1> QED BY <1>1, <1>2, <1>3 DEF Next

LEMMA SafeInvariant == Spec => []Safe
<1>1. Init => Safe
  BY SafeInitially
<1>2. Safe /\ [Next]_vars => Safe'
  BY NextKeepsSafe
<1> QED BY <1>1, <1>2, PTL DEF Spec

-----------------------------------------------------------------------------
(* The buffers and pipes never hold more than their sizes, and what sort   *)
(* reads are records: only what comes back may be a line that was cut      *)
(* (dbop_put, dbop_close).                                                 *)
THEOREM TypeInvariant == Spec => []TypeOK
<1>1. Safe => TypeOK
  BY DEF Safe
<1> QED BY <1>1, SafeInvariant, PTL

(* A tag file that dbop_close() has closed holds every record put into it, *)
(* as often as it was put or written again by a child that could not       *)
(* execute sort, and in the order of the keys, when its own sort process   *)
(* did its work, whatever happened to those of the other files.            *)
THEOREM CompleteUnlessFailed == Spec => []CompleteIfSorted
<1>1. ASSUME Safe, NEW f \in Db, IsClosed(f), sort[f] \notin {"failed", "unexecuted"}
      PROVE  HasAll(f)
  <2>1. /\ Holders(f) /\ Flow(f)
        /\ tree[f] \in Seq(Lines) /\ put[f] \in Seq(Keys)
        /\ sort \in [Db -> SortStates]
    BY <1>1 DEF Safe, TypeOK
  <2>2. pc # "killed" /\ (pc = "done" \/ (Closing /\ Past(f)))
    BY <1>1 DEF IsClosed, Closing, Past
  <2>3. ~Alive(f) /\ ipipe[f] = <<>> /\ sort[f] # "none"
    BY <2>1, <2>2, <1>1 DEF Holders, Safe, Started, Closing
  <2>4. sort[f] \in {"absent", "exited"}
    BY <2>1, <2>3, <1>1 DEF Alive, SortStates
  <2>5. CASE sort[f] = "absent"
    <3>1. tree[f] = put[f] /\ again[f] = <<>>
      BY <2>1, <2>5 DEF Flow, Uses
    <3>2. ASSUME NEW k
          PROVE  Count(tree[f], k) = Expected(f, k)
      <4>1. {i \in DOMAIN <<>> : <<>>[i] = k} = {}
        OBVIOUS
      <4>2. Count(<<>>, k) = 0
        BY <4>1, FS_EmptySet DEF Count
      <4>3. Count(put[f], k) \in Nat
        BY <2>1, CountIsFinite
      <4> QED BY <3>1, <4>2, <4>3 DEF Expected
    <3>3. \A i \in DOMAIN tree[f] : tree[f][i] # Cut
      BY <3>1, <2>1, KeysFacts, ElementOfSeq, LenProperties
    <3> QED BY <3>2, <3>3, <2>5 DEF HasAll
  <2>6. CASE sort[f] = "exited"
    <3>1. Sorted(Coming(f), f) /\ lines[f] = <<>>
      BY <2>1, <2>2, <2>6 DEF Flow
    <3>2. Coming(f) = tree[f]
      BY <3>1, <2>1, <2>3, ConcatEmptySeq DEF Coming
    <3>3. \A i \in DOMAIN tree[f] : tree[f][i] # Cut
      BY <3>1, <3>2, KeysFacts, ElementOfSeq, LenProperties DEF Sorted
    <3> QED BY <3>1, <3>2, <3>3 DEF HasAll, Sorted, IsAll
  <2> QED BY <2>4, <2>5, <2>6
<1>2. Safe => CompleteIfSorted
  BY <1>1 DEF CompleteIfSorted
<1> QED BY <1>2, SafeInvariant, PTL

(* Whatever fails, the tree holds no record more often than it was put,    *)
(* but for those that a child wrote again that could not execute the sort  *)
(* of another file; what was read back is in the order of the keys, and    *)
(* only the last line of it can be one whose end was never written         *)
(* (start_sort_process, dbop_close).                                       *)
THEOREM NothingIsInvented == Spec => []NothingInvented
<1>1. ASSUME Safe, NEW f \in Db
      PROVE  /\ \A k \in Keys : Count(tree[f], k) <= Expected(f, k)
             /\ \A i \in 1 .. Len(tree[f]) : tree[f][i] = Cut => i = Len(tree[f])
             /\ sort[f] # "absent" =>
                  \A i, j \in 1 .. Len(tree[f]) : i < j /\ tree[f][j] # Cut => tree[f][i] <= tree[f][j]
  <2>1. /\ Flow(f)
        /\ tree[f] \in Seq(Lines) /\ put[f] \in Seq(Keys) /\ again[f] \in Seq(Keys)
    BY <1>1 DEF Safe, TypeOK
  <2>2. CASE sort[f] = "absent"
    <3>1. tree[f] = put[f]
      BY <2>1, <2>2 DEF Flow, Uses
    <3>2. \A k : Count(put[f], k) <= Expected(f, k)
      <4>1. \A k : Count(put[f], k) \in Nat /\ Count(again[f], k) \in Nat
        BY <2>1, CountIsFinite
      <4> QED BY <4>1 DEF Expected
    <3>3. \A i \in 1 .. Len(put[f]) : put[f][i] \in Keys
      BY <2>1, ElementOfSeq
    <3> QED BY <2>2, <3>1, <3>2, <3>3, KeysFacts
  <2>3. CASE sort[f] # "absent"
    <3>1. Partial(tree[f], f)
      BY <1>1, <2>3, TreeIsPartial
    <3> QED BY <3>1, <2>1, PartialIsLess, Zenon
  <2> QED BY <2>2, <2>3
<1>2. ASSUME Safe, NEW f \in Db
      PROVE  /\ Range(again[f]) \subseteq Range(put[f])
             /\ again[f] # <<>> => \E g \in Db \ {f} : sort[g] \in {"dying", "unexecuted"}
  BY <1>2 DEF Safe, Inherits, Copied
<1>3. Safe => NothingInvented
  BY <1>1, <1>2 DEF NothingInvented
<1> QED BY <1>3, SafeInvariant, PTL
=============================================================================
