--------------------------- MODULE Session_proofs ---------------------------
(***************************************************************************)
(* Session implements FilePlaces, for any number of processes, files and   *)
(* places, and for every size of the session file.                         *)
(***************************************************************************)
EXTENDS Session, FunctionTheorems, FiniteSetTheorems, SequenceTheorems, WellFoundedInduction, TLAPS

(* What an entry says of its file.                                         *)
Known == [place : Places, permanent : BOOLEAN]
What(x) == [place |-> x.place, permanent |-> x.permanent]

LEMMA WhatIsKnown ==
  ASSUME NEW x \in Entry
  PROVE  x.file \in Files /\ What(x) \in Known /\ What(x) # None
BY NoneAssumption DEF Entry, What, Known

LEMMA UnmarkedEntry ==
  ASSUME NEW x \in Entry
  PROVE  /\ [x EXCEPT !.permanent = FALSE] \in Entry
         /\ [x EXCEPT !.permanent = FALSE].file = x.file
         /\ What([x EXCEPT !.permanent = FALSE]) = [What(x) EXCEPT !.permanent = FALSE]
         /\ ~x.permanent => [What(x) EXCEPT !.permanent = FALSE] = What(x)
<1>1. [x EXCEPT !.permanent = FALSE] \in Entry
  BY DEF Entry
<1>2. /\ [x EXCEPT !.permanent = FALSE].file = x.file
      /\ [x EXCEPT !.permanent = FALSE].place = x.place
      /\ [x EXCEPT !.permanent = FALSE].permanent = FALSE
  BY DEF Entry
<1>3. [What(x) EXCEPT !.permanent = FALSE] = [place |-> x.place, permanent |-> FALSE]
  <2> DEFINE w == [What(x) EXCEPT !.permanent = FALSE]
  <2>1. What(x) \in [place : Places, permanent : BOOLEAN] /\ What(x).place = x.place
    BY DEF What, Entry
  <2>2. w \in [place : Places, permanent : BOOLEAN] /\ w.place = x.place /\ w.permanent = FALSE
    BY <2>1
  <2> HIDE DEF w
  <2>3. w = [place |-> w.place, permanent |-> w.permanent]
    BY <2>2
  <2> QED
    BY <2>2, <2>3 DEF w
<1>4. ~x.permanent => x.permanent = FALSE
  BY DEF Entry
<1> QED
  BY <1>1, <1>2, <1>3, <1>4 DEF What

-----------------------------------------------------------------------------
(* assoc                                                                   *)

LEMMA FirstIsFound ==
  ASSUME NEW s \in Seq(Entry), NEW i \in Firsts(s)
  PROVE  i \in 1 .. Len(s) /\ Has(s, s[i].file) /\ Index(s, s[i].file) = i
<1>1. i \in 1 .. Len(s) /\ Has(s, s[i].file)
  BY DEF Firsts, Has
<1>2. \A j \in Firsts(s) : s[j].file = s[i].file => j = i
  <2> SUFFICES ASSUME NEW j \in Firsts(s), s[j].file = s[i].file, j # i
               PROVE  FALSE
    OBVIOUS
  <2>1. j \in 1 .. Len(s)
    BY DEF Firsts
  <2>2. j \in 1 .. i - 1 \/ i \in 1 .. j - 1
    BY <1>1, <2>1
  <2> QED
    BY <2>2 DEF Firsts
<1>3. Index(s, s[i].file) \in Firsts(s) /\ s[Index(s, s[i].file)].file = s[i].file
  BY DEF Index
<1> QED
  BY <1>1, <1>2, <1>3

LEMMA IndexIsFirst ==
  ASSUME NEW s \in Seq(Entry), NEW f, Has(s, f)
  PROVE  /\ Index(s, f) \in Firsts(s)
         /\ Index(s, f) \in 1 .. Len(s)
         /\ s[Index(s, f)].file = f
<1> DEFINE Of   == {i \in 1 .. Len(s) : s[i].file = f}
           Less == {ss \in Nat \X Nat : ss[1] < ss[2]}
<1>1. Of # {} /\ Of \subseteq Nat
  BY DEF Has
<1>2. PICK j \in Of : \A k \in Of : ~(<<k, j>> \in Less)
  <2>1. IsWellFoundedOn(Less, Nat)
    BY NatLessThanWellFounded DEF OpToRel
  <2> HIDE DEF Less, Of
  <2> QED BY <1>1, <2>1, WFMin
<1>3. \A k \in 1 .. j - 1 : s[k].file # f
  <2> SUFFICES ASSUME NEW k \in 1 .. j - 1, s[k].file = f
               PROVE  FALSE
    OBVIOUS
  <2>1. k \in Of /\ k \in Nat /\ j \in Nat /\ k < j
    OBVIOUS
  <2>2. <<k, j>>[1] = k /\ <<k, j>>[2] = j /\ <<k, j>> \in Nat \X Nat
    BY <2>1
  <2>3. <<k, j>> \in Less
    BY <2>1, <2>2
  <2> QED
    BY <1>2, <2>1, <2>3
<1>4. j \in Firsts(s) /\ s[j].file = f
  BY <1>3 DEF Firsts
<1>5. Index(s, f) \in Firsts(s) /\ s[Index(s, f)].file = f
  BY <1>4 DEF Index
<1> QED
  BY <1>5 DEF Firsts

(* The map of an alist is given by its first entries.                      *)
LEMMA MapTells ==
  ASSUME NEW s \in Seq(Entry), NEW f \in Files
  PROVE  /\ ~Has(s, f) => MapOf(s)[f] = None
         /\ Has(s, f) => MapOf(s)[f] = What(Assoc(s, f)) /\ Assoc(s, f) \in Entry
         /\ \A i \in Firsts(s) : s[i].file = f => MapOf(s)[f] = What(s[i])
         /\ MapOf(s)[f] = None <=> ~Has(s, f)
         /\ Marked(s, f) <=> MapOf(s)[f] # None /\ MapOf(s)[f].permanent
<1>1. ~Has(s, f) => MapOf(s)[f] = None
  BY DEF MapOf
<1>2. Has(s, f) => MapOf(s)[f] = What(Assoc(s, f)) /\ Assoc(s, f) \in Entry
  BY IndexIsFirst DEF MapOf, What, Assoc
<1>3. \A i \in Firsts(s) : s[i].file = f => MapOf(s)[f] = What(s[i])
  BY <1>2, FirstIsFound DEF Assoc
<1>4. MapOf(s)[f] = None <=> ~Has(s, f)
  BY <1>1, <1>2, WhatIsKnown
<1>5. Marked(s, f) <=> MapOf(s)[f] # None /\ MapOf(s)[f].permanent
  BY <1>2, <1>4 DEF Marked, What
<1> QED
  BY <1>1, <1>2, <1>3, <1>4, <1>5

LEMMA EmptyMap == MapOf(<<>>) = [f \in Files |-> None]
BY DEF MapOf, Has

-----------------------------------------------------------------------------
(* The operations on an alist are operations on its map.                   *)

(* setcar permanent nil                                                    *)
LEMMA UnmarkedMap ==
  ASSUME NEW s \in Seq(Entry), NEW f \in Files
  PROVE  /\ Unmarked(s, f) \in Seq(Entry)
         /\ Len(Unmarked(s, f)) = Len(s)
         /\ Has(s, f) => MapOf(Unmarked(s, f)) = [MapOf(s) EXCEPT ![f].permanent = FALSE]
         /\ ~Has(s, f) => Unmarked(s, f) = s
         /\ ~Marked(s, f) => MapOf(Unmarked(s, f)) = MapOf(s)
<1>1. CASE ~Has(s, f)
  BY <1>1 DEF Unmarked
<1>2. CASE Has(s, f)
  <2> DEFINE i == Index(s, f)
             x == [s[i] EXCEPT !.permanent = FALSE]
             t == [s EXCEPT ![i] = x]
  <2>1. /\ i \in Firsts(s) /\ i \in 1 .. Len(s) /\ s[i].file = f /\ s[i] \in Entry
        /\ Unmarked(s, f) = t
    BY <1>2, IndexIsFirst DEF Unmarked
  <2>2. x \in Entry /\ x.file = f /\ What(x) = [What(s[i]) EXCEPT !.permanent = FALSE]
    BY <2>1, UnmarkedEntry
  <2> HIDE DEF i, x
  <2>3. /\ t \in Seq(Entry) /\ Len(t) = Len(s)
        /\ \A j \in 1 .. Len(s) : t[j] = IF j = i THEN x ELSE s[j]
    BY <2>1, <2>2, ExceptSeq
  <2> HIDE DEF t
  <2>4. \A j \in 1 .. Len(s) : t[j].file = s[j].file
    BY <2>1, <2>2, <2>3
  <2>5. Firsts(t) = Firsts(s) /\ \A g \in Files : Has(t, g) <=> Has(s, g)
    <3>1. DOMAIN t = 1 .. Len(s) /\ DOMAIN s = 1 .. Len(s)
      BY <2>3
    <3>2. \A j \in 1 .. Len(s) : \A k \in 1 .. j - 1 : k \in 1 .. Len(s)
      OBVIOUS
    <3> QED
      BY <2>4, <3>1, <3>2 DEF Firsts, Has
  <2>6. ASSUME NEW g \in Files
        PROVE  MapOf(t)[g] = IF g = f THEN [MapOf(s)[g] EXCEPT !.permanent = FALSE] ELSE MapOf(s)[g]
    <3>1. CASE ~Has(s, g)
      BY <1>2, <2>3, <2>5, <3>1, MapTells
    <3>2. CASE Has(s, g)
      <4> DEFINE j == Index(s, g)
      <4>1. j \in Firsts(s) /\ j \in 1 .. Len(s) /\ s[j].file = g
        BY <3>2, IndexIsFirst
      <4>2. MapOf(s)[g] = What(s[j])
        BY <4>1, MapTells
      <4>3. MapOf(t)[g] = What(t[j])
        BY <4>1, <2>3, <2>4, <2>5, MapTells
      <4>4. g = f <=> j = i
        BY <2>1, <4>1 DEF i
      <4> QED
        BY <2>2, <2>3, <4>1, <4>2, <4>3, <4>4
    <3> QED
      BY <3>1, <3>2
  <2>7. MapOf(t) = [MapOf(s) EXCEPT ![f].permanent = FALSE]
    BY <2>6 DEF MapOf
  <2>8. ASSUME ~Marked(s, f)
        PROVE  MapOf(t) = MapOf(s)
    <3>1. MapOf(s)[f] = What(s[i]) /\ ~s[i].permanent
      BY <1>2, <2>1, <2>8, MapTells DEF Marked, Assoc, i
    <3>2. [MapOf(s)[f] EXCEPT !.permanent = FALSE] = MapOf(s)[f]
      BY <2>1, <3>1, UnmarkedEntry
    <3> QED
      BY <2>7, <3>2 DEF MapOf
  <2> QED
    BY <1>2, <2>1, <2>3, <2>7, <2>8
<1> QED
  BY <1>1, <1>2

(* setcar or push                                                          *)
LEMMA PushMap ==
  ASSUME NEW s \in Seq(Entry), NEW x \in Entry
  PROVE  /\ Push(s, x) \in Seq(Entry)
         /\ MapOf(Push(s, x)) = [MapOf(s) EXCEPT ![x.file] = What(x)]
<1> DEFINE t == Push(s, x)
<1>1. ASSUME t \in Seq(Entry), 1 \in Firsts(t), t[1] = x,
             \A g \in Files \ {x.file} : MapOf(t)[g] = MapOf(s)[g]
      PROVE  MapOf(t) = [MapOf(s) EXCEPT ![x.file] = What(x)]
  <2> HIDE DEF t
  <2>1. MapOf(t)[x.file] = What(x)
    BY <1>1, MapTells, WhatIsKnown
  <2> QED
    BY <1>1, <2>1 DEF MapOf
<1>2. CASE s # <<>> /\ Head(s).file = x.file
  <2>1. t = [s EXCEPT ![1] = x] /\ 1 \in 1 .. Len(s) /\ s[1].file = x.file
    BY <1>2 DEF Push
  <2> HIDE DEF t
  <2>2. /\ t \in Seq(Entry) /\ Len(t) = Len(s)
        /\ \A j \in 1 .. Len(s) : t[j] = IF j = 1 THEN x ELSE s[j]
    BY <2>1, ExceptSeq
  <2>3. \A j \in 1 .. Len(s) : t[j].file = s[j].file
    BY <2>1, <2>2
  <2>4. Firsts(t) = Firsts(s) /\ \A g \in Files : Has(t, g) <=> Has(s, g)
    <3>1. DOMAIN t = 1 .. Len(s) /\ DOMAIN s = 1 .. Len(s)
      BY <2>2
    <3>2. \A j \in 1 .. Len(s) : \A k \in 1 .. j - 1 : k \in 1 .. Len(s)
      OBVIOUS
    <3> QED
      BY <2>3, <3>1, <3>2 DEF Firsts, Has
  <2>5. ASSUME NEW g \in Files \ {x.file}
        PROVE  MapOf(t)[g] = MapOf(s)[g]
    <3>1. CASE ~Has(s, g)
      BY <2>2, <2>4, <3>1, MapTells
    <3>2. CASE Has(s, g)
      <4>1. PICK j \in Firsts(s) : j \in 1 .. Len(s) /\ s[j].file = g
        BY <3>2, IndexIsFirst
      <4>2. j # 1 /\ MapOf(s)[g] = What(s[j])
        BY <2>1, <4>1, MapTells
      <4>3. MapOf(t)[g] = What(t[j])
        BY <4>1, <2>2, <2>3, <2>4, MapTells
      <4> QED
        BY <2>2, <4>1, <4>2, <4>3
    <3> QED
      BY <3>1, <3>2
  <2>6. 1 \in Firsts(t)
    BY <2>1, <2>2 DEF Firsts
  <2>7. t[1] = x
    BY <2>1, <2>2
  <2> QED
    BY <1>1, <2>2, <2>5, <2>6, <2>7 DEF t
<1>3. CASE ~(s # <<>> /\ Head(s).file = x.file)
  <2>1. t = <<x>> \o s /\ <<x>> \in Seq(Entry) /\ Len(<<x>>) = 1 /\ <<x>>[1] = x
    BY <1>3 DEF Push
  <2> HIDE DEF t
  <2>2. /\ t \in Seq(Entry) /\ Len(t) = 1 + Len(s) /\ Len(s) \in Nat
        /\ \A i \in 1 .. 1 + Len(s) : t[i] = IF i <= 1 THEN <<x>>[i] ELSE s[i - 1]
    BY <2>1, ConcatProperties, LenProperties
  <2>3. t[1] = x /\ \A j \in 1 .. Len(s) : t[j + 1] = s[j]
    BY <2>1, <2>2
  <2>4. 1 \in Firsts(t)
    BY <2>2 DEF Firsts
  <2>5. ASSUME NEW g \in Files \ {x.file}
        PROVE  MapOf(t)[g] = MapOf(s)[g]
    <3>1. CASE ~Has(s, g)
      <4>1. ASSUME NEW i \in 1 .. Len(t), t[i].file = g
            PROVE  FALSE
        <5>1. i # 1 /\ i - 1 \in 1 .. Len(s) /\ t[i] = s[i - 1]
          BY <2>2, <2>3, <4>1
        <5> QED
          BY <3>1, <4>1, <5>1 DEF Has
      <4>2. ~Has(t, g)
        BY <2>2, <4>1 DEF Has
      <4> QED
        BY <2>2, <3>1, <4>2, MapTells
    <3>2. CASE Has(s, g)
      <4>1. PICK j \in Firsts(s) : j \in 1 .. Len(s) /\ s[j].file = g
        BY <3>2, IndexIsFirst
      <4>2. ASSUME NEW k \in 1 .. j
            PROVE  t[k].file # g
        <5>1. CASE k = 1
          BY <2>3, <5>1
        <5>2. CASE k # 1
          <6>1. k - 1 \in 1 .. j - 1 /\ t[k] = s[k - 1]
            BY <2>2, <4>1, <5>2
          <6> QED
            BY <4>1, <6>1 DEF Firsts
        <5> QED
          BY <5>1, <5>2
      <4>3. j + 1 \in 1 .. Len(t) /\ t[j + 1] = s[j] /\ (j + 1) - 1 = j
        BY <2>2, <2>3, <4>1
      <4>4. j + 1 \in Firsts(t)
        BY <2>2, <4>1, <4>2, <4>3 DEF Firsts
      <4> QED
        BY <2>2, <4>1, <4>3, <4>4, MapTells
    <3> QED
      BY <3>1, <3>2
  <2> QED
    BY <1>1, <2>2, <2>3, <2>4, <2>5 DEF t
<1> QED
  <2>1. t \in Seq(Entry)
    <3>1. CASE s # <<>> /\ Head(s).file = x.file
      BY <3>1, ExceptSeq DEF Push
    <3>2. CASE ~(s # <<>> /\ Head(s).file = x.file)
      <4>1. <<x>> \in Seq(Entry)
        OBVIOUS
      <4> QED
        BY <3>2, <4>1, ConcatProperties DEF Push
    <3> QED
      BY <3>1, <3>2
  <2> QED
    BY <1>2, <1>3, <2>1

(* The first entries, printed in their order.                              *)
LEMMA RanksAreOnto ==
  ASSUME NEW I \in SUBSET Nat, IsFiniteSet(I)
  PROVE  /\ Cardinality(I) \in Nat
         /\ \A i \in I : Rank(I, i) \in 1 .. Cardinality(I)
         /\ \A i, j \in I : Rank(I, i) = Rank(I, j) => i = j
         /\ \A k \in 1 .. Cardinality(I) : \E i \in I : Rank(I, i) = k
<1> DEFINE n       == Cardinality(I)
           UpTo(i) == {j \in I : j <= i}
           R       == [i \in I |-> Rank(I, i)]
<1>1. n \in Nat
  BY FS_CardinalityType
<1>2. ASSUME NEW i \in I
      PROVE  /\ IsFiniteSet(UpTo(i)) /\ Cardinality(UpTo(i)) \in Nat
             /\ Rank(I, i) = Cardinality(UpTo(i)) /\ Rank(I, i) \in 1 .. n
  <2>1. UpTo(i) \in SUBSET I
    OBVIOUS
  <2>2. IsFiniteSet(UpTo(i)) /\ Cardinality(UpTo(i)) \in Nat /\ Cardinality(UpTo(i)) <= n
    BY <2>1, FS_Subset, FS_CardinalityType
  <2>3. UpTo(i) # {}
    OBVIOUS
  <2>4. Cardinality(UpTo(i)) # 0
    BY <2>2, <2>3, FS_EmptySet
  <2> QED
    BY <1>1, <2>2, <2>4 DEF Rank
<1>3. ASSUME NEW i \in I, NEW j \in I, i < j
      PROVE  Rank(I, i) < Rank(I, j)
  <2>1. UpTo(i) \in SUBSET (UpTo(j) \ {j})
    <3> SUFFICES ASSUME NEW k \in I, k <= i
                 PROVE  k <= j /\ k # j
      OBVIOUS
    <3>1. i \in Nat /\ j \in Nat /\ k \in Nat
      OBVIOUS
    <3> QED
      BY <1>3, <3>1
  <2>2. j \in UpTo(j) /\ IsFiniteSet(UpTo(j)) /\ Cardinality(UpTo(j)) \in Nat
    BY <1>2
  <2> HIDE DEF UpTo
  <2>3. IsFiniteSet(UpTo(j) \ {j}) /\ Cardinality(UpTo(j) \ {j}) = Cardinality(UpTo(j)) - 1
    BY <2>2, FS_RemoveElement
  <2>4. Cardinality(UpTo(i)) <= Cardinality(UpTo(j)) - 1
    BY <2>1, <2>3, FS_Subset
  <2> QED
    BY <1>2, <2>4
<1>4. \A i, j \in I : Rank(I, i) = Rank(I, j) => i = j
  <2> SUFFICES ASSUME NEW i \in I, NEW j \in I, Rank(I, i) = Rank(I, j), i # j
               PROVE  FALSE
    OBVIOUS
  <2>1. i < j \/ j < i
    OBVIOUS
  <2>2. Rank(I, i) < Rank(I, j) \/ Rank(I, j) < Rank(I, i)
    BY <1>3, <2>1
  <2>3. Rank(I, i) \in Nat /\ Rank(I, j) \in Nat
    BY <1>2
  <2> QED
    BY <2>2, <2>3
<1>5. R \in Injection(I, 1 .. n)
  <2>1. R \in [I -> 1 .. n]
    BY <1>2
  <2>2. \A i, j \in I : R[i] = R[j] => i = j
    BY <1>4
  <2> HIDE DEF R
  <2> QED
    BY <2>1, <2>2 DEF Injection, IsInjective
<1>6. R \in Surjection(I, 1 .. n)
  <2>1. IsFiniteSet(1 .. n) /\ Cardinality(1 .. n) = n
    BY <1>1, FS_Interval
  <2> QED
    BY <1>5, <2>1, FS_Injection
<1>7. \A k \in 1 .. n : \E i \in I : Rank(I, i) = k
  BY <1>6 DEF Surjection
<1> QED
  BY <1>1, <1>2, <1>4, <1>7

(* A file with an entry has one first entry.                               *)
FilesOf(s) == {f \in Files : MapOf(s)[f] # None}

LEMMA FirstsCount ==
  ASSUME NEW s \in Seq(Entry)
  PROVE  Cardinality(Firsts(s)) \in Nat /\ Cardinality(FilesOf(s)) = Cardinality(Firsts(s))
<1> DEFINE g == [i \in Firsts(s) |-> s[i].file]
<1>1. IsFiniteSet(Firsts(s))
  <2>1. Firsts(s) \subseteq 1 .. Len(s) /\ Len(s) \in Nat
    BY LenProperties DEF Firsts
  <2>2. IsFiniteSet(1 .. Len(s))
    BY <2>1, FS_Interval
  <2> QED
    BY <2>1, <2>2, FS_Subset
<1>2. \A i \in Firsts(s) : s[i].file \in FilesOf(s) /\ Index(s, s[i].file) = i
  <2> SUFFICES ASSUME NEW i \in Firsts(s)
               PROVE  s[i].file \in FilesOf(s) /\ Index(s, s[i].file) = i
    OBVIOUS
  <2>1. i \in 1 .. Len(s) /\ Has(s, s[i].file) /\ Index(s, s[i].file) = i
    BY FirstIsFound
  <2>2. s[i].file \in Files
    BY <2>1, ElementOfSeq, WhatIsKnown
  <2> QED
    BY <2>1, <2>2, MapTells DEF FilesOf
<1>3. \A f \in FilesOf(s) : Index(s, f) \in Firsts(s) /\ s[Index(s, f)].file = f
  BY MapTells, IndexIsFirst DEF FilesOf
<1>4. g \in Bijection(Firsts(s), FilesOf(s))
  <2>1. g \in [Firsts(s) -> FilesOf(s)]
    BY <1>2
  <2>2. \A i, j \in Firsts(s) : g[i] = g[j] => i = j
    BY <1>2
  <2>3. \A f \in FilesOf(s) : \E i \in Firsts(s) : g[i] = f
    BY <1>3
  <2> HIDE DEF g
  <2> QED
    BY <2>1, <2>2, <2>3, Fun_IsBij
<1> QED
  BY <1>1, <1>4, FS_Bijection, FS_CardinalityType DEF ExistsBijection

LEMMA PrintedMap ==
  ASSUME NEW s \in Seq(Entry)
  PROVE  /\ Printed(s) \in Seq(Entry)
         /\ \/ MapOf(Printed(s)) = MapOf(s)
            \/ MapOf(Printed(s)) = MapOf(<<>>) /\ Cardinality(FilesOf(s)) >= MaxSize
<1>1. CASE ~Exhausted(s)
  <2>1. Cardinality(Firsts(s)) \in Nat /\ Cardinality(FilesOf(s)) = Cardinality(Firsts(s))
    BY FirstsCount
  <2> QED
    BY <1>1, <2>1, SizeAssumption DEF Printed, Exhausted
<1>2. CASE Exhausted(s)
  <2> DEFINE I      == Firsts(s)
             n      == Cardinality(I)
             pos(k) == CHOOSE i \in I : Rank(I, i) = k
             t      == [k \in 1 .. n |-> s[pos(k)]]
  <2>1. I \in SUBSET (1 .. Len(s)) /\ Len(s) \in Nat
    BY LenProperties DEF Firsts
  <2>2. I \in SUBSET Nat /\ IsFiniteSet(I)
    <3>1. IsFiniteSet(1 .. Len(s))
      BY <2>1, FS_Interval
    <3> QED
      BY <2>1, <3>1, FS_Subset
  <2> HIDE DEF I
  <2>3. /\ n \in Nat
        /\ \A i \in I : Rank(I, i) \in 1 .. n
        /\ \A k \in 1 .. n : pos(k) \in I /\ Rank(I, pos(k)) = k
        /\ \A i \in I : pos(Rank(I, i)) = i
    BY <2>2, RanksAreOnto
  <2> HIDE DEF n, pos
  <2>4. /\ t \in Seq(Entry) /\ Len(t) = n
        /\ \A k \in 1 .. n : t[k] = s[pos(k)] /\ pos(k) \in 1 .. Len(s)
    <3>1. \A k \in 1 .. n : pos(k) \in 1 .. Len(s) /\ s[pos(k)] \in Entry
      <4> SUFFICES ASSUME NEW k \in 1 .. n
                   PROVE  pos(k) \in 1 .. Len(s) /\ s[pos(k)] \in Entry
        OBVIOUS
      <4>1. pos(k) \in 1 .. Len(s)
        BY <2>1, <2>3
      <4> QED
        BY <4>1, ElementOfSeq
    <3>2. t \in [1 .. n -> Entry]
      BY <3>1
    <3> QED
      BY <2>3, <3>1, <3>2
  <2>5. Printed(s) = t
    BY <1>2 DEF Printed, InOrder, I, n, pos
  <2> HIDE DEF t
  <2>6. ASSUME NEW k \in 1 .. n, NEW m \in 1 .. n, t[k].file = t[m].file
        PROVE  k = m
    <3>1. pos(k) = pos(m)
      BY <2>3, <2>4, <2>6, FirstIsFound DEF I
    <3> QED
      BY <2>3, <3>1
  <2>7. \A k \in 1 .. n : k \in Firsts(t)
    <3> SUFFICES ASSUME NEW k \in 1 .. n, NEW m \in 1 .. k - 1, t[m].file = t[k].file
                 PROVE  FALSE
      BY <2>4 DEF Firsts
    <3>1. m \in 1 .. n /\ m # k
      BY <2>3
    <3> QED
      BY <2>6, <3>1
  <2>8. ASSUME NEW g \in Files
        PROVE  MapOf(t)[g] = MapOf(s)[g]
    <3>1. CASE Has(s, g)
      <4> DEFINE i == Index(s, g)
      <4>1. i \in I /\ s[i].file = g
        BY <3>1, IndexIsFirst DEF I
      <4> HIDE DEF i
      <4>2. Rank(I, i) \in 1 .. n /\ t[Rank(I, i)] = s[i]
        BY <2>3, <2>4, <4>1
      <4>3. MapOf(t)[g] = What(s[i])
        BY <2>4, <2>7, <4>1, <4>2, MapTells
      <4> QED
        BY <4>1, <4>3, MapTells DEF I
    <3>2. CASE ~Has(s, g)
      <4>1. ~Has(t, g)
        BY <2>4, <3>2, LenProperties DEF Has
      <4> QED
        BY <2>4, <3>2, <4>1, MapTells
    <3> QED
      BY <3>1, <3>2
  <2>9. MapOf(t) = MapOf(s)
    BY <2>8 DEF MapOf
  <2> QED
    BY <2>4, <2>5, <2>9
<1> QED
  BY <1>1, <1>2

(* What session-store-buffer-places may do to the map: nothing, take the   *)
(* mark away, or note the place with the old mark or a new one.            *)
MapAs(m, f, p, b) == [m EXCEPT ![f] = [place |-> p, permanent |-> b]]

StoresAs(s, t, f, p) ==
  \/ MapOf(t) = MapOf(s)
  \/ Marked(s, f) /\ MapOf(t) = [MapOf(s) EXCEPT ![f].permanent = FALSE]
  \/ MapOf(t) = MapAs(MapOf(s), f, p, Marked(s, f))
  \/ MapOf(t) = MapAs(MapOf(s), f, p, TRUE)

(* If the file is marked, its place is p.                                  *)
NotedIn(s, f, p) == Marked(s, f) => MapOf(s)[f].place = p

LEMMA StoredMap ==
  ASSUME NEW s \in Seq(Entry), NEW f \in Files, NEW p \in Places, NEW arg \in -2 .. 3,
         NEW passes \in BOOLEAN
  PROVE  /\ Stored(s, f, p, arg, passes) \in Seq(Entry)
         /\ StoresAs(s, Stored(s, f, p, arg, passes), f, p)
         /\ arg = 1 => NotedIn(Stored(s, f, p, arg, passes), f, p)
<1> DEFINE t == Stored(s, f, p, arg, passes)
<1>1. CASE arg < 0
  <2>1. t = Unmarked(s, f) /\ arg # 1
    BY <1>1 DEF Stored
  <2>2. Marked(s, f) => Has(s, f)
    BY DEF Marked
  <2> QED
    BY <2>1, <2>2, UnmarkedMap DEF StoresAs
<1>2. CASE arg >= 0
  <2> DEFINE b == NewMark(s, f, arg)
             x == [file |-> f, place |-> p, permanent |-> b]
  <2>1. t = s \/ t = Push(s, x)
    BY <1>2 DEF Stored
  <2>2. b \in BOOLEAN /\ (b = Marked(s, f) \/ b = TRUE)
    BY DEF NewMark, Marked
  <2>3. MapAs(MapOf(s), f, p, b) \in {MapAs(MapOf(s), f, p, Marked(s, f)), MapAs(MapOf(s), f, p, TRUE)}
    BY <2>2
  <2> HIDE DEF b
  <2>4. x \in Entry /\ x.file = f /\ What(x) = [place |-> p, permanent |-> b]
    BY <2>2 DEF Entry, What
  <2>5. Marked(s, f) /\ arg = 1 => t = Push(s, x)
    BY <1>2 DEF NewMark, b, x, Stored
  <2> HIDE DEF x, t
  <2>6. t = Push(s, x) => t \in Seq(Entry) /\ MapOf(t) = MapAs(MapOf(s), f, p, b)
    BY <2>4, PushMap DEF MapAs
  <2>7. MapAs(MapOf(s), f, p, b)[f].place = p
    BY DEF MapAs, MapOf
  <2>8. arg = 1 => NotedIn(t, f, p)
    BY <2>1, <2>5, <2>6, <2>7 DEF NotedIn
  <2> QED
    BY <2>1, <2>3, <2>6, <2>8 DEF StoresAs, t
<1> QED
  BY <1>1, <1>2

-----------------------------------------------------------------------------
(* A process that does not run has no buffers, and only places in buffers  *)
(* are stored.                                                             *)
StageInv ==
  \A e \in Emacs :
    /\ stage[e] = "off" => point[e] = Closed
    /\ stage[e] = "store" => \A f \in todo[e] : point[e][f] # 0
    /\ stage[e] = "write" => todo[e] = {}

(* While a process saves, the places of marked files are stored as far as  *)
(* it has come.                                                            *)
NotedAs(at, left, pt, s) ==
  at \in {"store", "write"} => \A f \in Files \ left : pt[f] # 0 => NotedIn(s, f, pt[f])
NotedBy(e) == NotedAs(stage[e], todo[e], point[e], alist[e])
NotedInv == \A e \in Emacs : NotedBy(e)

Inv == TypeOK /\ StageInv

LEMMA StoreTells ==
  ASSUME Inv, NEW e \in Emacs, NEW f \in Files, NEW arg \in -2 .. 3, point[e][f] # 0,
         Store(e, f, arg)
  PROVE  \E t \in Seq(Entry) :
           alist' = [alist EXCEPT ![e] = t] /\ StoresAs(alist[e], t, f, point[e][f])
<1>1. alist[e] \in Seq(Entry) /\ point[e][f] \in Places
  BY DEF Inv, TypeOK
<1>2. PICK passes \in BOOLEAN :
        alist' = [alist EXCEPT ![e] = Stored(alist[e], f, point[e][f], arg, passes)]
  BY DEF Store
<1> QED
  BY <1>1, <1>2, StoredMap

LEMMA StoreKeepsType ==
  ASSUME Inv, NEW e \in Emacs, NEW f \in Files, NEW arg \in -2 .. 3, point[e][f] # 0,
         Store(e, f, arg)
  PROVE  alist' \in [Emacs -> Seq(Entry)]
<1>1. alist \in [Emacs -> Seq(Entry)]
  BY DEF Inv, TypeOK
<1>2. PICK t \in Seq(Entry) : alist' = [alist EXCEPT ![e] = t]
  BY StoreTells
<1> QED
  BY <1>1, <1>2

LEMMA EmptyAlist == <<>> \in Seq(Entry)
OBVIOUS

LEMMA InitInv == Init => Inv
<1> SUFFICES ASSUME Init PROVE Inv
  OBVIOUS
<1>1. StageInv
  BY DEF Init, StageInv, Closed
<1>2. /\ stage \in [Emacs -> {"off", "on", "store", "write"}]
      /\ after \in [Emacs -> {"off", "on"}]
      /\ alist \in [Emacs -> Seq(Entry)]
      /\ loaded \in [Emacs -> BOOLEAN]
      /\ todo \in [Emacs -> SUBSET Files]
  BY EmptyAlist DEF Init
<1>3. /\ disk \in [status : {"absent", "whole", "cut"}, alist : Seq(Entry)]
      /\ failed \in BOOLEAN
  BY EmptyAlist DEF Init
<1>4. point \in [Emacs -> [Files -> Places \cup {0}]]
  BY DEF Init, Closed
<1> QED
  BY <1>1, <1>2, <1>3, <1>4 DEF Inv, TypeOK

LEMMA FinishInv ==
  ASSUME Inv, NEW e \in Emacs, NEW next \in {"on", "off"}, Finish(e, next),
         disk' \in [status : {"absent", "whole", "cut"}, alist : Seq(Entry)], failed' \in BOOLEAN
  PROVE  Inv'
<1>1. /\ stage' = [stage EXCEPT ![e] = next]
      /\ todo' = [todo EXCEPT ![e] = {}]
      /\ UNCHANGED <<after, loaded>> /\ {} \subseteq Files
  BY DEF Finish
<1>2. CASE next = "off"
  <2>1. alist' = [alist EXCEPT ![e] = <<>>] /\ point' = [point EXCEPT ![e] = Closed]
    BY <1>2 DEF Finish
  <2> QED
    BY <1>1, <1>2, <2>1, EmptyAlist DEF Inv, TypeOK, StageInv, Closed
<1>3. CASE next = "on"
  <2>1. UNCHANGED <<alist, point>>
    BY <1>3 DEF Finish
  <2> QED
    BY <1>1, <1>3, <2>1 DEF Inv, TypeOK, StageInv
<1> QED
  BY <1>2, <1>3

LEMMA StepInv ==
  ASSUME Inv, [Next]_vars
  PROVE  Inv'
<1>1. CASE UNCHANGED vars
  BY <1>1 DEF vars, Inv, TypeOK, StageInv
<1>2. ASSUME NEW e \in Emacs, NEW f \in Files, OfBuffer(e, f)
      PROVE  Inv'
  <2>1. CASE VisitFile(e, f)
    <3>1. Restored(e, f) \in Places
      BY PlacesAssumption, MapTells DEF Restored, Inv, TypeOK, Entry
    <3> QED
      BY <2>1, <3>1 DEF VisitFile, Inv, TypeOK, StageInv
  <2>2. CASE FileNotFound(e, f)
    <3>1. Unmarked(alist[e], f) \in Seq(Entry)
      BY UnmarkedMap DEF Inv, TypeOK
    <3>2. alist' \in [Emacs -> Seq(Entry)]
      BY <2>2, <3>1 DEF FileNotFound, Inv, TypeOK
    <3>3. point' = [point EXCEPT ![e][f] = 1] /\ stage[e] = "on"
      BY <2>2 DEF FileNotFound
    <3>4. point' \in [Emacs -> [Files -> Places \cup {0}]]
      BY <3>3, PlacesAssumption DEF Inv, TypeOK
    <3> QED
      BY <2>2, <3>2, <3>3, <3>4 DEF FileNotFound, Inv, TypeOK, StageInv
  <2>3. ASSUME NEW p \in Places, Move(e, f, p) PROVE Inv'
    BY <2>3, PlacesAssumption DEF Move, Inv, TypeOK, StageInv
  <2>4. ASSUME NEW arg \in -2 .. 3, KillBuffer(e, f, arg) PROVE Inv'
    <3>1. CASE arg > -2
      <4>1. Store(e, f, arg) /\ point[e][f] # 0
        BY <2>4, <3>1 DEF KillBuffer
      <4>2. alist' \in [Emacs -> Seq(Entry)]
        BY <4>1, StoreKeepsType
      <4> QED
        BY <2>4, <4>2 DEF KillBuffer, Inv, TypeOK, StageInv
    <3>2. CASE ~(arg > -2)
      BY <2>4, <3>2 DEF KillBuffer, Inv, TypeOK, StageInv
    <3> QED
      BY <3>1, <3>2
  <2>5. ASSUME NEW on \in BOOLEAN, Toggle(e, f, on) PROVE Inv'
    <3>1. Store(e, f, IF on THEN 3 ELSE -1) /\ point[e][f] # 0
      BY <2>5 DEF Toggle
    <3>2. (IF on THEN 3 ELSE -1) \in -2 .. 3
      OBVIOUS
    <3>3. alist' \in [Emacs -> Seq(Entry)]
      BY <3>1, <3>2, StoreKeepsType
    <3> QED
      BY <2>5, <3>3 DEF Toggle, Inv, TypeOK, StageInv
  <2>6. CASE Recompute(e, f)
    <3>1. Store(e, f, 1) /\ point[e][f] # 0
      BY <2>6 DEF Recompute
    <3>2. (1) \in -2 .. 3
      OBVIOUS
    <3>3. alist' \in [Emacs -> Seq(Entry)]
      BY <3>1, <3>2, StoreKeepsType
    <3> QED
      BY <2>6, <3>3 DEF Recompute, Inv, TypeOK, StageInv
  <2>7. CASE StoreLive(e, f)
    <3>1. Store(e, f, 1) /\ point[e][f] # 0 /\ 1 \in -2 .. 3
      BY <2>7 DEF StoreLive, Inv, StageInv
    <3>2. alist' \in [Emacs -> Seq(Entry)]
      BY <3>1, StoreKeepsType
    <3> QED
      BY <2>7, <3>2 DEF StoreLive, Inv, TypeOK, StageInv
  <2> QED
    BY <1>2, <2>1, <2>2, <2>3, <2>4, <2>5, <2>6, <2>7 DEF OfBuffer
<1>3. ASSUME NEW e \in Emacs, OfSession(e)
      PROVE  Inv'
  <2>1. Printed(alist[e]) \in Seq(Entry)
    BY PrintedMap DEF Inv, TypeOK
  <2>2. CASE Start(e)
    BY <2>2 DEF Start, Inv, TypeOK, StageInv
  <2>3. CASE DeleteFile(e)
    BY <2>3, EmptyAlist DEF DeleteFile, Inv, TypeOK, StageInv
  <2>4. CASE WriteFile(e)
    <3>1. after[e] \in {"on", "off"}
      BY DEF Inv, TypeOK
    <3> QED
      BY <2>1, <2>4, <3>1, FinishInv DEF WriteFile
  <2>5. CASE Quit(e)
    BY <2>5, FinishInv DEF Quit, Inv, TypeOK
  <2>6. ASSUME NEW next \in {"on", "off"}, WriteFails(e, next) PROVE Inv'
    <3>1. disk' \in [status : {"absent", "whole", "cut"}, alist : Seq(Entry)]
      BY <2>1, <2>6, EmptyAlist DEF WriteFails, Inv, TypeOK
    <3>2. failed' \in BOOLEAN
      BY <2>6 DEF WriteFails, Inv, TypeOK
    <3> QED
      BY <2>6, <3>1, <3>2, FinishInv DEF WriteFails
  <2>7. ASSUME NEW next \in {"on", "off"}, NEW agreed \in BOOLEAN, BeginSave(e, next, agreed)
        PROVE  Inv'
    BY <2>7 DEF BeginSave, Live, Inv, TypeOK, StageInv
  <2> QED
    BY <1>3, <2>2, <2>3, <2>4, <2>5, <2>6, <2>7 DEF OfSession
<1> QED
  BY <1>1, <1>2, <1>3 DEF Next

(* Through any sessions every variable keeps its kind; an entry of the     *)
(* alist always has a place of a buffer (session-store-buffer-places).     *)
THEOREM TypeInvariant == Spec => []TypeOK
<1>1. Inv => TypeOK
  BY DEF Inv
<1> QED
  BY <1>1, InitInv, StepInv, PTL DEF Spec

-----------------------------------------------------------------------------
LEMMA OnlyOfOne ==
  ASSUME NotedInv, NEW e \in Emacs, NotedBy(e)',
         \A d \in Emacs \ {e} : /\ stage'[d] = stage[d] /\ todo'[d] = todo[d]
                                /\ point'[d] = point[d] /\ alist'[d] = alist[d]
  PROVE  NotedInv'
BY DEF NotedInv, NotedBy

LEMMA FinishNoted ==
  ASSUME Inv, NotedInv, NEW e \in Emacs, NEW next \in {"on", "off"}, Finish(e, next)
  PROVE  NotedInv'
<1>1. stage'[e] = next /\ \A d \in Emacs \ {e} : stage'[d] = stage[d] /\ todo'[d] = todo[d]
  BY DEF Finish, Inv, TypeOK
<1>2. \A d \in Emacs \ {e} : point'[d] = point[d] /\ alist'[d] = alist[d]
  BY DEF Finish, Inv, TypeOK
<1> QED
  BY <1>1, <1>2, OnlyOfOne DEF NotedBy, NotedAs

LEMMA StoreLiveNoted ==
  ASSUME Inv, NotedInv, NEW e \in Emacs, NEW f \in Files, StoreLive(e, f)
  PROVE  NotedInv'
<1>1. /\ stage[e] = "store" /\ f \in todo[e] /\ point[e][f] # 0 /\ alist[e] \in Seq(Entry)
      /\ UNCHANGED <<stage, point>> /\ todo' = [todo EXCEPT ![e] = @ \ {f}]
      /\ point[e][f] \in Places /\ 1 \in -2 .. 3
  BY DEF StoreLive, Inv, StageInv, TypeOK
<1>2. PICK passes \in BOOLEAN :
        alist' = [alist EXCEPT ![e] = Stored(alist[e], f, point[e][f], 1, passes)]
  BY DEF StoreLive, Store
<1> DEFINE t == Stored(alist[e], f, point[e][f], 1, passes)
<1>3. t \in Seq(Entry) /\ StoresAs(alist[e], t, f, point[e][f]) /\ NotedIn(t, f, point[e][f])
  BY <1>1, StoredMap
<1>4. alist'[e] = t /\ todo'[e] = todo[e] \ {f}
  BY <1>1, <1>2 DEF Inv, TypeOK
<1> HIDE DEF t
<1>5. ASSUME NEW g \in Files \ todo'[e], point[e][g] # 0
      PROVE  NotedIn(t, g, point[e][g])
  <2>1. CASE g = f
    BY <1>3, <2>1
  <2>2. CASE g # f
    <3>1. NotedIn(alist[e], g, point[e][g])
      BY <1>1, <1>4, <1>5, <2>2 DEF NotedInv, NotedBy, NotedAs
    <3>2. MapOf(t)[g] = MapOf(alist[e])[g]
      BY <1>3, <2>2 DEF StoresAs, MapAs, MapOf
    <3> QED
      BY <1>1, <1>3, <3>1, <3>2, MapTells DEF NotedIn
  <2> QED
    BY <2>1, <2>2
<1>6. NotedBy(e)'
  BY <1>1, <1>4, <1>5 DEF NotedBy, NotedAs
<1>7. \A d \in Emacs \ {e} : /\ stage'[d] = stage[d] /\ todo'[d] = todo[d]
                              /\ point'[d] = point[d] /\ alist'[d] = alist[d]
  BY <1>1, <1>2 DEF Inv, TypeOK
<1> QED
  BY <1>6, <1>7, OnlyOfOne

(* What changes a buffer outside of a save does not touch what is saved.   *)
LEMMA UserNoted ==
  ASSUME Inv, NotedInv, NEW e \in Emacs, stage[e] = "on", UNCHANGED <<stage, todo>>,
         NEW f \in Files, NEW p, NEW t,
         UNCHANGED point \/ point' = [point EXCEPT ![e][f] = p],
         UNCHANGED alist \/ alist' = [alist EXCEPT ![e] = t]
  PROVE  NotedInv'
<1>1. NotedBy(e)'
  BY DEF NotedBy, NotedAs
<1>2. \A d \in Emacs \ {e} : /\ stage'[d] = stage[d] /\ todo'[d] = todo[d]
                              /\ point'[d] = point[d] /\ alist'[d] = alist[d]
  BY DEF Inv, TypeOK
<1> QED
  BY <1>1, <1>2, OnlyOfOne

LEMMA NotedStep ==
  ASSUME Inv, NotedInv, [Next]_vars
  PROVE  NotedInv'
<1>1. CASE UNCHANGED vars
  BY <1>1 DEF vars, NotedInv, NotedBy
<1>2. ASSUME NEW e \in Emacs, NEW f \in Files, OfBuffer(e, f)
      PROVE  NotedInv'
  <2>1. CASE StoreLive(e, f)
    BY <2>1, StoreLiveNoted
  <2>2. CASE VisitFile(e, f)
    BY <2>2, UserNoted DEF VisitFile
  <2>3. CASE FileNotFound(e, f)
    BY <2>3, UserNoted DEF FileNotFound
  <2>4. CASE \E p \in Places : Move(e, f, p)
    BY <2>4, UserNoted DEF Move
  <2>5. ASSUME NEW arg \in -2 .. 3, KillBuffer(e, f, arg)
        PROVE  NotedInv'
    <3>1. \E t : UNCHANGED alist \/ alist' = [alist EXCEPT ![e] = t]
      BY <2>5 DEF KillBuffer, Store
    <3> QED
      BY <2>5, <3>1, UserNoted DEF KillBuffer
  <2>6. CASE Recompute(e, f)
    <3>1. \E t : alist' = [alist EXCEPT ![e] = t]
      BY <2>6 DEF Recompute, Store
    <3> QED
      BY <2>6, <3>1, UserNoted DEF Recompute
  <2>7. ASSUME NEW on \in BOOLEAN, Toggle(e, f, on)
        PROVE  NotedInv'
    <3>1. \E t : alist' = [alist EXCEPT ![e] = t]
      BY <2>7 DEF Toggle, Store
    <3> QED
      BY <2>7, <3>1, UserNoted DEF Toggle
  <2> QED
    BY <1>2, <2>1, <2>2, <2>3, <2>4, <2>5, <2>6, <2>7 DEF OfBuffer
<1>3. ASSUME NEW e \in Emacs, OfSession(e)
      PROVE  NotedInv'
  <2>1. CASE Start(e)
    <3>1. stage'[e] = "on"
      BY <2>1 DEF Start, Inv, TypeOK
    <3>2. \A d \in Emacs \ {e} : /\ stage'[d] = stage[d] /\ todo'[d] = todo[d]
                                  /\ point'[d] = point[d] /\ alist'[d] = alist[d]
      BY <2>1 DEF Start, Inv, TypeOK
    <3> QED
      BY <3>1, <3>2, OnlyOfOne DEF NotedBy, NotedAs
  <2>2. CASE DeleteFile(e)
    <3>1. stage[e] = "store" /\ UNCHANGED <<alist, point, todo>>
      BY <2>2 DEF DeleteFile
    <3>2. \A d \in Emacs \ {e} : stage'[d] = stage[d]
      BY <2>2 DEF DeleteFile, Inv, TypeOK
    <3>4. stage'[e] = "write"
      BY <2>2 DEF DeleteFile, Inv, TypeOK
    <3>3. NotedBy(e)'
      BY <3>1, <3>4 DEF NotedInv, NotedBy, NotedAs
    <3> QED
      BY <3>1, <3>2, <3>3, OnlyOfOne
  <2>3. CASE WriteFile(e)
    BY <2>3, FinishNoted DEF WriteFile, Inv, TypeOK
  <2>4. CASE Quit(e)
    BY <2>4, FinishNoted DEF Quit
  <2>5. CASE \E next \in {"on", "off"} : WriteFails(e, next)
    BY <2>5, FinishNoted DEF WriteFails
  <2>6. ASSUME NEW next \in {"on", "off"}, NEW agreed \in BOOLEAN, BeginSave(e, next, agreed)
        PROVE  NotedInv'
    <3>1. todo'[e] = Live(e) /\ UNCHANGED <<alist, point>>
      BY <2>6 DEF BeginSave, Inv, TypeOK
    <3>2. \A d \in Emacs \ {e} : stage'[d] = stage[d] /\ todo'[d] = todo[d]
      BY <2>6 DEF BeginSave, Inv, TypeOK
    <3>3. NotedBy(e)'
      BY <3>1 DEF NotedBy, NotedAs, Live
    <3> QED
      BY <3>1, <3>2, <3>3, OnlyOfOne
  <2> QED
    BY <1>3, <2>1, <2>2, <2>3, <2>4, <2>5, <2>6 DEF OfSession
<1> QED
  BY <1>1, <1>2, <1>3 DEF Next

LEMMA InitNoted == Init => NotedInv
BY DEF Init, NotedInv, NotedBy, NotedAs

-----------------------------------------------------------------------------
(* The refinement mapping.                                                 *)
R == {e \in Emacs : stage[e] = "write"}
K == [e \in Emacs |-> MapOf(alist[e])]
S == MapOf(disk.alist)

LEMMA KnownChanges ==
  ASSUME Inv, NEW e \in Emacs, NEW t, alist' = [alist EXCEPT ![e] = t]
  PROVE  K' = [K EXCEPT ![e] = MapOf(t)]
BY DEF K, Inv, TypeOK

LEMMA KnownTells ==
  ASSUME Inv, NEW e \in Emacs, NEW f \in Files
  PROVE  /\ K[e] = MapOf(alist[e])
         /\ Promise!Marked(e, f) <=> Marked(alist[e], f)
         /\ Promise!PlaceOf(e, f) = Restored(e, f)
<1>1. alist[e] \in Seq(Entry) /\ K[e] = MapOf(alist[e])
  BY DEF K, Inv, TypeOK
<1>2. Promise!Marked(e, f) <=> Marked(alist[e], f)
  BY <1>1, MapTells DEF Promise!Marked, K
<1>3. Promise!PlaceOf(e, f) = Restored(e, f)
  <2>1. Promise!PlaceOf(e, f) = IF MapOf(alist[e])[f] = None THEN 1 ELSE MapOf(alist[e])[f].place
    BY <1>1 DEF Promise!PlaceOf, K
  <2>2. Has(alist[e], f) => /\ MapOf(alist[e])[f] # None
                            /\ MapOf(alist[e])[f].place = Assoc(alist[e], f).place
    <3> SUFFICES ASSUME Has(alist[e], f)
                 PROVE  /\ MapOf(alist[e])[f] # None
                        /\ MapOf(alist[e])[f].place = Assoc(alist[e], f).place
      OBVIOUS
    <3>1. MapOf(alist[e])[f] = What(Assoc(alist[e], f)) /\ Assoc(alist[e], f) \in Entry
      BY <1>1, MapTells
    <3>2. What(Assoc(alist[e], f)).place = Assoc(alist[e], f).place
      BY DEF What
    <3> QED
      BY <3>1, <3>2, WhatIsKnown
  <2>3. ~Has(alist[e], f) => MapOf(alist[e])[f] = None
    BY <1>1, MapTells
  <2> QED
    BY <2>1, <2>2, <2>3 DEF Restored
<1> QED
  BY <1>1, <1>2, <1>3

LEMMA SameFile ==
  ASSUME UNCHANGED <<stage, disk, failed>>
  PROVE  UNCHANGED Promise!fileVars
BY DEF Promise!fileVars

(* A call of session-store-buffer-places is Note, Mark, Unmark or nothing. *)
LEMMA StoreSimulated ==
  ASSUME Inv, NEW e \in Emacs, NEW f \in Files, NEW arg \in -2 .. 3, point[e][f] # 0,
         Store(e, f, arg), UNCHANGED <<stage, disk, failed>>
  PROVE  \/ K' = K /\ UNCHANGED Promise!fileVars
         \/ Promise!Note(e, f)
         \/ Promise!Mark(e, f)
         \/ Promise!Unmark(e, f)
<1>1. PICK t \in Seq(Entry) :
        alist' = [alist EXCEPT ![e] = t] /\ StoresAs(alist[e], t, f, point[e][f])
  BY StoreTells
<1>2. /\ K' = [K EXCEPT ![e] = MapOf(t)] /\ K[e] = MapOf(alist[e]) /\ UNCHANGED Promise!fileVars
      /\ K \in [Emacs -> [Files -> Known \cup {None}]]
      /\ Promise!Marked(e, f) <=> Marked(alist[e], f)
  <2>1. K \in [Emacs -> [Files -> Known \cup {None}]]
    BY MapTells, WhatIsKnown DEF K, MapOf, Inv, TypeOK
  <2> QED
    BY <1>1, <2>1, SameFile, KnownChanges, KnownTells
<1>3. CASE MapOf(t) = MapOf(alist[e])
  BY <1>2, <1>3
<1>4. CASE Marked(alist[e], f) /\ MapOf(t) = [MapOf(alist[e]) EXCEPT ![f].permanent = FALSE]
  <2>1. K' = [K EXCEPT ![e][f].permanent = FALSE]
    BY <1>2, <1>4
  <2> QED
    BY <1>2, <1>4, <2>1 DEF Promise!Unmark, Promise!DropMark, K, S
<1>5. ASSUME NEW b, MapOf(t) = MapAs(MapOf(alist[e]), f, point[e][f], b)
      PROVE  K' = [K EXCEPT ![e][f] = [place |-> point[e][f], permanent |-> b]]
  BY <1>2, <1>5 DEF MapAs
<1>6. CASE MapOf(t) = MapAs(MapOf(alist[e]), f, point[e][f], TRUE)
  <2>1. K' = [K EXCEPT ![e][f] = [place |-> point[e][f], permanent |-> TRUE]]
    BY <1>5, <1>6
  <2> QED
    BY <1>2, <2>1 DEF Promise!Mark, Promise!Remember, K, S
<1>7. CASE MapOf(t) = MapAs(MapOf(alist[e]), f, point[e][f], Marked(alist[e], f))
  <2>1. K' = [K EXCEPT ![e][f] = [place |-> point[e][f], permanent |-> Marked(alist[e], f)]]
    BY <1>5, <1>7
  <2>2. Marked(alist[e], f) = Promise!Marked(e, f)
    BY <1>2 DEF Marked, Promise!Marked
  <2> QED
    BY <1>2, <2>1, <2>2 DEF Promise!Note, Promise!Remember, K, S
<1> QED
  BY <1>1, <1>3, <1>4, <1>6, <1>7 DEF StoresAs

LEMMA InitSimulated == Init => Promise!Init
BY EmptyMap DEF Init, Promise!Init, Promise!Closed, Promise!Nothing, Closed

LEMMA BufferSimulated ==
  ASSUME Inv, NEW e \in Emacs, NEW f \in Files, OfBuffer(e, f)
  PROVE  Promise!Next \/ UNCHANGED Promise!vars
<1>1. ASSUME UNCHANGED <<stage, alist, disk, failed>> PROVE K' = K /\ UNCHANGED Promise!fileVars
  BY <1>1, SameFile DEF K
<1>2. CASE VisitFile(e, f)
  <2>1. Promise!Visit(e, f)
    BY <1>1, <1>2, KnownTells DEF VisitFile, Promise!Visit, Promise!SetPoint, K, S
  <2> QED
    BY <2>1 DEF Promise!Next
<1>3. CASE FileNotFound(e, f)
  <2>1. point[e][f] = 0 /\ point' = [point EXCEPT ![e][f] = 1]
    BY <1>3 DEF FileNotFound
  <2>2. UNCHANGED Promise!fileVars
    BY <1>3, SameFile DEF FileNotFound
  <2>3. K' = K \/ Promise!DropMark(e, f)
    <3>1. CASE UNCHANGED alist
      BY <3>1 DEF K
    <3>2. CASE Marked(alist[e], f) /\ alist' = [alist EXCEPT ![e] = Unmarked(alist[e], f)]
      <4>1. /\ MapOf(Unmarked(alist[e], f)) = [MapOf(alist[e]) EXCEPT ![f].permanent = FALSE]
            /\ K[e] = MapOf(alist[e]) /\ Promise!Marked(e, f)
        BY <3>2, UnmarkedMap, KnownTells DEF Marked, Inv, TypeOK
      <4>2. K' = [K EXCEPT ![e][f].permanent = FALSE]
        <5>1. K' = [K EXCEPT ![e] = MapOf(Unmarked(alist[e], f))]
          BY <3>2, KnownChanges
        <5> QED
          BY <4>1, <5>1
      <4> QED
        BY <4>1, <4>2 DEF Promise!DropMark, K
    <3> QED
      BY <1>3, <3>1, <3>2 DEF FileNotFound
  <2>4. Promise!VisitNew(e, f)
    BY <2>1, <2>2, <2>3 DEF Promise!VisitNew, Promise!SetPoint, K, S
  <2> QED
    BY <2>4 DEF Promise!Next
<1>4. ASSUME NEW p \in Places, Move(e, f, p)
      PROVE  Promise!Next
  <2>1. Promise!Move(e, f, p)
    BY <1>1, <1>4 DEF Move, Promise!Move, Promise!SetPoint, K, S
  <2> QED
    BY <2>1 DEF Promise!Next
<1>5. ASSUME NEW arg \in -2 .. 3, KillBuffer(e, f, arg)
      PROVE  Promise!Next
  <2>1. Promise!SetPoint(e, f, 0) /\ point[e][f] # 0 /\ UNCHANGED <<stage, disk, failed>>
    BY <1>5 DEF KillBuffer, Promise!SetPoint
  <2>2. \/ K' = K /\ UNCHANGED Promise!fileVars
        \/ Promise!Note(e, f)
        \/ Promise!Mark(e, f)
        \/ Promise!Unmark(e, f)
    <3>1. CASE arg > -2
      <4>1. Store(e, f, arg)
        BY <1>5, <3>1 DEF KillBuffer
      <4> QED
        BY <2>1, <4>1, StoreSimulated
    <3>2. CASE ~(arg > -2)
      BY <1>1, <1>5, <2>1, <3>2 DEF KillBuffer
    <3> QED
      BY <3>1, <3>2
  <2>3. Promise!Forget(e, f) \/ Promise!Kill(e, f)
    BY <2>1, <2>2 DEF Promise!Forget, Promise!Kill, K, S
  <2> QED
    BY <2>3 DEF Promise!Next
<1>6. ASSUME NEW arg \in -2 .. 3, Store(e, f, arg), point[e][f] # 0, UNCHANGED <<stage, disk, failed, point>>
      PROVE  Promise!Next \/ UNCHANGED Promise!vars
  <2>1. \/ K' = K /\ UNCHANGED Promise!fileVars
        \/ Promise!Note(e, f) \/ Promise!Mark(e, f) \/ Promise!Unmark(e, f)
    BY <1>6, StoreSimulated
  <2>2. UNCHANGED Promise!vars \/ Promise!Keep(e, f)
    BY <1>6, <2>1 DEF Promise!Keep, Promise!vars, K, S
  <2> QED
    BY <2>2 DEF Promise!Next
<1>7. ASSUME NEW on \in BOOLEAN, Toggle(e, f, on)
      PROVE  Promise!Next \/ UNCHANGED Promise!vars
  <2>1. /\ Store(e, f, IF on THEN 3 ELSE -1) /\ point[e][f] # 0 /\ UNCHANGED <<stage, disk, failed, point>>
        /\ (IF on THEN 3 ELSE -1) \in -2 .. 3
    BY <1>7 DEF Toggle
  <2> QED
    BY <1>6, <2>1
<1>8. CASE Recompute(e, f)
  <2>1. Store(e, f, 1) /\ point[e][f] # 0 /\ UNCHANGED <<stage, disk, failed, point>> /\ 1 \in -2 .. 3
    BY <1>8 DEF Recompute
  <2> QED
    BY <1>6, <2>1
<1>9. CASE StoreLive(e, f)
  <2>1. Store(e, f, 1) /\ point[e][f] # 0 /\ UNCHANGED <<stage, disk, failed, point>> /\ 1 \in -2 .. 3
    BY <1>9 DEF StoreLive, Inv, StageInv
  <2> QED
    BY <1>6, <2>1
<1> QED
  BY <1>2, <1>3, <1>4, <1>5, <1>7, <1>8, <1>9 DEF OfBuffer

-----------------------------------------------------------------------------
(* The end of a save or of the session.                                    *)
LEMMA FinishSimulated ==
  ASSUME Inv, NEW e \in Emacs, NEW next \in {"on", "off"}, Finish(e, next)
  PROVE  /\ R' = R \ {e}
         /\ next = "on" => point' = point /\ K' = K
         /\ next = "off" => /\ point' = [point EXCEPT ![e] = Promise!Closed]
                           /\ K' = [K EXCEPT ![e] = Promise!Nothing]
         /\ Promise!Stay \/ Promise!Leave(e)
<1>1. R' = R \ {e}
  BY DEF R, Finish, Inv, TypeOK
<1>2. next = "on" => point' = point /\ K' = K
  BY DEF Finish, K
<1>3. ASSUME next = "off"
      PROVE  /\ point' = [point EXCEPT ![e] = Promise!Closed]
             /\ K' = [K EXCEPT ![e] = Promise!Nothing]
  <2>1. alist' = [alist EXCEPT ![e] = <<>>] /\ point' = [point EXCEPT ![e] = Closed]
    BY <1>3 DEF Finish
  <2>2. MapOf(<<>>) = Promise!Nothing /\ Closed = Promise!Closed
    BY EmptyMap DEF Promise!Nothing, Promise!Closed, Closed
  <2> QED
    BY <2>1, <2>2, KnownChanges
<1>4. Promise!Stay \/ Promise!Leave(e)
  BY <1>2, <1>3 DEF Promise!Stay, Promise!Leave, K
<1> QED
  BY <1>1, <1>2, <1>3, <1>4

(* What is written when a write comes to its end.                          *)
LEMMA WriteSimulated ==
  ASSUME Inv, NotedInv, NEW e \in Emacs, WriteFile(e)
  PROVE  Promise!Save(e)
<1>1. /\ e \in R /\ disk'.alist = Printed(alist[e]) /\ failed' = FALSE
      /\ Finish(e, after[e]) /\ after[e] \in {"on", "off"}
      /\ alist[e] \in Seq(Entry) /\ todo[e] = {}
  BY DEF WriteFile, R, Inv, TypeOK, StageInv
<1>2. K[e] = MapOf(alist[e]) /\ Promise!Nothing = MapOf(<<>>)
  BY EmptyMap DEF K, Promise!Nothing
<1>3. S' = K[e] \/ (Promise!TooMany(e) /\ S' = Promise!Nothing)
  <2>1. FilesOf(alist[e]) = {f \in Files : K[e][f] # None}
    BY <1>2 DEF FilesOf
  <2> QED
    BY <1>1, <1>2, <2>1, PrintedMap DEF S, K, Promise!TooMany, Promise!Cardinality, Cardinality
<1>4. Promise!Latest(e)
  <2> SUFFICES ASSUME NEW f \in Files, point[e][f] # 0, Promise!Marked(e, f)
               PROVE  K[e][f].place = point[e][f]
    BY DEF Promise!Latest, K
  <2>1. NotedIn(alist[e], f, point[e][f])
    BY <1>1 DEF NotedInv, NotedBy, NotedAs, R
  <2> QED
    BY <1>2, <2>1, KnownTells DEF NotedIn
<1>5. R' = R \ {e} /\ (Promise!Stay \/ Promise!Leave(e))
  BY <1>1, FinishSimulated
<1> QED
  BY <1>1, <1>3, <1>4, <1>5 DEF Promise!Save, K, S, R

LEMMA QuitSimulated ==
  ASSUME Inv, NEW e \in Emacs, Finish(e, "off"), UNCHANGED disk,
         failed' = (failed \/ stage[e] = "write")
  PROVE  Promise!Die(e)
<1>1. R' = R \ {e} /\ (e \in R <=> stage[e] = "write")
  BY FinishSimulated DEF R
<1>2. Promise!Leave(e)
  BY FinishSimulated DEF Promise!Leave, K
<1>3. failed' = (failed \/ e \in R) /\ S' = S
  BY <1>1 DEF S
<1> QED
  BY <1>1, <1>2, <1>3 DEF Promise!Die, K, S, R

LEMMA FailSimulated ==
  ASSUME Inv, NEW e \in Emacs, NEW next \in {"on", "off"}, WriteFails(e, next)
  PROVE  Promise!Fail(e) \/ Promise!Die(e) \/ UNCHANGED Promise!vars
<1>1. Finish(e, next) /\ alist[e] \in Seq(Entry) /\ failed \in BOOLEAN
  BY DEF WriteFails, Inv, TypeOK
<1>2. CASE stage[e] = "write"
  <2>1. failed' = TRUE /\ (UNCHANGED disk \/ disk'.alist \in {<<>>, Printed(alist[e])})
    BY <1>2 DEF WriteFails
  <2>2. S' \in {S, MapOf(alist[e]), MapOf(<<>>)}
    BY <1>1, <2>1, PrintedMap DEF S
  <2>3. S' \in {S, K[e], Promise!Nothing}
    BY <2>2, EmptyMap DEF K, Promise!Nothing
  <2>4. Promise!Fail(e)
    BY <1>1, <1>2, <2>1, <2>3, FinishSimulated DEF Promise!Fail, K, S, R
  <2> QED
    BY <2>4
<1>3. CASE stage[e] # "write"
  <2>1. UNCHANGED <<disk, failed>>
    BY <1>3 DEF WriteFails
  <2>2. CASE next = "off"
    <3>1. failed' = (failed \/ stage[e] = "write")
      BY <1>1, <1>3, <2>1
    <3> QED
      BY <1>1, <2>1, <2>2, <3>1, QuitSimulated
  <2>3. CASE next = "on"
    <3>1. R' = R /\ point' = point /\ K' = K /\ S' = S
      BY <1>1, <1>3, <2>1, <2>3, FinishSimulated DEF R, S
    <3> QED
      BY <2>1, <3>1 DEF Promise!vars, Promise!fileVars, K, S, R
  <2> QED
    BY <2>2, <2>3
<1> QED
  BY <1>2, <1>3

LEMMA SessionSimulated ==
  ASSUME Inv, NotedInv, NEW e \in Emacs, OfSession(e)
  PROVE  Promise!Next \/ UNCHANGED Promise!vars
<1>1. CASE Start(e)
  <2>1. alist' = [alist EXCEPT ![e] = disk.alist] /\ UNCHANGED <<point, disk, failed>>
    BY <1>1 DEF Start
  <2>2. K' = [K EXCEPT ![e] = S] /\ S' = S
    BY <2>1, KnownChanges DEF S
  <2>3. point[e] = Promise!Closed /\ R' = R
    BY <1>1 DEF Start, Inv, TypeOK, StageInv, Closed, Promise!Closed, R
  <2>4. Promise!Start(e)
    BY <2>1, <2>2, <2>3 DEF Promise!Start, Promise!fileVars, K, S, R
  <2> QED
    BY <2>4 DEF Promise!Next
<1>2. CASE DeleteFile(e)
  <2>1. UNCHANGED <<alist, point, failed>> /\ disk'.alist = <<>>
    BY <1>2 DEF DeleteFile
  <2>2. S' = Promise!Nothing /\ K' = K
    BY <2>1, EmptyMap DEF S, K, Promise!Nothing
  <2>3. R' = R \cup {e}
    BY <1>2 DEF DeleteFile, Inv, TypeOK, R
  <2>4. Promise!Remove(e)
    BY <2>1, <2>2, <2>3 DEF Promise!Remove, K, S, R
  <2> QED
    BY <2>4 DEF Promise!Next
<1>3. CASE WriteFile(e)
  BY <1>3, WriteSimulated DEF Promise!Next
<1>4. CASE Quit(e)
  BY <1>4, QuitSimulated DEF Quit, Promise!Next
<1>5. CASE \E next \in {"on", "off"} : WriteFails(e, next)
  BY <1>5, FailSimulated DEF Promise!Next
<1>6. ASSUME NEW next \in {"on", "off"}, NEW agreed \in BOOLEAN, BeginSave(e, next, agreed)
      PROVE  UNCHANGED Promise!vars
  <2>1. UNCHANGED <<alist, point, disk, failed>>
    BY <1>6 DEF BeginSave
  <2>2. R' = R
    BY <1>6 DEF BeginSave, Inv, TypeOK, R
  <2>3. K' = K /\ S' = S
    BY <2>1 DEF K, S
  <2> QED
    BY <2>1, <2>2, <2>3 DEF Promise!vars, Promise!fileVars, K, S, R
<1> QED
  BY <1>1, <1>2, <1>3, <1>4, <1>5, <1>6 DEF OfSession

(* Through pushes, marks, the printing of the alist and its loading, for   *)
(* any number of Emacs processes, killed or not: a file is visited at the  *)
(* place stored last, a mark goes only when the user takes it away, and a  *)
(* write of the session file that comes to its end has all that was known, *)
(* unless there were too many files.                                       *)
THEOREM SessionKeepsPlaces == Spec => PlacesKept
<1>1. ASSUME Inv, NotedInv, [Next]_vars PROVE [Promise!Next]_(Promise!vars)
  <2>1. CASE UNCHANGED vars
    BY <2>1 DEF vars, Promise!vars, Promise!fileVars
  <2>2. CASE Next
    BY <1>1, <2>2, BufferSimulated, SessionSimulated DEF Next
  <2> QED
    BY <1>1, <2>1, <2>2
<1> QED
  BY <1>1, InitInv, StepInv, InitNoted, NotedStep, InitSimulated, PTL DEF Spec, PlacesKept, Promise!Spec

=============================================================================
