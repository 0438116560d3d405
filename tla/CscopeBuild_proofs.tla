------------------------ MODULE CscopeBuild_proofs --------------------------
(***************************************************************************)
(* The theorems about CscopeBuild, for any files, contents, lists and any  *)
(* number of builds.                                                       *)
(***************************************************************************)
EXTENDS CscopeBuild, FunctionTheorems, FiniteSetTheorems, SequenceTheorems, WellFoundedInduction, TLAPS

(* The files are numbers.                                                  *)
LEMMA FilesAreNaturals ==
  /\ IsFiniteSet(Files)
  /\ Files \subseteq Nat \ {0}
  /\ \A n \in Files : n % 2 = 0
BY FilesAssumption

LEMMA ContentsAreFiles ==
  /\ \A c \in Contents : c \subseteq Files
  /\ \A S \in SourceLists : S \subseteq Files
BY ContentAssumption

-----------------------------------------------------------------------------
(* Sorted(S) has every element of S once (qsort).                          *)
LEMMA SortedHasAll ==
  ASSUME NEW S \in SUBSET Files
  PROVE  /\ Sorted(S) \in Seq(S)
         /\ Len(Sorted(S)) = Cardinality(S)
         /\ Cardinality(S) \in Nat
         /\ \A f \in S : \E i \in 1 .. Len(Sorted(S)) : Sorted(S)[i] = f
         /\ \A i, j \in 1 .. Len(Sorted(S)) : Sorted(S)[i] = Sorted(S)[j] => i = j
<1> DEFINE n       == Cardinality(S)
           rank(f) == Cardinality(Below(S, f)) + 1
           R       == [f \in S |-> rank(f)]
<1>1. IsFiniteSet(S) /\ n \in Nat /\ S \subseteq Nat
  BY FilesAreNaturals, FS_Subset, FS_CardinalityType
<1>2. ASSUME NEW f \in S, NEW T, T \subseteq Below(S, f)
      PROVE  IsFiniteSet(T) /\ Cardinality(T) \in Nat
  BY <1>1, <1>2, FS_Subset, FS_CardinalityType DEF Below
<1>3. ASSUME NEW f \in S
      PROVE  rank(f) \in 1 .. n
  <2>1. Below(S, f) \in SUBSET (S \ {f})
    BY <1>1 DEF Below
  <2>2. IsFiniteSet(S \ {f}) /\ Cardinality(S \ {f}) = n - 1
    BY <1>1, FS_RemoveElement
  <2>3. Cardinality(Below(S, f)) <= n - 1
    BY <2>1, <2>2, FS_Subset
  <2> QED BY <2>3, <1>1, <1>2
<1>4. ASSUME NEW f \in S, NEW g \in S, f < g
      PROVE  rank(f) < rank(g)
  <2>1. Below(S, f) \subseteq Below(S, g) \ {f}
    <3> SUFFICES ASSUME NEW x \in S, x < f
                 PROVE  x \in S /\ x < g /\ x # f
      BY DEF Below
    <3>1. x \in Nat /\ f \in Nat /\ g \in Nat
      BY <1>1
    <3> QED BY <3>1, <1>4
  <2>2. f \in Below(S, g)
    BY <1>4 DEF Below
  <2>3. IsFiniteSet(Below(S, g)) /\ Cardinality(Below(S, g)) \in Nat
    BY <1>2
  <2>4. /\ IsFiniteSet(Below(S, g) \ {f})
        /\ Cardinality(Below(S, g) \ {f}) = Cardinality(Below(S, g)) - 1
    BY <2>2, <2>3, FS_RemoveElement
  <2>5. Cardinality(Below(S, f)) <= Cardinality(Below(S, g)) - 1
    BY <2>1, <2>4, FS_Subset
  <2> QED BY <2>5, <2>3, <1>2
<1>5. R \in [S -> 1 .. n]
  BY <1>3
<1>6. \A f, g \in S : R[f] = R[g] => f = g
  <2> SUFFICES ASSUME NEW f \in S, NEW g \in S, R[f] = R[g], f # g
               PROVE  FALSE
    OBVIOUS
  <2>1. rank(f) = rank(g) /\ rank(f) \in Nat
    BY <1>3, <1>1
  <2>2. CASE f < g
    <3>1. rank(f) < rank(g)
      BY <2>2, <1>4
    <3> QED BY <2>1, <3>1
  <2>3. CASE g < f
    <3>1. rank(g) < rank(f)
      BY <2>3, <1>4
    <3> QED BY <2>1, <3>1
  <2> QED BY <1>1, <2>2, <2>3
<1>7. R \in Surjection(S, 1 .. n)
  <2>1. R \in Injection(S, 1 .. n)
    BY <1>5, <1>6 DEF Injection, IsInjective
  <2>2. IsFiniteSet(1 .. n) /\ Cardinality(1 .. n) = n
    BY <1>1, FS_Interval
  <2> QED BY <2>1, <2>2, FS_Injection
<1> DEFINE s == Sorted(S)
<1>8. ASSUME NEW i \in 1 .. n
      PROVE  s[i] \in S /\ R[s[i]] = i
  <2>1. PICK f \in S : R[f] = i
    BY <1>7 DEF Surjection
  <2>2. Cardinality(Below(S, f)) = i - 1
    BY <2>1, <1>1, <1>2
  <2>3. s[i] \in S /\ Cardinality(Below(S, s[i])) = i - 1
    BY <2>2 DEF Sorted
  <2> QED BY <2>3, <1>1
<1>9. s \in Seq(S) /\ Len(s) = n
  <2>1. s = [i \in 1 .. n |-> s[i]]
    BY DEF Sorted
  <2> HIDE DEF s, n
  <2>2. s \in [1 .. n -> S]
    BY <2>1, <1>8
  <2> QED BY <2>2, <1>1
<1>10. \A f \in S : R[f] \in 1 .. n /\ s[R[f]] = f
  BY <1>5, <1>6, <1>8
<1> HIDE DEF n, R, s
<1>11. \A i, j \in 1 .. Len(s) : s[i] = s[j] => i = j
  BY <1>8, <1>9
<1>12. \A f \in S : \E i \in 1 .. Len(s) : s[i] = f
  BY <1>9, <1>10
<1> QED BY <1>1, <1>9, <1>11, <1>12 DEF s, n

-----------------------------------------------------------------------------
(* What getoldfile() has passed over is a part at the front, and nothing   *)
(* is passed over for the name that comes first.                           *)
LEMMA FromIsRest ==
  ASSUME NEW o \in Seq(Ref), NEW f \in Nat
  PROVE  /\ From(o, f) \in Seq(Ref)
         /\ \E k \in 0 .. Len(o) :
              /\ Len(From(o, f)) = Len(o) - k
              /\ \A i \in 1 .. Len(o) - k : From(o, f)[i] = o[k + i]
         /\ o # <<>> /\ o[1].f = f => From(o, f) = o
<1> DEFINE here == {j \in 1 .. Len(o) : o[j].f >= f}
<1>1. CASE here = {}
  <2>1. From(o, f) = <<>>
    BY <1>1 DEF From
  <2>2. ~ (o # <<>> /\ o[1].f = f)
    BY <1>1
  <2>3. Len(o) \in Nat /\ Len(<<>>) = 0 /\ Len(o) \in 0 .. Len(o) /\ <<>> \in Seq(Ref)
    OBVIOUS
  <2> QED BY <2>1, <2>2, <2>3
<1>2. CASE here # {}
  <2> DEFINE k == Min(here)
  <2>1. here \subseteq Nat
    OBVIOUS
  <2>2. \E x \in here : \A y \in here : x <= y
    <3>1. PICK x \in here : \A y \in here : ~ (<<y, x>> \in OpToRel(<, Nat))
      BY <1>2, <2>1, NatLessThanWellFounded, WFMin
    <3>2. \A y \in here : ~ (y < x)
      BY <3>1, <2>1 DEF OpToRel
    <3> HIDE DEF here
    <3>3. \A y \in here : x <= y
      BY <3>2, <2>1
    <3> QED BY <3>3
  <2>3. k \in here /\ \A y \in here : k <= y
    BY <2>2 DEF Min
  <2>4. From(o, f) = SubSeq(o, k, Len(o))
    BY <1>2 DEF From
  <2>5. k \in 1 .. Len(o) /\ Len(o) \in Nat
    BY <2>3
  <2> HIDE DEF k
  <2>6. /\ SubSeq(o, k, Len(o)) \in Seq(Ref)
        /\ Len(SubSeq(o, k, Len(o))) = Len(o) - k + 1
        /\ \A i \in 1 .. Len(o) - k + 1 : SubSeq(o, k, Len(o))[i] = o[k + i - 1]
    BY <2>5, SubSeqProperties
  <2>7. ASSUME o # <<>>, o[1].f = f
        PROVE  From(o, f) = o
    <3>1. 1 \in here
      BY <2>7, <2>5
    <3>2. k = 1
      BY <3>1, <2>3, <2>5
    <3> QED BY <3>2, <2>4, SubSeqFull
  <2> DEFINE q == k - 1
  <2>8. q \in 0 .. Len(o) /\ Len(o) - k + 1 = Len(o) - q /\ \A i \in Nat : k + i - 1 = q + i
    BY <2>5
  <2> HIDE DEF q
  <2>9. /\ Len(From(o, f)) = Len(o) - q
        /\ \A i \in 1 .. Len(o) - q : From(o, f)[i] = o[q + i]
    <3> SUFFICES ASSUME NEW i \in 1 .. Len(o) - q
                 PROVE  SubSeq(o, k, Len(o))[i] = o[q + i]
      BY <2>4, <2>6, <2>8
    <3>1. i \in Nat /\ i \in 1 .. Len(o) - k + 1
      BY <2>8, <2>5
    <3> QED BY <3>1, <2>6, <2>8
  <2> QED BY <2>4, <2>6, <2>7, <2>8, <2>9
<1> QED BY <1>1, <1>2

LEMMA ListOfIsSource ==
  ASSUME TypeOK, NEW S \in SourceLists
  PROVE  /\ ListOf(S) \in Seq(Files)
         /\ Len(ListOf(S)) \in Nat
         /\ \A i \in 1 .. Len(ListOf(S)) : ListOf(S)[i] \in S /\ Exists(ListOf(S)[i])
         /\ \A i, j \in 1 .. Len(ListOf(S)) : ListOf(S)[i] = ListOf(S)[j] => i = j
         /\ Range(ListOf(S)) \subseteq Files
<1> DEFINE T == {f \in S : Exists(f)}
<1>1. T \in SUBSET Files
  BY ContentsAreFiles
<1>2. ListOf(S) = Sorted(T)
  BY DEF ListOf
<1> HIDE DEF T
<1>3. /\ Sorted(T) \in Seq(T)
      /\ \A i, j \in 1 .. Len(Sorted(T)) : Sorted(T)[i] = Sorted(T)[j] => i = j
  BY <1>1, SortedHasAll
<1>4. \A i \in 1 .. Len(Sorted(T)) : Sorted(T)[i] \in T
  BY <1>3
<1>5. Sorted(T) \in Seq(Files) /\ Len(Sorted(T)) \in Nat /\ DOMAIN Sorted(T) = 1 .. Len(Sorted(T))
  BY <1>1, <1>3, SeqMonotonic
<1>6. Range(Sorted(T)) \subseteq Files
  BY <1>1, <1>4, <1>5 DEF Range
<1> QED BY <1>2, <1>3, <1>4, <1>5, <1>6 DEF T

-----------------------------------------------------------------------------
(* The type invariant, with what the program counter says of the list, the *)
(* counters and the files to be moved.                                     *)
Stages ==
  /\ ~AtRest => srcfiles \in Seq(Files)
  /\ AtRest => fileindex = 0 /\ stamp = 0
  /\ pc = "replace" <=> moves # <<>>

TypeInv == TypeOK /\ Stages

LEMMA TypeInit == Init => TypeInv
<1> SUFFICES ASSUME Init PROVE TypeInv
  OBVIOUS
<1>1. file \in [Files -> [c : Contents, m : 0 .. MaxTime] \cup {None}]
  BY HazardsAssumption DEF Init
<1>2. clock \in 1 .. MaxTime
  BY HazardsAssumption DEF Init
<1>3. disk \in [out : CrossRef \cup {None}, inv : Index \cup {None}, post : [of : Seq(Ref)] \cup {None}]
  BY DEF Init, NoDatabase
<1>4. /\ pc = "idle" /\ srcfiles = <<>> /\ invertedindex = FALSE /\ cut = FALSE /\ torn = FALSE
      /\ assume = "nothing" /\ reftime = 0 /\ old = <<>> /\ given = {} /\ fileindex = 0
      /\ new = <<>> /\ found = {} /\ built = {} /\ moves = <<>> /\ stamp = 0
  BY DEF Init
<1>5. /\ srcfiles \in Seq(Names) /\ fileindex \in 0 .. Len(srcfiles)
      /\ {old, new} \subseteq Seq(Ref) /\ {reftime, stamp} \subseteq 0 .. MaxTime
  BY <1>4, HazardsAssumption
<1>6. TypeOK
  BY <1>1, <1>2, <1>3, <1>4, <1>5 DEF TypeOK, Assumptions
<1> QED BY <1>4, <1>6 DEF TypeInv, Stages, AtRest

(* A file that exists has a content, one that is listed is a number.       *)
LEMMA FileTypes ==
  ASSUME TypeOK
  PROVE  \A f \in Files : Exists(f) =>
           /\ file[f] \in [c : Contents, m : 0 .. MaxTime]
           /\ file[f].c \in Contents /\ file[f].c \subseteq Files
           /\ file[f].m \in 0 .. MaxTime
           /\ Now(f) \in Ref /\ Now(f).f = f /\ Now(f).c = file[f].c
BY ContentsAreFiles DEF TypeOK, Exists, Now, Ref

LEMMA DiskTypes ==
  ASSUME TypeOK
  PROVE  /\ disk.out # None => /\ disk.out \in CrossRef
                               /\ disk.out.q \in BOOLEAN /\ disk.out.m \in 1 .. MaxTime
                               /\ disk.out.list \in Seq(Files) /\ disk.out.refs \in Seq(Ref)
         /\ disk.out \in CrossRef \cup {None}
         /\ disk.inv \in Index \cup {None}
         /\ disk.post \in [of : Seq(Ref)] \cup {None}
         /\ DOMAIN disk = {"out", "inv", "post"}
BY DEF TypeOK, CrossRef

(* The file whose turn it is.                                              *)
LEMMA FileIsListed ==
  ASSUME TypeInv, pc = "merge", fileindex < Len(srcfiles)
  PROVE  /\ File \in Files /\ File \in Nat
         /\ fileindex \in Nat /\ fileindex + 1 \in 1 .. Len(srcfiles)
         /\ From(old, File) \in Seq(Ref)
<1>1. srcfiles \in Seq(Files) /\ fileindex \in Nat /\ fileindex + 1 \in 1 .. Len(srcfiles)
  BY DEF TypeInv, TypeOK, Stages, AtRest
<1>2. File \in Files
  BY <1>1 DEF File
<1>3. File \in Nat
  BY <1>2, FilesAreNaturals
<1> QED BY <1>1, <1>2, <1>3, FromIsRest DEF TypeInv, TypeOK

LEMMA TypeBegin ==
  ASSUME TypeInv, AtRest, NEW S \in SourceLists, NEW q \in BOOLEAN, NEW a \in Assumptions,
         assume' = a, Begin(S, q, a), UNCHANGED <<file, clock, indexVars>>
  PROVE  TypeInv'
<1>1. /\ ListOf(S) \in Seq(Files) /\ Len(ListOf(S)) \in Nat
      /\ Range(ListOf(S)) \subseteq Files
  BY ListOfIsSource DEF TypeInv
<1>2. srcfiles' \in Seq(Files)
  BY <1>1 DEF Begin
<1>3. srcfiles' \in Seq(Names)
  BY <1>2, SeqMonotonic DEF Names
<1>4. reftime' \in 0 .. MaxTime /\ old' \in Seq(Ref)
  BY DiskTypes, HazardsAssumption DEF TypeInv, Begin
<1>5. disk' \in [out : CrossRef \cup {None}, inv : Index \cup {None}, post : [of : Seq(Ref)] \cup {None}]
  BY DEF TypeInv, TypeOK, Begin
<1>6. /\ fileindex' = 0 /\ new' = <<>> /\ found' = {} /\ built' = {} /\ given' \subseteq Files
      /\ invertedindex' = q /\ pc' = "merge" /\ moves' = moves /\ stamp' = stamp
  BY <1>1 DEF Begin, moveVars
<1>7. fileindex' \in 0 .. Len(srcfiles')
  BY <1>2, <1>6
<1>8. moves = <<>> /\ stamp = 0
  BY DEF TypeInv, Stages, AtRest
<1>9. TypeOK'
  BY <1>3, <1>4, <1>5, <1>6, <1>7 DEF TypeInv, TypeOK, indexVars
<1>10. Stages'
  BY <1>2, <1>6, <1>8 DEF Stages, AtRest
<1> QED BY <1>9, <1>10 DEF TypeInv

LEMMA TypeUpToDate ==
  ASSUME TypeInv, AtRest, NEW S \in SourceLists, NEW q \in BOOLEAN, NEW a \in Assumptions,
         assume' = a, UpToDate(S, q, a), UNCHANGED <<file, clock, indexVars>>
  PROVE  TypeInv'
<1> DEFINE l == ListOf(S)
           n == Len(disk.out.list) - Len(l)
<1>1. l \in Seq(Files) /\ Len(l) \in Nat
  BY ListOfIsSource DEF TypeInv
<1>2. disk.out # None /\ Len(l) <= Len(disk.out.list)
  BY DEF UpToDate, IsUpToDate, SameFiles
<1>3. disk.out.list \in Seq(Files)
  BY <1>2, DiskTypes DEF TypeInv
<1>4. n \in Nat
  BY <1>1, <1>2, <1>3
<1>5. IncludedOf(l) \in Seq(Names)
  <2>1. ASSUME NEW i \in 1 .. n
        PROVE  WithNewline(IF i = 1 THEN 0 ELSE disk.out.list[Len(l) + i - 1]) \in Names
    <3>1. CASE i = 1
      BY <3>1 DEF WithNewline, Names
    <3>2. CASE i # 1
      <4>1. Len(l) + i - 1 \in 1 .. Len(disk.out.list)
        BY <3>2, <1>1, <1>3
      <4>2. disk.out.list[Len(l) + i - 1] \in Files
        BY <4>1, <1>3
      <4> QED BY <3>2, <4>2 DEF WithNewline, Names
    <3> QED BY <3>1, <3>2
  <2> QED BY <2>1, <1>4 DEF IncludedOf
<1>6. l \in Seq(Names)
  BY <1>1, SeqMonotonic DEF Names
<1>7. srcfiles' \in Seq(Names)
  BY <1>5, <1>6, ConcatProperties DEF UpToDate
<1>8. /\ pc' = "ready" /\ invertedindex' \in BOOLEAN
      /\ disk' = disk /\ reftime' = reftime /\ old' = old /\ given' = given
      /\ fileindex' = fileindex /\ new' = new /\ found' = found /\ built' = built
      /\ moves' = moves /\ stamp' = stamp
  BY DEF UpToDate, mergeVars, moveVars, IndexOpens
<1>9. fileindex = 0 /\ stamp = 0 /\ moves = <<>>
  BY DEF TypeInv, Stages, AtRest
<1>10. TypeOK'
  BY <1>7, <1>8, <1>9 DEF TypeInv, TypeOK, indexVars
<1>11. Stages'
  BY <1>8, <1>9 DEF Stages, AtRest
<1> QED BY <1>10, <1>11 DEF TypeInv

(* incfile() adds files that exist.                                        *)
LEMMA IncludeTypes ==
  ASSUME NEW c \in Contents, TypeOK, Include(c)
  PROVE  found' \subseteq Files
BY ContentsAreFiles DEF Include, TypeOK

LEMMA TypePass ==
  ASSUME TypeInv, Pass, old' \in Seq(Ref), new' \in Seq(Ref), found' \subseteq Files,
         built' \subseteq Files
  PROVE  TypeInv'
<1>1. /\ file' = file /\ clock' = clock /\ disk' = disk /\ pc' = pc /\ srcfiles' = srcfiles
      /\ invertedindex' = invertedindex /\ assume' = assume /\ reftime' = reftime
      /\ given' = given /\ moves' = moves /\ stamp' = stamp /\ cut' = cut /\ torn' = torn
      /\ pc = "merge" /\ fileindex < Len(srcfiles) /\ fileindex' = fileindex + 1
  BY DEF Pass, optionVars, moveVars, indexVars
<1>2. fileindex' \in 0 .. Len(srcfiles')
  BY <1>1 DEF TypeInv, TypeOK
<1>3. TypeOK'
  BY <1>1, <1>2 DEF TypeInv, TypeOK
<1>4. Stages'
  BY <1>1 DEF TypeInv, Stages, AtRest
<1> QED BY <1>3, <1>4 DEF TypeInv

LEMMA CrossrefTypes ==
  ASSUME TypeInv, Pass, Crossref
  PROVE  new' \in Seq(Ref) /\ found' \subseteq Files /\ built' \subseteq Files
<1>1. File \in Files
  BY FileIsListed DEF Pass
<1>2. built' \subseteq Files
  BY <1>1 DEF Crossref, TypeInv, TypeOK
<1>3. CASE Exists(File)
  <2>1. file[File].c \in Contents /\ Now(File) \in Ref
    BY <1>1, <1>3, FileTypes DEF TypeInv
  <2>2. new' = Append(new, Now(File)) /\ Include(file[File].c)
    BY <1>3 DEF Crossref
  <2>3. found' \subseteq Files
    BY <2>1, <2>2, IncludeTypes DEF TypeInv
  <2>4. new' \in Seq(Ref)
    BY <2>1, <2>2 DEF TypeInv, TypeOK
  <2> QED BY <2>3, <2>4, <1>2
<1>4. CASE ~Exists(File)
  BY <1>2, <1>4 DEF Crossref, TypeInv, TypeOK
<1> QED BY <1>3, <1>4

LEMMA TypeNewFile ==
  ASSUME TypeInv, NewFile
  PROVE  TypeInv'
<1>1. Pass /\ Crossref /\ old' = From(old, File)
  BY DEF NewFile
<1>2. old' \in Seq(Ref)
  BY <1>1, FileIsListed DEF Pass
<1> QED BY <1>1, <1>2, CrossrefTypes, TypePass

(* The old data of the file whose turn it is.                              *)
LEMMA NextIsRef ==
  ASSUME TypeInv, Pass, IsNext(From(old, File))
  PROVE  /\ From(old, File)[1] \in Ref
         /\ From(old, File)[1].c \in Contents
         /\ From(old, File)[1].f = File
         /\ Tail(From(old, File)) \in Seq(Ref)
<1>1. From(old, File) \in Seq(Ref) /\ From(old, File) # <<>>
  BY FileIsListed DEF Pass, IsNext
<1> HIDE DEF From
<1>2. From(old, File)[1] \in Ref /\ Tail(From(old, File)) \in Seq(Ref)
  BY <1>1
<1>3. From(old, File)[1].f = File
  BY DEF IsNext
<1> QED BY <1>2, <1>3 DEF Ref

LEMMA TypeChangedFile ==
  ASSUME TypeInv, ChangedFile
  PROVE  TypeInv'
<1>1. Pass /\ Crossref /\ IsNext(From(old, File)) /\ old' = Tail(From(old, File))
  BY DEF ChangedFile
<1>2. old' \in Seq(Ref)
  BY <1>1, NextIsRef
<1> QED BY <1>1, <1>2, CrossrefTypes, TypePass

LEMMA TypeCopy ==
  ASSUME TypeInv, Copy
  PROVE  TypeInv'
<1> DEFINE o == From(old, File)
<1>1. /\ Pass /\ IsNext(o) /\ old' = Tail(o) /\ new' = Append(new, o[1]) /\ Include(o[1].c)
      /\ built' = built
  BY DEF Copy
<1>2. o[1] \in Ref /\ o[1].c \in Contents /\ Tail(o) \in Seq(Ref)
  BY <1>1, NextIsRef
<1> HIDE DEF o
<1>3. old' \in Seq(Ref)
  BY <1>1, <1>2
<1>4. new' \in Seq(Ref)
  BY <1>1, <1>2 DEF TypeInv, TypeOK
<1>5. found' \subseteq Files /\ built' \subseteq Files
  BY <1>1, <1>2, IncludeTypes DEF TypeInv, TypeOK
<1> QED BY <1>1, <1>3, <1>4, <1>5, TypePass

(* The list of files after a pass.                                         *)
LEMMA ListGrows ==
  ASSUME TypeInv, NextPass
  PROVE  /\ srcfiles \in Seq(Files) /\ Sorted(found) \in Seq(Files) /\ Sorted(found) \in Seq(found)
         /\ srcfiles' \in Seq(Files)
         /\ Len(srcfiles') = Len(srcfiles) + Len(Sorted(found))
         /\ Len(Sorted(found)) = Cardinality(found)
         /\ \A i \in 1 .. Len(srcfiles) : srcfiles'[i] = srcfiles[i]
         /\ \A i \in 1 .. Len(Sorted(found)) : srcfiles'[Len(srcfiles) + i] = Sorted(found)[i]
<1>1. srcfiles \in Seq(Files) /\ found \in SUBSET Files
  BY DEF TypeInv, TypeOK, Stages, AtRest, NextPass
<1>2. Sorted(found) \in Seq(found) /\ Len(Sorted(found)) = Cardinality(found)
  BY <1>1, SortedHasAll
<1>3. Sorted(found) \in Seq(Files)
  BY <1>1, <1>2, SeqMonotonic
<1>4. srcfiles' = srcfiles \o Sorted(found)
  BY DEF NextPass
<1>5. /\ srcfiles \o Sorted(found) \in Seq(Files)
      /\ Len(srcfiles \o Sorted(found)) = Len(srcfiles) + Len(Sorted(found))
      /\ \A i \in 1 .. Len(srcfiles) + Len(Sorted(found)) : (srcfiles \o Sorted(found))[i] =
            IF i <= Len(srcfiles) THEN srcfiles[i] ELSE Sorted(found)[i - Len(srcfiles)]
  BY <1>1, <1>3, ConcatProperties
<1>6. Len(srcfiles) \in Nat /\ Len(Sorted(found)) \in Nat
  BY <1>1, <1>3
<1> HIDE DEF Sorted
<1> QED BY <1>1, <1>2, <1>3, <1>4, <1>5, <1>6

LEMMA TypeNextPass ==
  ASSUME TypeInv, NextPass
  PROVE  TypeInv'
<1>1. /\ file' = file /\ clock' = clock /\ disk' = disk /\ pc' \in {"merge", "index"}
      /\ invertedindex' = invertedindex /\ assume' = assume /\ reftime' = reftime /\ old' = old
      /\ given' = given /\ fileindex' = fileindex /\ new' = new /\ built' = built
      /\ moves' = moves /\ stamp' = stamp /\ cut' = cut /\ torn' = torn /\ found' = {}
      /\ pc = "merge" /\ fileindex = Len(srcfiles)
  BY DEF NextPass, optionVars, moveVars, indexVars
<1>2. srcfiles' \in Seq(Files) /\ fileindex' \in 0 .. Len(srcfiles')
  <2>1. Len(srcfiles) \in Nat /\ Len(Sorted(found)) \in Nat
    BY ListGrows
  <2> QED BY <2>1, <1>1, ListGrows
<1>3. srcfiles' \in Seq(Names)
  BY <1>2, SeqMonotonic DEF Names
<1>4. TypeOK'
  BY <1>1, <1>2, <1>3 DEF TypeInv, TypeOK
<1>5. Stages'
  BY <1>1, <1>2 DEF TypeInv, Stages, AtRest
<1> QED BY <1>4, <1>5 DEF TypeInv

LEMMA TypeMakeIndex ==
  ASSUME TypeInv, MakeIndex
  PROVE  TypeInv'
<1>1. /\ file' = file /\ clock' = clock /\ disk' = disk /\ pc = "index" /\ pc' = "replace"
      /\ invertedindex' \in {invertedindex, FALSE} /\ assume' = assume /\ srcfiles' = srcfiles
      /\ reftime' = reftime /\ old' = old /\ given' = given /\ fileindex' = fileindex
      /\ new' = new /\ found' = found /\ built' = built /\ stamp' = stamp /\ torn' = torn /\ cut' \in BOOLEAN
      /\ moves' \in {<<"out">>, <<"inv", "post", "out">>}
  BY DEF MakeIndex, mergeVars, TypeInv, TypeOK
<1>2. TypeOK'
  BY <1>1 DEF TypeInv, TypeOK
<1>3. Stages'
  BY <1>1 DEF TypeInv, Stages, AtRest
<1> QED BY <1>2, <1>3 DEF TypeInv

LEMMA TypeCloseNew ==
  ASSUME TypeInv, CloseNew
  PROVE  TypeInv'
<1>1. /\ file' = file /\ clock' = clock /\ disk' = disk /\ pc = "replace" /\ pc' = pc
      /\ invertedindex' = invertedindex /\ assume' = assume /\ srcfiles' = srcfiles
      /\ reftime' = reftime /\ old' = old /\ given' = given /\ fileindex' = fileindex
      /\ new' = new /\ found' = found /\ built' = built /\ stamp' = clock /\ cut' = cut /\ torn' = torn
      /\ moves' = moves
  BY DEF CloseNew, optionVars, mergeVars, indexVars
<1>2. stamp' \in 0 .. MaxTime
  BY <1>1, HazardsAssumption DEF TypeInv, TypeOK
<1>3. TypeOK'
  BY <1>1, <1>2 DEF TypeInv, TypeOK
<1>4. Stages'
  BY <1>1 DEF TypeInv, Stages, AtRest
<1> QED BY <1>3, <1>4 DEF TypeInv

(* The file movefile() is called for.                                      *)
LEMMA MoveTypes ==
  ASSUME TypeInv, pc = "replace"
  PROVE  /\ Head(moves) \in {"out", "inv", "post"}
         /\ moves = <<"out">> <=> Head(moves) = "out"
         /\ moves = <<"post", "out">> <=> Head(moves) = "post"
         /\ moves = <<"inv", "post", "out">> <=> Head(moves) = "inv"
         /\ Head(moves) = "out" => Tail(moves) = <<>>
         /\ Head(moves) = "post" => Tail(moves) = <<"out">>
         /\ Head(moves) = "inv" => Tail(moves) = <<"post", "out">>
<1>1. moves \in {<<"out">>, <<"post", "out">>, <<"inv", "post", "out">>}
  BY DEF TypeInv, TypeOK, Stages
<1>2. /\ Head(<<"out">>) = "out" /\ Tail(<<"out">>) = <<>>
      /\ Head(<<"post", "out">>) = "post" /\ Tail(<<"post", "out">>) = <<"out">>
      /\ Head(<<"inv", "post", "out">>) = "inv" /\ Tail(<<"inv", "post", "out">>) = <<"post", "out">>
  OBVIOUS
<1> QED BY <1>1, <1>2

LEMMA TypeUnlink ==
  ASSUME TypeInv, Unlink
  PROVE  TypeInv'
<1>1. /\ file' = file /\ clock' = clock /\ pc = "replace" /\ pc' = pc
      /\ invertedindex' = invertedindex /\ assume' = assume /\ srcfiles' = srcfiles
      /\ reftime' = reftime /\ old' = old /\ given' = given /\ fileindex' = fileindex
      /\ new' = new /\ found' = found /\ built' = built /\ stamp' = stamp /\ cut' = cut /\ torn' = torn
      /\ moves' = moves /\ disk' = [disk EXCEPT ![Head(moves)] = None]
  BY DEF Unlink, Movable, optionVars, mergeVars, moveVars, indexVars
<1>2. disk' \in [out : CrossRef \cup {None}, inv : Index \cup {None}, post : [of : Seq(Ref)] \cup {None}]
  BY <1>1, MoveTypes DEF TypeInv, TypeOK
<1>3. TypeOK'
  BY <1>1, <1>2 DEF TypeInv, TypeOK
<1>4. Stages'
  BY <1>1 DEF TypeInv, Stages, AtRest
<1> QED BY <1>3, <1>4 DEF TypeInv

LEMMA WrittenTypes ==
  ASSUME TypeInv, Movable
  PROVE  /\ Head(moves) = "out" => Written(Head(moves)) \in CrossRef
         /\ Head(moves) = "inv" => Written(Head(moves)) \in Index
         /\ Head(moves) = "post" => Written(Head(moves)) \in [of : Seq(Ref)]
<1>1. srcfiles \in Seq(Files) /\ new \in Seq(Ref) /\ invertedindex \in BOOLEAN /\ cut \in BOOLEAN
  BY DEF TypeInv, TypeOK, Stages, AtRest, Movable
<1>2. Head(moves) = "out" => stamp \in 1 .. MaxTime
  BY HazardsAssumption DEF TypeInv, TypeOK, Movable
<1> QED BY <1>1, <1>2 DEF Written, CrossRef, Index

LEMMA TypeRename ==
  ASSUME TypeInv, Rename
  PROVE  TypeInv'
<1>1. /\ file' = file /\ clock' = clock /\ assume' = assume /\ srcfiles' = srcfiles
      /\ pc = "replace" /\ Movable
      /\ disk' = [disk EXCEPT ![Head(moves)] = Written(Head(moves))]
  BY DEF Rename, Movable
<1>2. disk' \in [out : CrossRef \cup {None}, inv : Index \cup {None}, post : [of : Seq(Ref)] \cup {None}]
  BY <1>1, MoveTypes, WrittenTypes DEF TypeInv, TypeOK
<1>3. CASE Tail(moves) # <<>>
  <2>1. /\ pc' = pc /\ cut' = cut /\ torn' = torn /\ invertedindex' = invertedindex /\ moves' = Tail(moves)
        /\ reftime' = reftime /\ old' = old /\ given' = given /\ fileindex' = fileindex
        /\ new' = new /\ found' = found /\ built' = built /\ stamp' = stamp
    BY <1>3 DEF Rename, mergeVars
  <2>2. moves' \in {<<"out">>, <<"post", "out">>}
    BY <1>1, <1>3, <2>1, MoveTypes
  <2>3. TypeOK'
    BY <1>1, <1>2, <2>1, <2>2 DEF TypeInv, TypeOK
  <2>4. Stages'
    BY <1>1, <2>1, <2>2 DEF TypeInv, Stages, AtRest
  <2> QED BY <2>3, <2>4 DEF TypeInv
<1>4. CASE Tail(moves) = <<>>
  <2>1. /\ pc' = "ready" /\ cut' = cut /\ torn' = FALSE /\ invertedindex' \in BOOLEAN
        /\ reftime' = 0 /\ old' = <<>> /\ given' = {} /\ fileindex' = 0
        /\ new' = <<>> /\ found' = {} /\ built' = {} /\ moves' = <<>> /\ stamp' = 0
    BY <1>4 DEF Rename, Forget, IndexOpens
  <2>2. /\ fileindex' \in 0 .. Len(srcfiles')
        /\ {old', new'} \subseteq Seq(Ref) /\ {reftime', stamp'} \subseteq 0 .. MaxTime
        /\ given' \subseteq Files /\ found' \subseteq Files /\ built' \subseteq Files
    BY <1>1, <2>1, HazardsAssumption DEF TypeInv, TypeOK
  <2>3. TypeOK'
    BY <1>1, <1>2, <2>1, <2>2 DEF TypeInv, TypeOK
  <2>4. Stages'
    BY <1>1, <2>1 DEF TypeInv, Stages, AtRest
  <2> QED BY <2>3, <2>4 DEF TypeInv
<1> QED BY <1>3, <1>4

LEMMA TypeCrash ==
  ASSUME TypeInv, Crash
  PROVE  TypeInv'
<1>1. /\ file' = file /\ clock' = clock /\ disk' = disk /\ torn' \in BOOLEAN /\ cut' \in BOOLEAN
      /\ pc' = "idle" /\ srcfiles' = <<>> /\ invertedindex' = FALSE /\ assume' = "nothing"
      /\ reftime' = 0 /\ old' = <<>> /\ given' = {} /\ fileindex' = 0
      /\ new' = <<>> /\ found' = {} /\ built' = {} /\ moves' = <<>> /\ stamp' = 0
  BY DEF Crash, Exit, Forget, TypeInv, TypeOK
<1>2. /\ srcfiles' \in Seq(Names) /\ fileindex' \in 0 .. Len(srcfiles')
      /\ {old', new'} \subseteq Seq(Ref) /\ {reftime', stamp'} \subseteq 0 .. MaxTime
      /\ given' \subseteq Files /\ found' \subseteq Files /\ built' \subseteq Files
      /\ assume' \in Assumptions
  BY <1>1, HazardsAssumption DEF Assumptions
<1>3. TypeOK'
  BY <1>1, <1>2 DEF TypeInv, TypeOK
<1>4. Stages'
  BY <1>1 DEF Stages, AtRest
<1> QED BY <1>3, <1>4 DEF TypeInv

LEMMA TypeQuit ==
  ASSUME TypeInv, Quit
  PROVE  TypeInv'
<1>1. /\ file' = file /\ clock' = clock /\ disk' = disk /\ cut' = cut /\ torn' = torn
      /\ pc' = "idle" /\ srcfiles' = <<>> /\ invertedindex' = FALSE /\ assume' = "nothing"
      /\ reftime' = reftime /\ old' = old /\ given' = given /\ fileindex' = fileindex
      /\ new' = new /\ found' = found /\ built' = built /\ moves' = moves /\ stamp' = stamp
      /\ pc = "ready"
  BY DEF Quit, Exit, mergeVars, moveVars, indexVars
<1>2. fileindex = 0 /\ stamp = 0 /\ moves = <<>>
  BY <1>1 DEF TypeInv, Stages, AtRest
<1>3. srcfiles' \in Seq(Names) /\ fileindex' \in 0 .. Len(srcfiles')
  BY <1>1, <1>2
<1>4. TypeOK'
  BY <1>1, <1>3 DEF TypeInv, TypeOK, Assumptions
<1>5. Stages'
  BY <1>1, <1>2 DEF Stages, AtRest
<1> QED BY <1>4, <1>5 DEF TypeInv

LEMMA TypeEnvironment ==
  ASSUME TypeInv, Tick \/ \E f \in Files : Edit(f) \/ Delete(f)
  PROVE  TypeInv'
<1>1. /\ disk' = disk /\ pc' = pc /\ srcfiles' = srcfiles
      /\ invertedindex' = invertedindex /\ assume' = assume
      /\ reftime' = reftime /\ old' = old /\ given' = given /\ fileindex' = fileindex
      /\ new' = new /\ found' = found /\ built' = built /\ moves' = moves /\ stamp' = stamp
      /\ cut' = cut /\ torn' = torn
  BY DEF Tick, Edit, Delete, optionVars, mergeVars, moveVars, indexVars
<1>2. clock' \in 1 .. MaxTime
  BY HazardsAssumption DEF Tick, Edit, Delete, TypeInv, TypeOK
<1>3. file' \in [Files -> [c : Contents, m : 0 .. MaxTime] \cup {None}]
  <2>1. /\ file \in [Files -> [c : Contents, m : 0 .. MaxTime] \cup {None}]
        /\ clock \in 0 .. MaxTime
    BY HazardsAssumption DEF TypeInv, TypeOK
  <2>2. CASE Tick
    BY <2>1, <2>2 DEF Tick
  <2>3. ASSUME NEW f \in Files, Edit(f)
        PROVE  file' \in [Files -> [c : Contents, m : 0 .. MaxTime] \cup {None}]
    <3>1. PICK c \in Contents, t \in Times : file' = [file EXCEPT ![f] = [c |-> c, m |-> t]]
      BY <2>3 DEF Edit
    <3>2. [c |-> c, m |-> t] \in [c : Contents, m : 0 .. MaxTime]
      BY <2>1, HazardsAssumption DEF Times
    <3> QED BY <2>1, <3>1, <3>2
  <2>4. ASSUME NEW f \in Files, Delete(f)
        PROVE  file' \in [Files -> [c : Contents, m : 0 .. MaxTime] \cup {None}]
    BY <2>1, <2>4 DEF Delete
  <2> QED BY <2>2, <2>3, <2>4
<1>4. TypeOK'
  BY <1>1, <1>2, <1>3 DEF TypeInv, TypeOK
<1>5. Stages'
  BY <1>1 DEF TypeInv, Stages, AtRest
<1> QED BY <1>4, <1>5 DEF TypeInv

(* A build begins, or has nothing to do: Start and Rebuild.                *)
Begins(S, q, a) ==
  /\ S \in SourceLists /\ q \in BOOLEAN /\ a \in Assumptions
  /\ assume' = a
  /\ UNCHANGED <<file, clock, indexVars>>

LEMMA StartOrRebuild ==
  ASSUME TypeInv, Start \/ Rebuild
  PROVE  /\ AtRest
         /\ \E S \in SourceLists, q \in BOOLEAN, a \in Assumptions :
              Begins(S, q, a) /\ (UpToDate(S, q, a) \/ Begin(S, q, a))
BY DEF Start, Rebuild, Build, Begins, AtRest, TypeInv, TypeOK

LEMMA TypeStep == TypeInv /\ [Next]_vars => TypeInv'
<1> SUFFICES ASSUME TypeInv, [Next]_vars
             PROVE  TypeInv'
  OBVIOUS
<1>1. CASE Tick \/ \E f \in Files : Edit(f) \/ Delete(f)
  BY <1>1, TypeEnvironment
<1>2. CASE Start \/ Rebuild
  BY <1>2, StartOrRebuild, TypeBegin, TypeUpToDate DEF Begins
<1>3. CASE UNCHANGED vars
  BY <1>3 DEF vars, optionVars, mergeVars, moveVars, indexVars, TypeInv, TypeOK, Stages, AtRest
<1> QED BY <1>1, <1>2, <1>3, TypeCrash, TypeQuit, TypeNewFile, TypeChangedFile, TypeCopy,
           TypeNextPass, TypeMakeIndex, TypeCloseNew, TypeUnlink, TypeRename DEF Next, Step

LEMMA TypeAlways == Spec => []TypeInv
BY TypeInit, TypeStep, PTL DEF Spec

(* Every variable keeps its kind, whatever is edited, killed or restarted  *)
(* (build.c, and the parts of main.c and dir.c around it).                 *)
THEOREM TypeInvariant == Spec => []TypeOK
<1>1. TypeInv => TypeOK
  BY DEF TypeInv
<1> QED BY <1>1, TypeAlways, PTL

-----------------------------------------------------------------------------
(* The inverted index.  While the three files are replaced, those already  *)
(* in place are of the new cross-reference.                                *)
IndexInv ==
  /\ IndexAgrees
  /\ pc = "replace" /\ moves # <<"out">> => invertedindex
  /\ pc = "replace" /\ moves = <<"post", "out">> => disk.inv = [of |-> new, whole |-> ~cut]
  /\ pc = "replace" /\ moves = <<"out">> /\ invertedindex =>
       disk.inv = [of |-> new, whole |-> ~cut] /\ disk.post = [of |-> new]

(* What only reads the database, or works on a new one, keeps it.          *)
LEMMA IndexKept ==
  ASSUME IndexInv, disk' = disk, cut' = cut /\ torn' = torn, pc # "replace", pc' # "replace"
  PROVE  IndexInv'
BY DEF IndexInv, IndexAgrees, IndexOpens

LEMMA IndexBegin ==
  ASSUME TypeInv, IndexInv, AtRest, NEW S \in SourceLists, NEW q \in BOOLEAN,
         NEW a \in Assumptions, Begin(S, q, a), cut' = cut /\ torn' = torn
  PROVE  IndexInv'
<1>1. pc # "replace" /\ pc' = "merge"
  BY DEF Begin, AtRest
<1>2. CASE disk' = disk
  BY <1>1, <1>2, IndexKept
<1>3. CASE disk' = [disk EXCEPT !.inv = None, !.post = None]
  <2>1. disk'.inv = None
    BY <1>3, DiskTypes DEF TypeInv, TypeOK
  <2> QED BY <1>1, <2>1 DEF IndexInv, IndexAgrees, IndexOpens
<1> QED BY <1>2, <1>3 DEF Begin

LEMMA IndexMakeIndex ==
  ASSUME TypeInv, IndexInv, MakeIndex
  PROVE  IndexInv'
<1>1. /\ pc = "index" /\ pc' = "replace" /\ disk' = disk
      /\ \/ /\ moves' = <<"inv", "post", "out">>
            /\ invertedindex /\ invertedindex' = invertedindex
         \/ moves' = <<"out">> /\ invertedindex' = FALSE
  BY DEF MakeIndex
<1>2. invertedindex \in BOOLEAN
  BY DEF TypeInv, TypeOK
<1>3. <<"inv", "post", "out">> # <<"out">> /\ <<"inv", "post", "out">> # <<"post", "out">>
  OBVIOUS
<1>4. invertedindex' => moves' = <<"inv", "post", "out">>
  BY <1>1, <1>2
<1>5. ~invertedindex' => moves' = <<"out">>
  BY <1>1, <1>2
<1> QED BY <1>1, <1>3, <1>4, <1>5 DEF IndexInv, IndexAgrees

LEMMA IndexUnlink ==
  ASSUME TypeInv, IndexInv, Unlink
  PROVE  IndexInv'
<1>1. /\ pc = "replace" /\ pc' = pc /\ moves' = moves /\ new' = new
      /\ invertedindex' = invertedindex /\ cut' = cut
      /\ disk' = [disk EXCEPT ![Head(moves)] = None]
  BY DEF Unlink, Movable, optionVars, mergeVars, moveVars, indexVars
<1>2. Head(moves) # "inv" => disk'.inv = disk.inv
  BY <1>1, DiskTypes, MoveTypes DEF TypeInv, TypeOK
<1>3. Head(moves) = "out" => disk'.post = disk.post
  BY <1>1, DiskTypes, MoveTypes DEF TypeInv, TypeOK
<1> QED BY <1>1, <1>2, <1>3, MoveTypes DEF IndexInv, IndexAgrees

LEMMA IndexRename ==
  ASSUME TypeInv, IndexInv, Rename
  PROVE  IndexInv'
<1>1. /\ pc = "replace" /\ Movable /\ cut' = cut
      /\ disk' = [disk EXCEPT ![Head(moves)] = Written(Head(moves))]
  BY DEF Rename, Movable
<1>2. /\ Head(moves) = "inv"  => disk'.inv = [of |-> new, whole |-> ~cut]
      /\ Head(moves) = "post" => disk'.inv = disk.inv /\ disk'.post = [of |-> new]
      /\ Head(moves) = "out"  => /\ disk'.inv = disk.inv /\ disk'.post = disk.post
                                 /\ disk'.out.refs = new /\ disk'.out.q = invertedindex
  BY <1>1, MoveTypes DEF TypeInv, TypeOK, Written
<1>3. CASE Head(moves) = "out"
  <2>1. pc' = "ready"
    BY <1>1, <1>3, MoveTypes DEF Rename
  <2>2. moves = <<"out">>
    BY <1>1, <1>3, MoveTypes
  <2> QED BY <1>1, <1>2, <1>3, <2>1, <2>2 DEF IndexInv, IndexAgrees, IndexOpens
<1>4. CASE Head(moves) # "out"
  <2>1. /\ moves' = Tail(moves) /\ Tail(moves) # <<>> /\ pc' = pc /\ new' = new
        /\ invertedindex' = invertedindex /\ moves # <<"out">>
    BY <1>1, <1>4, MoveTypes DEF Rename, mergeVars
  <2>2. invertedindex'
    BY <1>1, <2>1 DEF IndexInv
  <2>3. Head(moves) = "inv" => moves' = <<"post", "out">> /\ moves' # <<"out">>
    BY <1>1, <2>1, MoveTypes
  <2>4. Head(moves) = "post" => moves' = <<"out">> /\ moves' # <<"post", "out">>
    BY <1>1, <2>1, MoveTypes
  <2> QED BY <1>1, <1>2, <1>4, <2>1, <2>2, <2>3, <2>4, MoveTypes DEF IndexInv, IndexAgrees
<1> QED BY <1>3, <1>4

LEMMA IndexStep == TypeInv /\ IndexInv /\ [Next]_vars => IndexInv'
<1> SUFFICES ASSUME TypeInv, IndexInv, [Next]_vars
             PROVE  IndexInv'
  OBVIOUS
<1>1. CASE \/ Tick \/ (\E f \in Files : Edit(f) \/ Delete(f)) \/ CloseNew \/ UNCHANGED vars
  <2>1. /\ disk' = disk /\ pc' = pc /\ moves' = moves /\ new' = new /\ cut' = cut /\ torn' = torn
        /\ invertedindex' = invertedindex
    BY <1>1 DEF Tick, Edit, Delete, CloseNew, vars, optionVars, mergeVars, moveVars, indexVars
  <2> QED BY <2>1 DEF IndexInv, IndexAgrees, IndexOpens
<1>2. CASE Crash
  <2>1. /\ disk' = disk /\ pc' = "idle"
        /\ torn' = (torn \/ pc = "replace") /\ cut' = (cut /\ ~torn')
    BY <1>2 DEF Crash, Exit
  <2> QED BY <2>1 DEF IndexInv, IndexAgrees, IndexOpens
<1>3. CASE Start \/ Rebuild
  <2>1. PICK S \in SourceLists, q \in BOOLEAN, a \in Assumptions :
          Begins(S, q, a) /\ (UpToDate(S, q, a) \/ Begin(S, q, a))
    BY <1>3, StartOrRebuild
  <2>2. AtRest /\ cut' = cut /\ torn' = torn
    BY <1>3, <2>1, StartOrRebuild DEF Begins, indexVars
  <2>3. CASE UpToDate(S, q, a)
    BY <2>2, <2>3, IndexKept DEF UpToDate, AtRest
  <2> QED BY <2>1, <2>2, <2>3, IndexBegin
<1>4. CASE Quit
  BY <1>4, IndexKept DEF Quit, Exit, indexVars
<1>5. CASE NewFile \/ ChangedFile \/ Copy
  BY <1>5, IndexKept DEF NewFile, ChangedFile, Copy, Pass, indexVars
<1>6. CASE NextPass
  BY <1>6, IndexKept DEF NextPass, indexVars
<1> QED BY <1>1, <1>2, <1>3, <1>4, <1>5, <1>6, IndexMakeIndex, IndexUnlink, IndexRename
        DEF Next, Step

(* The inverted index is of the cross-reference beside it (movefile() and  *)
(* cannotindex() of build.c), through any builds, edits and kills, but for *)
(* a kill between the moves; and it is whole, unless sort ended early when *)
(* it was made, which build() does not see.                                *)
THEOREM IndexIsOfCrossRef == Spec => []IndexAgrees
<1>1. Init => IndexInv
  BY DEF Init, IndexInv, IndexAgrees, NoDatabase
<1>2. IndexInv => IndexAgrees
  BY DEF IndexInv
<1> QED BY <1>1, <1>2, IndexStep, TypeAlways, PTL DEF Spec

-----------------------------------------------------------------------------
(***************************************************************************)
(* What a build writes, when no file changes while it runs or in the       *)
(* second of cscope.out.                                                   *)
(***************************************************************************)
(* What holds of a build when nothing changes while it runs.               *)
Building == pc \in {"merge", "index", "replace"}

StaleIn(s, t) ==
  \A i \in 1 .. Len(s) :
    Exists(s[i].f) /\ file[s[i].f].c # s[i].c => file[s[i].f].m > t

(* The list has files that are there, once each; those found in the pass   *)
(* are not in it.                                                          *)
SourceInv ==
  Building =>
    /\ \A i \in 1 .. Len(srcfiles) : Exists(srcfiles[i])
    /\ \A i, j \in 1 .. Len(srcfiles) : srcfiles[i] = srcfiles[j] => i = j
    /\ \A f \in found : Exists(f) /\ f \notin Range(srcfiles)
    /\ pc # "merge" => found = {} /\ fileindex = Len(srcfiles)

(* They are files that are listed or included, and those the files seen so *)
(* far include are among them.                                             *)
ClosureInv ==
  Building =>
    /\ given \subseteq Range(srcfiles)
    /\ Range(srcfiles) \cup found \subseteq Reached(given)
    /\ \A i \in 1 .. fileindex : \A g \in file[srcfiles[i]].c :
         Exists(g) => g \in Range(srcfiles) \cup found

(* The new data are those of the files of now, the old data that are not   *)
(* belong to files newer than the old cscope.out.                          *)
DataInv ==
  /\ StaleIsNewer
  /\ disk.out # None => NamesOf(disk.out.refs) = disk.out.list
  /\ pc = "merge" => StaleIn(old, reftime)
  /\ Building => /\ Len(new) = fileindex
                 /\ \A i \in 1 .. fileindex : new[i] = Now(srcfiles[i])

(* As long as the files come in the order of the old cscope.out, the old   *)
(* data not yet used are those of the files not yet seen, and only files   *)
(* that changed have been read.                                            *)
SameSoFar ==
  \A i \in 1 .. fileindex : i <= Len(disk.out.refs) /\ disk.out.refs[i].f = srcfiles[i]
CopyInv ==
  Building /\ disk.out # None /\ reftime > 0 =>
    (SameSoFar =>
      /\ pc = "merge" =>
           /\ Len(old) = Len(disk.out.refs) - fileindex
           /\ \A i \in 1 .. Len(old) : old[i] = disk.out.refs[fileindex + i]
      /\ \A f \in built : file[f].m > reftime)

BuildInv == SourceInv /\ ClosureInv /\ DataInv /\ CopyInv

(* The old data after a file are a part of those before it.                *)
PartOf(s, o) == \A i \in 1 .. Len(s) : \E j \in 1 .. Len(o) : s[i] = o[j]

LEMMA FromIsPart ==
  ASSUME NEW o \in Seq(Ref), NEW f \in Nat
  PROVE  PartOf(From(o, f), o)
<1>1. PICK k \in 0 .. Len(o) :
        /\ Len(From(o, f)) = Len(o) - k
        /\ \A i \in 1 .. Len(o) - k : From(o, f)[i] = o[k + i]
  BY FromIsRest
<1> SUFFICES ASSUME NEW i \in 1 .. Len(o) - k
             PROVE  \E j \in 1 .. Len(o) : From(o, f)[i] = o[j]
  BY <1>1 DEF PartOf
<1>2. k + i \in 1 .. Len(o)
  OBVIOUS
<1> QED BY <1>1, <1>2

LEMMA TailIsPart ==
  ASSUME NEW o \in Seq(Ref), NEW s \in Seq(Ref), s # <<>>, PartOf(s, o)
  PROVE  PartOf(Tail(s), o)
<1>1. /\ Tail(s) \in Seq(Ref) /\ Len(Tail(s)) = Len(s) - 1
      /\ \A i \in 1 .. Len(s) - 1 : Tail(s)[i] = s[i + 1]
  BY HeadTailProperties
<1> SUFFICES ASSUME NEW i \in 1 .. Len(s) - 1
             PROVE  \E j \in 1 .. Len(o) : Tail(s)[i] = o[j]
  BY <1>1 DEF PartOf
<1>2. i + 1 \in 1 .. Len(s)
  OBVIOUS
<1> QED BY <1>1, <1>2 DEF PartOf

LEMMA RangeIsElements ==
  ASSUME NEW T, NEW s \in Seq(T)
  PROVE  /\ Range(s) \subseteq T
         /\ \A i \in 1 .. Len(s) : s[i] \in Range(s)
         /\ \A x \in Range(s) : \E i \in 1 .. Len(s) : s[i] = x
<1>1. Range(s) = {s[i] : i \in 1 .. Len(s)}
  BY RangeEquality
<1> QED BY <1>1

LEMMA DataOfFiles ==
  ASSUME TypeInv, disk.out # None, NEW r \in Range(disk.out.refs)
  PROVE  r \in Ref /\ r.f \in Files
<1>1. r \in Ref
  BY DiskTypes, RangeIsElements DEF TypeInv
<1> QED BY <1>1 DEF Ref

(* Without hazards the environment waits until cscope has ended.           *)
LEMMA EditAtRest ==
  ASSUME Hazards = {}, Tick \/ \E f \in Files : Edit(f) \/ Delete(f)
  PROVE  AtRest /\ pc' = pc /\ disk' = disk
BY DEF Tick, Edit, Delete, Quiet

(* At rest only the database counts.                                       *)
LEMMA RestInv ==
  ASSUME AtRest', DataInv, disk' = disk, file' = file
  PROVE  BuildInv'
<1>1. ~Building' /\ pc' # "merge"
  BY DEF AtRest, Building
<1>2. StaleIsNewer' /\ (disk'.out # None => NamesOf(disk.out.refs)' = disk'.out.list)
  BY DEF DataInv, StaleIsNewer, Exists, NamesOf
<1> QED BY <1>1, <1>2 DEF BuildInv, SourceInv, ClosureInv, DataInv, CopyInv

LEMMA EditInv ==
  ASSUME Hazards = {}, TypeInv, BuildInv, NEW f \in Files, Edit(f)
  PROVE  StaleIsNewer'
<1>1. PICK c \in Contents : file' = [file EXCEPT ![f] = [c |-> c, m |-> clock]]
  BY DEF Edit, Times
<1>2. disk.out # None /\ disk.out.m < clock /\ disk' = disk
  BY DEF Edit, Quiet, Later
<1> SUFFICES ASSUME NEW r \in Range(disk.out.refs), file'[r.f] # None, file'[r.f].c # r.c
             PROVE  file'[r.f].m > disk.out.m
  BY <1>2 DEF StaleIsNewer, Exists
<1>4. r.f \in Files
  BY <1>2, DataOfFiles
<1>5. file \in [Files -> [c : Contents, m : 0 .. MaxTime] \cup {None}]
      /\ clock \in Nat /\ disk.out.m \in Nat
  BY <1>2, DiskTypes, HazardsAssumption DEF TypeInv, TypeOK
<1>6. CASE r.f = f
  BY <1>1, <1>2, <1>5, <1>6
<1>7. CASE r.f # f
  <2>1. file'[r.f] = file[r.f]
    BY <1>1, <1>4, <1>5, <1>7
  <2> QED BY <2>1, <1>2 DEF BuildInv, DataInv, StaleIsNewer, Exists
<1> QED BY <1>6, <1>7

LEMMA EnvironmentInv ==
  ASSUME Hazards = {}, TypeInv, BuildInv, Tick \/ \E f \in Files : Edit(f) \/ Delete(f)
  PROVE  BuildInv'
<1>1. AtRest' /\ disk' = disk
  BY EditAtRest DEF AtRest
<1>2. StaleIsNewer'
  <2>1. CASE Tick
    BY <2>1 DEF Tick, BuildInv, DataInv, StaleIsNewer, Exists
  <2>2. ASSUME NEW f \in Files, Delete(f)
        PROVE  StaleIsNewer'
    <3>1. file' = [file EXCEPT ![f] = None] /\ disk' = disk
      BY <2>2 DEF Delete
    <3>2. file \in [Files -> [c : Contents, m : 0 .. MaxTime] \cup {None}]
      BY DEF TypeInv, TypeOK
    <3> SUFFICES ASSUME disk.out # None, NEW r \in Range(disk.out.refs),
                        file'[r.f] # None, file'[r.f].c # r.c
                 PROVE  file'[r.f].m > disk.out.m
      BY <3>1 DEF StaleIsNewer, Exists
    <3>3. r.f \in Files
      BY DataOfFiles
    <3>4. file'[r.f] = file[r.f]
      BY <3>1, <3>2, <3>3
    <3> QED BY <3>4 DEF BuildInv, DataInv, StaleIsNewer, Exists
  <2> QED BY <2>1, <2>2, EditInv
<1>3. ~Building' /\ pc' # "merge"
  BY <1>1 DEF Building, AtRest
<1>4. disk'.out # None => NamesOf(disk.out.refs)' = disk'.out.list
  BY <1>1 DEF BuildInv, DataInv, NamesOf
<1> QED BY <1>2, <1>3, <1>4 DEF BuildInv, SourceInv, ClosureInv, DataInv, CopyInv

(* What is reached from a set has that set in it.                          *)
LEMMA ReachedHas ==
  ASSUME NEW S \in SUBSET Files
  PROVE  S \subseteq Reached(S)
BY DEF Reached

LEMMA ReachedGrows ==
  ASSUME NEW S \in SUBSET Files, NEW g \in Reached(S), Exists(g),
         NEW h \in Files, Exists(h), h \in file[g].c
  PROVE  h \in Reached(S)
BY DEF Reached, IncludedFrom

LEMMA ReachedSame ==
  ASSUME file' = file, given' = given
  PROVE  Reached(given)' = Reached(given)
BY DEF Reached, IncludedFrom, Exists

LEMMA BeginInv ==
  ASSUME TypeInv, BuildInv, AtRest, NEW S \in SourceLists, NEW q \in BOOLEAN,
         NEW a \in Assumptions, Begin(S, q, a), file' = file
  PROVE  BuildInv'
<1> DEFINE l == ListOf(S)
<1>1. /\ pc' = "merge" /\ srcfiles' = l /\ given' = Range(l) /\ fileindex' = 0
      /\ new' = <<>> /\ found' = {} /\ built' = {} /\ disk'.out = disk.out
  <2>1. disk'.out = disk.out
    BY DEF Begin, TypeInv, TypeOK
  <2> QED BY <2>1 DEF Begin
<1>2. /\ l \in Seq(Files) /\ Len(l) \in Nat /\ Range(l) \in SUBSET Files
      /\ \A i \in 1 .. Len(l) : Exists(l[i])
      /\ \A i, j \in 1 .. Len(l) : l[i] = l[j] => i = j
  BY ListOfIsSource DEF TypeInv
<1>3. \/ reftime' = 0 /\ old' = <<>>
      \/ disk.out # None /\ reftime' = disk.out.m /\ old' = disk.out.refs
  BY DEF Begin
<1> HIDE DEF l
<1>4. SourceInv'
  BY <1>1, <1>2 DEF SourceInv, Exists
<1>5. Range(l) \subseteq Reached(given)'
  BY <1>1, <1>2 DEF Reached
<1>6. ClosureInv'
  BY <1>1, <1>5 DEF ClosureInv
<1>7. StaleIsNewer' /\ (disk'.out # None => NamesOf(disk.out.refs)' = disk'.out.list)
  BY <1>1 DEF BuildInv, DataInv, StaleIsNewer, Exists, NamesOf
<1>8. StaleIn(old, reftime)'
  <2>1. CASE old' = <<>>
    BY <2>1 DEF StaleIn
  <2>2. CASE disk.out # None /\ reftime' = disk.out.m /\ old' = disk.out.refs
    <3> disk.out.refs \in Seq(Ref)
      BY <2>2, DiskTypes DEF TypeInv
    <3>1. \A i \in 1 .. Len(disk.out.refs) : disk.out.refs[i] \in Range(disk.out.refs)
      BY RangeIsElements
    <3> QED BY <2>2, <3>1 DEF StaleIn, BuildInv, DataInv, StaleIsNewer, Exists
  <2> QED BY <1>3, <2>1, <2>2
<1>9. DataInv'
  BY <1>1, <1>7, <1>8 DEF DataInv
<1>10. CopyInv'
  <2> SUFFICES ASSUME disk.out # None, reftime' > 0
               PROVE  /\ Len(old') = Len(disk.out.refs) - 0
                      /\ \A i \in 1 .. Len(old') : old'[i] = disk.out.refs[0 + i]
    BY <1>1 DEF CopyInv
  <2>1. old' = disk.out.refs
    BY <1>3
  <2>2. Len(disk.out.refs) \in Nat
    BY DiskTypes DEF TypeInv
  <2> QED BY <2>1, <2>2
<1> QED BY <1>4, <1>6, <1>9, <1>10 DEF BuildInv

(* What the three ways to deal with a file have in common: the new data    *)
(* are those of the file of now, whether they were read or copied.         *)
PassEffect ==
  /\ Pass
  /\ new' = Append(new, Now(File))
  /\ Include(file[File].c)
  /\ PartOf(old', old)

LEMMA FileIsPresent ==
  ASSUME TypeInv, BuildInv, Pass
  PROVE  /\ Building /\ Exists(File) /\ File \in Files /\ File \in Range(srcfiles)
         /\ file[File].m \in Nat /\ reftime \in Nat
         /\ old \in Seq(Ref) /\ From(old, File) \in Seq(Ref) /\ PartOf(From(old, File), old)
<1>1. pc = "merge" /\ fileindex < Len(srcfiles) /\ Building
  BY DEF Pass, Building
<1>2. File \in Files /\ File \in Nat /\ fileindex + 1 \in 1 .. Len(srcfiles)
      /\ From(old, File) \in Seq(Ref)
  BY <1>1, FileIsListed
<1>3. Exists(File)
  BY <1>1, <1>2 DEF BuildInv, SourceInv, File
<1>4. srcfiles \in Seq(Names)
  BY DEF TypeInv, TypeOK
<1>5. File \in Range(srcfiles)
  BY <1>2, <1>4, RangeIsElements DEF File
<1>6. file[File].m \in Nat /\ reftime \in Nat /\ old \in Seq(Ref)
  BY <1>2, <1>3, FileTypes DEF TypeInv, TypeOK
<1> QED BY <1>1, <1>2, <1>3, <1>5, <1>6, FromIsPart

LEMMA PassHasEffect ==
  ASSUME TypeInv, BuildInv, NewFile \/ ChangedFile \/ Copy
  PROVE  PassEffect
<1> DEFINE o == From(old, File)
<1>1. Pass
  BY DEF NewFile, ChangedFile, Copy
<1>2. Exists(File) /\ File \in Files /\ old \in Seq(Ref) /\ o \in Seq(Ref) /\ PartOf(o, old)
      /\ file[File].m \in Nat /\ reftime \in Nat /\ pc = "merge"
  BY <1>1, FileIsPresent DEF Pass
<1>3. PartOf(old', old)
  <2>1. old' = o \/ (old' = Tail(o) /\ IsNext(o))
    BY DEF NewFile, ChangedFile, Copy
  <2> HIDE DEF o
  <2> QED BY <1>2, <2>1, TailIsPart DEF IsNext
<1>4. CASE NewFile \/ ChangedFile
  BY <1>1, <1>2, <1>3, <1>4 DEF PassEffect, NewFile, ChangedFile, Crossref
<1>5. CASE Copy
  <2>1. IsNext(o) /\ new' = Append(new, o[1]) /\ Include(o[1].c) /\ ~ (file[File].m > reftime)
    BY <1>2, <1>5 DEF Copy, Modified
  <2>2. o[1] \in Ref /\ o[1].f = File
    BY <1>1, <2>1, NextIsRef
  <2> HIDE DEF o
  <2>3. 1 \in 1 .. Len(o)
    BY <1>2, <2>1 DEF IsNext
  <2>4. PICK j \in 1 .. Len(old) : o[1] = old[j]
    BY <1>2, <2>3 DEF PartOf
  <2>5. o[1].c = file[File].c
    BY <1>2, <2>1, <2>2, <2>4 DEF BuildInv, DataInv, StaleIn
  <2>6. o[1] = Now(File)
    BY <2>2, <2>5 DEF Ref, Now
  <2> QED BY <1>1, <1>3, <2>1, <2>5, <2>6 DEF PassEffect
<1> QED BY <1>4, <1>5

LEMMA PassUnchanged ==
  ASSUME Pass
  PROVE  /\ file' = file /\ disk' = disk /\ pc = "merge" /\ pc' = pc /\ srcfiles' = srcfiles
         /\ given' = given /\ reftime' = reftime /\ fileindex' = fileindex + 1
         /\ fileindex < Len(srcfiles)
BY DEF Pass

LEMMA PassSource ==
  ASSUME TypeInv, BuildInv, PassEffect
  PROVE  SourceInv'
BY PassUnchanged DEF PassEffect, Include, BuildInv, SourceInv, Building, Exists

LEMMA PassClosure ==
  ASSUME TypeInv, BuildInv, PassEffect
  PROVE  ClosureInv'
<1> DEFINE R  == Range(srcfiles)
           In == {g \in file[File].c : Exists(g) /\ g \notin R}
<1>1. /\ file' = file /\ srcfiles' = srcfiles /\ given' = given /\ pc' = pc
      /\ fileindex' = fileindex + 1 /\ fileindex < Len(srcfiles)
      /\ found' = found \cup In
  BY PassUnchanged DEF PassEffect, Include
<1>2. /\ Building /\ Exists(File) /\ File \in Files /\ File \in R
      /\ file[File].c \subseteq Files
  BY FileIsPresent, FileTypes DEF PassEffect, TypeInv
<1>3. fileindex \in Nat /\ given \in SUBSET Files
  BY DEF TypeInv, TypeOK
<1>4. /\ given \subseteq R
      /\ R \cup found \subseteq Reached(given)
      /\ \A i \in 1 .. fileindex : \A g \in file[srcfiles[i]].c :
           Exists(g) => g \in R \cup found
  BY <1>2 DEF BuildInv, ClosureInv
<1>5. In \subseteq Reached(given)
  <2> SUFFICES ASSUME NEW g \in file[File].c, Exists(g)
               PROVE  g \in Reached(given)
    OBVIOUS
  <2>1. File \in Reached(given) /\ g \in Files
    BY <1>2, <1>4
  <2> QED BY <2>1, <1>2, <1>3, ReachedGrows
<1>6. \A i \in 1 .. fileindex + 1 : \A g \in file[srcfiles[i]].c :
        Exists(g) => g \in R \cup (found \cup In)
  <2> SUFFICES ASSUME NEW i \in 1 .. fileindex + 1, NEW g \in file[srcfiles[i]].c, Exists(g)
               PROVE  g \in R \cup (found \cup In)
    OBVIOUS
  <2>1. CASE i \in 1 .. fileindex
    BY <2>1, <1>4
  <2>2. CASE i = fileindex + 1
    BY <2>2 DEF File
  <2> QED BY <2>1, <2>2, <1>3
<1>7. Reached(given)' = Reached(given)
  BY <1>1, ReachedSame
<1>8. R' = R
  BY <1>1
<1>9. R \cup (found \cup In) \subseteq Reached(given)
  BY <1>4, <1>5
<1> HIDE DEF R, In
<1>10. (Range(srcfiles) \cup found)' \subseteq Reached(given)'
  BY <1>1, <1>7, <1>8, <1>9 DEF R
<1>11. \A i \in 1 .. fileindex' : \A g \in file'[srcfiles'[i]].c :
         Exists(g)' => g \in (Range(srcfiles) \cup found)'
  BY <1>1, <1>6, <1>8 DEF R, Exists
<1> QED BY <1>1, <1>4, <1>8, <1>10, <1>11 DEF ClosureInv, R

LEMMA PassData ==
  ASSUME TypeInv, BuildInv, PassEffect
  PROVE  DataInv'
<1>1. /\ file' = file /\ disk' = disk /\ srcfiles' = srcfiles /\ reftime' = reftime
      /\ fileindex' = fileindex + 1 /\ new' = Append(new, Now(File)) /\ PartOf(old', old)
      /\ pc = "merge" /\ pc' = pc
  BY PassUnchanged DEF PassEffect
<1>2. new \in Seq(Ref) /\ fileindex \in Nat /\ Now(File) \in Ref
  BY FileIsPresent, FileTypes DEF PassEffect, TypeInv, TypeOK
<1>3. Len(new) = fileindex /\ \A i \in 1 .. fileindex : new[i] = Now(srcfiles[i])
  BY <1>1 DEF BuildInv, DataInv, Building
<1>4. /\ Len(new') = fileindex + 1
      /\ \A i \in 1 .. fileindex : new'[i] = new[i]
      /\ new'[fileindex + 1] = Now(File)
  BY <1>1, <1>2, <1>3
<1>5. \A i \in 1 .. fileindex + 1 : new'[i] = Now(srcfiles[i])
  <2> SUFFICES ASSUME NEW i \in 1 .. fileindex + 1
               PROVE  new'[i] = Now(srcfiles[i])
    OBVIOUS
  <2>1. CASE i \in 1 .. fileindex
    BY <2>1, <1>3, <1>4
  <2>2. CASE i = fileindex + 1
    BY <2>2, <1>4 DEF File
  <2> QED BY <2>1, <2>2, <1>2
<1>6. Len(new') = fileindex' /\ \A i \in 1 .. fileindex' : new'[i] = Now(srcfiles[i])'
  BY <1>1, <1>4, <1>5 DEF Now
<1>7. StaleIn(old, reftime)'
  BY <1>1 DEF BuildInv, DataInv, StaleIn, PartOf, Exists
<1>8. StaleIsNewer' /\ (disk'.out # None => NamesOf(disk.out.refs)' = disk'.out.list)
  BY <1>1 DEF BuildInv, DataInv, StaleIsNewer, Exists, NamesOf
<1> QED BY <1>6, <1>7, <1>8 DEF DataInv

LEMMA PassCopy ==
  ASSUME TypeInv, BuildInv, NewFile \/ ChangedFile \/ Copy
  PROVE  CopyInv'
<1> DEFINE refs == disk.out.refs
<1>1. Pass
  BY DEF NewFile, ChangedFile, Copy
<1>2. /\ file' = file /\ disk' = disk /\ srcfiles' = srcfiles /\ reftime' = reftime
      /\ fileindex' = fileindex + 1 /\ pc = "merge" /\ pc' = pc
  BY <1>1, PassUnchanged
<1>3. Building /\ File \in Files /\ File \in Nat /\ old \in Seq(Ref) /\ fileindex \in Nat
  <2>1. Building /\ File \in Files /\ old \in Seq(Ref)
    BY <1>1, FileIsPresent
  <2>2. File \in Nat
    BY <2>1, FilesAreNaturals
  <2>3. fileindex \in Nat
    BY DEF TypeInv, TypeOK
  <2> QED BY <2>1, <2>2, <2>3
<1> SUFFICES ASSUME disk.out # None, reftime > 0,
                    \A i \in 1 .. fileindex + 1 : i <= Len(refs) /\ refs[i].f = srcfiles[i]
             PROVE  /\ Len(old') = Len(refs) - (fileindex + 1)
                    /\ \A i \in 1 .. Len(old') : old'[i] = refs[fileindex + 1 + i]
                    /\ \A f \in built' : file[f].m > reftime
  BY <1>2 DEF CopyInv, SameSoFar
<1>4. refs \in Seq(Ref)
  BY DiskTypes DEF TypeInv
<1>5. fileindex + 1 <= Len(refs) /\ refs[fileindex + 1].f = File /\ Len(refs) \in Nat
  BY <1>3, <1>4 DEF File
<1>6. SameSoFar
  BY <1>3 DEF SameSoFar
<1>7. /\ Len(old) = Len(refs) - fileindex
      /\ \A i \in 1 .. Len(old) : old[i] = refs[fileindex + i]
      /\ \A f \in built : file[f].m > reftime
  BY <1>2, <1>3, <1>6 DEF BuildInv, CopyInv
<1> HIDE DEF refs
<1>8. old # <<>> /\ old[1] = refs[fileindex + 1]
  <2>1. 1 \in 1 .. Len(old)
    BY <1>3, <1>5, <1>7
  <2> QED BY <2>1, <1>7
<1>9. From(old, File) = old /\ IsNext(From(old, File))
  <2>1. From(old, File) = old
    BY <1>3, <1>5, <1>8, FromIsRest
  <2> QED BY <2>1, <1>5, <1>8 DEF IsNext
<1>10. old' = Tail(old) /\ (\/ built' = built
                            \/ built' = built \cup {File} /\ file[File].m > reftime)
  BY <1>9 DEF NewFile, ChangedFile, Copy, Crossref, Modified
<1>11. /\ Len(Tail(old)) = Len(old) - 1
       /\ \A i \in 1 .. Len(old) - 1 : Tail(old)[i] = old[i + 1]
  BY <1>3, <1>8, HeadTailProperties
<1>12. \A i \in 1 .. Len(old) - 1 : old[i + 1] = refs[fileindex + 1 + i]
  <2> SUFFICES ASSUME NEW i \in 1 .. Len(old) - 1
               PROVE  old[i + 1] = refs[fileindex + 1 + i]
    OBVIOUS
  <2>1. i + 1 \in 1 .. Len(old) /\ fileindex + (i + 1) = fileindex + 1 + i
    BY <1>3
  <2> QED BY <2>1, <1>7
<1> QED BY <1>3, <1>5, <1>7, <1>10, <1>11, <1>12

(* The files found in a pass are new elements of the list.                 *)
LEMMA RangeGrows ==
  ASSUME TypeInv, NextPass
  PROVE  Range(srcfiles') = Range(srcfiles) \cup found
<1>1. /\ srcfiles \in Seq(Files) /\ Sorted(found) \in Seq(Files) /\ Sorted(found) \in Seq(found)
      /\ found \in SUBSET Files
  BY ListGrows DEF TypeInv, TypeOK
<1>2. Range(srcfiles \o Sorted(found)) = Range(srcfiles) \cup Range(Sorted(found))
  BY <1>1, RangeConcatenation
<1>3. Range(Sorted(found)) \subseteq found
  BY <1>1, RangeIsElements
<1>4. ASSUME NEW f \in found
      PROVE  f \in Range(Sorted(found))
  <2>1. PICK i \in 1 .. Len(Sorted(found)) : Sorted(found)[i] = f
    BY <1>1, SortedHasAll
  <2> HIDE DEF Sorted
  <2> QED BY <1>1, <2>1, RangeIsElements
<1> QED BY <1>2, <1>3, <1>4 DEF NextPass

LEMMA NextPassSource ==
  ASSUME TypeInv, BuildInv, NextPass
  PROVE  SourceInv'
<1> DEFINE n == Len(srcfiles)
           s == Sorted(found)
<1>1. /\ n \in Nat /\ Len(s) \in Nat /\ Len(srcfiles') = n + Len(s)
      /\ \A i \in 1 .. n : srcfiles'[i] = srcfiles[i]
      /\ \A i \in 1 .. Len(s) : srcfiles'[n + i] = s[i]
  BY ListGrows
<1>2. /\ pc = "merge" /\ fileindex = n /\ fileindex' = n /\ found' = {} /\ file' = file
      /\ pc' = IF found = {} THEN "index" ELSE "merge"
  BY DEF NextPass
<1>3. srcfiles \in Seq(Files) /\ s \in Seq(found)
  BY ListGrows
<1>4. /\ \A i \in 1 .. n : Exists(srcfiles[i])
      /\ \A i, j \in 1 .. n : srcfiles[i] = srcfiles[j] => i = j
      /\ \A f \in found : Exists(f) /\ f \notin Range(srcfiles)
  BY <1>2 DEF BuildInv, SourceInv, Building
<1>5. \A i, j \in 1 .. Len(s) : s[i] = s[j] => i = j
  BY SortedHasAll DEF TypeInv, TypeOK
<1>6. \A i \in 1 .. n : srcfiles[i] \in Range(srcfiles)
  BY <1>3, RangeIsElements
<1> HIDE DEF s
<1>7. \A i \in 1 .. Len(s) : s[i] \in found
  BY <1>3
<1> HIDE DEF n
<1>8. ASSUME NEW i \in 1 .. n + Len(s)
      PROVE  \/ i \in 1 .. n /\ srcfiles'[i] = srcfiles[i]
             \/ \E k \in 1 .. Len(s) : i = n + k /\ srcfiles'[i] = s[k]
  <2>1. CASE i <= n
    BY <2>1, <1>1
  <2>2. CASE ~ (i <= n)
    <3>1. i - n \in 1 .. Len(s) /\ i = n + (i - n)
      BY <2>2, <1>1
    <3> QED BY <3>1, <1>1
  <2> QED BY <2>1, <2>2
<1>9. \A i \in 1 .. n + Len(s) : Exists(srcfiles'[i])
  BY <1>4, <1>7, <1>8
<1>10. ASSUME NEW i \in 1 .. n + Len(s), NEW j \in 1 .. n + Len(s), srcfiles'[i] = srcfiles'[j]
       PROVE  i = j
  <2>1. CASE i \in 1 .. n /\ srcfiles'[i] = srcfiles[i]
    BY <2>1, <1>4, <1>6, <1>7, <1>8, <1>10
  <2>2. CASE \E k \in 1 .. Len(s) : i = n + k /\ srcfiles'[i] = s[k]
    BY <2>2, <1>4, <1>5, <1>6, <1>7, <1>8, <1>10
  <2> QED BY <2>1, <2>2, <1>8
<1>11. pc' # "merge" => Len(srcfiles') = n
  BY <1>1, <1>2, ListGrows, FS_EmptySet DEF s
<1> QED BY <1>1, <1>2, <1>9, <1>10, <1>11 DEF SourceInv, Exists

LEMMA NextPassInv ==
  ASSUME TypeInv, BuildInv, NextPass
  PROVE  BuildInv'
<1>1. /\ file' = file /\ disk' = disk /\ reftime' = reftime /\ old' = old /\ given' = given
      /\ fileindex' = fileindex /\ new' = new /\ built' = built /\ found' = {}
      /\ pc = "merge" /\ fileindex = Len(srcfiles)
  BY DEF NextPass
<1>2. Building /\ fileindex \in Nat
  BY <1>1 DEF Building, TypeInv, TypeOK
<1>3. \A i \in 1 .. fileindex : srcfiles'[i] = srcfiles[i]
  BY <1>1, ListGrows
<1>4. Range(srcfiles') = Range(srcfiles) \cup found
  BY RangeGrows
<1>5. Reached(given)' = Reached(given)
  BY <1>1, ReachedSame
<1>6. ClosureInv'
  <2>1. /\ given \subseteq Range(srcfiles)
        /\ Range(srcfiles) \cup found \subseteq Reached(given)
        /\ \A i \in 1 .. fileindex : \A g \in file[srcfiles[i]].c :
             Exists(g) => g \in Range(srcfiles) \cup found
    BY <1>2 DEF BuildInv, ClosureInv
  <2>2. (Range(srcfiles) \cup found)' = Range(srcfiles) \cup found
    BY <1>1, <1>4
  <2>3. \A i \in 1 .. fileindex' : \A g \in file'[srcfiles'[i]].c :
          Exists(g)' => g \in (Range(srcfiles) \cup found)'
    BY <1>1, <1>3, <2>1, <2>2 DEF Exists
  <2>4. (Range(srcfiles) \cup found)' \subseteq Reached(given)'
    BY <1>5, <2>1, <2>2
  <2>5. given' \subseteq Range(srcfiles')
    BY <1>1, <1>4, <2>1
  <2> QED BY <2>3, <2>4, <2>5 DEF ClosureInv
<1>7. DataInv'
  <2>1. StaleIsNewer' /\ (disk'.out # None => NamesOf(disk.out.refs)' = disk'.out.list)
    BY <1>1 DEF BuildInv, DataInv, StaleIsNewer, Exists, NamesOf
  <2>2. StaleIn(old, reftime)'
    BY <1>1 DEF BuildInv, DataInv, StaleIn, Exists
  <2>3. Len(new') = fileindex' /\ \A i \in 1 .. fileindex' : new'[i] = Now(srcfiles[i])'
    BY <1>1, <1>2, <1>3 DEF BuildInv, DataInv, Now
  <2> QED BY <2>1, <2>2, <2>3 DEF DataInv
<1>8. CopyInv'
  <2>1. SameSoFar' => SameSoFar
    BY <1>1, <1>3 DEF SameSoFar
  <2> QED BY <1>1, <1>2, <2>1 DEF BuildInv, CopyInv
<1> QED BY <1>6, <1>7, <1>8, NextPassSource DEF BuildInv

(* While the files are replaced the new data stay as they are.             *)
LEMMA ReplaceInv ==
  ASSUME TypeInv, BuildInv, pc \in {"index", "replace"}, pc' = "replace",
         file' = file, srcfiles' = srcfiles, UNCHANGED mergeVars,
         disk'.out = disk.out \/ disk'.out = None
  PROVE  BuildInv'
<1>1. /\ reftime' = reftime /\ old' = old /\ given' = given /\ fileindex' = fileindex
      /\ new' = new /\ found' = found /\ built' = built /\ Building
  BY DEF mergeVars, Building
<1>2. SourceInv'
  BY <1>1 DEF BuildInv, SourceInv, Exists
<1>3. ClosureInv'
  <2>1. Reached(given)' = Reached(given)
    BY <1>1, ReachedSame
  <2> QED BY <1>1, <2>1 DEF BuildInv, ClosureInv, Exists
<1>4. DataInv'
  <2>1. StaleIsNewer' /\ (disk'.out # None => NamesOf(disk.out.refs)' = disk'.out.list)
    BY DEF BuildInv, DataInv, StaleIsNewer, Exists, NamesOf
  <2>2. Len(new') = fileindex' /\ \A i \in 1 .. fileindex' : new'[i] = Now(srcfiles[i])'
    BY <1>1 DEF BuildInv, DataInv, Now
  <2> QED BY <2>1, <2>2 DEF DataInv
<1>5. CopyInv'
  <2>1. disk'.out # None => (SameSoFar' <=> SameSoFar)
    BY <1>1 DEF SameSoFar
  <2> QED BY <1>1, <2>1 DEF BuildInv, CopyInv
<1> QED BY <1>2, <1>3, <1>4, <1>5 DEF BuildInv

(* At the end of the passes the new data are those of the listed files.    *)
LEMMA NewIsOfList ==
  ASSUME TypeInv, BuildInv, pc = "replace"
  PROVE  /\ srcfiles \in Seq(Files) /\ new \in Seq(Ref) /\ Len(new) = Len(srcfiles)
         /\ \A i \in 1 .. Len(new) :
              /\ new[i] = Now(srcfiles[i]) /\ Exists(srcfiles[i])
              /\ new[i].f = srcfiles[i] /\ new[i].c = file[srcfiles[i]].c
         /\ NamesOf(new) = srcfiles
<1>1. srcfiles \in Seq(Files) /\ new \in Seq(Ref)
  BY DEF TypeInv, TypeOK, Stages, AtRest
<1>2. /\ fileindex = Len(srcfiles) /\ Len(new) = fileindex
      /\ \A i \in 1 .. fileindex : new[i] = Now(srcfiles[i]) /\ Exists(srcfiles[i])
  BY DEF BuildInv, SourceInv, DataInv, Building
<1>3. ASSUME NEW i \in 1 .. Len(new)
      PROVE  new[i].f = srcfiles[i] /\ new[i].c = file[srcfiles[i]].c
  <2>1. new[i] = Now(srcfiles[i])
    BY <1>2
  <2> QED BY <2>1 DEF Now
<1>4. NamesOf(new) = srcfiles
  <2>1. srcfiles = [i \in 1 .. Len(srcfiles) |-> srcfiles[i]]
    BY <1>1
  <2> QED BY <1>2, <1>3, <2>1 DEF NamesOf
<1> QED BY <1>1, <1>2, <1>3, <1>4

LEMMA RenameInv ==
  ASSUME TypeInv, BuildInv, Rename
  PROVE  BuildInv'
<1>1. /\ pc = "replace" /\ file' = file /\ srcfiles' = srcfiles
      /\ disk' = [disk EXCEPT ![Head(moves)] = Written(Head(moves))]
  BY DEF Rename, Movable
<1>2. CASE Head(moves) # "out"
  <2>1. Tail(moves) # <<>>
    BY <1>1, <1>2, MoveTypes
  <2>2. pc' = "replace" /\ UNCHANGED mergeVars
    BY <1>1, <2>1 DEF Rename
  <2>3. disk'.out = disk.out
    BY <1>1, <1>2, MoveTypes DEF TypeInv, TypeOK
  <2> QED BY <1>1, <2>2, <2>3, ReplaceInv
<1>3. CASE Head(moves) = "out"
  <2>1. Tail(moves) = <<>>
    BY <1>1, <1>3, MoveTypes
  <2>2. pc' = "ready"
    BY <2>1 DEF Rename
  <2>3. disk'.out.refs = new /\ disk'.out.list = srcfiles
    BY <1>1, <1>3 DEF TypeInv, TypeOK, Written
  <2>4. StaleIsNewer'
    <3> SUFFICES ASSUME NEW r \in Range(new)
                 PROVE  file'[r.f].c = r.c
      BY <2>3 DEF StaleIsNewer
    <3>1. PICK i \in 1 .. Len(new) : new[i] = r
      BY <1>1, NewIsOfList, RangeIsElements
    <3> QED BY <1>1, <3>1, NewIsOfList
  <2>5. NamesOf(disk.out.refs)' = disk'.out.list
    BY <1>1, <2>3, NewIsOfList DEF NamesOf
  <2>6. ~Building' /\ pc' # "merge"
    BY <2>2 DEF Building
  <2> QED BY <2>4, <2>5, <2>6 DEF BuildInv, SourceInv, ClosureInv, DataInv, CopyInv
<1> QED BY <1>2, <1>3

LEMMA BuildStep ==
  ASSUME Hazards = {}
  PROVE  TypeInv /\ BuildInv /\ [Next]_vars => BuildInv'
<1> SUFFICES ASSUME TypeInv, BuildInv, [Next]_vars
             PROVE  BuildInv'
  OBVIOUS
<1>1. CASE Tick \/ \E f \in Files : Edit(f) \/ Delete(f)
  BY <1>1, EnvironmentInv
<1>2. CASE Start \/ Rebuild
  <2>1. PICK S \in SourceLists, q \in BOOLEAN, a \in Assumptions :
          Begins(S, q, a) /\ (UpToDate(S, q, a) \/ Begin(S, q, a))
    BY <1>2, StartOrRebuild
  <2>2. AtRest /\ file' = file
    BY <1>2, <2>1, StartOrRebuild DEF Begins
  <2>3. CASE UpToDate(S, q, a)
    BY <2>2, <2>3, RestInv DEF UpToDate, AtRest, BuildInv
  <2> QED BY <2>1, <2>2, <2>3, BeginInv
<1>3. CASE Crash \/ Quit
  BY <1>3, RestInv DEF Crash, Quit, Exit, AtRest, BuildInv
<1>4. CASE NewFile \/ ChangedFile \/ Copy
  BY <1>4, PassHasEffect, PassSource, PassClosure, PassData, PassCopy DEF BuildInv
<1>5. CASE MakeIndex \/ CloseNew
  BY <1>5, ReplaceInv DEF MakeIndex, CloseNew
<1>6. CASE Unlink
  <2>1. disk' = [disk EXCEPT ![Head(moves)] = None]
    BY <1>6 DEF Unlink
  <2>2. disk'.out = disk.out \/ disk'.out = None
    BY <2>1 DEF TypeInv, TypeOK
  <2> QED BY <1>6, <2>2, ReplaceInv DEF Unlink, Movable
<1>7. CASE UNCHANGED vars
  <2>1. /\ file' = file /\ disk' = disk /\ pc' = pc /\ srcfiles' = srcfiles /\ UNCHANGED mergeVars
    BY <1>7 DEF vars
  <2>2. /\ reftime' = reftime /\ old' = old /\ given' = given /\ fileindex' = fileindex
        /\ new' = new /\ found' = found /\ built' = built
    BY <2>1 DEF mergeVars
  <2>3. Reached(given)' = Reached(given)
    BY <2>1, <2>2, ReachedSame
  <2> QED BY <2>1, <2>2, <2>3 DEF BuildInv, SourceInv, ClosureInv, DataInv, CopyInv, SameSoFar,
             Building, StaleIn, StaleIsNewer, Exists, Now, NamesOf
<1> QED BY <1>1, <1>2, <1>3, <1>4, <1>5, <1>6, <1>7, NextPassInv, RenameInv DEF Next, Step

LEMMA BuildAlways ==
  ASSUME Hazards = {}
  PROVE  Spec => []BuildInv
<1>1. Init => BuildInv
  BY DEF Init, NoDatabase, BuildInv, SourceInv, ClosureInv, DataInv, CopyInv, Building, StaleIsNewer
<1> QED BY <1>1, TypeAlways, BuildStep, PTL DEF Spec

-----------------------------------------------------------------------------
(* The theorems of builds that no change disturbs.                         *)

(* Whatever data in cscope.out are stale, their file is newer than it, so  *)
(* that the next build (build.c:308, 391) sees it.                         *)
THEOREM StaleDataAreSeen ==
  ASSUME Hazards = {}
  PROVE  Spec => []StaleIsNewer
<1>1. BuildInv => StaleIsNewer
  BY DEF BuildInv, DataInv
<1> QED BY <1>1, BuildAlways, PTL

(* A build that keeps the order of the files reads again only those that   *)
(* changed (build.c:381-412).                                              *)
THEOREM UnchangedAreCopied ==
  ASSUME Hazards = {}
  PROVE  Spec => []CopiesUnchanged
<1>1. ASSUME TypeInv, BuildInv
      PROVE  CopiesUnchanged
  <2> DEFINE refs == disk.out.refs
  <2> SUFFICES ASSUME pc = "replace", disk.out # None, reftime > 0,
                      NamesOf(new) = NamesOf(refs)
               PROVE  \A f \in built : file[f].m > reftime
    BY DEF CopiesUnchanged
  <2>1. new \in Seq(Ref) /\ refs \in Seq(Ref) /\ Len(new) = Len(srcfiles)
        /\ \A i \in 1 .. Len(new) : new[i].f = srcfiles[i]
    BY <1>1, NewIsOfList, DiskTypes DEF TypeInv
  <2>2. Building /\ fileindex = Len(srcfiles)
    BY <1>1 DEF BuildInv, SourceInv, Building
  <2> HIDE DEF refs
  <2>3. Len(new) = Len(refs)
    <3>1. DOMAIN NamesOf(new) = 1 .. Len(new) /\ DOMAIN NamesOf(refs) = 1 .. Len(refs)
      BY DEF NamesOf
    <3>2. Len(new) \in Nat /\ Len(refs) \in Nat /\ 1 .. Len(new) = 1 .. Len(refs)
      BY <2>1, <3>1
    <3> QED BY <3>2
  <2>4. ASSUME NEW i \in 1 .. Len(new)
        PROVE  new[i].f = refs[i].f
    <3>1. NamesOf(new)[i] = new[i].f /\ NamesOf(refs)[i] = refs[i].f
      BY <2>3 DEF NamesOf
    <3> QED BY <3>1
  <2>5. SameSoFar
    <3>1. \A i \in 1 .. Len(new) : i <= Len(refs) /\ refs[i].f = srcfiles[i]
      BY <2>1, <2>3, <2>4
    <3> QED BY <2>1, <2>2, <3>1 DEF SameSoFar, refs
  <2> QED BY <1>1, <2>2, <2>5 DEF BuildInv, CopyInv
<1> QED BY <1>1, TypeAlways, BuildAlways, PTL

(* The listed files at the end of the passes are those that are reached.   *)
LEMMA ListIsReached ==
  ASSUME TypeInv, BuildInv, pc = "replace"
  PROVE  Range(srcfiles) = Reached({g \in given : Exists(g)})
<1> DEFINE R == Range(srcfiles)
<1>1. srcfiles \in Seq(Files)
  BY NewIsOfList
<1>2. R \in SUBSET Files /\ \A f \in R : \E i \in 1 .. Len(srcfiles) : srcfiles[i] = f
  BY <1>1, RangeIsElements
<1>3. /\ \A i \in 1 .. Len(srcfiles) : Exists(srcfiles[i])
      /\ found = {} /\ fileindex = Len(srcfiles)
  BY DEF BuildInv, SourceInv, Building
<1>4. /\ given \subseteq R /\ R \subseteq Reached(given)
      /\ \A i \in 1 .. fileindex : \A g \in file[srcfiles[i]].c : Exists(g) => g \in R
  BY <1>3 DEF BuildInv, ClosureInv, Building
<1> HIDE DEF R
<1>5. {g \in given : Exists(g)} = given
  BY <1>2, <1>3, <1>4
<1>6. IncludedFrom(R) \subseteq R
  <2> SUFFICES ASSUME NEW f \in Files, Exists(f), NEW g \in R, f \in file[g].c
               PROVE  f \in R
    BY DEF IncludedFrom
  <2>1. PICK i \in 1 .. Len(srcfiles) : srcfiles[i] = g
    BY <1>2
  <2> QED BY <1>3, <1>4, <2>1
<1>7. Reached(given) \subseteq R
  BY <1>2, <1>4, <1>6 DEF Reached
<1> QED BY <1>4, <1>5, <1>7 DEF R

LEMMA NewIsScratch ==
  ASSUME TypeInv, BuildInv, pc = "replace"
  PROVE  /\ Range(new) = Scratch
         /\ Len(new) = Cardinality(Scratch)
         /\ NamesOf(new) = srcfiles
<1>1. /\ srcfiles \in Seq(Files) /\ new \in Seq(Ref) /\ Len(new) = Len(srcfiles)
      /\ \A i \in 1 .. Len(new) : new[i] = Now(srcfiles[i]) /\ new[i].f = srcfiles[i]
      /\ NamesOf(new) = srcfiles
  BY NewIsOfList
<1>2. Range(srcfiles) = Reached({g \in given : Exists(g)})
  BY ListIsReached
<1>3. Range(new) = Scratch
  <2>1. Range(new) = {new[i] : i \in 1 .. Len(new)}
        /\ Range(srcfiles) = {srcfiles[i] : i \in 1 .. Len(srcfiles)}
    BY <1>1, RangeEquality
  <2> QED BY <1>1, <1>2, <2>1 DEF Scratch
<1>4. \A i, j \in 1 .. Len(new) : new[i] = new[j] => i = j
  <2>1. \A i, j \in 1 .. Len(srcfiles) : srcfiles[i] = srcfiles[j] => i = j
    BY DEF BuildInv, SourceInv, Building
  <2> QED BY <1>1, <2>1
<1>5. Len(new) = Cardinality(Range(new))
  <2> DEFINE n == Len(new)
  <2>1. n \in Nat /\ new \in [1 .. n -> Ref]
    BY <1>1
  <2>2. /\ Range(new) = {new[i] : i \in 1 .. n}
        /\ IsFiniteSet(1 .. n) /\ Cardinality(1 .. n) = n
    <3>1. Range(new) = {new[i] : i \in 1 .. n}
      BY <1>1, RangeEquality
    <3>2. IsFiniteSet(1 .. n) /\ Cardinality(1 .. n) = n
      BY <2>1, FS_Interval
    <3> QED BY <3>1, <3>2
  <2> HIDE DEF n
  <2>3. new \in [1 .. n -> Range(new)]
    BY <2>1, <2>2
  <2>4. new \in Bijection(1 .. n, Range(new))
    <3>1. new \in Injection(1 .. n, Range(new))
      BY <1>4, <2>3 DEF Injection, IsInjective, n
    <3>2. new \in Surjection(1 .. n, Range(new))
      BY <2>2, <2>3 DEF Surjection
    <3> QED BY <3>1, <3>2 DEF Bijection
  <2>5. ExistsBijection(1 .. n, Range(new))
    BY <2>4 DEF ExistsBijection
  <2> QED BY <2>2, <2>5, FS_Bijection DEF n
<1> QED BY <1>1, <1>3, <1>5

(* What a start that finds nothing to do relies on.                        *)
LEMMA UpToDateIsCurrent ==
  ASSUME TypeInv, BuildInv, NEW S \in SourceLists, NEW q \in BOOLEAN, NEW a \in Assumptions,
         UpToDate(S, q, a), NEW f \in Range(srcfiles') \cap Files
  PROVE  Now(f) \in Range(disk.out.refs)
<1> DEFINE l == ListOf(S)
           m == IncludedOf(l)
<1>1. /\ l \in Seq(Files) /\ Len(l) \in Nat
  BY ListOfIsSource DEF TypeInv
<1>2. /\ disk.out # None /\ Len(l) <= Len(disk.out.list)
      /\ \A i \in 1 .. Len(l) : /\ disk.out.list[i] = l[i] /\ Exists(l[i])
                                /\ file[l[i]].m <= disk.out.m
  BY DEF UpToDate, IsUpToDate, SameFiles
<1>3. /\ disk.out.list \in Seq(Files) /\ disk.out.refs \in Seq(Ref) /\ disk.out.m \in Nat
      /\ NamesOf(disk.out.refs) = disk.out.list
  BY <1>2, DiskTypes DEF TypeInv, BuildInv, DataInv
<1>4. f \in Range(l) \/ f \in Range(m)
  <2>1. srcfiles' = l \o m
    BY DEF UpToDate
  <2> DEFINE n == Len(disk.out.list) - Len(l)
  <2>2. n \in Nat
    BY <1>1, <1>2, <1>3
  <2>3. m = [i \in 1 .. n |-> m[i]]
    BY DEF IncludedOf
  <2> HIDE DEF n, m, l
  <2>4. m \in Seq(Range(m))
    <3>1. m \in [1 .. n -> Range(m)]
      BY <2>3 DEF Range
    <3> QED BY <2>2, <3>1
  <2>5. Range(l \o m) = Range(l) \cup Range(m)
    <3> DEFINE T == Files \cup Range(m)
    <3>1. l \in Seq(T) /\ m \in Seq(T)
      BY <1>1, <2>4, SeqMonotonic
    <3> HIDE DEF T
    <3> QED BY <3>1, RangeConcatenation
  <2> QED BY <2>1, <2>5
<1>5. f \notin Range(m)
  <2> DEFINE n == Len(disk.out.list) - Len(l)
  <2> SUFFICES ASSUME NEW i \in 1 .. n,
                      f = WithNewline(IF i = 1 THEN 0 ELSE disk.out.list[Len(l) + i - 1])
               PROVE  FALSE
    BY DEF IncludedOf, Range
  <2>1. PICK k \in Nat : k % 2 = 0 /\ f = k + 1
    <3>1. CASE i = 1
      BY <3>1 DEF WithNewline
    <3>2. CASE i # 1
      <4>1. Len(l) + i - 1 \in 1 .. Len(disk.out.list)
        BY <3>2, <1>1, <1>3
      <4>2. disk.out.list[Len(l) + i - 1] \in Files
        BY <4>1, <1>3
      <4> QED BY <3>2, <4>2, FilesAreNaturals DEF WithNewline
    <3> QED BY <3>1, <3>2
  <2>2. f \in Nat /\ f % 2 = 0
    BY FilesAreNaturals
  <2> QED BY <2>1, <2>2
<1>6. PICK i \in 1 .. Len(l) : l[i] = f
  BY <1>1, <1>4, <1>5, RangeIsElements
<1> HIDE DEF l
<1>7. i \in 1 .. Len(disk.out.list) /\ disk.out.list[i] = f
  BY <1>1, <1>2, <1>3, <1>6
<1>8. i \in 1 .. Len(disk.out.refs) /\ disk.out.refs[i].f = f
  BY <1>3, <1>7 DEF NamesOf
<1>9. disk.out.refs[i] \in Range(disk.out.refs) /\ disk.out.refs[i] \in Ref
  BY <1>3, <1>8, RangeIsElements
<1>10. Exists(f) /\ file[f].m <= disk.out.m /\ file[f].m \in Nat
  BY <1>2, <1>6, FileTypes DEF TypeInv
<1>11. file[f].c = disk.out.refs[i].c
  BY <1>2, <1>3, <1>8, <1>9, <1>10 DEF BuildInv, DataInv, StaleIsNewer
<1>12. disk.out.refs[i] = Now(f)
  BY <1>8, <1>9, <1>11 DEF Ref, Now
<1> QED BY <1>9, <1>12

(* A build that copies what has not changed writes what a build from       *)
(* nothing would, and when build() finds nothing to do the data of the     *)
(* listed files are those of their content of now.                         *)
THEOREM BuildIsCurrent ==
  ASSUME Hazards = {}
  PROVE  Spec => IsCurrent
<1> DEFINE Replaced ==
             moves = <<"out">> /\ moves' = <<>> /\ pc' = "ready" =>
               /\ Range(disk'.out.refs) = Scratch
               /\ Len(disk'.out.refs) = Cardinality(Scratch)
               /\ NamesOf(disk'.out.refs) = srcfiles
           Opened ==
             pc = "idle" /\ pc' = "ready" =>
               \A f \in Range(srcfiles') \cap Files : Now(f) \in Range(disk.out.refs)
<1>1. ASSUME TypeInv, BuildInv, [Next]_vars
      PROVE  Replaced
  <2> SUFFICES ASSUME moves = <<"out">>, moves' = <<>>, pc' = "ready"
               PROVE  /\ Range(disk'.out.refs) = Scratch
                      /\ Len(disk'.out.refs) = Cardinality(Scratch)
                      /\ NamesOf(disk'.out.refs) = srcfiles
    OBVIOUS
  <2>1. pc = "replace" /\ moves' # moves
    BY <1>1 DEF TypeInv, Stages
  <2>2. Rename
    <3>1. ~ (Tick \/ (\E f \in Files : Edit(f) \/ Delete(f)) \/ Crash \/ UNCHANGED vars)
      BY <2>1 DEF Tick, Edit, Delete, Crash, Exit, vars, moveVars
    <3>2. ~ (Start \/ Rebuild \/ Quit \/ NewFile \/ ChangedFile \/ Copy \/ NextPass \/ MakeIndex)
      BY <2>1 DEF Start, Rebuild, Quit, NewFile, ChangedFile, Copy, Pass, NextPass, MakeIndex
    <3>3. ~ (CloseNew \/ Unlink)
      BY <2>1 DEF CloseNew, Unlink, moveVars
    <3> QED BY <1>1, <3>1, <3>2, <3>3 DEF Next, Step
  <2>3. disk'.out.refs = new
    <3>1. Head(moves) = "out"
      BY <1>1, <2>1, MoveTypes
    <3>2. disk' = [disk EXCEPT !["out"] = Written("out")]
      BY <2>2, <3>1 DEF Rename
    <3> QED BY <1>1, <3>2 DEF TypeInv, TypeOK, Written
  <2> QED BY <1>1, <2>1, <2>3, NewIsScratch
<1>2. ASSUME TypeInv, BuildInv, [Next]_vars
      PROVE  Opened
  <2> SUFFICES ASSUME pc = "idle", pc' = "ready"
               PROVE  \A f \in Range(srcfiles') \cap Files : Now(f) \in Range(disk.out.refs)
    OBVIOUS
  <2>1. Start
    <3>1. ~ (Tick \/ (\E f \in Files : Edit(f) \/ Delete(f)) \/ Crash \/ UNCHANGED vars)
      BY DEF Tick, Edit, Delete, Crash, Exit, vars
    <3>2. ~ (Rebuild \/ Quit \/ NewFile \/ ChangedFile \/ Copy \/ NextPass)
      BY DEF Rebuild, Quit, NewFile, ChangedFile, Copy, Pass, NextPass
    <3>3. ~ (MakeIndex \/ CloseNew \/ Unlink \/ Rename)
      BY DEF MakeIndex, CloseNew, Unlink, Rename, Movable
    <3> QED BY <1>2, <3>1, <3>2, <3>3 DEF Next, Step
  <2>2. PICK S \in SourceLists, q \in BOOLEAN, a \in Assumptions :
          UpToDate(S, q, a) \/ Begin(S, q, a)
    BY <2>1 DEF Start, Build
  <2>3. UpToDate(S, q, a)
    BY <2>2 DEF Begin
  <2> QED BY <1>2, <2>3, UpToDateIsCurrent
<1>3. ASSUME TypeInv, BuildInv, [Next]_vars
      PROVE  [Replaced /\ Opened]_vars
  BY <1>1, <1>2, <1>3
<1>4. Spec => [][Replaced /\ Opened]_vars
  <2> HIDE DEF Replaced, Opened
  <2> QED BY <1>3, TypeAlways, BuildAlways, PTL DEF Spec
<1>5. [Replaced /\ Opened]_vars <=>
        [/\ moves = <<"out">> /\ moves' = <<>> /\ pc' = "ready" =>
              LET r == disk'.out.refs
              IN  Range(r) = Scratch /\ Len(r) = Cardinality(Scratch) /\ NamesOf(r) = srcfiles
         /\ pc = "idle" /\ pc' = "ready" =>
              \A f \in Range(srcfiles') \cap Files : Now(f) \in Range(disk.out.refs)]_vars
  OBVIOUS
<1> QED BY <1>4, <1>5, PTL DEF IsCurrent

=============================================================================
