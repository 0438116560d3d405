--------------------------- MODULE CscopeBuild ------------------------------
(***************************************************************************)
(* The symbol database of cscope: build() of cscope-15.8a/src/build.c,     *)
(* with the program around it that makes the list of source files, opens   *)
(* the database and builds it again on ^R (main.c, command.c).             *)
(*                                                                         *)
(* The database is three files: cscope.out has the data of every file in   *)
(* the order of the list of files at its end, cscope.in.out and            *)
(* cscope.po.out index it.  A build copies the data of files that have     *)
(* not changed and replaces the three files one after the other.           *)
(***************************************************************************)
EXTENDS Integers, FiniteSets, FiniteSetsExt, Functions, Sequences

CONSTANTS
  Files,       (* the names of files, as even numbers in the order of strcmp() *)
  Contents,    (* what a file can contain: the set of the files it includes *)
  SourceLists, (* the lists of source files cscope may be started with     *)
  Hazards,     (* what the environment may do, see HazardKinds             *)
  MaxTime      (* bound of the clock                                       *)

HazardKinds ==
  { "concurrent_edit",  (* a file changes while a build runs               *)
    "same_second",      (* a file changes in the second of cscope.out      *)
    "old_time" }        (* a file is replaced by an older one (mv, cp -p)  *)

ASSUME FilesAssumption   == IsFiniteSet(Files) /\ Files \subseteq {n \in Nat : n >= 2 /\ n % 2 = 0}
ASSUME ContentAssumption == Contents \subseteq SUBSET Files /\ SourceLists \subseteq SUBSET Files
ASSUME HazardsAssumption == Hazards \subseteq HazardKinds /\ MaxTime \in Nat \ {0}

VARIABLES
  file,        (* the files: content and time of change, or None           *)
  clock,       (* time() and st_mtime, in seconds                          *)
  disk,        (* the three files of the database, or None                 *)
  pc,          (* what cscope is doing                                     *)
  srcfiles,    (* the list srcfiles, which grows by included files         *)
  invertedindex, (* -q                                                     *)
  assume,      (* "nothing"; "fileschanged", with -U; "unconditional", with *)
               (* -u, or when -c, -T or the directory are not the old ones *)
  reftime,     (* st_mtime of the old cross-reference, or 0                *)
  old,         (* the old cross-reference, from oldfile on                 *)
  fileindex,   (* how many of srcfiles have been seen                      *)
  given,       (* the source files the build began with                    *)
  new,         (* the new cross-reference, so far                          *)
  found,       (* the included files found in this pass                    *)
  built,       (* the files whose cross-reference was made, not copied     *)
  moves,       (* the files still to be replaced by movefile()             *)
  stamp,       (* when the new cscope.out was closed, or 0                 *)
  cut,         (* sort ended early when the last inverted index was made   *)
  torn         (* a build was killed after it began to replace them        *)

optionVars == <<invertedindex, assume>>
mergeVars  == <<reftime, old, given, fileindex, new, found, built>>
moveVars   == <<moves, stamp>>
indexVars  == <<cut, torn>>
vars == <<file, clock, disk, pc, optionVars, srcfiles, mergeVars, moveVars, indexVars>>

None == [none |-> TRUE]
NoDatabase == [out |-> None, inv |-> None, post |-> None]

Exists(f) == file[f] # None
Now(f) == [f |-> f, c |-> file[f].c]              \* what crossref() would write of it
NamesOf(refs) == [i \in 1 .. Len(refs) |-> refs[i].f]

(* qsort() with compare(): the i-th name is the one with i - 1 below it.   *)
Below(S, f) == {g \in S : g < f}
Sorted(S) == [i \in 1 .. Cardinality(S) |-> CHOOSE f \in S : Cardinality(Below(S, f)) = i - 1]

(* The files in S, and those that exist and are #included from there on:   *)
(* what every set of files has that contains S and is closed.              *)
IncludedFrom(T) == {f \in Files : Exists(f) /\ \E g \in T : Exists(g) /\ f \in file[g].c}
Reached(S) == {f \in Files : \A T \in SUBSET Files : S \cup IncludedFrom(T) \subseteq T => f \in T}
-----------------------------------------------------------------------------
(* The environment.                                                        *)

AtRest == pc \in {"idle", "ready"}
Quiet  == disk.out # None /\ (AtRest \/ "concurrent_edit" \in Hazards)
Later  == disk.out.m < clock \/ "same_second" \in Hazards

Times  == IF "old_time" \in Hazards THEN 0 .. clock ELSE {clock}

Edit(f) ==
  /\ Quiet /\ Later
  /\ \E c \in Contents, t \in Times : file' = [file EXCEPT ![f] = [c |-> c, m |-> t]]
  /\ UNCHANGED <<clock, disk, pc, optionVars, srcfiles, mergeVars, moveVars, indexVars>>

Delete(f) ==
  /\ Quiet
  /\ Exists(f)
  /\ file' = [file EXCEPT ![f] = None]
  /\ UNCHANGED <<clock, disk, pc, optionVars, srcfiles, mergeVars, moveVars, indexVars>>

Tick ==
  /\ Quiet
  /\ clock < MaxTime
  /\ clock' = clock + 1
  /\ UNCHANGED <<file, disk, pc, optionVars, srcfiles, mergeVars, moveVars, indexVars>>

(* The variables of the program, and those of build(), at their end.       *)
Exit ==
  /\ pc' = "idle"
  /\ srcfiles' = <<>> /\ invertedindex' = FALSE /\ assume' = "nothing"
Forget ==
  /\ reftime' = 0 /\ old' = <<>> /\ given' = {} /\ fileindex' = 0
  /\ new' = <<>> /\ found' = {} /\ built' = {}
  /\ moves' = <<>> /\ stamp' = 0

(* Nothing of a build that is killed is left but the files it has already  *)
(* replaced; ncscope.out and its like are written anew by the next.        *)
Crash ==
  /\ ~AtRest
  /\ torn' = (torn \/ pc = "replace")
  /\ cut' = (cut /\ ~torn')
  /\ Exit /\ Forget
  /\ UNCHANGED <<file, clock, disk>>
-----------------------------------------------------------------------------
(* Is there anything to do?  The first half of build().                    *)

(* The names at the end of cscope.out as samelist() and its like read them *)
(* back: only as many as there are source files are compared.              *)
SameFiles(l) ==
  /\ Len(l) <= Len(disk.out.list)
  /\ \A i \in 1 .. Len(l) :
       /\ disk.out.list[i] = l[i]
       /\ Exists(l[i])
       /\ file[l[i]].m <= disk.out.m

IsUpToDate(l, q, a) ==
  /\ a = "nothing" /\ disk.out # None
  /\ disk.out.q = q
  /\ SameFiles(l)

(* The included files are read with fgets(), which first finds the end of  *)
(* the line of the last source file and leaves the newline in the names: a *)
(* name n with a newline is the number n + 1, and an empty name 0.         *)
WithNewline(n) == n + 1
IncludedOf(l) ==
  LET n == Len(disk.out.list) - Len(l)
  IN  [i \in 1 .. n |-> WithNewline(IF i = 1 THEN 0 ELSE disk.out.list[Len(l) + i - 1])]

(* makefilelist() takes the files that are there; build() sorts them.      *)
ListOf(S) == Sorted({f \in S : Exists(f)})

(* opendatabase() goes on without an inverted index that does not open.    *)
IndexOpens(q, d) == q /\ d.inv # None /\ d.post # None

UpToDate(S, q, a) ==
  /\ IsUpToDate(ListOf(S), q, a)
  /\ pc' = "ready"
  /\ srcfiles' = ListOf(S) \o IncludedOf(ListOf(S))
  /\ invertedindex' = IndexOpens(q, disk)
  /\ UNCHANGED <<disk, mergeVars, moveVars>>

(* -q given up: the files of the inverted index are removed.               *)
Begin(S, q, a) ==
  LET force == a = "unconditional" \/ disk.out = None
  IN  /\ ~IsUpToDate(ListOf(S), q, a)
      /\ pc' = "merge"
      /\ srcfiles' = ListOf(S)
      /\ invertedindex' = q
      /\ reftime' = IF force THEN 0 ELSE disk.out.m
      /\ old' = IF force THEN <<>> ELSE disk.out.refs
      /\ given' = Range(ListOf(S)) /\ fileindex' = 0 /\ new' = <<>> /\ found' = {} /\ built' = {}
      /\ UNCHANGED moveVars
      /\ disk' = IF ~force /\ disk.out.q /\ ~q THEN [disk EXCEPT !.inv = None, !.post = None] ELSE disk

Build(S, q, a) ==
  /\ assume' = a
  /\ UpToDate(S, q, a) \/ Begin(S, q, a)
  /\ UNCHANGED <<file, clock, indexVars>>

Assumptions == {"nothing", "fileschanged", "unconditional"}

(* main(), unless there are no source files at all.                        *)
Start ==
  /\ pc = "idle"
  /\ \E S \in SourceLists, q \in BOOLEAN, a \in Assumptions :
       /\ ListOf(S) # <<>>
       /\ Build(S, q, a)

(* ^R: freefilelist(), makefilelist(), rebuild().                          *)
Rebuild ==
  /\ pc = "ready"
  /\ \E S \in SourceLists : Build(S, invertedindex, assume)

Quit ==
  /\ pc = "ready"
  /\ Exit
  /\ UNCHANGED <<file, clock, disk, mergeVars, moveVars, indexVars>>
-----------------------------------------------------------------------------
(* The passes over the list of files.                                      *)

File == srcfiles[fileindex + 1]

(* The old data of files that come before this one are passed over.        *)
From(o, f) ==
  LET here == {j \in 1 .. Len(o) : o[j].f >= f}
  IN  IF here = {} THEN <<>> ELSE SubSeq(o, Min(here), Len(o))
IsNext(o) == o # <<>> /\ o[1].f = File
ModifiedLater == Exists(File) /\ file[File].m > reftime + 1             \* mutant
Modified  == Exists(File) /\ file[File].m > reftime

(* incfile() for what the file includes, as its data say.                  *)
Include(c) ==
  found' = found \cup {g \in c : Exists(g) /\ g \notin Range(srcfiles)}

Pass ==
  /\ pc = "merge" /\ fileindex < Len(srcfiles)
  /\ fileindex' = fileindex + 1
  /\ UNCHANGED <<file, clock, disk, pc, optionVars, srcfiles, reftime, given, moveVars, indexVars>>

(* crossref(): nothing is written of a file that cannot be opened.         *)
Crossref ==
  /\ built' = built \cup {File}
  /\ IF Exists(File)
     THEN new' = Append(new, Now(File)) /\ Include(file[File].c)
     ELSE UNCHANGED <<new, found>>

NewFile ==
  /\ Pass
  /\ LET o == From(old, File) IN ~IsNext(o) /\ old' = o
  /\ Crossref

StaysOld ==                                                             \* mutant
  /\ Pass
  /\ Modified
  /\ LET o == From(old, File) IN IsNext(o) /\ old' = o
  /\ Crossref

ChangedFile ==
  /\ Pass
  /\ Modified
  /\ LET o == From(old, File) IN IsNext(o) /\ old' = Tail(o)
  /\ Crossref

CopyAlone ==                                                            \* mutant
  /\ Pass
  /\ ~Modified
  /\ LET o == From(old, File)
     IN  IsNext(o) /\ new' = Append(new, o[1]) /\ old' = Tail(o)
  /\ UNCHANGED <<built, found>>

(* copydata() and copyinverted().                                          *)
Copy ==
  /\ Pass
  /\ ~Modified
  /\ LET o == From(old, File)
     IN  /\ IsNext(o)
         /\ new' = Append(new, o[1]) /\ old' = Tail(o)
         /\ Include(o[1].c)
  /\ UNCHANGED built

OnlyIncluded ==                                                         \* mutant
  /\ pc = "merge" /\ fileindex = Len(srcfiles)
  /\ IF found = {} THEN pc' = "index" ELSE UNCHANGED pc
  /\ srcfiles' = Sorted(found) /\ found' = {}
  /\ UNCHANGED <<file, clock, disk, optionVars, reftime, old, given, fileindex, new, built, moveVars, indexVars>>

(* The included files are the next pass.                                   *)
NextPass ==
  /\ pc = "merge" /\ fileindex = Len(srcfiles)
  /\ IF found = {} THEN pc' = "index" ELSE UNCHANGED pc
  /\ srcfiles' = srcfiles \o Sorted(found)
  /\ found' = {}
  /\ UNCHANGED <<file, clock, disk, optionVars, reftime, old, given, fileindex, new, built, moveVars, indexVars>>
-----------------------------------------------------------------------------
(* The database on disk.                                                   *)

KeepsInverted ==                                                        \* mutant
  /\ pc = "index" /\ pc' = "replace"
  /\ moves' \in {<<"out">>, IF invertedindex THEN <<"inv", "post", "out">> ELSE <<"out">>}
  /\ UNCHANGED <<file, clock, disk, optionVars, srcfiles, mergeVars, stamp, indexVars>>

(* sort and invmake(), which takes the end of its input for the end of the *)
(* postings: the status of sort is thrown away.  Only when no term comes   *)
(* through, or invmake() cannot write, cannotindex() gives up -q.          *)
MakeIndex ==
  /\ pc = "index"
  /\ pc' = "replace"
  /\ \/ /\ invertedindex
        /\ moves' = <<"inv", "post", "out">>
        /\ cut' \in BOOLEAN
        /\ UNCHANGED invertedindex
     \/ /\ invertedindex' = FALSE                      \* not asked for, or given up
        /\ moves' = <<"out">>
        /\ cut' = FALSE
  /\ UNCHANGED <<file, clock, disk, assume, srcfiles, mergeVars, stamp, torn>>

Written(x) ==
  CASE x = "out"  -> [q |-> invertedindex, list |-> srcfiles, refs |-> new, m |-> stamp]
    [] x = "inv"  -> [of |-> new, whole |-> ~cut]
    [] x = "post" -> [of |-> new]

(* The header is written again, and the new cscope.out is closed.          *)
CloseNew ==
  /\ pc = "replace" /\ moves = <<"out">> /\ stamp = 0
  /\ stamp' = clock
  /\ UNCHANGED <<file, clock, disk, pc, optionVars, srcfiles, mergeVars, moves, indexVars>>

(* movefile() unlinks the old file and renames the new one.                *)
Movable == pc = "replace" /\ (Head(moves) = "out" => stamp > 0)
Unlink ==
  /\ Movable /\ disk[Head(moves)] # None
  /\ disk' = [disk EXCEPT ![Head(moves)] = None]
  /\ UNCHANGED <<file, clock, pc, optionVars, srcfiles, mergeVars, moveVars, indexVars>>

Rename ==
  /\ Movable /\ disk[Head(moves)] = None
  /\ disk' = [disk EXCEPT ![Head(moves)] = Written(Head(moves))]
  /\ IF Tail(moves) # <<>>
     THEN /\ moves' = Tail(moves)
          /\ UNCHANGED <<pc, torn, invertedindex, mergeVars, stamp>>
     ELSE /\ Forget
          /\ pc' = "ready" /\ torn' = FALSE
          /\ invertedindex' = IndexOpens(invertedindex, disk')
  /\ UNCHANGED <<file, clock, assume, srcfiles, cut>>
-----------------------------------------------------------------------------
Init ==
  /\ file \in [Files -> {[c |-> c, m |-> 0] : c \in Contents} \cup {None}]
  /\ clock = 1
  /\ disk = NoDatabase
  /\ pc = "idle"
  /\ srcfiles = <<>>
  /\ invertedindex = FALSE /\ assume = "nothing"
  /\ reftime = 0 /\ old = <<>> /\ given = {} /\ fileindex = 0 /\ new = <<>> /\ found = {} /\ built = {}
  /\ moves = <<>> /\ stamp = 0
  /\ cut = FALSE /\ torn = FALSE

Step == NewFile \/ ChangedFile \/ Copy \/ NextPass \/ MakeIndex \/ CloseNew \/ Unlink \/ Rename
Next ==
  \/ \E f \in Files : Edit(f) \/ Delete(f)
  \/ Tick \/ Crash
  \/ Start \/ Rebuild \/ Quit
  \/ Step

Spec == Init /\ [][Next]_vars
-----------------------------------------------------------------------------
(* Properties.                                                             *)

Names    == Files \cup {n + 1 : n \in Files} \cup {1}
Ref      == [f : Files, c : Contents]
CrossRef == [q : BOOLEAN, list : Seq(Files), refs : Seq(Ref), m : 1 .. MaxTime]
Index    == [of : Seq(Ref), whole : BOOLEAN]

(* Every variable holds a value of the kind its comment above names.       *)
TypeOK ==
  /\ file \in [Files -> [c : Contents, m : 0 .. MaxTime] \cup {None}]
  /\ clock \in 1 .. MaxTime
  /\ disk \in [out : CrossRef \cup {None}, inv : Index \cup {None}, post : [of : Seq(Ref)] \cup {None}]
  /\ pc \in {"idle", "ready", "merge", "index", "replace"}
  /\ srcfiles \in Seq(Names)
  /\ {invertedindex, cut, torn} \subseteq BOOLEAN /\ assume \in Assumptions
  /\ {reftime, stamp} \subseteq 0 .. MaxTime
  /\ {old, new} \subseteq Seq(Ref)
  /\ fileindex \in 0 .. Len(srcfiles)
  /\ given \subseteq Files /\ found \subseteq Files /\ built \subseteq Files
  /\ moves \in {<<>>, <<"out">>, <<"post", "out">>, <<"inv", "post", "out">>}

(* What a build from nothing would write.                                  *)
Scratch == {Now(f) : f \in Reached({g \in given : Exists(g)})}

(* A build that copies what has not changed writes what a build from       *)
(* nothing would: each file that is listed or included, once, with the     *)
(* data of its content of now, and in the order of the list of files; and  *)
(* when build() finds that there is nothing to do, the data of the listed  *)
(* files are those of their content of now.                                *)
IsCurrent ==
  [][/\ moves = <<"out">> /\ moves' = <<>> /\ pc' = "ready" =>
          LET r == disk'.out.refs
          IN  Range(r) = Scratch /\ Len(r) = Cardinality(Scratch) /\ NamesOf(r) = srcfiles
     /\ pc = "idle" /\ pc' = "ready" =>
          \A f \in Range(srcfiles') \cap Files : Now(f) \in Range(disk.out.refs)]_vars

(* Data that are stale belong to a file that is newer than cscope.out, so  *)
(* that the next build sees it: also after builds that were killed, given  *)
(* up or made with other lists and options.                                *)
StaleIsNewer ==
  disk.out # None =>
    \A r \in Range(disk.out.refs) :
      Exists(r.f) /\ file[r.f].c # r.c => file[r.f].m > disk.out.m

(* "the data for the unchanged files are copied" (cscope.1): if the order  *)
(* of the files stays the same, exactly those that changed are read again; *)
(* the included files of a changed one are not (build.c:400).              *)
CopiesUnchanged ==
  /\ pc = "replace" /\ moves = <<"out">> /\ disk.out # None /\ reftime > 0
  /\ NamesOf(new) = NamesOf(disk.out.refs)
  => \A f \in built : file[f].m > reftime

(* The inverted index is of the cross-reference beside it, unless a build  *)
(* was killed while it replaced them; and it is the whole index, unless    *)
(* sort ended early when this one, and not an earlier one, was made.       *)
IndexAgrees ==
  pc # "replace" /\ ~torn /\ disk.out # None /\ IndexOpens(disk.out.q, disk) =>
    disk.inv = [of |-> disk.out.refs, whole |-> ~cut] /\ disk.post = [of |-> disk.out.refs]

(* "so get the list of included files" (build.c:317): find.c takes the     *)
(* name of the k-th file of the index from the list of the session.        *)
SessionNames ==
  pc = "ready" /\ invertedindex => srcfiles = NamesOf(disk.out.refs)

=============================================================================
