------------------------- MODULE GtagsUpdate_proofs -------------------------
(***************************************************************************)
(* Theorems of GtagsUpdate for every project, every set of contents and    *)
(* every bound: the type invariant, that GPATH is one-to-one and tells of  *)
(* new files last whatever happens, and that as long as gtags is not       *)
(* killed no tag ever points into another file and the tag files agree.    *)
(***************************************************************************)
EXTENDS GtagsUpdate, TLAPS

(* How often GPATH is open at each point of a run: why the last gpath_close*)
(* is that of incremental(), or in createtags() that of GRTAGS.            *)
Counted ==
  /\ pc = "idle" => opened = 0
  /\ pc = "build" => opened = 2 /\ mode = "create"
  /\ pc \in {"sweep", "tags", "paths", "others", "exit"} => opened = 1 /\ mode # "create"
  /\ pc = "parse" => opened = 3 /\ mode # "create"
  /\ pc \in {"sync_GTAGS", "synced"} => opened = (IF mode = "create" THEN 1 ELSE 2)
  /\ pc = "sync_GRTAGS" => opened = (IF mode = "create" THEN 0 ELSE 1)

TypeInv == TypeOK /\ Counted

(* Records and entries that use the same id mean the same path.            *)
Consistent(recs, g) == \A r \in recs : \A e \in g.entries : e.fid = r.fid => e.path = r.path

(* No record uses an id that is still to be given.                         *)
Below(recs, g) == \A r \in recs : r.fid < g.next

(* What holds of the three files on disk at any time.                      *)
DiskPart == \A db \in Db : Consistent(tagFile[db].recs, gpathFile)

(* What holds of them while the memory of a running gtags is thrown away   *)
(* without harm.                                                           *)
RestPart ==
  pc \in {"idle", "sweep", "tags", "parse"} =>
    \A db \in Db : Below(tagFile[db].recs, gpathFile)

(* What holds between the disk and the memory of a running gtags.          *)
RunPart ==
  pc # "idle" =>
    \A db \in Db : /\ Consistent(tagFile[db].recs, gpath)
                   /\ Consistent(tags[db], gpath)
                   /\ Consistent(tags[db], gpathFile)
                   /\ Below(tagFile[db].recs, gpath)
                   /\ Below(tags[db], gpath)

(* Where the memory is still, or is only more than, what was read.         *)
PhasePart ==
  /\ pc \in {"idle", "sweep", "tags"} => tags = [db \in Db |-> {}]
  /\ pc \in {"sweep", "tags", "parse"} =>
       gpathFile.entries \subseteq gpath.entries /\ gpathFile.next <= gpath.next
  /\ pc = "build" => gpathFile.entries = {} /\ \A db \in Db : tagFile[db].recs = {}
  /\ pc = "sync_GRTAGS" /\ mode = "create" => gpathFile.next = gpath.next

(* The strengthening of NoMisattribution that every step preserves.        *)
IdPart  == DiskPart /\ RestPart /\ RunPart /\ PhasePart
TagsInv == TypeInv /\ PathTableSound /\ IdPart

-----------------------------------------------------------------------------
(* Lemmas about the table of GPATH.                                        *)

(* The entry found for a known path is an entry of that path.              *)
LEMMA EntryOfKnown ==
  ASSUME NEW g \in PathTable, NEW p \in Paths, Known(g, p)
  PROVE  EntryOf(g, p) \in g.entries /\ EntryOf(g, p).path = p /\ EntryOf(g, p) \in Entry
<1>1. \E e \in g.entries : e.path = p
  BY DEF Known
<1>2. EntryOf(g, p) \in g.entries /\ EntryOf(g, p).path = p
  BY <1>1 DEF EntryOf
<1> QED
  BY <1>2 DEF PathTable

(* gpath_put keeps the entries, knows the path, and any other new entry is *)
(* not there: it carries the next id.                                      *)
LEMMA PutKnown ==
  ASSUME NEW g \in PathTable, NEW p \in Paths, NEW t \in PathType
  PROVE  /\ GpathPut(g, p, t) \in PathTable
         /\ Known(GpathPut(g, p, t), p)
         /\ g.entries \subseteq GpathPut(g, p, t).entries
         /\ g.next <= GpathPut(g, p, t).next
         /\ \A e \in GpathPut(g, p, t).entries \ g.entries :
               e.path = p /\ e.fid = g.next /\ ~Known(g, p) /\ e.fid < GpathPut(g, p, t).next
<1>1. CASE Known(g, p)
  BY <1>1 DEF GpathPut, PathTable
<1>2. CASE ~Known(g, p)
  <2> DEFINE new == [path |-> p, fid |-> NextKey(g), type |-> t]
  <2>1. new \in Entry /\ new.path = p /\ g.next \in Nat \ {0} /\ g.entries \subseteq Entry
    BY DEF Entry, PathTable, NextKey
  <2>2. GpathPut(g, p, t) = [entries |-> g.entries \cup {new}, next |-> g.next + 1]
    BY <1>2 DEF GpathPut
  <2>3. GpathPut(g, p, t) \in PathTable
    BY <2>1, <2>2 DEF PathTable
  <2>4. Known(GpathPut(g, p, t), p)
    BY <2>1, <2>2 DEF Known
  <2> QED
    BY <1>2, <2>1, <2>2, <2>3, <2>4 DEF NextKey
<1> QED
  BY <1>1, <1>2

(* The id that records of a path are put under.                            *)
LEMMA FidOfPut ==
  ASSUME NEW g \in PathTable, NEW p \in Paths, NEW t \in PathType
  PROVE  /\ FidOf(GpathPut(g, p, t), p) \in Nat
         /\ \E e \in GpathPut(g, p, t).entries :
              e.path = p /\ e.fid = FidOf(GpathPut(g, p, t), p)
<1>1. GpathPut(g, p, t) \in PathTable /\ Known(GpathPut(g, p, t), p)
  BY PutKnown
<1> QED
  BY <1>1, EntryOfKnown DEF FidOf, Entry

(* gpath_put and gpath_delete keep the table one-to-one.                   *)
LEMMA PutOneToOne ==
  ASSUME NEW g \in PathTable, NEW p \in Paths, NEW t \in PathType, OneToOne(g)
  PROVE  OneToOne(GpathPut(g, p, t))
<1>1. CASE Known(g, p)
  BY <1>1 DEF GpathPut
<1>2. CASE ~Known(g, p)
  <2> DEFINE h == GpathPut(g, p, t)
  <2>1. h.next = g.next + 1 /\ g.next \in Nat \ {0}
    BY <1>2 DEF GpathPut, PathTable
  <2>2. \A e \in h.entries : e \in g.entries \/ (e = [path |-> p, fid |-> g.next, type |-> t])
    BY <1>2 DEF GpathPut, NextKey
  <2>3. \A e \in g.entries : e.path # p /\ e.fid \in Nat /\ 0 < e.fid /\ e.fid < g.next
    BY <1>2 DEF Known, OneToOne, PathTable, Entry
  <2> HIDE DEF h
  <2>4. \A e \in h.entries : 0 < e.fid /\ e.fid < h.next
    BY <2>1, <2>2, <2>3
  <2>5. ASSUME NEW d \in h.entries, NEW e \in h.entries, d.path = e.path \/ d.fid = e.fid
        PROVE  d = e
    BY <2>1, <2>2, <2>3, <2>5 DEF OneToOne
  <2> QED
    BY <2>4, <2>5 DEF OneToOne, h
<1> QED
  BY <1>1, <1>2

LEMMA DeleteSound ==
  ASSUME NEW g \in PathTable, NEW ps \in SUBSET Paths
  PROVE  /\ GpathDelete(g, ps) \in PathTable
         /\ OneToOne(g) => OneToOne(GpathDelete(g, ps))
         /\ GpathDelete(g, ps).entries \subseteq g.entries
         /\ GpathDelete(g, ps).next = g.next
BY DEF GpathDelete, PathTable, OneToOne

-----------------------------------------------------------------------------
(* The type invariant.                                                     *)

(* The memory of a gtags that does not run.                                *)
LEMMA EmptyMemory ==
  /\ [entries |-> {}, next |-> 1] \in PathTable
  /\ [db \in Db |-> {}] \in [Db -> SUBSET Record]
  /\ [p \in Paths |-> {}] \in [Paths -> SUBSET Contents]
<1>1. [entries |-> {}, next |-> 1] \in PathTable
  BY DEF PathTable
<1>2. \A S, T : [x \in S |-> {}] \in [S -> SUBSET T]
  OBVIOUS
<1> QED
  BY <1>1, <1>2

LEMMA TypeInit == Init => TypeInv
<1> SUFFICES ASSUME Init PROVE TypeInv
  OBVIOUS
<1>1. file \in [Paths -> FileStat \cup {None}]
  BY DEF Init, FileStat
<1>2. tagFile \in [Db -> [status : Status, recs : SUBSET Record]]
  BY DEF Init, Db, Status
<1>3. gpathFile \in [status : Status, entries : SUBSET Entry, next : Nat \ {0}]
  BY DEF Init, Status
<1>4. opened = 0 /\ opened \in 0 .. 3 /\ clock \in Nat /\ mtime \in Nat
  BY DEF Init
<1>5. TypeOK
  BY <1>1, <1>2, <1>3, <1>4, EmptyMemory, PathsAssumption DEF Init, TypeOK
<1> QED
  BY <1>5 DEF Init, TypeInv, Counted

LEMMA AbandonType == TypeInv /\ Abandon => TypeInv'
<1> SUFFICES ASSUME TypeInv, Abandon PROVE TypeInv'
  OBVIOUS
<1>1. /\ gpath' \in PathTable
      /\ tags' \in [Db -> SUBSET Record]
      /\ extracted' \in [Paths -> SUBSET Contents]
  BY EmptyMemory DEF Abandon
<1>2. pc' = "idle" /\ mode' = "none" /\ opened' = 0 /\ updated' \in BOOLEAN /\ settled' = "no"
  BY DEF Abandon
<1>3. /\ addlist' \in SUBSET Paths /\ addlistOther' \in SUBSET Paths
      /\ deletelist' \in SUBSET Paths
      /\ deleteset' \in SUBSET Nat /\ findset' \in SUBSET Nat
  BY DEF Abandon
<1>4. UNCHANGED <<projectVars, diskVars>>
  BY DEF Abandon
<1> QED
  BY <1>1, <1>2, <1>3, <1>4 DEF TypeInv, TypeOK, Counted, projectVars, diskVars

LEMMA ExtractType ==
  ASSUME TypeInv, NEW p \in Paths, NEW t \in PathType, p \in source => Exists(p), Extract(p, t)
  PROVE  /\ gpath' \in PathTable
         /\ tags' \in [Db -> SUBSET Record]
         /\ extracted' \in [Paths -> SUBSET Contents]
         /\ addlist' \in SUBSET Paths
<1> DEFINE g == GpathPut(gpath, p, t)
<1>1. gpath \in PathTable /\ tags \in [Db -> SUBSET Record]
      /\ extracted \in [Paths -> SUBSET Contents] /\ addlist \in SUBSET Paths
  BY DEF TypeInv, TypeOK
<1>2. g \in PathTable /\ FidOf(g, p) \in Nat
  BY <1>1, PutKnown, FidOfPut
<1>3. p \in source => file[p].content \in Contents
  BY DEF TypeInv, TypeOK, Exists, FileStat
<1>4. \A db \in Db : p \in source => Yield(db, file[p].content) \in SUBSET Contents
  BY <1>3 DEF Yield
<1> HIDE DEF g
<1>5. tags' = [db \in Db |->
          tags[db] \cup {[fid |-> FidOf(g, p), path |-> p, content |-> c] :
                           c \in (IF p \in source THEN Yield(db, file[p].content) ELSE {})}]
  BY DEF Extract, PutTags, Parsed, g
<1>6. tags' \in [Db -> SUBSET Record]
  BY <1>1, <1>2, <1>4, <1>5 DEF Record
<1> QED
  BY <1>1, <1>2, <1>3, <1>6 DEF Extract, Done, g

LEMMA TypeStep == TypeInv /\ [Next]_vars => TypeInv'
<1> SUFFICES ASSUME TypeInv, [Next]_vars PROVE TypeInv'
  OBVIOUS
<1> USE DEF TypeInv, TypeOK, Counted
<1>1. CASE Environment
  <2>1. CASE Tick
    BY <2>1 DEF Tick, diskVars, memoryVars, listVars
  <2>2. CASE Crash
    BY <2>2, AbandonType DEF Crash
  <2>3. ASSUME NEW p \in Paths, Write(p) PROVE TypeInv'
    <3>1. PICK c \in Contents, t \in (IF "backdated" \in Hazards THEN 1 .. clock ELSE {clock}) :
            file' = [file EXCEPT ![p] = [content |-> c, mtime |-> t]]
      BY <2>3 DEF Write
    <3>2. [content |-> c, mtime |-> t] \in FileStat
      BY DEF FileStat
    <3>3. file' \in [Paths -> FileStat \cup {None}]
      BY <3>1, <3>2
    <3> QED
      BY <2>3, <3>3 DEF Write, diskVars, memoryVars, listVars
  <2>4. ASSUME NEW p \in Paths, Remove(p) PROVE TypeInv'
    BY <2>4 DEF Remove, diskVars, memoryVars, listVars
  <2>5. ASSUME NEW p \in Paths, Reconfigure(p) PROVE TypeInv'
    BY <2>5 DEF Reconfigure, diskVars, memoryVars, listVars
  <2> QED
    BY <1>1, <2>1, <2>2, <2>3, <2>4, <2>5 DEF Environment
<1>2. CASE Begin
  <2>1. ASSUME OpenGpath PROVE gpath' \in PathTable /\ opened' = 1
    BY <2>1 DEF OpenGpath, PathTable
  <2>2. ASSUME gpath' \in PathTable, NEW ps \in SUBSET Paths, \A p \in ps : Known(gpath', p)
        PROVE  /\ {EntryOf(gpath', p).fid : p \in ps} \in SUBSET Nat
               /\ Outdated({EntryOf(gpath', p) : p \in ps}) \in SUBSET Nat
    <3>1. \A p \in ps : EntryOf(gpath', p) \in Entry
      BY <2>2, EntryOfKnown
    <3> QED
      BY <3>1 DEF Entry, Outdated
  <2>3. CASE Inspect
    <3>1. gpath' \in PathTable /\ opened' = 1
      BY <2>1, <2>3 DEF Inspect
    <3> DEFINE known == {p \in {q \in Paths : Listed(q)} : Known(gpath', p)}
               newer == {p \in known \cap source : mtime < file[p].mtime}
    <3>2. findset' \in SUBSET Nat /\ deleteset' \in SUBSET Nat
      <4>1. /\ findset' = {EntryOf(gpath', p).fid : p \in known}
            /\ deleteset' = Outdated({EntryOf(gpath', p) : p \in newer})
        BY <2>3 DEF Inspect
      <4>2. known \in SUBSET Paths /\ \A p \in known : Known(gpath', p)
        OBVIOUS
      <4>3. newer \in SUBSET Paths /\ \A p \in newer : Known(gpath', p)
        OBVIOUS
      <4> HIDE DEF known, newer
      <4> QED
        BY <3>1, <4>1, <4>2, <4>3, <2>2
    <3>3. addlist' \in SUBSET Paths /\ addlistOther' \in SUBSET Paths
      BY <2>3 DEF Inspect
    <3> QED
      BY <2>3, <3>1, <3>2, <3>3 DEF Inspect, projectVars, diskVars
  <2>4. CASE Create
    BY <2>4 DEF Create, NewGpath, Blank, Status, PathTable, Db, projectVars
  <2>5. ASSUME NEW p \in Paths, Single(p) PROVE TypeInv'
    <3>1. gpath' \in PathTable /\ opened' = 1
      BY <2>1, <2>5 DEF Single
    <3>2. deleteset' \in SUBSET Nat
      <4>1. CASE Known(gpath', p)
        <5> DEFINE ps == IF IsBinary(p) THEN {} ELSE {p}
        <5>1. ps \in SUBSET Paths /\ \A q \in ps : Known(gpath', q)
          BY <4>1
        <5>2. deleteset' \in {Outdated({EntryOf(gpath', q) : q \in ps}), {}}
          BY <2>5 DEF Single
        <5> HIDE DEF ps
        <5> QED
          BY <3>1, <5>1, <5>2, <2>2
      <4>2. CASE ~Known(gpath', p)
        BY <2>5, <4>2 DEF Single
      <4> QED
        BY <4>1, <4>2
    <3>3. addlist' \in SUBSET Paths /\ addlistOther' \in SUBSET Paths
      BY <2>5 DEF Single
    <3>4. pc' \in {"tags", "paths", "exit"} /\ updated' \in BOOLEAN
      BY <2>5 DEF Single, Proceed
    <3> QED
      BY <2>5, <3>1, <3>2, <3>3, <3>4 DEF Single, projectVars, diskVars
  <2> QED
    BY <1>2, <2>3, <2>4, <2>5 DEF Begin
<1>3. CASE Step
  <2>1. CASE Sweep
    BY <2>1 DEF Sweep, Proceed, Orphaned, Entry, PathTable, projectVars, diskVars, memoryVars
  <2>2. CASE OpenTags
    <3>1. CASE Abandon
      BY <3>1, AbandonType
    <3>2. CASE ~Abandon
      <4>1. tags' = [db \in Db |-> Kept(db)] /\ opened' = 3 /\ pc' = "parse"
        BY <2>2, <3>2 DEF OpenTags, ReopenGpath
      <4>2. \A db \in Db : Kept(db) \in SUBSET Record
        BY DEF Kept
      <4>3. tags' \in [Db -> SUBSET Record]
        BY <4>1, <4>2
      <4>4. /\ pc = "tags"
            /\ UNCHANGED <<projectVars, diskVars, mode, gpath, listVars, updated, extracted,
                           settled>>
        BY <2>2, <3>2 DEF OpenTags
      <4> QED
        BY <2>2, <4>1, <4>3, <4>4 DEF projectVars, diskVars, listVars
    <3> QED
      BY <3>1, <3>2
  <2>3. ASSUME NEW from, NEW to, ReleaseGpath(from, to),
               <<from, to>> \in {<<{"parse", "build"}, "sync_GTAGS">>, <<{"synced"}, "sync_GRTAGS">>}
        PROVE  TypeInv'
    BY <2>3 DEF ReleaseGpath, GpathClose, CountDown, Durable, PathTable, Status,
                projectVars, listVars
  <2>4. CASE ReleaseForGtags
    BY <2>3, <2>4 DEF ReleaseForGtags
  <2>5. CASE ReleaseForGrtags
    BY <2>3, <2>5 DEF ReleaseForGrtags
  <2>6. CASE SyncGtags
    BY <2>6 DEF SyncGtags, Valid, Status, Db, projectVars, memoryVars, listVars
  <2>7. CASE SyncGrtags
    <3>1. tagFile' \in [Db -> [status : Status, recs : SUBSET Record]]
      BY <2>7 DEF SyncGrtags, Valid, Status, Db
    <3>2. CASE mode = "create"
      BY <2>7, <3>1, <3>2, EmptyMemory DEF SyncGrtags, Finish, projectVars
    <3>3. CASE mode # "create"
      BY <2>7, <3>1, <3>3 DEF SyncGrtags, projectVars, listVars
    <3> QED
      BY <3>2, <3>3
  <2>8. CASE DeletePaths
    BY <2>8, DeleteSound DEF DeletePaths, projectVars, diskVars, listVars
  <2>9. CASE Utime
    BY <2>9 DEF Utime, Stamp, projectVars, memoryVars, listVars
  <2>10. CASE Exit
    <3>1. gpathFile' \in [status : Status, entries : SUBSET Entry, next : Nat \ {0}]
      BY <2>10 DEF Exit, GpathClose, Durable, PathTable, Status
    <3> QED
      BY <2>10, <3>1, EmptyMemory DEF Exit, Finish, GpathClose, CountDown, projectVars
  <2>11. ASSUME NEW p \in Paths, Parse(p) PROVE TypeInv'
    BY <2>11, AbandonType, ExtractType DEF Parse, PathType, projectVars, diskVars
  <2>12. ASSUME NEW p \in Paths, PutOther(p) PROVE TypeInv'
    BY <2>12, PutKnown DEF PutOther, PathType, projectVars, diskVars
  <2>13. ASSUME NEW p \in Paths, Build(p) PROVE TypeInv'
    BY <2>13, ExtractType DEF Build, Listed, PathType, projectVars, diskVars
  <2> QED
    BY <1>3, <2>1, <2>2, <2>4, <2>5, <2>6, <2>7, <2>8, <2>9, <2>10, <2>11, <2>12, <2>13 DEF Step
<1>4. CASE UNCHANGED vars
  BY <1>4 DEF vars, projectVars, diskVars, memoryVars, listVars
<1> QED
  BY <1>1, <1>2, <1>3, <1>4 DEF Next

(* Every variable always holds what its declaration says, and the number   *)
(* of opens of GPATH is right at each point of a run (gpath_open,          *)
(* gpath_close).                                                           *)
THEOREM TypeInvariant == Spec => [](TypeOK /\ Counted)
<1>1. Spec => []TypeInv
  BY TypeInit, TypeStep, PTL DEF Spec
<1> QED
  BY <1>1, PTL DEF TypeInv

-----------------------------------------------------------------------------
(* GPATH is one-to-one.                                                    *)

LEMMA PathTableInit == Init => PathTableSound
BY DEF Init, PathTableSound, OneToOne

(* Where the two tables of a step can come from.                           *)
LEMMA PathTableStep ==
  ASSUME TypeInv, TypeInv', PathTableSound, [Next]_vars
  PROVE  PathTableSound'
<1>1. gpath \in PathTable /\ OneToOne(gpath) /\ OneToOne(gpathFile)
  BY DEF TypeInv, TypeOK, PathTableSound
<1>2. OneToOne([entries |-> {}, next |-> 1])
  BY DEF OneToOne
<1>3. ASSUME gpath' \in {gpath, [entries |-> gpathFile.entries, next |-> gpathFile.next],
                         [entries |-> {}, next |-> 1]},
             gpathFile' \in {gpathFile, Durable(gpath),
                             [status |-> "blank", entries |-> {}, next |-> 1]}
      PROVE  PathTableSound'
  <2>1. OneToOne(gpath)'
    BY <1>1, <1>2, <1>3 DEF OneToOne
  <2>2. OneToOne(gpathFile)'
    BY <1>1, <1>3 DEF OneToOne, Durable
  <2> QED
    BY <2>1, <2>2 DEF PathTableSound
<1>4. ASSUME NEW p \in Paths, NEW t \in PathType, gpath' = GpathPut(gpath, p, t),
             gpathFile' = gpathFile
      PROVE  PathTableSound'
  BY <1>1, <1>4, PutOneToOne DEF PathTableSound, OneToOne
<1>5. CASE Environment
  BY <1>3, <1>5 DEF Environment, Tick, Crash, Abandon, Write, Remove, Reconfigure,
                    memoryVars, diskVars
<1>6. CASE Begin
  BY <1>3, <1>6 DEF Begin, Inspect, Create, Single, OpenGpath, NewGpath, diskVars
<1>7. CASE Step
  <2>1. CASE Sweep
    BY <1>3, <2>1 DEF Sweep, memoryVars, diskVars
  <2>2. CASE OpenTags
    BY <1>3, <2>2 DEF OpenTags, Abandon, diskVars
  <2>3. CASE ReleaseForGtags \/ ReleaseForGrtags
    BY <1>3, <2>3 DEF ReleaseForGtags, ReleaseForGrtags, ReleaseGpath, GpathClose
  <2>4. CASE SyncGtags
    BY <1>3, <2>4 DEF SyncGtags, memoryVars
  <2>5. CASE SyncGrtags
    BY <1>3, <2>5 DEF SyncGrtags, Finish
  <2>6. CASE DeletePaths
    <3>1. gpath' = GpathDelete(gpath, deletelist) /\ gpathFile' = gpathFile
      BY <2>6 DEF DeletePaths, diskVars
    <3>2. OneToOne(GpathDelete(gpath, deletelist))
      BY <1>1, DeleteSound DEF TypeInv, TypeOK
    <3> QED
      BY <1>1, <3>1, <3>2 DEF PathTableSound, OneToOne
  <2>7. CASE Utime
    BY <1>3, <2>7 DEF Utime, memoryVars
  <2>8. CASE Exit
    BY <1>3, <2>8 DEF Exit, Finish, GpathClose
  <2>9. ASSUME NEW p \in Paths, Parse(p) PROVE PathTableSound'
    <3>1. CASE Abandon
      BY <1>3, <3>1 DEF Abandon, diskVars
    <3>2. CASE ~Abandon
      BY <1>4, <2>9, <3>2 DEF Parse, Extract, PathType, diskVars
    <3> QED
      BY <3>1, <3>2
  <2>10. ASSUME NEW p \in Paths, PutOther(p) PROVE PathTableSound'
    BY <1>4, <2>10 DEF PutOther, PathType, diskVars
  <2>11. ASSUME NEW p \in Paths, Build(p) PROVE PathTableSound'
    <3>1. CASE Listed(p)
      BY <1>4, <2>11, <3>1 DEF Build, Extract, PathType, diskVars
    <3>2. CASE ~Listed(p)
      BY <1>3, <2>11, <3>2 DEF Build, diskVars
    <3> QED
      BY <3>1, <3>2
  <2> QED
    BY <1>7, <2>1, <2>2, <2>3, <2>4, <2>5, <2>6, <2>7, <2>8, <2>9, <2>10, <2>11 DEF Step
<1>8. CASE UNCHANGED vars
  BY <1>3, <1>8 DEF vars, memoryVars, diskVars
<1> QED
  BY <1>5, <1>6, <1>7, <1>8 DEF Next

(* No path has two ids and no id two paths, in memory and on disk, under   *)
(* every hazard, kills included (gpath_put, gpath_delete, gpath_close).    *)
THEOREM PathTableIsSound == Spec => []PathTableSound
<1>1. TypeInv /\ PathTableSound /\ [Next]_vars => (TypeInv /\ PathTableSound)'
  BY TypeStep, PathTableStep
<1> QED
  BY <1>1, TypeInit, PathTableInit, PTL DEF Spec

-----------------------------------------------------------------------------
(* Tags point into their own file as long as gtags is not killed.          *)

LEMMA IdInit == Init => IdPart
BY DEF Init, IdPart, DiskPart, RestPart, RunPart, PhasePart, Consistent, Below

(* What gtags holds in memory may be thrown away before it closes a file.  *)
LEMMA IdAbandon ==
  ASSUME IdPart, pc \in {"idle", "sweep", "tags", "parse"}, Abandon
  PROVE  IdPart'
BY DEF Abandon, IdPart, DiskPart, RestPart, RunPart, PhasePart, Consistent, Below, diskVars

(* Records put for a path keep both tables consistent with the records.    *)
LEMMA IdExtract ==
  ASSUME TagsInv, TypeInv', NEW p \in Paths, NEW t \in PathType, Extract(p, t),
         pc \in {"parse", "build"}, UNCHANGED <<gpathFile, tagFile, pc, mode>>
  PROVE  IdPart'
<1> DEFINE g == GpathPut(gpath, p, t)
           f == FidOf(g, p)
<1>1. gpath \in PathTable /\ gpath.next \in Nat /\ gpathFile.next \in Nat
  BY DEF TagsInv, TypeInv, TypeOK, PathTable
<1>2. /\ g \in PathTable
      /\ gpath.entries \subseteq g.entries
      /\ gpath.next <= g.next
      /\ \A e \in g.entries \ gpath.entries : e.path = p /\ e.fid = gpath.next
  BY <1>1, PutKnown
<1>3. OneToOne(g) /\ OneToOne(gpathFile)
  BY <1>1, PutOneToOne DEF TagsInv, PathTableSound
<1>4. f \in Nat /\ \E e \in g.entries : e.path = p /\ e.fid = f
  BY <1>1, FidOfPut
<1>5. g.next \in Nat /\ f < g.next
  BY <1>2, <1>3, <1>4 DEF OneToOne, PathTable
<1>6. /\ gpath' = g
      /\ \A db \in Db : \A r \in tags'[db] :
           r \in tags[db] \/ (r.fid = f /\ r.path = p)
  <2>1. gpath' = g
    BY DEF Extract
  <2> DEFINE got(db) == IF p \in source THEN Yield(db, file[p].content) ELSE {}
  <2>2. tags' = [db \in Db |->
                   tags[db] \cup {[fid |-> f, path |-> p, content |-> c] : c \in got(db)}]
    BY DEF Extract, PutTags, Parsed
  <2> HIDE DEF g, f, got
  <2>3. \A db \in Db :
          tags'[db] = tags[db] \cup {[fid |-> f, path |-> p, content |-> c] : c \in got(db)}
    BY <2>2
  <2>4. ASSUME NEW db \in Db, NEW r \in tags'[db], r \notin tags[db]
        PROVE  r.fid = f /\ r.path = p
    <3>1. PICK c \in got(db) : r = [fid |-> f, path |-> p, content |-> c]
      BY <2>3, <2>4
    <3> QED
      BY <3>1
  <2> QED
    BY <2>1, <2>4
<1> HIDE DEF g, f
<1>7. /\ gpathFile.entries \subseteq gpath.entries
      /\ pc = "parse" => gpathFile.next <= gpath.next
  BY DEF TagsInv, IdPart, PhasePart
<1>8. \A db \in Db : tags[db] \subseteq Record /\ tagFile[db].recs \subseteq Record
  BY DEF TagsInv, TypeInv, TypeOK
<1>9. \A db \in Db : Consistent(tagFile[db].recs, gpath) /\ Below(tagFile[db].recs, gpath)
                    /\ Consistent(tags[db], gpath) /\ Below(tags[db], gpath)
                    /\ Consistent(tags[db], gpathFile)
  BY DEF TagsInv, IdPart, RunPart
<1>10. ASSUME NEW recs \in SUBSET Record, Consistent(recs, gpath), Below(recs, gpath)
       PROVE  Consistent(recs, g) /\ Below(recs, g)
  <2>1. \A r \in recs : r.fid \in Nat /\ r.fid < gpath.next
    BY <1>10 DEF Record, Below
  <2> QED
    BY <1>1, <1>2, <1>5, <1>10, <2>1 DEF Consistent, Below
<1>11. ASSUME NEW e \in g.entries, e.fid = f PROVE e.path = p
  BY <1>3, <1>4, <1>11 DEF OneToOne
<1>12. \A db \in Db : /\ Consistent(tagFile[db].recs, g) /\ Below(tagFile[db].recs, g)
                      /\ Consistent(tags'[db], g) /\ Below(tags'[db], g)
                      /\ Consistent(tags'[db], gpathFile)
  <2> SUFFICES ASSUME NEW db \in Db
               PROVE  /\ Consistent(tagFile[db].recs, g) /\ Below(tagFile[db].recs, g)
                      /\ Consistent(tags'[db], g) /\ Below(tags'[db], g)
                      /\ Consistent(tags'[db], gpathFile)
    OBVIOUS
  <2>1. Consistent(tags[db], g) /\ Below(tags[db], g)
        /\ Consistent(tagFile[db].recs, g) /\ Below(tagFile[db].recs, g)
    BY <1>8, <1>9, <1>10
  <2>2. Consistent(tags'[db], g)
    BY <1>6, <1>11, <2>1 DEF Consistent
  <2>3. Below(tags'[db], g)
    BY <1>5, <1>6, <2>1 DEF Below
  <2>4. Consistent(tags'[db], gpathFile)
    BY <1>2, <1>6, <1>7, <1>9, <1>11 DEF Consistent
  <2> QED
    BY <2>1, <2>2, <2>3, <2>4
<1>13. DiskPart' /\ RestPart'
  BY DEF TagsInv, IdPart, DiskPart, RestPart, Consistent, Below
<1>14. RunPart'
  BY <1>6, <1>12 DEF RunPart, Consistent, Below
<1>15. PhasePart'
  BY <1>1, <1>2, <1>5, <1>6, <1>7 DEF TagsInv, IdPart, PhasePart
<1> QED
  BY <1>13, <1>14, <1>15 DEF IdPart

LEMMA IdStep ==
  ASSUME TagsInv, TypeInv', [Next]_vars, "crash" \notin Hazards
  PROVE  IdPart'
<1> DEFINE quiet == UNCHANGED <<gpathFile, tagFile, gpath, tags>>
<1>1. \A db \in Db : tags[db] \subseteq Record /\ tagFile[db].recs \subseteq Record
  BY DEF TagsInv, TypeInv, TypeOK
<1>2. /\ gpath \in PathTable /\ gpath.next \in Nat /\ gpathFile.next \in Nat
      /\ gpathFile.entries \subseteq Entry
  BY DEF TagsInv, TypeInv, TypeOK, PathTable
<1>3. ASSUME quiet, UNCHANGED <<pc, mode>> PROVE IdPart'
  BY <1>3 DEF TagsInv, IdPart, DiskPart, RestPart, RunPart, PhasePart, Consistent, Below
<1>4. CASE Environment
  BY <1>3, <1>4 DEF Environment, Tick, Crash, Write, Remove, Reconfigure, memoryVars, diskVars
<1>5. CASE UNCHANGED vars
  BY <1>3, <1>5 DEF vars, memoryVars, diskVars
<1>6. CASE Begin
  <2>1. ASSUME OpenGpath, pc = "idle", pc' \in {"sweep", "tags", "paths", "exit"},
               UNCHANGED <<gpathFile, tagFile, tags>>
        PROVE  IdPart'
    <3>1. gpath' = [entries |-> gpathFile.entries, next |-> gpathFile.next]
      BY <2>1 DEF OpenGpath
    <3>2. tags = [db \in Db |-> {}] /\ tags' = tags
      BY <2>1 DEF TagsInv, IdPart, PhasePart
    <3>3. DiskPart' /\ RestPart' /\ RunPart'
      BY <2>1, <3>1, <3>2 DEF TagsInv, IdPart, DiskPart, RestPart, RunPart, Consistent, Below
    <3>4. PhasePart'
      BY <1>2, <2>1, <3>1, <3>2 DEF PhasePart
    <3> QED
      BY <3>3, <3>4 DEF IdPart
  <2>2. CASE Inspect
    BY <2>1, <2>2 DEF Inspect, MayUpdate, diskVars
  <2>3. ASSUME NEW p \in Paths, Single(p) PROVE IdPart'
    BY <2>1, <2>3 DEF Single, Proceed, MayUpdate, diskVars
  <2>4. CASE Create
    <3>1. /\ pc = "idle" /\ pc' = "build" /\ tags' = tags
          /\ gpathFile'.entries = {} /\ gpath' = [entries |-> {}, next |-> 1]
          /\ \A db \in Db : tagFile'[db].recs = {}
      BY <2>4 DEF Create, NewGpath, Blank
    <3>2. tags' = [db \in Db |-> {}]
      BY <3>1 DEF TagsInv, IdPart, PhasePart
    <3> QED
      BY <3>1, <3>2 DEF IdPart, DiskPart, RestPart, RunPart, PhasePart, Consistent, Below
  <2> QED
    BY <1>6, <2>2, <2>3, <2>4 DEF Begin
<1>7. CASE Step
  <2>1. CASE Sweep
    <3>1. quiet /\ mode' = mode /\ pc = "sweep" /\ pc' \in {"tags", "paths", "exit"}
      BY <2>1 DEF Sweep, Proceed, memoryVars, diskVars
    <3> QED
      BY <3>1 DEF TagsInv, IdPart, DiskPart, RestPart, RunPart, PhasePart, Consistent, Below
  <2>2. CASE OpenTags
    <3>1. CASE Abandon
      BY <2>2, <3>1, IdAbandon DEF OpenTags, TagsInv
    <3>2. CASE ~Abandon
      <4>1. /\ pc = "tags" /\ pc' = "parse"
            /\ UNCHANGED <<gpathFile, tagFile, gpath, mode>>
            /\ tags' = [db \in Db |-> Kept(db)]
        BY <2>2, <3>2 DEF OpenTags, diskVars
      <4>2. \A db \in Db : tags'[db] \subseteq tagFile[db].recs
        BY <4>1 DEF Kept
      <4> QED
        BY <4>1, <4>2
        DEF TagsInv, IdPart, DiskPart, RestPart, RunPart, PhasePart, Consistent, Below
    <3> QED
      BY <3>1, <3>2
  <2>3. CASE ReleaseForGtags
    <3>1. /\ UNCHANGED <<tagFile, gpath, tags, mode>> /\ pc \in {"parse", "build"}
          /\ pc' = "sync_GTAGS" /\ gpathFile' = gpathFile
      BY <2>3 DEF ReleaseForGtags, ReleaseGpath, GpathClose, TagsInv, TypeInv, Counted
    <3> QED
      BY <3>1 DEF TagsInv, IdPart, DiskPart, RestPart, RunPart, PhasePart, Consistent, Below
  <2>4. CASE ReleaseForGrtags
    <3>1. /\ UNCHANGED <<tagFile, gpath, tags, mode>> /\ pc = "synced" /\ pc' = "sync_GRTAGS"
          /\ gpathFile' = IF mode = "create" THEN Durable(gpath) ELSE gpathFile
      BY <2>4 DEF ReleaseForGrtags, ReleaseGpath, GpathClose, TagsInv, TypeInv, Counted
    <3> QED
      BY <3>1
      DEF Durable, TagsInv, IdPart, DiskPart, RestPart, RunPart, PhasePart, Consistent, Below
  <2>5. CASE SyncGtags
    <3>1. /\ UNCHANGED <<gpathFile, gpath, tags, mode>> /\ pc = "sync_GTAGS" /\ pc' = "synced"
          /\ \A db \in Db : tagFile'[db].recs \in {tagFile[db].recs, tags[db]}
      BY <2>5 DEF SyncGtags, memoryVars, Valid, Db, TagsInv, TypeInv, TypeOK
    <3> QED
      BY <3>1 DEF TagsInv, IdPart, DiskPart, RestPart, RunPart, PhasePart, Consistent, Below
  <2>6. CASE SyncGrtags
    <3>1. /\ gpathFile' = gpathFile /\ pc = "sync_GRTAGS" /\ mode' = mode
          /\ \A db \in Db : tagFile'[db].recs \in {tagFile[db].recs, tags[db]}
      BY <2>6 DEF SyncGrtags, Valid, Db, TagsInv, TypeInv, TypeOK
    <3>2. \A db \in Db : /\ Consistent(tagFile'[db].recs, gpath)
                         /\ Consistent(tagFile'[db].recs, gpathFile)
                         /\ Below(tagFile'[db].recs, gpath)
      BY <3>1 DEF TagsInv, IdPart, DiskPart, RunPart
    <3>3. CASE mode = "create"
      <4>1. pc' = "idle" /\ tags' = [db \in Db |-> {}] /\ gpathFile.next = gpath.next
        BY <2>6, <3>1, <3>3 DEF SyncGrtags, Finish, TagsInv, IdPart, PhasePart
      <4> QED
        BY <3>1, <3>2, <4>1
        DEF IdPart, DiskPart, RestPart, RunPart, PhasePart, Consistent, Below
    <3>4. CASE mode # "create"
      <4>1. pc' = "paths" /\ UNCHANGED <<gpath, tags>>
        BY <2>6, <3>4 DEF SyncGrtags
      <4> QED
        BY <3>1, <3>2, <4>1
        DEF TagsInv, IdPart, DiskPart, RestPart, RunPart, PhasePart, Consistent, Below
    <3> QED
      BY <3>3, <3>4
  <2>7. CASE DeletePaths
    <3>1. /\ UNCHANGED <<gpathFile, tagFile, tags, mode>> /\ pc = "paths" /\ pc' = "others"
          /\ gpath' = GpathDelete(gpath, deletelist)
      BY <2>7 DEF DeletePaths, diskVars
    <3>2. gpath'.entries \subseteq gpath.entries /\ gpath'.next = gpath.next
      BY <1>2, <3>1, DeleteSound DEF TagsInv, TypeInv, TypeOK
    <3> QED
      BY <3>1, <3>2
      DEF TagsInv, IdPart, DiskPart, RestPart, RunPart, PhasePart, Consistent, Below
  <2>8. CASE Utime
    <3>1. quiet /\ mode' = mode /\ pc = "others" /\ pc' = "exit"
      BY <2>8 DEF Utime, memoryVars
    <3> QED
      BY <3>1 DEF TagsInv, IdPart, DiskPart, RestPart, RunPart, PhasePart, Consistent, Below
  <2>9. CASE Exit
    <3>1. /\ tagFile' = tagFile /\ pc = "exit" /\ pc' = "idle" /\ mode' = mode
          /\ tags' = [db \in Db |-> {}] /\ gpathFile' = Durable(gpath)
      BY <2>9 DEF Exit, Finish, GpathClose, TagsInv, TypeInv, Counted
    <3> QED
      BY <3>1
      DEF Durable, TagsInv, IdPart, DiskPart, RestPart, RunPart, PhasePart, Consistent, Below
  <2>10. ASSUME NEW p \in Paths, Parse(p) PROVE IdPart'
    <3>1. CASE Abandon
      BY <2>10, <3>1, IdAbandon DEF Parse, TagsInv
    <3>2. CASE ~Abandon
      BY <2>10, <3>2, IdExtract DEF Parse, PathType, diskVars
    <3> QED
      BY <3>1, <3>2
  <2>11. ASSUME NEW p \in Paths, PutOther(p) PROVE IdPart'
    <3>1. /\ UNCHANGED <<gpathFile, tagFile, tags, mode>> /\ pc = "others" /\ pc' = pc
          /\ gpath' = GpathPut(gpath, p, "other")
      BY <2>11 DEF PutOther, diskVars
    <3>2. /\ gpath.next <= gpath'.next /\ gpath'.next \in Nat
          /\ \A e \in gpath'.entries : e \in gpath.entries \/ e.fid = gpath.next
      BY <1>2, <3>1, PutKnown DEF PathType, PathTable
    <3>3. \A db \in Db : /\ \A r \in tags[db] : r.fid \in Nat /\ r.fid < gpath.next
                         /\ \A r \in tagFile[db].recs : r.fid \in Nat /\ r.fid < gpath.next
      BY <1>1, <3>1 DEF TagsInv, IdPart, RunPart, Below, Record
    <3>4. \A db \in Db : /\ Consistent(tags[db], gpath') /\ Below(tags[db], gpath')
                         /\ Consistent(tagFile[db].recs, gpath') /\ Below(tagFile[db].recs, gpath')
      BY <1>2, <3>1, <3>2, <3>3 DEF TagsInv, IdPart, RunPart, Consistent, Below
    <3> QED
      BY <3>1, <3>4
      DEF TagsInv, IdPart, DiskPart, RestPart, RunPart, PhasePart, Consistent, Below
  <2>12. ASSUME NEW p \in Paths, Build(p) PROVE IdPart'
    <3>1. CASE Listed(p)
      BY <2>12, <3>1, IdExtract DEF Build, PathType, diskVars
    <3>2. CASE ~Listed(p)
      BY <1>3, <2>12, <3>2 DEF Build, diskVars
    <3> QED
      BY <3>1, <3>2
  <2> QED
    BY <1>7, <2>1, <2>2, <2>3, <2>4, <2>5, <2>6, <2>7, <2>8, <2>9, <2>10, <2>11, <2>12 DEF Step
<1> QED
  BY <1>4, <1>5, <1>6, <1>7 DEF Next

(* As long as gtags is not killed, whatever is edited, reconfigured or     *)
(* back-dated, no record of a tag file carries the id of another file than *)
(* the one it was parsed from (gtags_put_using, gpath_put, gtags_delete).  *)
THEOREM NeverMisattributed ==
  ASSUME "crash" \notin Hazards
  PROVE  Spec => []NoMisattribution
<1>1. Init => TagsInv
  BY TypeInit, PathTableInit, IdInit DEF TagsInv
<1>2. TagsInv /\ [Next]_vars => TagsInv'
  BY TypeStep, PathTableStep, IdStep DEF TagsInv
<1>3. TagsInv => NoMisattribution
  BY DEF TagsInv, IdPart, DiskPart, Consistent, NoMisattribution
<1> QED
  BY <1>1, <1>2, <1>3, PTL DEF Spec

-----------------------------------------------------------------------------
(* The two tag files tell of the same readings.                            *)

(* What a GTAGS made beside this GRTAGS holds: the readings that define.   *)
Agree(defs, refs) == defs = {r \in refs : Yield("GTAGS", r.content) # {}}

(* They agree in memory at any time, and on disk but between the two       *)
(* dbop_close calls, when GTAGS is already what the memory holds.          *)
AgreeInv ==
  /\ Agree(tags["GTAGS"], tags["GRTAGS"])
  /\ pc \notin {"synced", "sync_GRTAGS"} =>
       Agree(tagFile["GTAGS"].recs, tagFile["GRTAGS"].recs)
  /\ pc \in {"synced", "sync_GRTAGS"} => tagFile["GTAGS"].recs = tags["GTAGS"]

LEMMA AgreeInit == Init => AgreeInv
BY DEF Init, AgreeInv, Agree, Db

LEMMA AgreeEmpty ==
  ASSUME tags' = [db \in Db |-> {}]
  PROVE  Agree(tags["GTAGS"], tags["GRTAGS"])'
BY DEF Agree, Db

LEMMA AgreeAbandon ==
  ASSUME AgreeInv, pc \notin {"synced", "sync_GRTAGS"}, Abandon
  PROVE  AgreeInv'
<1>1. tags' = [db \in Db |-> {}] /\ tagFile' = tagFile /\ pc' = "idle"
  BY DEF Abandon, diskVars
<1> QED
  BY <1>1, AgreeEmpty DEF AgreeInv, Agree

(* One reading put into both files.                                        *)
LEMMA AgreeExtract ==
  ASSUME TypeInv, AgreeInv, NEW p \in Paths, NEW t \in PathType, Extract(p, t),
         UNCHANGED <<tagFile, pc>>, pc \notin {"synced", "sync_GRTAGS"}
  PROVE  AgreeInv'
<1> DEFINE f == FidOf(GpathPut(gpath, p, t), p)
           put(db) == {[fid |-> f, path |-> p, content |-> c] : c \in Parsed(db, p)}
<1>1. tags' = [db \in Db |-> tags[db] \cup put(db)]
  BY DEF Extract, PutTags
<1>2. \A db \in Db : tags'[db] = tags[db] \cup put(db)
  BY <1>1
<1>3. Agree(put("GTAGS"), put("GRTAGS"))
  BY DEF Agree, Parsed, Yield
<1> HIDE DEF put
<1>4. Agree(tags["GTAGS"] \cup put("GTAGS"), tags["GRTAGS"] \cup put("GRTAGS"))
  BY <1>3 DEF AgreeInv, Agree
<1> QED
  BY <1>2, <1>4 DEF AgreeInv, Agree, Db

LEMMA AgreeStep ==
  ASSUME TypeInv, AgreeInv, [Next]_vars, "crash" \notin Hazards
  PROVE  AgreeInv'
<1> DEFINE between == {"synced", "sync_GRTAGS"}
<1>1. ASSUME UNCHANGED <<tagFile, tags>>, pc \notin between, pc' \notin between
      PROVE  AgreeInv'
  BY <1>1 DEF AgreeInv, Agree
<1>2. ASSUME UNCHANGED <<tagFile, tags, pc>> PROVE AgreeInv'
  BY <1>2 DEF AgreeInv, Agree
<1>3. CASE Environment
  BY <1>2, <1>3 DEF Environment, Tick, Crash, Write, Remove, Reconfigure, memoryVars, diskVars
<1>4. CASE UNCHANGED vars
  BY <1>2, <1>4 DEF vars, memoryVars, diskVars
<1>5. CASE Begin
  <2>1. CASE Inspect
    BY <1>1, <2>1 DEF Inspect, MayUpdate, diskVars
  <2>2. ASSUME NEW p \in Paths, Single(p) PROVE AgreeInv'
    BY <1>1, <2>2 DEF Single, Proceed, MayUpdate, diskVars
  <2>3. CASE Create
    <3>1. tagFile' = [db \in Db |-> Blank] /\ tags' = tags /\ pc' = "build"
      BY <2>3 DEF Create
    <3>2. tagFile'["GTAGS"].recs = {} /\ tagFile'["GRTAGS"].recs = {}
      BY <3>1 DEF Db, Blank
    <3> QED
      BY <3>1, <3>2 DEF AgreeInv, Agree
  <2> QED
    BY <1>5, <2>1, <2>2, <2>3 DEF Begin
<1>6. CASE Step
  <2>1. CASE Sweep
    BY <1>1, <2>1 DEF Sweep, Proceed, memoryVars, diskVars
  <2>2. CASE OpenTags
    <3>1. CASE Abandon
      BY <2>2, <3>1, AgreeAbandon DEF OpenTags
    <3>2. CASE ~Abandon
      <4>1. pc = "tags" /\ pc' = "parse" /\ tagFile' = tagFile /\ tags' = [db \in Db |-> Kept(db)]
        BY <2>2, <3>2 DEF OpenTags, diskVars
      <4>2. tags'["GTAGS"] = Kept("GTAGS") /\ tags'["GRTAGS"] = Kept("GRTAGS")
        BY <4>1 DEF Db
      <4>3. Agree(Kept("GTAGS"), Kept("GRTAGS"))
        BY <4>1 DEF AgreeInv, Agree, Kept
      <4> QED
        BY <4>1, <4>2, <4>3 DEF AgreeInv, Agree
    <3> QED
      BY <3>1, <3>2
  <2>3. CASE ReleaseForGtags
    BY <1>1, <2>3 DEF ReleaseForGtags, ReleaseGpath
  <2>4. CASE ReleaseForGrtags
    BY <2>4 DEF ReleaseForGrtags, ReleaseGpath, AgreeInv, Agree
  <2>5. CASE SyncGtags
    <3>1. tagFile'["GTAGS"].recs = tags["GTAGS"] /\ tags' = tags /\ pc' = "synced"
      BY <2>5 DEF SyncGtags, memoryVars, Valid, Db, TypeInv, TypeOK
    <3> QED
      BY <3>1 DEF AgreeInv, Agree
  <2>6. CASE SyncGrtags
    <3>1. /\ tagFile'["GRTAGS"].recs = tags["GRTAGS"]
          /\ tagFile'["GTAGS"].recs = tagFile["GTAGS"].recs
          /\ pc = "sync_GRTAGS"
      BY <2>6 DEF SyncGrtags, Valid, Db, TypeInv, TypeOK
    <3>2. Agree(tagFile["GTAGS"].recs, tagFile["GRTAGS"].recs)'
      BY <3>1 DEF AgreeInv, Agree
    <3>3. CASE mode = "create"
      BY <2>6, <3>2, <3>3, AgreeEmpty DEF SyncGrtags, Finish, AgreeInv
    <3>4. CASE mode # "create"
      BY <2>6, <3>2, <3>4 DEF SyncGrtags, AgreeInv, Agree
    <3> QED
      BY <3>3, <3>4
  <2>7. CASE DeletePaths
    BY <1>1, <2>7 DEF DeletePaths, diskVars
  <2>8. CASE Utime
    BY <1>1, <2>8 DEF Utime, memoryVars
  <2>9. CASE Exit
    BY <2>9, AgreeEmpty DEF Exit, Finish, AgreeInv, Agree
  <2>10. ASSUME NEW p \in Paths, Parse(p) PROVE AgreeInv'
    <3>1. CASE Abandon
      BY <2>10, <3>1, AgreeAbandon DEF Parse
    <3>2. CASE ~Abandon
      BY <2>10, <3>2, AgreeExtract DEF Parse, PathType, diskVars
    <3> QED
      BY <3>1, <3>2
  <2>11. ASSUME NEW p \in Paths, PutOther(p) PROVE AgreeInv'
    BY <1>1, <2>11 DEF PutOther, diskVars
  <2>12. ASSUME NEW p \in Paths, Build(p) PROVE AgreeInv'
    <3>1. CASE Listed(p)
      BY <2>12, <3>1, AgreeExtract DEF Build, PathType, diskVars
    <3>2. CASE ~Listed(p)
      BY <1>2, <2>12, <3>2 DEF Build, diskVars
    <3> QED
      BY <3>1, <3>2
  <2> QED
    BY <1>6, <2>1, <2>2, <2>3, <2>4, <2>5, <2>6, <2>7, <2>8, <2>9, <2>10, <2>11, <2>12 DEF Step
<1> QED
  BY <1>3, <1>4, <1>5, <1>6 DEF Next

(* As long as gtags is not killed, GTAGS and GRTAGS tell of the same       *)
(* readings between runs, though they are written one after the other and  *)
(* a run may die of a missing file (updatetags, gtags_close).              *)
THEOREM TagFilesAlwaysAgree ==
  ASSUME "crash" \notin Hazards
  PROVE  Spec => []TagFilesAgree
<1>1. Init => TypeInv /\ AgreeInv
  BY TypeInit, AgreeInit
<1>2. TypeInv /\ AgreeInv /\ [Next]_vars => (TypeInv /\ AgreeInv)'
  BY TypeStep, AgreeStep
<1>3. AgreeInv => TagFilesAgree
  BY DEF AgreeInv, Agree, TagFilesAgree
<1> QED
  BY <1>1, <1>2, <1>3, PTL DEF Spec

-----------------------------------------------------------------------------
(* GPATH tells of a new source file last.                                  *)

(* Where the records of a tag file are that this run has made.             *)
Made(db) ==
  IF \/ pc \in {"paths", "others", "exit"}
     \/ db = "GTAGS" /\ pc \in {"synced", "sync_GRTAGS"}
  THEN tagFile[db].recs
  ELSE tags[db]

(* All that this run's parser read at a path is there under the path's id. *)
Covered(db, e, recs) ==
  \A c \in extracted[e.path] : \A d \in Yield(db, c) :
    \E r \in recs : r.fid = e.fid /\ r.content = d

NewIds == {e \in gpath.entries \ gpathFile.entries : e.type = "source"}

NewInv ==
  pc # "idle" /\ mode # "create" =>
    /\ pc \in {"sweep", "tags"} => NewIds = {}
    /\ \A e \in NewIds : \A db \in Db : Covered(db, e, Made(db))

LEMMA NewExtract ==
  ASSUME TypeInv, PathTableSound, NewInv, NEW p \in Paths, Extract(p, "source"), pc = "parse",
         UNCHANGED <<gpathFile, pc, mode>>
  PROVE  NewInv'
<1> DEFINE g == GpathPut(gpath, p, "source")
           f == FidOf(g, p)
           x == IF p \in source THEN {file[p].content} ELSE {}
<1>1. /\ gpath \in PathTable /\ mode # "create" /\ "source" \in PathType
      /\ extracted \in [Paths -> SUBSET Contents]
  BY DEF TypeInv, TypeOK, Counted, PathType
<1>2. /\ g \in PathTable
      /\ \A e \in g.entries \ gpath.entries : e.path = p
  BY <1>1, PutKnown
<1>3. OneToOne(g)
  BY <1>1, PutOneToOne DEF PathTableSound
<1>4. \E e \in g.entries : e.path = p /\ e.fid = f
  BY <1>1, FidOfPut
<1>5. /\ gpath' = g
      /\ extracted' = [extracted EXCEPT ![p] = x]
      /\ tags' = [db \in Db |->
                    tags[db] \cup {[fid |-> f, path |-> p, content |-> c] : c \in Parsed(db, p)}]
  BY DEF Extract, PutTags
<1>6. \A db \in Db : \A c \in x : Yield(db, c) \subseteq Parsed(db, p)
  BY DEF Parsed
<1> HIDE DEF g, f, x
<1>7. \A db \in Db :
        /\ tags[db] \subseteq tags'[db]
        /\ \A c \in Parsed(db, p) : [fid |-> f, path |-> p, content |-> c] \in tags'[db]
  BY <1>5
<1>8. ASSUME NEW e \in NewIds', NEW db \in Db PROVE Covered(db, e, tags[db])'
  <2>1. e \in g.entries /\ e \notin gpathFile.entries /\ e.type = "source" /\ e \in Entry
    BY <1>2, <1>5, <1>8 DEF NewIds, PathTable
  <2>2. CASE e.path = p
    <3>1. e.fid = f
      BY <1>3, <1>4, <2>1, <2>2 DEF OneToOne
    <3>2. extracted'[e.path] = x
      BY <1>1, <1>5, <2>2
    <3>3. ASSUME NEW c \in x, NEW d \in Yield(db, c)
          PROVE  \E r \in tags'[db] : r.fid = e.fid /\ r.content = d
      <4>1. [fid |-> f, path |-> p, content |-> d] \in tags'[db]
        BY <1>6, <1>7, <3>3
      <4> QED
        BY <3>1, <4>1
    <3> QED
      BY <3>2, <3>3 DEF Covered
  <2>3. CASE e.path # p
    <3>1. e \in NewIds /\ extracted'[e.path] = extracted[e.path]
      BY <1>1, <1>2, <1>5, <2>1, <2>3 DEF NewIds, Entry
    <3>2. Covered(db, e, tags[db])
      BY <1>1, <3>1 DEF NewInv, Made
    <3> QED
      BY <1>7, <3>1, <3>2 DEF Covered
  <2> QED
    BY <2>2, <2>3
<1> QED
  BY <1>8 DEF NewInv, Made

LEMMA NewStep ==
  ASSUME TypeInv, TypeInv', PathTableSound, NewInv, [Next]_vars
  PROVE  NewInv'
<1>1. ASSUME UNCHANGED <<gpathFile, gpath, tagFile, tags, extracted, pc, mode>> PROVE NewInv'
  BY <1>1 DEF NewInv, NewIds, Covered, Made
<1>2. ASSUME pc' = "idle" \/ mode' = "create" PROVE NewInv'
  BY <1>2 DEF NewInv
<1>3. CASE UNCHANGED vars
  BY <1>1, <1>3 DEF vars, memoryVars, diskVars
<1>4. CASE Environment
  BY <1>1, <1>2, <1>4 DEF Environment, Tick, Crash, Abandon, Write, Remove, Reconfigure,
                          memoryVars, diskVars
<1>5. CASE Begin
  <2>1. ASSUME OpenGpath, gpathFile' = gpathFile PROVE NewInv'
    <3>1. NewIds' = {}
      BY <2>1 DEF OpenGpath, NewIds
    <3> QED
      BY <3>1 DEF NewInv
  <2>2. CASE Inspect
    BY <2>1, <2>2 DEF Inspect, diskVars
  <2>3. ASSUME NEW p \in Paths, Single(p) PROVE NewInv'
    BY <2>1, <2>3 DEF Single, diskVars
  <2>4. CASE Create
    BY <1>2, <2>4 DEF Create
  <2> QED
    BY <1>5, <2>2, <2>3, <2>4 DEF Begin
<1>6. CASE Step
  <2> SUFFICES ASSUME pc' # "idle", mode' # "create" PROVE NewInv'
    BY <1>2
  <2>0. ASSUME UNCHANGED <<gpathFile, gpath>>, NewIds = {} PROVE NewInv'
    <3>1. NewIds' = {}
      BY <2>0 DEF NewIds
    <3> QED
      BY <3>1 DEF NewInv
  <2>1. CASE Sweep
    <3>1. pc = "sweep" /\ mode # "create"
      BY <2>1 DEF Sweep
    <3> QED
      BY <2>0, <2>1, <3>1 DEF Sweep, NewInv, memoryVars, diskVars
  <2>2. CASE OpenTags
    <3>1. CASE Abandon
      BY <1>2, <3>1 DEF Abandon
    <3>2. CASE ~Abandon
      BY <2>0, <2>2, <3>2 DEF OpenTags, NewInv, diskVars
    <3> QED
      BY <3>1, <3>2
  <2>3. CASE ReleaseForGtags
    <3>1. /\ UNCHANGED <<gpathFile, gpath, tagFile, tags, extracted, mode>>
          /\ pc = "parse" /\ pc' = "sync_GTAGS"
      BY <2>3 DEF ReleaseForGtags, ReleaseGpath, GpathClose, TypeInv, Counted
    <3> QED
      BY <3>1 DEF NewInv, NewIds, Covered, Made
  <2>4. CASE ReleaseForGrtags
    <3>1. /\ UNCHANGED <<gpathFile, gpath, tagFile, tags, extracted, mode>>
          /\ pc = "synced" /\ pc' = "sync_GRTAGS"
      BY <2>4 DEF ReleaseForGrtags, ReleaseGpath, GpathClose, TypeInv, Counted
    <3> QED
      BY <3>1 DEF NewInv, NewIds, Covered, Made
  <2>5. CASE SyncGtags
    <3>1. /\ UNCHANGED <<gpathFile, gpath, tags, extracted, mode>>
          /\ pc = "sync_GTAGS" /\ pc' = "synced"
          /\ tagFile'["GTAGS"].recs = tags["GTAGS"]
      BY <2>5 DEF SyncGtags, memoryVars, Valid, Db, TypeInv, TypeOK
    <3>2. \A db \in Db : Made(db)' = Made(db)
      BY <3>1 DEF Made, Db
    <3> QED
      BY <3>1, <3>2 DEF NewInv, NewIds, Covered
  <2>6. CASE SyncGrtags
    <3>1. /\ UNCHANGED <<gpathFile, gpath, tags, extracted, mode>>
          /\ pc = "sync_GRTAGS" /\ pc' = "paths"
          /\ tagFile'["GRTAGS"].recs = tags["GRTAGS"]
          /\ tagFile'["GTAGS"].recs = tagFile["GTAGS"].recs
      BY <2>6 DEF SyncGrtags, Finish, Valid, Db, TypeInv, TypeOK
    <3>2. \A db \in Db : Made(db)' = Made(db)
      BY <3>1 DEF Made, Db
    <3> QED
      BY <3>1, <3>2 DEF NewInv, NewIds, Covered
  <2>7. CASE DeletePaths
    <3>1. /\ UNCHANGED <<gpathFile, tagFile, tags, extracted, mode>>
          /\ pc = "paths" /\ pc' = "others" /\ gpath' = GpathDelete(gpath, deletelist)
      BY <2>7 DEF DeletePaths, diskVars
    <3>2. NewIds' \subseteq NewIds
      BY <3>1, DeleteSound DEF NewIds, TypeInv, TypeOK
    <3>3. \A db \in Db : Made(db)' = Made(db)
      BY <3>1 DEF Made
    <3> QED
      BY <3>1, <3>2, <3>3 DEF NewInv, Covered
  <2>8. CASE Utime
    BY <2>8 DEF Utime, memoryVars, NewInv, NewIds, Covered, Made
  <2>9. CASE Exit
    BY <1>2, <2>9 DEF Exit, Finish
  <2>10. ASSUME NEW p \in Paths, Parse(p) PROVE NewInv'
    <3>1. CASE Abandon
      BY <1>2, <3>1 DEF Abandon
    <3>2. CASE ~Abandon
      BY <2>10, <3>2, NewExtract DEF Parse, diskVars
    <3> QED
      BY <3>1, <3>2
  <2>11. ASSUME NEW p \in Paths, PutOther(p) PROVE NewInv'
    <3>1. /\ UNCHANGED <<gpathFile, tagFile, tags, extracted, mode>>
          /\ pc = "others" /\ pc' = pc
          /\ gpath' = GpathPut(gpath, p, "other")
      BY <2>11 DEF PutOther, diskVars
    <3>2. NewIds' \subseteq NewIds
      BY <3>1 DEF NewIds, GpathPut
    <3>3. \A db \in Db : Made(db)' = Made(db)
      BY <3>1 DEF Made
    <3> QED
      BY <3>1, <3>2, <3>3 DEF NewInv, Covered
  <2>12. ASSUME NEW p \in Paths, Build(p) PROVE NewInv'
    BY <1>2, <2>12 DEF Build, TypeInv, Counted
  <2> QED
    BY <1>6, <2>1, <2>2, <2>3, <2>4, <2>5, <2>6, <2>7, <2>8, <2>9, <2>10, <2>11, <2>12 DEF Step
<1> QED
  BY <1>3, <1>4, <1>5, <1>6 DEF Next

(* The one step that adds to GPATH on disk outside of createtags().        *)
LEMMA NewAtExit ==
  ASSUME TypeInv, NewInv, [Next]_vars, NEW e \in gpathFile'.entries \ gpathFile.entries,
         mode # "create"
  PROVE  pc = "exit" /\ gpathFile'.entries = gpath.entries
<1>1. \/ Create
      \/ ReleaseForGtags \/ ReleaseForGrtags \/ Exit
      \/ gpathFile' = gpathFile
  BY DEF Next, vars, diskVars, Environment, Tick, Crash, Abandon, Write, Remove, Reconfigure,
         Begin, Inspect, Single, Step, Sweep, OpenTags, SyncGtags, SyncGrtags, DeletePaths,
         Utime, Parse, PutOther, Build
<1>2. CASE Create
  BY <1>2 DEF Create
<1>3. CASE ReleaseForGtags \/ ReleaseForGrtags
  BY <1>3 DEF ReleaseForGtags, ReleaseForGrtags, ReleaseGpath, GpathClose, TypeInv, Counted
<1>4. CASE Exit
  BY <1>4 DEF Exit, GpathClose, Durable, TypeInv, Counted
<1> QED
  BY <1>1, <1>2, <1>3, <1>4

(* Whatever happens, kills included, GPATH on disk tells of a new source   *)
(* file only when all that was read there is in both tag files on disk     *)
(* (gpath_close counts, incremental() closes last).                        *)
THEOREM NewFilesComeLast == Spec => NewFilesLast
<1> DEFINE Last ==
      \A e \in gpathFile'.entries \ gpathFile.entries :
        e.type = "source" /\ mode # "create" =>
          \A db \in Db :
            UNION {Yield(db, c) : c \in extracted[e.path]}
              \subseteq {r.content : r \in {s \in tagFile[db].recs : s.fid = e.fid}}
<1>1. Init => TypeInv /\ PathTableSound /\ NewInv
  BY TypeInit, PathTableInit DEF Init, NewInv
<1>2. TypeInv /\ PathTableSound /\ NewInv /\ [Next]_vars
        => (TypeInv /\ PathTableSound /\ NewInv)'
  BY TypeStep, PathTableStep, NewStep
<1>3. TypeInv /\ PathTableSound /\ NewInv /\ [Next]_vars => Last
  <2> SUFFICES ASSUME TypeInv, NewInv, [Next]_vars,
                      NEW e \in gpathFile'.entries \ gpathFile.entries,
                      e.type = "source", mode # "create", NEW db \in Db
               PROVE  UNION {Yield(db, c) : c \in extracted[e.path]}
                        \subseteq {r.content : r \in {s \in tagFile[db].recs : s.fid = e.fid}}
    OBVIOUS
  <2>1. pc = "exit" /\ e \in NewIds
    BY NewAtExit DEF NewIds
  <2>2. Covered(db, e, tagFile[db].recs)
    BY <2>1 DEF NewInv, Made
  <2> QED
    BY <2>2 DEF Covered
<1>4. (Spec => [][Last]_vars)
  BY <1>1, <1>2, <1>3, PTL DEF Spec
<1> QED
  BY <1>4, PTL DEF NewFilesLast

=============================================================================
