------------------------ MODULE GtagsAccurate_proofs ------------------------
(***************************************************************************)
(* Theorems of GtagsUpdate about what the tag files say of the source      *)
(* tree.  First, making them anew makes them right whatever was edited,    *)
(* reconfigured or killed before.  Then, in a project where nothing comes  *)
(* in between, that an incremental run does so too, that until then        *)
(* everything out of date is newer than GTAGS, and that a second run finds *)
(* nothing to do.                                                          *)
(*                                                                         *)
(* At the end, that GtagsUpdate implements TagIndex, for every project and *)
(* whatever happens beside gtags as long as it is not killed: the initial  *)
(* states map to initial states, and every step of gtags or of its         *)
(* environment is an abstract step or none.                                *)
(***************************************************************************)
EXTENDS GtagsRefines, GtagsUpdate_proofs

(* What the records of one tag file say under the id of a path.            *)
Text(recs, e) == {r.content : r \in {s \in recs : s.fid = e.fid}}

(* They say of that path what the tree says.                               *)
Tells(recs, db, e) == Text(recs, e) = Project(db)[e.path]

Remaking == mode = "create" /\ settled = "running"

(* What createtags() has in memory, if no file has changed since it began: *)
(* the paths it has visited, each with its text.                           *)
Remade ==
  /\ \A p \in addlist : Listed(p)
  /\ \A p \in Paths : Known(gpath, p) <=> Listed(p) /\ p \notin addlist
  /\ \A db \in Db : /\ Below(tags[db], gpath)
                    /\ \A e \in gpath.entries : Tells(tags[db], db, e)
  /\ pc # "build" => addlist = {}
  /\ pc \in {"synced", "sync_GRTAGS"} => tagFile["GTAGS"].recs = tags["GTAGS"]
  /\ pc = "sync_GRTAGS" => gpathFile.entries = gpath.entries

RemakeInv ==
  /\ pc = "idle" => settled # "running" /\ tags = [db \in Db |-> {}]
  /\ mode = "create" /\ pc # "idle" => settled # "yes"
  /\ Remaking => Remade
  /\ RemakeRepairs

-----------------------------------------------------------------------------
(* The type of an entry is the side of langmap its path is on.             *)
Typed(g) == \A e \in g.entries : e.type = "source" <=> e.path \in source

(* The id of every record is in GPATH.                                     *)
Resolved(g, recs) == \A r \in recs : \E e \in g.entries : e.fid = r.fid

(* Tags that are out of date are older than their file, and a path that    *)
(* carries no tags has none.                                               *)
Noticed(e) ==
  Exists(e.path) /\ e.path \in source =>
    mtime < file[e.path].mtime \/ \A db \in Db : Tells(tagFile[db].recs, db, e)

Untagged(e) == e.path \notin source => \A db \in Db : Text(tagFile[db].recs, e) = {}

Fresh(g) ==
  /\ Typed(g)
  /\ \A db \in Db : Resolved(g, tagFile[db].recs)
  /\ \A e \in g.entries : Noticed(e) /\ Untagged(e)

Newest == \A p \in source : Exists(p) => file[p].mtime <= mtime

Complete(g) ==
  /\ \A p \in Paths : Known(g, p) <=> Listed(p)
  /\ \A e \in g.entries : \A db \in Db : Tells(tagFile[db].recs, db, e)
  /\ Newest

(* The run has inspected the whole tree, or had nothing but p to inspect.  *)
Whole == mode # "single" \/ settled = "yes"

(* Where the records are that the run will leave.                          *)
Writing == {"parse", "sync_GTAGS", "synced", "sync_GRTAGS"}
Recs(db) == IF pc \in Writing THEN tags[db] ELSE tagFile[db].recs

IdleFresh ==
  /\ tagFile["GRTAGS"].status # "blank"
  /\ Fresh(gpathFile)
  /\ settled = "yes" => Complete(gpathFile)

(* What createtags() adds to Remade.                                       *)
CreateFresh ==
  /\ settled = "running"
  /\ Typed(gpath)
  /\ \A db \in Db : Resolved(gpath, tags[db])
  /\ pc \in {"synced", "sync_GRTAGS"} => Newest

(* After the walk over the tree.                                           *)
SweepFresh ==
  /\ Fresh(gpath)
  /\ settled = "yes" => Complete(gpath)
  /\ \A p \in Paths :
       /\ p \in addlist <=>
            p \in source /\ Exists(p) /\ (~Known(gpath, p) \/ mtime < file[p].mtime)
       /\ p \in addlistOther <=> p \notin source /\ Listed(p) /\ ~Known(gpath, p)
  /\ \A e \in gpath.entries : e.fid \in findset <=> Listed(e.path)
  /\ deleteset = {e.fid : e \in {d \in gpath.entries : d.path \in addlist}}

(* What the lists are for.                                                 *)
Lists ==
  /\ \A p \in addlist : p \in source /\ Exists(p)
  /\ \A p \in addlistOther : p \notin source /\ Listed(p)
  /\ \A p \in deletelist : ~Listed(p)
  /\ Whole => \A p \in Paths : Listed(p) => Known(gpath, p) \/ p \in addlist \cup addlistOther
  /\ mode = "full" => settled # "yes"

Covering == Whole => \A e \in gpath.entries : Listed(e.path) \/ e.path \in deletelist

TagsFresh ==
  /\ Typed(gpath) /\ Lists /\ Covering
  /\ \A db \in Db : Resolved(gpath, tagFile[db].recs)
  /\ \A e \in gpath.entries :
       /\ e.fid \in deleteset => e.path \in addlist \cup deletelist
       /\ e.path \in addlist \cup deletelist => e.fid \in deleteset \/ e.path \notin source
       /\ e.fid \notin deleteset => \A db \in Db : Tells(tagFile[db].recs, db, e)

(* While the tags are deleted and put, and until the paths are deleted.    *)
WriteFresh ==
  /\ Typed(gpath) /\ Lists /\ Covering
  /\ pc # "parse" => addlist = {}
  /\ \A db \in Db :
       /\ Resolved(gpath, Recs(db))
       /\ \A e \in gpath.entries :
            Text(Recs(db), e) =
              IF e.path \in addlist \cup deletelist THEN {} ELSE Project(db)[e.path]

OthersFresh ==
  /\ Typed(gpath) /\ Lists /\ addlist = {}
  /\ Whole => \A e \in gpath.entries : Listed(e.path)
  /\ \A db \in Db :
       /\ Resolved(gpath, tagFile[db].recs)
       /\ \A e \in gpath.entries : Tells(tagFile[db].recs, db, e)

ExitFresh ==
  /\ Fresh(gpath)
  /\ Whole => Complete(gpath)
  /\ mode = "full" /\ settled = "yes" => ~updated

RunFresh ==
  /\ \A db \in Db : tagFile[db].status = "valid"
  /\ mode = "single" => settled # "running"
  /\ mode # "single" => settled # "no"
  /\ pc = "sweep" => mode = "full" /\ SweepFresh
  /\ pc = "tags" => TagsFresh
  /\ pc \in Writing \cup {"paths"} => WriteFresh
  /\ pc = "others" => OthersFresh
  /\ pc = "exit" => ExitFresh

FreshInv ==
  /\ \A p \in Paths : Exists(p) => file[p].mtime <= clock
  /\ pc = "idle" => IdleFresh
  /\ pc # "idle" /\ mode = "create" => CreateFresh
  /\ pc # "idle" /\ mode # "create" => RunFresh

-----------------------------------------------------------------------------
(* Lemmas about what the tag files say.                                    *)

(* A reader finds under a path what the records under its id hold.         *)
LEMMA IndexIsText ==
  ASSUME OneToOne(gpathFile), NEW db \in Db, NEW e \in gpathFile.entries, e.path \in Paths
  PROVE  Index(db)[e.path] = Text(tagFile[db].recs, e)
<1>1. \A s : (\E d \in gpathFile.entries : d.path = e.path /\ d.fid = s.fid) <=> s.fid = e.fid
  BY DEF OneToOne
<1> QED
  BY <1>1 DEF Index, Text

(* The tag files say of every path what the tree says.                     *)
Told(p) ==
  /\ Known(gpathFile, p) <=> Listed(p)
  /\ \A e \in gpathFile.entries : \A db \in Db :
       e.path = p => Tells(tagFile[db].recs, db, e)

LEMMA CurrentIfTold == OneToOne(gpathFile) => \A p \in Paths : Told(p) => Current(p)
<1> SUFFICES ASSUME OneToOne(gpathFile), NEW p \in Paths, Told(p) PROVE Current(p)
  OBVIOUS
<1>1. CASE Known(gpathFile, p)
  <2>1. PICK e \in gpathFile.entries : e.path = p
    BY <1>1 DEF Known
  <2>2. \A db \in Db : Index(db)[p] = Project(db)[p]
    BY <2>1, IndexIsText DEF Tells, Told
  <2> QED
    BY <1>1, <2>2 DEF Current, Told
<1>2. CASE ~Known(gpathFile, p)
  <2>1. \A db \in Db : Index(db)[p] = {}
    BY <1>2 DEF Index, Known
  <2>2. \A db \in Db : Project(db)[p] = {}
    BY <1>2 DEF Project, Listed, Told
  <2> QED
    BY <1>2, <2>1, <2>2 DEF Current, Told
<1> QED
  BY <1>1, <1>2

(* The same of the state after a step.                                     *)
LEMMA CurrentIfToldNext ==
  (OneToOne(gpathFile) => \A p \in Paths : Told(p) => Current(p))'
BY CurrentIfTold, PTL

(* Conversely.                                                             *)
LEMMA ToldIfCurrent ==
  ASSUME OneToOne(gpathFile), NEW e \in gpathFile.entries, e.path \in Paths, Current(e.path)
  PROVE  \A db \in Db : Tells(tagFile[db].recs, db, e)
BY IndexIsText DEF Current, Tells

(* gpath_put knows one path more and gives it the asked type.              *)
LEMMA PutTyped ==
  ASSUME NEW g \in PathTable, NEW p \in Paths, NEW t \in PathType
  PROVE  /\ \A q \in Paths : Known(GpathPut(g, p, t), q) <=> Known(g, q) \/ q = p
         /\ \A e \in GpathPut(g, p, t).entries \ g.entries : e.type = t
<1>1. CASE Known(g, p)
  BY <1>1 DEF GpathPut
<1>2. CASE ~Known(g, p)
  <2> DEFINE new == [path |-> p, fid |-> NextKey(g), type |-> t]
  <2>1. GpathPut(g, p, t).entries = g.entries \cup {new}
    BY <1>2 DEF GpathPut
  <2>2. new.path = p /\ new.type = t
    OBVIOUS
  <2> HIDE DEF new
  <2> QED
    BY <2>1, <2>2 DEF Known
<1> QED
  BY <1>1, <1>2

(* One file is parsed and its records put under the id of its path: they   *)
(* say what the file says, and what other records say is as it was.        *)
LEMMA ExtractTells ==
  ASSUME TypeInv, PathTableSound, NEW p \in Paths, NEW t \in PathType, Extract(p, t),
         p \in source => Exists(p), UNCHANGED <<file, source>>,
         \A db \in Db : Below(tags[db], gpath),
         \A db \in Db : \A e \in gpath.entries : e.path = p => Text(tags[db], e) = {}
  PROVE  /\ gpath' = GpathPut(gpath, p, t)
         /\ \A db \in Db : Below(tags[db], gpath)'
         /\ \A db \in Db : \A e \in gpath'.entries :
              \/ e.path = p /\ Text(tags'[db], e) = Project(db)[e.path]
              \/ e \in gpath.entries /\ e.path # p /\ Text(tags'[db], e) = Text(tags[db], e)
         /\ \A db \in Db : \A r \in tags'[db] :
              r \in tags[db] \/ \E e \in gpath'.entries : e.fid = r.fid
<1> DEFINE g == GpathPut(gpath, p, t)
           f == FidOf(g, p)
           put(db) == {[fid |-> f, path |-> p, content |-> c] : c \in Parsed(db, p)}
<1>1. gpath \in PathTable /\ gpath.next \in Nat /\ tags \in [Db -> SUBSET Record]
  BY DEF TypeInv, TypeOK, PathTable
<1>2. /\ g \in PathTable
      /\ gpath.entries \subseteq g.entries
      /\ gpath.next <= g.next
      /\ \A e \in g.entries \ gpath.entries :
            e.path = p /\ e.fid = gpath.next /\ e.fid < g.next
  BY <1>1, PutKnown
<1>3. OneToOne(g)
  BY <1>1, PutOneToOne DEF PathTableSound
<1>4. f \in Nat /\ \E e \in g.entries : e.path = p /\ e.fid = f
  BY <1>1, FidOfPut
<1>5. g.next \in Nat /\ f < g.next
  BY <1>2, <1>3, <1>4 DEF OneToOne, PathTable
<1>6. gpath' = g /\ tags' = [db \in Db |-> tags[db] \cup put(db)]
  BY DEF Extract, PutTags
<1>7. \A db \in Db : Parsed(db, p) = Project(db)[p]
  BY DEF Parsed, Project
<1> HIDE DEF g, f
<1>8. \A db \in Db : tags'[db] = tags[db] \cup put(db)
  BY <1>6
<1>9. \A db \in Db : \A r \in put(db) : r.fid = f
  OBVIOUS
<1>10. \A db \in Db : Below(tags'[db], g)
  <2> SUFFICES ASSUME NEW db \in Db, NEW r \in tags'[db] PROVE r.fid < g.next
    BY DEF Below
  <2>1. CASE r \in tags[db]
    BY <1>1, <1>2, <1>5, <2>1 DEF Below, Record
  <2>2. CASE r \in put(db)
    BY <1>5, <1>9, <2>2
  <2> QED
    BY <1>8, <2>1, <2>2
<1>11. ASSUME NEW db \in Db, NEW e \in g.entries
       PROVE  \/ e.path = p /\ Text(tags'[db], e) = Project(db)[e.path]
              \/ e \in gpath.entries /\ e.path # p /\ Text(tags'[db], e) = Text(tags[db], e)
  <2>1. CASE e.path = p
    <3>1. e.fid = f
      BY <1>3, <1>4, <2>1 DEF OneToOne
    <3>2. Text(tags[db], e) = {}
      <4>1. CASE e \in gpath.entries
        BY <2>1, <4>1
      <4>2. CASE e \notin gpath.entries
        <5>1. e.fid = gpath.next
          BY <1>2, <4>2
        <5>2. \A r \in tags[db] : r.fid # e.fid
          BY <1>1, <5>1 DEF Below, Record
        <5> QED
          BY <5>2 DEF Text
      <4> QED
        BY <4>1, <4>2
    <3>3. Text(put(db), e) = Parsed(db, p)
      <4>1. \A r \in put(db) : r.fid = e.fid /\ r.content \in Parsed(db, p)
        BY <3>1
      <4>2. \A c \in Parsed(db, p) : \E r \in put(db) : r.fid = e.fid /\ r.content = c
        <5> TAKE c \in Parsed(db, p)
        <5>1. [fid |-> f, path |-> p, content |-> c] \in put(db)
          OBVIOUS
        <5> QED
          BY <3>1, <5>1
      <4> HIDE DEF put
      <4> QED
        BY <4>1, <4>2 DEF Text
    <3> HIDE DEF put
    <3>4. Text(tags[db] \cup put(db), e) = Text(tags[db], e) \cup Text(put(db), e)
      BY DEF Text
    <3> QED
      BY <1>7, <1>8, <2>1, <3>2, <3>3, <3>4
  <2>2. CASE e.path # p
    <3>1. e \in gpath.entries /\ e.fid # f
      BY <1>2, <1>3, <1>4, <2>2 DEF OneToOne
    <3>2. \A s : s \in tags'[db] /\ s.fid = e.fid <=> s \in tags[db] /\ s.fid = e.fid
      BY <1>8, <1>9, <3>1
    <3>3. Text(tags'[db], e) = Text(tags[db], e)
      BY <3>2 DEF Text
    <3> QED
      BY <2>2, <3>1, <3>3
  <2> QED
    BY <2>1, <2>2
<1>12. ASSUME NEW db \in Db, NEW r \in tags'[db], r \notin tags[db]
       PROVE  \E e \in g.entries : e.fid = r.fid
  BY <1>4, <1>8, <1>9, <1>12
<1> HIDE DEF put
<1>13. gpath' = GpathPut(gpath, p, t)
  BY <1>6 DEF g
<1> QED
  BY <1>6, <1>10, <1>11, <1>12, <1>13 DEF Below

-----------------------------------------------------------------------------
(* Making the tag files anew.                                              *)

LEMMA RemakeInit == Init => RemakeInv
BY DEF Init, RemakeInv, Remaking, RemakeRepairs

(* Where the tree, langmap and the three files are as they were.           *)
LEMMA CurrentKept ==
  ASSUME UNCHANGED <<file, source, gpathFile, tagFile>>, NEW p \in Paths
  PROVE  Current(p)' <=> Current(p)
BY DEF Current, Known, Listed, Exists, IsBinary, Index, Project

LEMMA RemakeRepairsKept ==
  ASSUME RemakeInv, UNCHANGED <<file, source, gpathFile, tagFile, pc, mode, settled>>
  PROVE  RemakeRepairs'
BY CurrentKept DEF RemakeInv, RemakeRepairs

(* No run of createtags() is in progress, or an edit has spoilt it.        *)
LEMMA RemakeElsewhere ==
  ASSUME RemakeInv, pc' = "idle" => settled' # "running" /\ tags' = [db \in Db |-> {}],
         mode' # "create" \/ settled' = "no"
  PROVE  RemakeInv'
BY DEF RemakeInv, Remaking, RemakeRepairs

LEMMA RemakeBuild ==
  ASSUME TypeInv, TypeInv', PathTableSound, RemakeInv, NEW p \in Paths, Build(p)
  PROVE  RemakeInv'
<1> DEFINE t == IF p \in source THEN "source" ELSE "other"
<1>1. /\ pc = "build" /\ p \in addlist /\ pc' = pc /\ mode' = mode /\ settled' = settled
      /\ UNCHANGED <<file, source, gpathFile, tagFile>>
  BY DEF Build, projectVars, diskVars
<1>2. CASE Remaking
  <2>1. Remade /\ Listed(p)
    BY <1>1, <1>2 DEF RemakeInv, Remade
  <2>2. Extract(p, t) /\ t \in PathType /\ (p \in source => Exists(p))
    BY <2>1 DEF Build, PathType, Listed
  <2>3. ~Known(gpath, p) /\ \A e \in gpath.entries : e.path # p
    BY <1>1, <2>1 DEF Remade, Known
  <2> HIDE DEF t
  <2>4. \A db \in Db : Below(tags[db], gpath)
    BY <2>1 DEF Remade
  <2>5. /\ gpath' = GpathPut(gpath, p, t)
        /\ \A db \in Db : Below(tags[db], gpath)'
        /\ \A db \in Db : \A e \in gpath'.entries :
             \/ e.path = p /\ Text(tags'[db], e) = Project(db)[e.path]
             \/ e \in gpath.entries /\ e.path # p /\ Text(tags'[db], e) = Text(tags[db], e)
    BY <1>1, <2>2, <2>3, <2>4, ExtractTells
  <2>6. \A db \in Db : \A e \in gpath'.entries : Text(tags'[db], e) = Project(db)[e.path]
    BY <2>1, <2>5 DEF Remade, Tells
  <2>7. \A db \in Db : Project(db)' = Project(db)
    BY <1>1 DEF Project, Exists
  <2>8. addlist' = addlist \ {p}
    BY <2>2 DEF Extract, Done
  <2>9. \A q \in Paths : Known(gpath', q) <=> Known(gpath, q) \/ q = p
    BY <2>2, <2>5, PutTyped DEF TypeInv, TypeOK
  <2>10. \A q \in Paths : Listed(q)' <=> Listed(q)
    BY <1>1 DEF Listed, Exists, IsBinary
  <2>11. addlist \subseteq Paths
    BY DEF TypeInv, TypeOK
  <2>12. \A q \in addlist' : Listed(q)'
    BY <2>1, <2>8, <2>10, <2>11 DEF Remade
  <2>13. \A q \in Paths : Known(gpath, q)' <=> Listed(q)' /\ q \notin addlist'
    BY <1>1, <2>1, <2>8, <2>9, <2>10 DEF Remade, Known
  <2>14. \A db \in Db : \A e \in gpath'.entries : Tells(tags[db], db, e)'
    BY <2>6, <2>7 DEF Tells, Text
  <2>15. Remade'
    BY <1>1, <2>5, <2>12, <2>13, <2>14 DEF Remade
  <2> QED
    BY <1>1, <1>2, <2>15, RemakeRepairsKept DEF RemakeInv, Remaking
<1>3. CASE ~Remaking
  BY <1>1, <1>3, RemakeRepairsKept DEF RemakeInv, Remaking
<1> QED
  BY <1>2, <1>3

LEMMA RemakeClose ==
  ASSUME TypeInv, PathTableSound', RemakeInv,
         ReleaseForGtags \/ SyncGtags \/ ReleaseForGrtags \/ SyncGrtags
  PROVE  RemakeInv'
<1> DEFINE still == UNCHANGED <<file, source, mode>>
<1>1. /\ still
      /\ pc \notin {"idle", "build"} \/ ReleaseForGtags
      /\ pc # "idle"
  BY DEF ReleaseForGtags, SyncGtags, ReleaseForGrtags, SyncGrtags, ReleaseGpath, projectVars
<1>2. ASSUME UNCHANGED <<gpath, tags, addlist>>, settled' = settled, pc' # "idle", pc' # "build",
             addlist = {},
             pc' \in {"synced", "sync_GRTAGS"} => tagFile'["GTAGS"].recs = tags["GTAGS"] \/ ~Remaking,
             pc' = "sync_GRTAGS" => gpathFile'.entries = gpath.entries \/ ~Remaking
      PROVE  RemakeInv'
  <2>1. CASE Remaking
    <3>1. Remade
      BY <2>1 DEF RemakeInv
    <3>2. /\ \A q \in Paths : Known(gpath, q)' <=> Listed(q)' /\ q \notin addlist'
          /\ \A q \in addlist' : Listed(q)'
      BY <1>1, <1>2, <3>1 DEF Remade, Known, Listed, Exists, IsBinary
    <3>3. \A db \in Db : Below(tags[db], gpath)' /\ \A e \in gpath'.entries : Tells(tags[db], db, e)'
      BY <1>1, <1>2, <3>1 DEF Remade, Below, Tells, Text, Project, Exists
    <3>4. Remade'
      BY <1>2, <2>1, <3>2, <3>3 DEF Remade
    <3> QED
      BY <1>1, <1>2, <2>1, <3>4 DEF RemakeInv, Remaking, RemakeRepairs
  <2>2. CASE ~Remaking
    BY <1>1, <1>2, <2>2 DEF RemakeInv, Remaking, RemakeRepairs
  <2> QED
    BY <2>1, <2>2
<1>3. CASE ReleaseForGtags
  <2>1. /\ UNCHANGED <<gpath, tags, addlist>> /\ settled' = settled /\ pc' = "sync_GTAGS"
        /\ addlist = {}
    BY <1>3 DEF ReleaseForGtags, ReleaseGpath, listVars
  <2> QED
    BY <1>2, <2>1
<1>4. CASE SyncGtags
  <2>1. /\ UNCHANGED <<gpath, tags, addlist>> /\ settled' = settled /\ pc' = "synced"
        /\ tagFile'["GTAGS"].recs = tags["GTAGS"] /\ pc = "sync_GTAGS"
    BY <1>4 DEF SyncGtags, listVars, memoryVars, Valid, Db, TypeInv, TypeOK
  <2>2. CASE Remaking
    BY <1>2, <2>1, <2>2 DEF RemakeInv, Remade
  <2>3. CASE ~Remaking
    BY <1>1, <2>1, <2>3 DEF RemakeInv, Remaking, RemakeRepairs
  <2> QED
    BY <2>2, <2>3
<1>5. CASE ReleaseForGrtags
  <2>1. /\ UNCHANGED <<gpath, tags, addlist, tagFile>> /\ settled' = settled
        /\ pc' = "sync_GRTAGS" /\ pc = "synced" /\ addlist = {}
        /\ mode = "create" => gpathFile'.entries = gpath.entries
    BY <1>5 DEF ReleaseForGrtags, ReleaseGpath, listVars, GpathClose, Durable, TypeInv, Counted
  <2> QED
    BY <1>2, <2>1 DEF RemakeInv, Remaking, Remade
<1>6. CASE SyncGrtags
  <2>1. /\ gpathFile' = gpathFile /\ tagFile'["GTAGS"] = tagFile["GTAGS"]
        /\ tagFile'["GRTAGS"].recs = tags["GRTAGS"] /\ pc = "sync_GRTAGS"
    BY <1>6 DEF SyncGrtags, Valid, Db, TypeInv, TypeOK
  <2>2. CASE mode = "create"
    <3>1. /\ pc' = "idle" /\ tags' = [db \in Db |-> {}]
          /\ settled' = IF settled = "running" THEN "yes" ELSE settled
      BY <1>6, <2>2 DEF SyncGrtags, Finish
    <3>2. settled' # "running" /\ (settled' = "yes" => Remaking)
      BY <2>1, <2>2, <3>1 DEF RemakeInv, Remaking
    <3>3. ASSUME Remaking, NEW p \in Paths PROVE Current(p)'
      <4>1. Remade
        BY <3>3 DEF RemakeInv
      <4>2. /\ gpathFile'.entries = gpath.entries
            /\ \A db \in Db : tagFile'[db].recs = tags[db]
        BY <2>1, <4>1 DEF Remade, Db
      <4>3. Known(gpathFile, p)' <=> Listed(p)'
        BY <1>1, <2>1, <4>1, <4>2 DEF Remade, Known, Listed, Exists, IsBinary
      <4>4. \A db \in Db : \A e \in gpathFile'.entries : Tells(tagFile[db].recs, db, e)'
        BY <1>1, <4>1, <4>2 DEF Remade, Tells, Text, Project, Exists
      <4>5. OneToOne(gpathFile)'
        BY DEF PathTableSound
      <4> QED
        BY <4>3, <4>4, <4>5, CurrentIfToldNext DEF Told
    <3> QED
      BY <1>1, <3>1, <3>2, <3>3 DEF RemakeInv, Remaking, RemakeRepairs
  <2>3. CASE mode # "create"
    BY <1>1, <1>6, <2>3, RemakeElsewhere DEF SyncGrtags
  <2> QED
    BY <2>2, <2>3
<1> QED
  BY <1>3, <1>4, <1>5, <1>6

LEMMA RemakeStep ==
  ASSUME TypeInv, TypeInv', PathTableSound, PathTableSound', RemakeInv, [Next]_vars
  PROVE  RemakeInv'
<1>1. ASSUME UNCHANGED <<file, source, gpathFile, tagFile, gpath, tags, addlist, pc, mode, settled>>
      PROVE  RemakeInv'
  <2>1. Remade => Remade'
    <3>1. /\ \A q \in Paths : Listed(q)' <=> Listed(q)
          /\ \A q \in Paths : Known(gpath, q)' <=> Known(gpath, q)
      BY <1>1 DEF Listed, Exists, IsBinary, Known
    <3>2. \A db \in Db : \A e \in gpath.entries :
            Tells(tags[db], db, e)' <=> Tells(tags[db], db, e)
      BY <1>1 DEF Tells, Text, Project, Exists
    <3>3. addlist \subseteq Paths
      BY DEF TypeInv, TypeOK
    <3> QED
      BY <1>1, <3>1, <3>2, <3>3 DEF Remade, Below
  <2> QED
    BY <1>1, <2>1, RemakeRepairsKept DEF RemakeInv, Remaking
<1>2. CASE UNCHANGED vars
  BY <1>1, <1>2 DEF vars, projectVars, diskVars, memoryVars, listVars
<1>3. ASSUME Abandon PROVE RemakeInv'
  BY <1>3, RemakeElsewhere DEF Abandon
<1>4. CASE Environment
  <2>1. CASE Tick
    BY <1>1, <2>1 DEF Tick, diskVars, memoryVars, listVars
  <2>2. CASE Crash
    BY <1>3, <2>2 DEF Crash
  <2>3. ASSUME NEW p \in Paths, Write(p) \/ Remove(p) \/ Reconfigure(p) PROVE RemakeInv'
    BY <2>3, RemakeElsewhere DEF Write, Remove, Reconfigure, memoryVars, RemakeInv
  <2> QED
    BY <1>4, <2>1, <2>2, <2>3 DEF Environment
<1>5. CASE Begin
  <2>1. CASE Inspect
    BY <2>1, RemakeElsewhere DEF Inspect
  <2>2. ASSUME NEW p \in Paths, Single(p) PROVE RemakeInv'
    BY <2>2, RemakeElsewhere DEF Single, Proceed
  <2>3. CASE Create
    <3>1. /\ pc = "idle" /\ pc' = "build" /\ mode' = "create" /\ settled' = "running"
          /\ tags' = tags /\ addlist' = {p \in Paths : Listed(p)}
          /\ gpath' = [entries |-> {}, next |-> 1] /\ UNCHANGED <<file, source>>
      BY <2>3 DEF Create, NewGpath, projectVars
    <3>2. tags' = [db \in Db |-> {}]
      BY <3>1 DEF RemakeInv
    <3>3. /\ \A p \in Paths : Listed(p)' <=> Listed(p)
          /\ \A p \in Paths : ~Known(gpath, p)'
      BY <3>1 DEF Listed, Exists, IsBinary, Known
    <3>4. Remade'
      BY <3>1, <3>2, <3>3 DEF Remade, Below
    <3> QED
      BY <3>1, <3>4 DEF RemakeInv, RemakeRepairs
  <2> QED
    BY <1>5, <2>1, <2>2, <2>3 DEF Begin
<1>6. CASE Step
  <2>1. CASE ReleaseForGtags \/ SyncGtags \/ ReleaseForGrtags \/ SyncGrtags
    BY <2>1, RemakeClose
  <2>2. ASSUME NEW p \in Paths, Build(p) PROVE RemakeInv'
    BY <2>2, RemakeBuild
  <2>3. CASE OpenTags
    <3>1. pc = "tags" /\ mode # "create"
      BY <2>3 DEF OpenTags, TypeInv, Counted
    <3> QED
      BY <1>3, <2>3, <3>1, RemakeElsewhere DEF OpenTags
  <2>4. ASSUME NEW p \in Paths, Parse(p) PROVE RemakeInv'
    <3>1. pc = "parse" /\ mode # "create"
      BY <2>4 DEF Parse, TypeInv, Counted
    <3> QED
      BY <1>3, <2>4, <3>1, RemakeElsewhere DEF Parse
  <2>5. CASE Sweep \/ DeletePaths \/ Utime \/ \E p \in Paths : PutOther(p)
    <3>1. /\ pc \in {"sweep", "paths", "others"} /\ pc' # "idle" /\ mode' = mode
      BY <2>5 DEF Sweep, Proceed, DeletePaths, Utime, PutOther
    <3>2. mode # "create"
      BY <3>1 DEF TypeInv, Counted
    <3> QED
      BY <3>1, <3>2, RemakeElsewhere
  <2>6. CASE Exit
    <3>1. /\ pc = "exit" /\ mode' = mode /\ tags' = [db \in Db |-> {}]
          /\ settled' = IF settled = "running" THEN "yes" ELSE settled
      BY <2>6 DEF Exit, Finish
    <3>2. mode # "create"
      BY <3>1 DEF TypeInv, Counted
    <3> QED
      BY <3>1, <3>2, RemakeElsewhere
  <2> QED
    BY <1>6, <2>1, <2>2, <2>3, <2>4, <2>5, <2>6 DEF Step
<1> QED
  BY <1>2, <1>4, <1>5, <1>6 DEF Next

(* Whatever was edited, reconfigured or killed before, a run of gtags that *)
(* makes the tag files anew and is not disturbed itself leaves them equal  *)
(* to the tree (createtags).                                               *)
THEOREM RemakingRepairs == Spec => []RemakeRepairs
<1>1. Init => TypeInv /\ PathTableSound /\ RemakeInv
  BY TypeInit, PathTableInit, RemakeInit
<1>2. TypeInv /\ PathTableSound /\ RemakeInv /\ [Next]_vars
        => (TypeInv /\ PathTableSound /\ RemakeInv)'
  BY TypeStep, PathTableStep, RemakeStep
<1>3. RemakeInv => RemakeRepairs
  BY DEF RemakeInv
<1> QED
  BY <1>1, <1>2, <1>3, PTL DEF Spec

-----------------------------------------------------------------------------
(* The undisturbed project.                                                *)

(* Everything known of the states of a project where nothing comes between.*)
WholeInv == TagsInv /\ AgreeInv /\ RemakeInv /\ FreshInv

(* The tree and langmap are as they were.                                  *)
LEMMA TreeKept ==
  ASSUME UNCHANGED <<file, source>>
  PROVE  /\ \A p : Listed(p)' <=> Listed(p)
         /\ \A p : Exists(p)' <=> Exists(p)
         /\ \A db \in Db : Project(db)' = Project(db)
BY DEF Listed, Exists, IsBinary, Project

(* The tree, langmap and the disk are.                                     *)
LEMMA FreshKept ==
  ASSUME UNCHANGED <<file, source, tagFile, mtime>>,
         NEW g, Fresh(g)
  PROVE  /\ gpath'.entries = g.entries => Fresh(gpath)'
         /\ gpathFile'.entries = g.entries => Fresh(gpathFile)'
<1>1. /\ \A p : Exists(p)' <=> Exists(p)
      /\ \A db \in Db : Project(db)' = Project(db)
  BY TreeKept
<1>2. \A e : (Noticed(e)' <=> Noticed(e)) /\ (Untagged(e)' <=> Untagged(e))
  BY <1>1 DEF Noticed, Untagged, Tells
<1> QED
  BY <1>2 DEF Fresh, Typed, Resolved

LEMMA CompleteKept ==
  ASSUME UNCHANGED <<file, source, tagFile, mtime>>,
         NEW g, Complete(g)
  PROVE  /\ gpath'.entries = g.entries => Complete(gpath)'
         /\ gpathFile'.entries = g.entries => Complete(gpathFile)'
<1>1. /\ \A p : Exists(p)' <=> Exists(p)
      /\ \A p : Listed(p)' <=> Listed(p)
      /\ \A db \in Db : Project(db)' = Project(db)
  BY TreeKept
<1> QED
  BY <1>1 DEF Complete, Known, Tells, Newest

LEMMA FreshInit == Init => FreshInv
<1> SUFFICES ASSUME Init PROVE FreshInv
  OBVIOUS
<1>1. \A p \in Paths : Exists(p) => file[p].mtime <= clock
  BY DEF Init, Exists
<1>2. tagFile["GRTAGS"].status = "absent" /\ \A db \in Db : tagFile[db].recs = {}
  BY DEF Init, Db
<1>3. Fresh(gpathFile) /\ settled # "yes"
  BY <1>2 DEF Init, Fresh, Typed, Resolved
<1> QED
  BY <1>1, <1>2, <1>3 DEF Init, FreshInv, IdleFresh

(* Where only the clock moves on.                                          *)
LEMMA FreshAside ==
  ASSUME TypeInv, FreshInv, clock' \in {clock, clock + 1},
         UNCHANGED <<file, source, diskVars, pc, mode, memoryVars, listVars, settled, updated>>
  PROVE  FreshInv'
<1>1. clock \in Nat
  BY DEF TypeInv, TypeOK
<1>2. \A p \in Paths : Exists(p) => file[p].mtime \in Nat
  BY <1>1 DEF TypeInv, TypeOK, Exists, FileStat
<1>3. \A p \in Paths : Exists(p)' => file'[p].mtime <= clock'
  BY <1>1, <1>2 DEF FreshInv, Exists
<1> USE DEF diskVars, memoryVars, listVars, FreshInv, Exists, Listed, IsBinary, Known, Project,
            Tells, Noticed, Untagged, Typed, Resolved, Fresh, Newest, Complete, Whole, Recs
<1>4. pc = "idle" => IdleFresh'
  BY <1>1 DEF IdleFresh
<1>5. pc # "idle" /\ mode = "create" => CreateFresh'
  BY <1>1 DEF CreateFresh
<1>6. ASSUME pc # "idle", mode # "create" PROVE RunFresh'
  <2>1. RunFresh
    BY <1>1, <1>6
  <2>2. pc = "sweep" => SweepFresh'
    BY <1>1, <2>1 DEF RunFresh, SweepFresh
  <2>3. pc = "tags" => TagsFresh'
    BY <1>1, <2>1 DEF RunFresh, TagsFresh, Lists, Covering
  <2>4. pc \in Writing \cup {"paths"} => WriteFresh'
    BY <1>1, <2>1 DEF RunFresh, WriteFresh, Lists, Covering
  <2>5. pc = "others" => OthersFresh'
    BY <1>1, <2>1 DEF RunFresh, OthersFresh, Lists
  <2>6. pc = "exit" => ExitFresh'
    BY <1>1, <2>1 DEF RunFresh, ExitFresh
  <2> QED
    BY <1>1, <2>1, <2>2, <2>3, <2>4, <2>5, <2>6 DEF RunFresh
<1> QED
  BY <1>1, <1>3, <1>4, <1>5, <1>6

(* Edits between the runs: what they spoil is newer than GTAGS.            *)
LEMMA FreshEnvironment ==
  ASSUME Hazards = {}, WholeInv, Environment
  PROVE  FreshInv'
<1>1. TypeInv /\ FreshInv
  BY DEF WholeInv, TagsInv
<1>2. CASE Tick
  BY <1>1, <1>2, FreshAside DEF Tick
<1>3. ASSUME NEW p \in Paths, pc = "idle", settled' = "no",
             UNCHANGED <<source, clock, diskVars, pc, mode>>,
             file' = [file EXCEPT ![p] = file'[p]],
             file'[p] # None => mtime < file'[p].mtime /\ file'[p].mtime <= clock
      PROVE  FreshInv'
  <2>1. \A q \in Paths \ {p} : file'[q] = file[q]
    BY <1>1, <1>3 DEF TypeInv, TypeOK
  <2>2. \A q \in Paths : Exists(q)' => file'[q].mtime <= clock'
    BY <1>1, <1>3, <2>1 DEF FreshInv, Exists
  <2>3. Fresh(gpathFile) /\ tagFile["GRTAGS"].status # "blank"
    BY <1>1, <1>3 DEF FreshInv, IdleFresh
  <2>4. ASSUME NEW e \in gpathFile.entries, e.path \in Paths PROVE Noticed(e)' /\ Untagged(e)'
    <3>1. Untagged(e)'
      BY <1>3, <2>3 DEF Fresh, Untagged, diskVars
    <3>2. CASE e.path = p
      BY <1>3, <3>1, <3>2 DEF Noticed, Exists, diskVars
    <3>3. CASE e.path # p
      <4>1. \A db \in Db : Project(db)'[e.path] = Project(db)[e.path]
        BY <1>3, <2>1, <2>4, <3>3 DEF Project, Exists
      <4>2. Noticed(e)
        BY <2>3 DEF Fresh
      <4> QED
        BY <1>3, <2>1, <2>4, <3>1, <3>3, <4>1, <4>2 DEF Noticed, Exists, Tells, diskVars
    <3> QED
      BY <3>2, <3>3
  <2>5. \A e \in gpathFile.entries : e.path \in Paths
    BY <1>1 DEF TypeInv, TypeOK, Entry
  <2>6. Fresh(gpathFile)'
    BY <1>3, <2>3, <2>4, <2>5 DEF Fresh, Typed, Resolved, diskVars
  <2> QED
    BY <1>3, <2>2, <2>3, <2>6 DEF FreshInv, IdleFresh, diskVars
<1>4. ASSUME NEW p \in Paths, Write(p) PROVE FreshInv'
  <2>1. pc = "idle" /\ mtime < clock
    BY <1>4 DEF Write, MayEdit
  <2>2. PICK c \in Contents : file' = [file EXCEPT ![p] = [content |-> c, mtime |-> clock]]
    BY <1>4 DEF Write
  <2>3. file'[p] = [content |-> c, mtime |-> clock] /\ clock \in Nat
    BY <1>1, <2>2 DEF TypeInv, TypeOK
  <2>4. file' = [file EXCEPT ![p] = file'[p]]
    BY <2>2, <2>3
  <2>5. file'[p].mtime = clock /\ mtime < file'[p].mtime /\ file'[p].mtime <= clock
    BY <2>1, <2>3
  <2>6. settled' = "no" /\ UNCHANGED <<source, clock, diskVars, pc, mode>>
    BY <1>4 DEF Write
  <2> QED
    BY <1>3, <2>1, <2>4, <2>5, <2>6
<1>5. ASSUME NEW p \in Paths, Remove(p) PROVE FreshInv'
  <2>1. pc = "idle" /\ file' = [file EXCEPT ![p] = None] /\ file'[p] = None
    BY <1>1, <1>5 DEF Remove, TypeInv, TypeOK
  <2> QED
    BY <1>3, <1>5, <2>1 DEF Remove
<1>6. ~Crash /\ \A p \in Paths : ~Reconfigure(p)
  BY DEF Crash, Reconfigure
<1> QED
  BY <1>2, <1>4, <1>5, <1>6 DEF Environment

(* The entry of a path in a one-to-one table.                              *)
LEMMA EntryOfEntry ==
  ASSUME NEW g, OneToOne(g), NEW e \in g.entries
  PROVE  Known(g, e.path) /\ EntryOf(g, e.path) = e
<1>1. \E d \in g.entries : d.path = e.path
  OBVIOUS
<1>2. EntryOf(g, e.path) \in g.entries /\ EntryOf(g, e.path).path = e.path
  BY <1>1 DEF EntryOf
<1> QED
  BY <1>1, <1>2 DEF Known, OneToOne

(* gpath_open() reads what is on disk.                                     *)
LEMMA Opened ==
  ASSUME WholeInv, OpenGpath
  PROVE  /\ gpath' \in PathTable /\ OneToOne(gpath')
         /\ gpath'.entries = gpathFile.entries
         /\ \A p : Known(gpath', p) <=> Known(gpathFile, p)
BY DEF WholeInv, TagsInv, TypeInv, TypeOK, PathTableSound, OpenGpath, PathTable, OneToOne, Known

LEMMA FreshInspect ==
  ASSUME WholeInv, Inspect
  PROVE  FreshInv'
<1>1. /\ TypeInv /\ FreshInv /\ IdleFresh /\ MayUpdate /\ pc = "idle"
      /\ settled # "running"
  BY DEF WholeInv, TagsInv, Inspect, MayUpdate, FreshInv, RemakeInv
<1>2. /\ UNCHANGED <<file, source, clock, gpathFile, tagFile, mtime>>
      /\ pc' = "sweep" /\ mode' = "full"
      /\ settled' = IF settled = "no" THEN "running" ELSE settled
  BY DEF Inspect, projectVars, diskVars
<1>3. /\ gpath' \in PathTable /\ OneToOne(gpath')
      /\ gpath'.entries = gpathFile.entries
      /\ \A p : Known(gpath', p) <=> Known(gpathFile, p)
  BY Opened DEF Inspect
<1> DEFINE seen  == {p \in Paths : Listed(p)}
           known == {p \in seen : Known(gpath', p)}
           newer == {p \in known \cap source : mtime < file[p].mtime}
<1>4. /\ findset' = {EntryOf(gpath', p).fid : p \in known}
      /\ addlist' = ((seen \cap source) \ known) \cup newer
      /\ addlistOther' = (seen \ source) \ known
      /\ deleteset' = Outdated({EntryOf(gpath', p) : p \in newer})
  BY DEF Inspect
<1>5. \A p \in known : EntryOf(gpath', p) \in gpath'.entries /\ EntryOf(gpath', p).path = p
  BY <1>3, EntryOfKnown
<1>6. \A e \in gpath'.entries : e.path \in Paths /\ Known(gpath', e.path) /\ EntryOf(gpath', e.path) = e
  BY <1>3, EntryOfEntry DEF PathTable, Entry
<1>7. /\ \A p : Listed(p)' <=> Listed(p)
      /\ \A p : Exists(p)' <=> Exists(p)
  BY <1>2, TreeKept
<1>8. ASSUME NEW p \in Paths
      PROVE  /\ (p \in addlist <=>
                   p \in source /\ Exists(p) /\ (~Known(gpath, p) \/ mtime < file[p].mtime))'
             /\ (p \in addlistOther <=> p \notin source /\ Listed(p) /\ ~Known(gpath, p))'
  BY <1>2, <1>4, <1>7 DEF Listed, Known
<1>9. ASSUME NEW e \in gpath'.entries PROVE e.fid \in findset' <=> Listed(e.path)'
  <2>1. ASSUME e.fid \in findset' PROVE Listed(e.path)
    <3>1. PICK p \in known : EntryOf(gpath', p).fid = e.fid
      BY <1>4, <2>1
    <3>2. EntryOf(gpath', p) = e
      BY <1>3, <1>5, <3>1 DEF OneToOne
    <3> QED
      BY <1>5, <3>2
  <2>2. ASSUME Listed(e.path) PROVE e.fid \in findset'
    <3>1. e.path \in known
      BY <1>6, <2>2
    <3> QED
      BY <1>4, <1>6, <3>1
  <2> QED
    BY <1>7, <2>1, <2>2
<1>10. deleteset' = {e.fid : e \in {d \in gpath'.entries : d.path \in addlist'}}
  <2>1. \A d \in gpath'.entries : d.path \in addlist' <=> d.path \in newer
    BY <1>4, <1>6
  <2> HIDE DEF seen, known
  <2>2. {EntryOf(gpath', p) : p \in newer} = {d \in gpath'.entries : d.path \in newer}
    <3>1. \A p \in newer : EntryOf(gpath', p) \in gpath'.entries /\ EntryOf(gpath', p).path = p
      BY <1>5
    <3> HIDE DEF newer
    <3> QED
      BY <1>6, <3>1
  <2> HIDE DEF newer
  <2> QED
    BY <1>4, <2>1, <2>2 DEF Outdated
<1>11. Fresh(gpath)'
  BY <1>1, <1>2, <1>3, FreshKept DEF IdleFresh
<1>12. settled' = "yes" => Complete(gpath)'
  BY <1>1, <1>2, <1>3, CompleteKept DEF IdleFresh
<1>13. SweepFresh'
  BY <1>8, <1>9, <1>10, <1>11, <1>12 DEF SweepFresh
<1>14. \A db \in Db : tagFile'[db].status = "valid"
  BY <1>1, <1>2 DEF MayUpdate, IdleFresh, TypeInv, TypeOK, Status, Db
<1>15. RunFresh'
  BY <1>2, <1>13, <1>14, <1>1 DEF RunFresh, Writing, TypeInv, TypeOK
<1>16. \A p \in Paths : Exists(p)' => file'[p].mtime <= clock'
  BY <1>1, <1>2, <1>7 DEF FreshInv
<1> QED
  BY <1>2, <1>15, <1>16 DEF FreshInv

(* --single-update, the other files being as their tags say.               *)
LEMMA FreshSingle ==
  ASSUME Hazards = {}, WholeInv, NEW p \in Paths, Single(p)
  PROVE  FreshInv'
<1>1. /\ TypeInv /\ FreshInv /\ IdleFresh /\ MayUpdate /\ pc = "idle" /\ OneToOne(gpathFile)
      /\ settled # "running" /\ Exists(p)
  BY DEF WholeInv, TagsInv, Single, MayUpdate, FreshInv, RemakeInv, PathTableSound
<1>2. /\ UNCHANGED <<file, source, clock, gpathFile, tagFile, mtime, settled>>
      /\ mode' = "single" /\ deletelist' = {}
  BY DEF Single, projectVars, diskVars
<1>3. /\ gpath' \in PathTable /\ OneToOne(gpath')
      /\ gpath'.entries = gpathFile.entries
      /\ \A q : Known(gpath', q) <=> Known(gpathFile, q)
  BY Opened DEF Single
<1> DEFINE known == Known(gpath', p)
           retag == known /\ EntryOf(gpath', p).type = "source"
           taken == IF IsBinary(p) THEN {} ELSE {p}
<1>4. /\ addlist' = IF retag \/ (~known /\ p \in source) THEN taken ELSE {}
      /\ addlistOther' = IF ~known /\ p \notin source THEN taken ELSE {}
      /\ deleteset' = IF retag THEN Outdated({EntryOf(gpath', q) : q \in taken}) ELSE {}
  BY DEF Single
<1>5. /\ \A q : Listed(q)' <=> Listed(q)
      /\ \A q : Exists(q)' <=> Exists(q)
      /\ \A db \in Db : Project(db)' = Project(db)
  BY <1>2, TreeKept
<1>6. \A e \in gpath'.entries : e.path \in Paths /\ Known(gpath', e.path) /\ EntryOf(gpath', e.path) = e
  BY <1>3, EntryOfEntry DEF PathTable, Entry
<1>7. known => EntryOf(gpath', p) \in gpath'.entries /\ EntryOf(gpath', p).path = p
  BY <1>3, EntryOfKnown
<1>8. Typed(gpath)' /\ \A db \in Db : Resolved(gpath, tagFile[db].recs)'
  BY <1>1, <1>2, <1>3 DEF IdleFresh, Fresh, Typed, Resolved
<1>9. retag => p \in source
  BY <1>2, <1>7, <1>8 DEF Typed
<1>10. ASSUME NEW e \in gpath'.entries, e.path # p, NEW db \in Db
       PROVE  Tells(tagFile[db].recs, db, e)'
  <2>1. Current(e.path)
    BY <1>6, <1>10 DEF Single
  <2>2. Tells(tagFile[db].recs, db, e)
    BY <1>1, <1>3, <1>6, <2>1, <1>10, ToldIfCurrent
  <2> QED
    BY <1>2, <1>5, <2>2 DEF Tells
<1>11. settled = "yes" => Complete(gpath)'
  BY <1>1, <1>2, <1>3, CompleteKept DEF IdleFresh
<1>12. Whole' => settled = "yes"
  BY <1>2 DEF Whole
<1>13. Lists'
  <2>1. \A q \in addlist' : q \in source /\ Exists(q)
    BY <1>1, <1>4, <1>9
  <2>2. \A q \in addlistOther' : q \notin source /\ Listed(q)
    BY <1>1, <1>4 DEF Listed
  <2>3. Whole' => \A q \in Paths : Listed(q)' => Known(gpath', q)
    BY <1>11, <1>12 DEF Complete, Known
  <2>4. /\ \A q \in addlist' : q \in source' /\ Exists(q)'
        /\ \A q \in addlistOther' : q \notin source' /\ Listed(q)'
        /\ \A q \in deletelist' : ~Listed(q)'
    BY <1>2, <1>5, <2>1, <2>2
  <2>5. mode' # "full"
    BY <1>2
  <2> QED
    BY <2>3, <2>4, <2>5 DEF Lists, Known
<1>14. Covering'
  <2>1. Whole' => \A e \in gpath'.entries : Listed(e.path)'
    BY <1>6, <1>11, <1>12 DEF Complete, Known
  <2> QED
    BY <2>1 DEF Covering
<1>15. pc' = IF deleteset' # {} \/ addlist' # {} THEN "tags"
             ELSE IF deletelist' # {} \/ addlistOther' # {} THEN "paths"
             ELSE "exit"
  BY DEF Single, Proceed
<1>16. retag /\ taken = {p} => addlist' = {p} /\ deleteset' = {EntryOf(gpath', p).fid}
  <2> SUFFICES ASSUME retag, taken = {p}
               PROVE  addlist' = {p} /\ deleteset' = {EntryOf(gpath', p).fid}
    OBVIOUS
  <2>1. deleteset' = Outdated({EntryOf(gpath', q) : q \in {p}})
    BY <1>4
  <2>2. {EntryOf(gpath', q) : q \in {p}} = {EntryOf(gpath', p)}
    OBVIOUS
  <2> QED
    BY <1>4, <2>1, <2>2 DEF Outdated
<1>17. ~(retag /\ taken = {p}) => deleteset' = {} /\ (known => addlist' = {})
  BY <1>4 DEF Outdated
<1>18. addlist' \subseteq {p} /\ addlistOther' \subseteq {p}
  BY <1>4
<1>19. pc' = "tags" => TagsFresh'
  <2> SUFFICES ASSUME pc' = "tags", NEW e \in gpath'.entries
               PROVE  /\ e.fid \in deleteset' => e.path \in addlist'
                      /\ e.path \in addlist' => e.fid \in deleteset'
                      /\ e.fid \notin deleteset' =>
                            \A db \in Db : Tells(tagFile[db].recs, db, e)'
    BY <1>2, <1>8, <1>13, <1>14 DEF TagsFresh
  <2>1. CASE retag /\ taken = {p}
    <3>1. e.fid \in deleteset' <=> e.path = p
      BY <1>3, <1>6, <1>7, <1>16, <2>1 DEF OneToOne
    <3> QED
      BY <1>10, <1>16, <2>1, <3>1
  <2>2. CASE ~(retag /\ taken = {p})
    <3>1. deleteset' = {} /\ addlist' # {}
      BY <1>15, <1>17, <2>2
    <3>2. ~known
      BY <1>17, <2>2, <3>1
    <3>3. e.path # p
      BY <1>6, <3>2
    <3> QED
      BY <1>10, <1>18, <3>1, <3>3
  <2> QED
    BY <2>1, <2>2
<1>20. pc' = "paths" => WriteFresh'
  <2> SUFFICES ASSUME pc' = "paths" PROVE WriteFresh'
    OBVIOUS
  <2>1. addlist' = {} /\ addlistOther' # {}
    BY <1>2, <1>15
  <2>2. ~known
    BY <1>4, <2>1
  <2>3. \A e \in gpath'.entries : e.path # p
    BY <1>6, <2>2
  <2>4. \A db \in Db : Recs(db)' = tagFile'[db].recs
    BY DEF Recs, Writing
  <2>5. ASSUME NEW db \in Db, NEW e \in gpath'.entries
        PROVE  Text(Recs(db)', e) = Project(db)'[e.path]
    BY <1>10, <2>3, <2>4 DEF Tells
  <2>6. \A db \in Db : Resolved(gpath, Recs(db))'
    BY <1>8, <2>4 DEF Resolved
  <2> QED
    BY <1>2, <1>8, <1>13, <1>14, <2>1, <2>5, <2>6 DEF WriteFresh
<1>21. ExitFresh'
  <2>1. Fresh(gpath)'
    BY <1>1, <1>2, <1>3, FreshKept DEF IdleFresh
  <2> QED
    BY <1>2, <1>11, <1>12, <2>1 DEF ExitFresh
<1>22. \A db \in Db : tagFile'[db].status = "valid"
  BY <1>1, <1>2 DEF MayUpdate, IdleFresh, TypeInv, TypeOK, Status, Db
<1>23. pc' \in {"tags", "paths", "exit"}
  BY <1>15
<1>24. RunFresh'
  BY <1>1, <1>2, <1>19, <1>20, <1>21, <1>22, <1>23 DEF RunFresh, Writing
<1>25. \A q \in Paths : Exists(q)' => file'[q].mtime <= clock'
  BY <1>1, <1>2, <1>5 DEF FreshInv
<1> QED
  BY <1>2, <1>23, <1>24, <1>25 DEF FreshInv

LEMMA FreshCreate ==
  ASSUME WholeInv, Create
  PROVE  FreshInv'
<1>1. /\ pc = "idle" /\ pc' = "build" /\ mode' = "create" /\ settled' = "running"
      /\ gpath' = [entries |-> {}, next |-> 1] /\ tags' = tags
      /\ UNCHANGED <<file, source, clock>>
  BY DEF Create, NewGpath, projectVars
<1>2. tags' = [db \in Db |-> {}]
  BY <1>1 DEF WholeInv, RemakeInv
<1>3. CreateFresh'
  BY <1>1, <1>2 DEF CreateFresh, Typed, Resolved
<1>4. \A q \in Paths : Exists(q)' => file'[q].mtime <= clock'
  BY <1>1 DEF WholeInv, FreshInv, Exists
<1> QED
  BY <1>1, <1>3, <1>4 DEF FreshInv

-----------------------------------------------------------------------------
(* The steps of an incremental run.                                        *)

(* What every step of it has before and after.                             *)
LEMMA RunKept ==
  ASSUME FreshInv, pc # "idle", mode # "create", UNCHANGED <<file, clock, mode, settled>>,
         pc' # "idle", \A db \in Db : tagFile'[db].status = "valid",
         /\ pc' = "sweep" => (mode = "full" /\ SweepFresh)'
         /\ pc' = "tags" => TagsFresh'
         /\ pc' \in Writing \cup {"paths"} => WriteFresh'
         /\ pc' = "others" => OthersFresh'
         /\ pc' = "exit" => ExitFresh'
  PROVE  FreshInv'
<1>1. \A q \in Paths : Exists(q)' => file'[q].mtime <= clock'
  BY DEF FreshInv, Exists
<1>2. RunFresh'
  BY DEF FreshInv, RunFresh
<1> QED
  BY <1>1, <1>2 DEF FreshInv

LEMMA FreshSweep ==
  ASSUME WholeInv, Sweep
  PROVE  FreshInv'
<1>1. /\ TypeInv /\ FreshInv /\ RunFresh /\ SweepFresh /\ pc = "sweep" /\ mode = "full"
      /\ OneToOne(gpath) /\ gpath \in PathTable
  BY DEF WholeInv, TagsInv, Sweep, FreshInv, RunFresh, TypeInv, TypeOK, Counted, PathTableSound
<1>2. /\ UNCHANGED <<file, source, clock, tagFile, mtime, gpath, mode, settled,
                     addlist, addlistOther>>
  BY DEF Sweep, projectVars, diskVars, memoryVars
<1> DEFINE gone == {e \in gpath.entries :
                      \/ e.fid \notin findset
                      \/ ~Exists(e.path)
                      \/ e.type = "other" /\ IsBinary(e.path)}
<1>3. deletelist' = {e.path : e \in gone} /\ deleteset' = deleteset \cup Orphaned(gone)
  BY DEF Sweep
<1>4. pc' = IF deleteset' # {} \/ addlist' # {} THEN "tags"
            ELSE IF deletelist' # {} \/ addlistOther' # {} THEN "paths"
            ELSE "exit"
  BY DEF Sweep, Proceed
<1>5. Typed(gpath) /\ \A e \in gpath.entries : e.path \in Paths /\ e.type \in PathType
  BY <1>1 DEF SweepFresh, Fresh, PathTable, Entry
<1>6. \A e \in gpath.entries : e \in gone <=> ~Listed(e.path)
  BY <1>1, <1>5 DEF SweepFresh, Typed, Listed, PathType
<1>7. /\ \A p : Listed(p)' <=> Listed(p)
      /\ \A p : Exists(p)' <=> Exists(p)
      /\ \A db \in Db : Project(db)' = Project(db)
  BY <1>2, TreeKept
<1>8. \A q : q \in deletelist' <=> \E e \in gpath.entries : e.path = q /\ ~Listed(q)
  <2> HIDE DEF gone
  <2>1. \A e \in gone : e \in gpath.entries
    BY DEF gone
  <2> QED
    BY <1>3, <1>6, <2>1
<1> HIDE DEF gone
<1>9. \A e \in gpath.entries : e.fid \in Orphaned(gone) <=> e.path \in source /\ ~Listed(e.path)
  <2> SUFFICES ASSUME NEW e \in gpath.entries
               PROVE  e.fid \in Orphaned(gone) <=> e.path \in source /\ ~Listed(e.path)
    OBVIOUS
  <2>1. gone \subseteq gpath.entries
    BY DEF gone
  <2>2. \A d \in gpath.entries : d.fid = e.fid => d = e
    BY <1>1 DEF OneToOne
  <2>3. e.fid \in Orphaned(gone) <=> e \in gone /\ e.type = "source"
    BY <2>1, <2>2 DEF Orphaned
  <2> QED
    BY <1>5, <1>6, <2>3 DEF Typed
<1>10. \A e \in gpath.entries : e.fid \in deleteset <=> e.path \in addlist
  <2> SUFFICES ASSUME NEW e \in gpath.entries
               PROVE  e.fid \in deleteset <=> e.path \in addlist
    OBVIOUS
  <2>1. \A d \in gpath.entries : d.fid = e.fid => d = e
    BY <1>1 DEF OneToOne
  <2>2. deleteset = {d.fid : d \in {c \in gpath.entries : c.path \in addlist}}
    BY <1>1 DEF SweepFresh
  <2> QED
    BY <2>1, <2>2
<1>11. \A e \in gpath.entries :
         e.fid \in deleteset' <=> e.path \in addlist \/ (e.path \in source /\ ~Listed(e.path))
  BY <1>3, <1>9, <1>10
<1>12. \A e \in gpath.entries : Known(gpath, e.path)
  BY DEF Known
<1>13. ASSUME NEW e \in gpath.entries, e.path \notin addlist, Listed(e.path) \/ e.path \notin source,
              NEW db \in Db
       PROVE  Tells(tagFile[db].recs, db, e)
  <2>1. CASE e.path \in source
    <3>1. Exists(e.path) /\ ~(mtime < file[e.path].mtime)
      BY <1>1, <1>5, <1>12, <1>13, <2>1 DEF SweepFresh, Listed
    <3>2. Noticed(e)
      BY <1>1 DEF SweepFresh, Fresh
    <3> QED
      BY <2>1, <3>1, <3>2 DEF Noticed
  <2>2. CASE e.path \notin source
    <3>1. Untagged(e)
      BY <1>1 DEF SweepFresh, Fresh
    <3> QED
      BY <1>5, <2>2, <3>1 DEF Untagged, Tells, Project
  <2> QED
    BY <2>1, <2>2
<1>14. \A q \in Paths : Listed(q) => Known(gpath, q) \/ q \in addlist \cup addlistOther
  BY <1>1 DEF SweepFresh, Listed
<1>15. settled = "yes" => addlist = {} /\ addlistOther = {} /\ deletelist' = {} /\ deleteset' = {}
  <2> SUFFICES ASSUME settled = "yes"
               PROVE  addlist = {} /\ addlistOther = {} /\ deletelist' = {} /\ deleteset' = {}
    OBVIOUS
  <2>1. Complete(gpath) /\ Newest
    BY <1>1 DEF SweepFresh, Complete
  <2>2. addlist \subseteq Paths /\ addlistOther \subseteq Paths
    BY <1>1 DEF TypeInv, TypeOK
  <2>3. \A p \in source : Exists(p) => ~(mtime < file[p].mtime)
    <3>1. \A p \in source : Exists(p) => file[p].mtime \in Nat /\ mtime \in Nat
      BY <1>1 DEF TypeInv, TypeOK, Exists, FileStat
    <3> QED
      BY <2>1, <3>1 DEF Newest
  <2>4. addlist = {} /\ addlistOther = {}
    BY <1>1, <2>1, <2>2, <2>3 DEF SweepFresh, Complete, Listed
  <2>5. \A e \in gpath.entries : Listed(e.path)
    BY <1>5, <1>12, <2>1 DEF Complete
  <2>6. gone = {}
    BY <1>6, <2>5 DEF gone
  <2>7. deleteset = {}
    BY <1>1, <2>4 DEF SweepFresh
  <2> QED
    BY <1>3, <2>4, <2>6, <2>7 DEF Orphaned
<1>16. pc' # "exit" => Lists'
  <2> SUFFICES ASSUME pc' # "exit" PROVE Lists'
    OBVIOUS
  <2>1. settled # "yes"
    BY <1>2, <1>4, <1>15
  <2>2. addlist \subseteq Paths /\ addlistOther \subseteq Paths
    BY <1>1 DEF TypeInv, TypeOK
  <2>3. /\ \A p \in addlist : p \in source /\ Exists(p)
        /\ \A p \in addlistOther : p \notin source /\ Listed(p)
    BY <1>1, <2>2 DEF SweepFresh
  <2> QED
    BY <1>2, <1>7, <1>8, <1>14, <2>1, <2>3 DEF Lists, Known
<1>17. Covering'
  BY <1>2, <1>7, <1>8 DEF Covering
<1>18. Typed(gpath)' /\ \A db \in Db : Resolved(gpath, tagFile[db].recs)'
  BY <1>1, <1>2 DEF SweepFresh, Fresh, Typed, Resolved
<1>19. pc' = "tags" => TagsFresh'
  <2> SUFFICES ASSUME pc' = "tags", NEW e \in gpath.entries
               PROVE  /\ e.fid \in deleteset' => e.path \in addlist' \cup deletelist'
                      /\ e.path \in addlist' \cup deletelist'
                           => e.fid \in deleteset' \/ e.path \notin source'
                      /\ e.fid \notin deleteset' =>
                           \A db \in Db : Tells(tagFile[db].recs, db, e)'
    BY <1>2, <1>16, <1>17, <1>18 DEF TagsFresh
  <2>1. e.fid \notin deleteset' => \A db \in Db : Tells(tagFile[db].recs, db, e)'
    BY <1>2, <1>7, <1>11, <1>13 DEF Tells
  <2>2. e.path \in addlist => Listed(e.path)
    BY <1>1, <1>5 DEF SweepFresh, Listed
  <2> QED
    BY <1>2, <1>8, <1>11, <2>1, <2>2
<1>20. pc' = "paths" => WriteFresh'
  <2> SUFFICES ASSUME pc' = "paths" PROVE WriteFresh'
    OBVIOUS
  <2>1. addlist = {} /\ deleteset' = {}
    BY <1>2, <1>4
  <2>2. \A db \in Db : Recs(db)' = tagFile[db].recs
    BY <1>2 DEF Recs, Writing
  <2>3. \A e \in gpath.entries : \A db \in Db : Tells(tagFile[db].recs, db, e)
    BY <1>11, <1>13, <2>1
  <2>4. \A e \in gpath.entries : e.path \in deletelist' => e.path \notin source
    BY <1>8, <1>11, <2>1
  <2>5. ASSUME NEW db \in Db, NEW e \in gpath.entries
        PROVE  Text(Recs(db)', e) =
                 IF e.path \in addlist' \cup deletelist' THEN {} ELSE Project(db)'[e.path]
    <3>1. e.path \notin source => Project(db)[e.path] = {}
      BY <1>5 DEF Project
    <3> QED
      BY <1>2, <1>7, <2>1, <2>2, <2>3, <2>4, <3>1 DEF Tells
  <2>6. \A db \in Db : Resolved(gpath, Recs(db))'
    BY <1>2, <1>18, <2>2 DEF Resolved
  <2> QED
    BY <1>2, <1>16, <1>17, <1>18, <2>1, <2>5, <2>6 DEF WriteFresh
<1>21. pc' = "exit" => ExitFresh'
  <2> SUFFICES ASSUME pc' = "exit" PROVE ExitFresh'
    OBVIOUS
  <2>1. /\ addlist = {} /\ addlistOther = {} /\ deletelist' = {} /\ deleteset' = {}
        /\ updated' = FALSE
    <3>1. updated' = (pc' # "exit")
      BY DEF Sweep, Proceed
    <3> QED
      BY <1>2, <1>4, <3>1
  <2>2. Fresh(gpath)'
    BY <1>1, <1>2, FreshKept DEF SweepFresh
  <2>3. \A e \in gpath.entries : Listed(e.path)
    BY <1>8, <2>1
  <2>4. \A p \in Paths : Known(gpath, p) <=> Listed(p)
    BY <1>14, <2>1, <2>3 DEF Known
  <2>5. \A e \in gpath.entries : \A db \in Db : Tells(tagFile[db].recs, db, e)
    BY <1>13, <2>1, <2>3
  <2>6. Newest
    <3>1. \A p \in source : Exists(p) => file[p].mtime \in Nat /\ mtime \in Nat /\ p \in Paths
      BY <1>1 DEF TypeInv, TypeOK, Exists, FileStat
    <3>2. \A p \in source : Exists(p) => ~(mtime < file[p].mtime)
      BY <1>1, <2>1, <3>1 DEF SweepFresh
    <3> QED
      BY <3>1, <3>2 DEF Newest
  <2>7. Complete(gpath)'
    BY <1>2, <1>7, <2>4, <2>5, <2>6 DEF Complete, Known, Tells, Newest
  <2> QED
    BY <2>1, <2>2, <2>7 DEF ExitFresh
<1>22. pc' \in {"tags", "paths", "exit"}
  BY <1>4
<1>23. \A db \in Db : tagFile'[db].status = "valid"
  BY <1>1, <1>2 DEF RunFresh
<1> QED
  BY <1>1, <1>2, <1>19, <1>20, <1>21, <1>22, <1>23, RunKept DEF Writing

(* The tags of what is modified or gone are deleted.                       *)
LEMMA FreshOpenTags ==
  ASSUME WholeInv, OpenTags
  PROVE  FreshInv'
<1>1. /\ TypeInv /\ FreshInv /\ RunFresh /\ TagsFresh /\ pc = "tags" /\ mode # "create"
  BY DEF WholeInv, TagsInv, OpenTags, FreshInv, RunFresh, TypeInv, Counted
<1>2. \A db \in Db : Openable(db)
  BY <1>1 DEF RunFresh, Openable
<1>3. /\ UNCHANGED <<file, source, clock, tagFile, gpath, mode, settled, addlist, addlistOther,
                     deletelist>>
      /\ pc' = "parse" /\ tags' = [db \in Db |-> Kept(db)]
  BY <1>2 DEF OpenTags, projectVars, diskVars, listVars
<1>4. /\ \A p : Listed(p)' <=> Listed(p)
      /\ \A p : Exists(p)' <=> Exists(p)
      /\ \A db \in Db : Project(db)' = Project(db)
  BY <1>3, TreeKept
<1>5. \A db \in Db : Recs(db)' = Kept(db)
  BY <1>3 DEF Recs, Writing
<1>6. \A e \in gpath.entries : e.path \in Paths
  BY <1>1 DEF TypeInv, TypeOK, PathTable, Entry
<1>7. Lists' /\ Covering' /\ Typed(gpath)'
  BY <1>1, <1>3, <1>4 DEF TagsFresh, Lists, Covering, Whole, Known, Typed
<1>8. \A db \in Db : Resolved(gpath, Recs(db))'
  BY <1>1, <1>3, <1>5 DEF TagsFresh, Resolved, Kept
<1>9. ASSUME NEW db \in Db, NEW e \in gpath.entries
      PROVE  Text(Recs(db)', e) =
               IF e.path \in addlist' \cup deletelist' THEN {} ELSE Project(db)'[e.path]
  <2>1. CASE e.fid \in deleteset
    <3>1. Text(Kept(db), e) = {}
      BY <2>1 DEF Text, Kept
    <3> QED
      BY <1>1, <1>3, <1>5, <2>1, <3>1 DEF TagsFresh
  <2>2. CASE e.fid \notin deleteset
    <3>1. Text(Kept(db), e) = Text(tagFile[db].recs, e)
      BY <2>2 DEF Text, Kept
    <3>2. Text(tagFile[db].recs, e) = Project(db)[e.path]
      BY <1>1, <2>2 DEF TagsFresh, Tells
    <3>3. e.path \in addlist \cup deletelist => Project(db)[e.path] = {}
      BY <1>1, <1>6, <2>2 DEF TagsFresh, Project
    <3> QED
      BY <1>3, <1>4, <1>5, <3>1, <3>2, <3>3
  <2> QED
    BY <2>1, <2>2
<1>10. WriteFresh'
  BY <1>3, <1>7, <1>8, <1>9 DEF WriteFresh
<1> QED
  BY <1>1, <1>3, <1>10, RunKept DEF RunFresh, Writing

(* The tags of one file are put.                                           *)
LEMMA FreshParse ==
  ASSUME WholeInv, NEW p \in Paths, Parse(p)
  PROVE  FreshInv'
<1>1. /\ TypeInv /\ PathTableSound /\ FreshInv /\ RunFresh /\ WriteFresh /\ pc = "parse"
      /\ mode # "create" /\ p \in addlist
  BY DEF WholeInv, TagsInv, Parse, FreshInv, RunFresh, TypeInv, Counted, Writing
<1>2. p \in source /\ Exists(p) /\ Listed(p)
  BY <1>1 DEF WriteFresh, Lists, Listed
<1>3. /\ UNCHANGED <<file, source, clock, tagFile, pc, mode, settled, addlistOther, deletelist>>
      /\ Extract(p, "source") /\ addlist' = addlist \ {p}
  BY <1>2 DEF Parse, Extract, Done, projectVars, diskVars
<1>4. /\ \A q : Listed(q)' <=> Listed(q)
      /\ \A q : Exists(q)' <=> Exists(q)
      /\ \A db \in Db : Project(db)' = Project(db)
  BY <1>3, TreeKept
<1>5. /\ \A db \in Db : Recs(db) = tags[db]
      /\ \A db \in Db : Recs(db)' = tags'[db]
  BY <1>1, <1>3 DEF Recs, Writing
<1>6. \A db \in Db : Below(tags[db], gpath)
  BY <1>1 DEF WholeInv, TagsInv, IdPart, RunPart
<1>7. \A db \in Db : \A e \in gpath.entries : e.path = p => Text(tags[db], e) = {}
  BY <1>1, <1>5 DEF WriteFresh
<1>8. "source" \in PathType /\ gpath \in PathTable
  BY <1>1 DEF PathType, TypeInv, TypeOK
<1>9. /\ gpath' = GpathPut(gpath, p, "source")
      /\ \A db \in Db : \A e \in gpath'.entries :
           \/ e.path = p /\ Text(tags'[db], e) = Project(db)[e.path]
           \/ e \in gpath.entries /\ e.path # p /\ Text(tags'[db], e) = Text(tags[db], e)
      /\ \A db \in Db : \A r \in tags'[db] :
           r \in tags[db] \/ \E e \in gpath'.entries : e.fid = r.fid
  BY <1>1, <1>2, <1>3, <1>6, <1>7, <1>8, ExtractTells
<1>10. /\ \A q \in Paths : Known(gpath', q) <=> Known(gpath, q) \/ q = p
       /\ \A e \in gpath'.entries \ gpath.entries : e.type = "source" /\ e.path = p
       /\ gpath.entries \subseteq gpath'.entries
  BY <1>8, <1>9, PutTyped, PutKnown
<1>11. Typed(gpath)'
  BY <1>1, <1>2, <1>3, <1>10 DEF WriteFresh, Typed
<1>12. Lists'
  <2>1. Lists /\ (Whole' <=> Whole) /\ addlist \subseteq Paths
    BY <1>1, <1>3 DEF WriteFresh, Whole, TypeInv, TypeOK
  <2>2. Whole' => \A q \in Paths :
                    Listed(q)' => Known(gpath', q) \/ q \in addlist' \cup addlistOther'
    BY <1>3, <1>4, <1>10, <2>1 DEF Lists
  <2>3. /\ \A q \in addlist' : q \in source' /\ Exists(q)'
        /\ \A q \in addlistOther' : q \notin source' /\ Listed(q)'
        /\ \A q \in deletelist' : ~Listed(q)'
        /\ mode' = "full" => settled' # "yes"
    BY <1>3, <1>4, <2>1 DEF Lists
  <2> QED
    BY <2>2, <2>3 DEF Lists, Known
<1>13. Covering'
  BY <1>1, <1>2, <1>3, <1>4, <1>10 DEF WriteFresh, Covering, Whole
<1>14. ASSUME NEW db \in Db, NEW e \in gpath'.entries
       PROVE  Text(Recs(db)', e) =
                IF e.path \in addlist' \cup deletelist' THEN {} ELSE Project(db)'[e.path]
  <2>1. CASE e.path = p /\ Text(tags'[db], e) = Project(db)[e.path]
    <3>1. p \notin deletelist
      BY <1>1, <1>2 DEF WriteFresh, Lists
    <3> QED
      BY <1>3, <1>4, <1>5, <2>1, <3>1
  <2>2. CASE e \in gpath.entries /\ e.path # p /\ Text(tags'[db], e) = Text(tags[db], e)
    <3>1. Text(tags[db], e) =
            IF e.path \in addlist \cup deletelist THEN {} ELSE Project(db)[e.path]
      BY <1>1, <1>5, <2>2 DEF WriteFresh
    <3> QED
      BY <1>3, <1>4, <1>5, <2>2, <3>1
  <2> QED
    BY <1>9, <2>1, <2>2
<1>15. \A db \in Db : Resolved(gpath, Recs(db))'
  <2>1. \A db \in Db : Resolved(gpath, tags[db])
    BY <1>1, <1>5 DEF WriteFresh
  <2>2. ASSUME NEW db \in Db, NEW r \in tags'[db] PROVE \E e \in gpath'.entries : e.fid = r.fid
    BY <1>9, <1>10, <2>1 DEF Resolved
  <2> QED
    BY <1>5, <2>2 DEF Resolved
<1>16. WriteFresh'
  BY <1>1, <1>3, <1>11, <1>12, <1>13, <1>14, <1>15 DEF WriteFresh
<1> QED
  BY <1>1, <1>3, <1>16, RunKept DEF RunFresh, Writing

(* The tag files are closed one after the other.                           *)
LEMMA FreshClose ==
  ASSUME WholeInv, mode # "create",
         ReleaseForGtags \/ SyncGtags \/ ReleaseForGrtags \/ SyncGrtags
  PROVE  FreshInv'
<1>1. /\ TypeInv /\ FreshInv /\ RunFresh /\ WriteFresh /\ AgreeInv
      /\ pc \in Writing
  BY DEF WholeInv, TagsInv, FreshInv, RunFresh, Writing, TypeInv, Counted,
         ReleaseForGtags, SyncGtags, ReleaseForGrtags, SyncGrtags, ReleaseGpath
<1>2. /\ UNCHANGED <<file, source, clock, gpath, tags, mode, settled, addlist, addlistOther,
                     deletelist>>
      /\ addlist = {}
      /\ pc' \in (Writing \ {"parse"}) \cup {"paths"}
  BY <1>1 DEF ReleaseForGtags, SyncGtags, ReleaseForGrtags, SyncGrtags, ReleaseGpath, WriteFresh,
              projectVars, listVars, memoryVars, Writing
<1>3. /\ pc' = "paths" => \A db \in Db : tagFile'[db].recs = tags[db]
      /\ \A db \in Db : tagFile'[db].status = "valid"
  <2>1. CASE ReleaseForGtags \/ ReleaseForGrtags
    BY <1>1, <2>1 DEF ReleaseForGtags, ReleaseForGrtags, ReleaseGpath, RunFresh
  <2>2. CASE SyncGtags
    BY <1>1, <2>2 DEF SyncGtags, Valid, Db, TypeInv, TypeOK, RunFresh
  <2>3. CASE SyncGrtags
    BY <1>1, <2>3 DEF SyncGrtags, Valid, Db, TypeInv, TypeOK, RunFresh, AgreeInv
  <2> QED
    BY <2>1, <2>2, <2>3
<1>4. \A db \in Db : Recs(db)' = Recs(db)
  BY <1>1, <1>2, <1>3 DEF Recs, Writing
<1>5. /\ \A p : Listed(p)' <=> Listed(p)
      /\ \A p : Exists(p)' <=> Exists(p)
      /\ \A db \in Db : Project(db)' = Project(db)
  BY <1>2, TreeKept
<1>6. WriteFresh'
  BY <1>1, <1>2, <1>4, <1>5 DEF WriteFresh, Lists, Covering, Whole, Known, Typed, Resolved
<1> QED
  BY <1>1, <1>2, <1>3, <1>6, RunKept DEF Writing

(* The paths that are gone leave GPATH.                                    *)
LEMMA FreshDeletePaths ==
  ASSUME WholeInv, DeletePaths
  PROVE  FreshInv'
<1>1. /\ TypeInv /\ FreshInv /\ RunFresh /\ WriteFresh /\ pc = "paths" /\ mode # "create"
  BY DEF WholeInv, TagsInv, DeletePaths, FreshInv, RunFresh, TypeInv, Counted
<1>2. /\ UNCHANGED <<file, source, clock, tagFile, mode, settled, addlist, addlistOther, deletelist>>
      /\ pc' = "others"
      /\ \A e : e \in gpath'.entries <=> e \in gpath.entries /\ e.path \notin deletelist
  BY DEF DeletePaths, GpathDelete, projectVars, diskVars, listVars
<1>3. /\ \A p : Listed(p)' <=> Listed(p)
      /\ \A p : Exists(p)' <=> Exists(p)
      /\ \A db \in Db : Project(db)' = Project(db)
  BY <1>2, TreeKept
<1>4. addlist = {} /\ \A db \in Db : Recs(db) = tagFile[db].recs
  BY <1>1 DEF WriteFresh, Recs, Writing
<1>5. Typed(gpath)'
  BY <1>1, <1>2 DEF WriteFresh, Typed
<1>6. Lists'
  <2>1. \A q : Listed(q) /\ Known(gpath, q) => Known(gpath', q)
    BY <1>1, <1>2 DEF WriteFresh, Lists, Known
  <2>2. Lists
    BY <1>1 DEF WriteFresh
  <2>3. Whole' => \A q \in Paths :
                    Listed(q)' => Known(gpath', q) \/ q \in addlist' \cup addlistOther'
    BY <1>2, <1>3, <2>1, <2>2 DEF Lists, Whole
  <2> QED
    BY <1>2, <1>3, <2>2, <2>3 DEF Lists, Known
<1>7. Whole' => \A e \in gpath'.entries : Listed(e.path)'
  BY <1>1, <1>2, <1>3 DEF WriteFresh, Covering, Whole
<1>8. ASSUME NEW db \in Db, NEW e \in gpath'.entries PROVE Tells(tagFile[db].recs, db, e)'
  <2>1. Text(tagFile[db].recs, e) = Project(db)[e.path]
    BY <1>1, <1>2, <1>4 DEF WriteFresh
  <2> QED
    BY <1>2, <1>3, <2>1 DEF Tells
<1>9. ASSUME NEW db \in Db, NEW r \in tagFile[db].recs
      PROVE  \E e \in gpath'.entries : e.fid = r.fid
  <2>1. PICK e \in gpath.entries : e.fid = r.fid
    BY <1>1, <1>4 DEF WriteFresh, Resolved
  <2>2. r.content \in Text(tagFile[db].recs, e)
    BY <2>1 DEF Text
  <2>3. e.path \notin deletelist
    BY <1>1, <1>4, <2>2 DEF WriteFresh
  <2> QED
    BY <1>2, <2>1, <2>3
<1>10. \A db \in Db : Resolved(gpath, tagFile[db].recs)'
  BY <1>2, <1>9 DEF Resolved
<1>11. OthersFresh'
  BY <1>2, <1>4, <1>5, <1>6, <1>7, <1>8, <1>10 DEF OthersFresh
<1> QED
  BY <1>1, <1>2, <1>11, RunKept DEF RunFresh, Writing

(* A path that carries no tags joins GPATH.                                *)
LEMMA FreshPutOther ==
  ASSUME WholeInv, NEW p \in Paths, PutOther(p)
  PROVE  FreshInv'
<1>1. /\ TypeInv /\ FreshInv /\ RunFresh /\ OthersFresh /\ pc = "others" /\ mode # "create"
      /\ p \in addlistOther
  BY DEF WholeInv, TagsInv, PutOther, FreshInv, RunFresh, TypeInv, Counted
<1>2. /\ UNCHANGED <<file, source, clock, tagFile, mode, settled, addlist, deletelist, pc>>
      /\ gpath' = GpathPut(gpath, p, "other") /\ addlistOther' = addlistOther \ {p}
  BY DEF PutOther, projectVars, diskVars
<1>3. /\ \A q : Listed(q)' <=> Listed(q)
      /\ \A q : Exists(q)' <=> Exists(q)
      /\ \A db \in Db : Project(db)' = Project(db)
  BY <1>2, TreeKept
<1>4. "other" \in PathType /\ gpath \in PathTable
  BY <1>1 DEF PathType, TypeInv, TypeOK
<1>5. /\ \A q \in Paths : Known(gpath', q) <=> Known(gpath, q) \/ q = p
      /\ \A e \in gpath'.entries \ gpath.entries :
           e.type = "other" /\ e.path = p /\ e.fid = gpath.next
      /\ gpath.entries \subseteq gpath'.entries
  BY <1>2, <1>4, PutTyped, PutKnown
<1>6. p \notin source /\ Listed(p)
  BY <1>1 DEF OthersFresh, Lists
<1>7. Typed(gpath)'
  BY <1>1, <1>2, <1>5, <1>6 DEF OthersFresh, Typed
<1>8. Lists'
  <2>1. Lists /\ (Whole' <=> Whole)
    BY <1>1, <1>2 DEF OthersFresh, Whole
  <2>2. Whole' => \A q \in Paths :
                    Listed(q)' => Known(gpath', q) \/ q \in addlist' \cup addlistOther'
    BY <1>2, <1>3, <1>5, <2>1 DEF Lists
  <2>3. /\ \A q \in addlist' : q \in source' /\ Exists(q)'
        /\ \A q \in addlistOther' : q \notin source' /\ Listed(q)'
        /\ \A q \in deletelist' : ~Listed(q)'
        /\ mode' = "full" => settled' # "yes"
    BY <1>2, <1>3, <2>1 DEF Lists
  <2> QED
    BY <2>2, <2>3 DEF Lists, Known
<1>9. Whole' => \A e \in gpath'.entries : Listed(e.path)'
  BY <1>1, <1>2, <1>3, <1>5, <1>6 DEF OthersFresh, Whole
<1>10. ASSUME NEW db \in Db, NEW e \in gpath'.entries PROVE Tells(tagFile[db].recs, db, e)'
  <2>1. CASE e \in gpath.entries
    BY <1>1, <1>2, <1>3, <2>1 DEF OthersFresh, Tells
  <2>2. CASE e \notin gpath.entries
    <3>1. e.path = p /\ e.fid = gpath.next /\ gpath.next \in Nat
      BY <1>4, <1>5, <2>2 DEF PathTable
    <3>2. \A r \in tagFile[db].recs : r.fid \in Nat /\ r.fid < gpath.next
      BY <1>1 DEF WholeInv, TagsInv, IdPart, RunPart, Below, TypeInv, TypeOK, Record
    <3>3. Text(tagFile[db].recs, e) = {}
      BY <3>1, <3>2 DEF Text
    <3>4. Project(db)[e.path] = {}
      BY <1>6, <3>1 DEF Project
    <3> QED
      BY <1>2, <1>3, <3>3, <3>4 DEF Tells
  <2> QED
    BY <2>1, <2>2
<1>11. \A db \in Db : Resolved(gpath, tagFile[db].recs)'
  BY <1>1, <1>2, <1>5 DEF OthersFresh, Resolved
<1>12. OthersFresh'
  BY <1>1, <1>2, <1>7, <1>8, <1>9, <1>10, <1>11 DEF OthersFresh
<1> QED
  BY <1>1, <1>2, <1>12, RunKept DEF RunFresh, Writing

(* GTAGS is stamped.                                                       *)
LEMMA FreshUtime ==
  ASSUME WholeInv, Utime
  PROVE  FreshInv'
<1>1. /\ TypeInv /\ FreshInv /\ RunFresh /\ OthersFresh /\ pc = "others" /\ mode # "create"
      /\ addlistOther = {}
  BY DEF WholeInv, TagsInv, Utime, FreshInv, RunFresh, TypeInv, Counted
<1>2. /\ UNCHANGED <<file, source, clock, tagFile, mode, settled, gpath>>
      /\ mtime' = clock /\ pc' = "exit"
  BY DEF Utime, Stamp, projectVars, memoryVars
<1>3. /\ \A q : Listed(q)' <=> Listed(q)
      /\ \A q : Exists(q)' <=> Exists(q)
      /\ \A db \in Db : Project(db)' = Project(db)
  BY <1>2, TreeKept
<1>4. \A e \in gpath.entries : \A db \in Db : Tells(tagFile[db].recs, db, e)'
  BY <1>1, <1>2, <1>3 DEF OthersFresh, Tells
<1>5. \A e \in gpath.entries : e.path \in Paths
  BY <1>1 DEF TypeInv, TypeOK, PathTable, Entry
<1>6. ASSUME NEW e \in gpath.entries PROVE Noticed(e)' /\ Untagged(e)'
  <2>1. \A db \in Db : e.path \notin source' => Project(db)'[e.path] = {}
    BY <1>2, <1>5 DEF Project
  <2> QED
    BY <1>4, <2>1 DEF Noticed, Untagged, Tells
<1>7. Fresh(gpath)'
  BY <1>1, <1>2, <1>6 DEF OthersFresh, Fresh, Typed, Resolved
<1>8. Newest'
  BY <1>1, <1>2, <1>3 DEF Newest, FreshInv, TypeInv, TypeOK
<1>9. Whole' => \A q \in Paths : Known(gpath, q)' <=> Listed(q)'
  BY <1>1, <1>2, <1>3 DEF OthersFresh, Lists, Whole, Known
<1>10. ExitFresh'
  BY <1>1, <1>2, <1>4, <1>7, <1>8, <1>9 DEF ExitFresh, Complete, OthersFresh, Lists
<1> QED
  BY <1>1, <1>2, <1>10, RunKept DEF RunFresh, Writing

(* GPATH is closed.                                                        *)
LEMMA FreshExit ==
  ASSUME WholeInv, Exit
  PROVE  FreshInv'
<1>1. /\ TypeInv /\ FreshInv /\ RunFresh /\ ExitFresh /\ pc = "exit" /\ mode # "create"
      /\ opened = 1
  BY DEF WholeInv, TagsInv, Exit, FreshInv, RunFresh, TypeInv, Counted
<1>2. /\ UNCHANGED <<file, source, clock, tagFile, mtime, mode>>
      /\ pc' = "idle" /\ gpathFile'.entries = gpath.entries
      /\ settled' = IF settled = "running" THEN "yes" ELSE settled
  BY <1>1 DEF Exit, Finish, GpathClose, Durable, projectVars
<1>3. Fresh(gpathFile)'
  BY <1>1, <1>2, FreshKept DEF ExitFresh
<1>4. settled' = "yes" => Complete(gpathFile)'
  <2> SUFFICES ASSUME settled' = "yes" PROVE Complete(gpathFile)'
    OBVIOUS
  <2>1. Whole
    BY <1>1, <1>2 DEF RunFresh, Whole
  <2> QED
    BY <1>1, <1>2, <2>1, CompleteKept DEF ExitFresh
<1>5. tagFile'["GRTAGS"].status # "blank"
  BY <1>1, <1>2 DEF RunFresh, Db
<1>6. \A q \in Paths : Exists(q)' => file'[q].mtime <= clock'
  BY <1>1, <1>2 DEF FreshInv, Exists
<1> QED
  BY <1>2, <1>3, <1>4, <1>5, <1>6 DEF FreshInv, IdleFresh

(* createtags() visits one path.                                           *)
LEMMA FreshBuild ==
  ASSUME WholeInv, NEW p \in Paths, Build(p)
  PROVE  FreshInv'
<1> DEFINE t == IF p \in source THEN "source" ELSE "other"
<1>1. /\ TypeInv /\ PathTableSound /\ FreshInv /\ CreateFresh /\ pc = "build"
      /\ mode = "create" /\ p \in addlist
  BY DEF WholeInv, TagsInv, Build, FreshInv, TypeInv, Counted
<1>2. Remade /\ Listed(p) /\ ~Known(gpath, p)
  BY <1>1 DEF WholeInv, RemakeInv, Remaking, CreateFresh, Remade
<1>3. /\ UNCHANGED <<file, source, clock, pc, mode, settled>>
      /\ Extract(p, t) /\ t \in PathType /\ (p \in source => Exists(p))
  BY <1>2 DEF Build, projectVars, PathType, Listed
<1> HIDE DEF t
<1>4. \A db \in Db : Below(tags[db], gpath)
  BY <1>2 DEF Remade
<1>5. \A db \in Db : \A e \in gpath.entries : e.path = p => Text(tags[db], e) = {}
  BY <1>2 DEF Known
<1>6. /\ gpath' = GpathPut(gpath, p, t)
      /\ \A db \in Db : \A r \in tags'[db] :
           r \in tags[db] \/ \E e \in gpath'.entries : e.fid = r.fid
  BY <1>1, <1>3, <1>4, <1>5, ExtractTells
<1>7. /\ \A e \in gpath'.entries \ gpath.entries : e.type = t /\ e.path = p
      /\ gpath.entries \subseteq gpath'.entries
  BY <1>1, <1>3, <1>6, PutTyped, PutKnown DEF TypeInv, TypeOK
<1>8. Typed(gpath)'
  BY <1>1, <1>3, <1>7 DEF CreateFresh, Typed, t
<1>9. ASSUME NEW db \in Db, NEW r \in tags'[db] PROVE \E e \in gpath'.entries : e.fid = r.fid
  BY <1>1, <1>6, <1>7 DEF CreateFresh, Resolved
<1>10. CreateFresh'
  BY <1>1, <1>3, <1>8, <1>9 DEF CreateFresh, Resolved
<1>11. \A q \in Paths : Exists(q)' => file'[q].mtime <= clock'
  BY <1>1, <1>3 DEF FreshInv, Exists
<1> QED
  BY <1>1, <1>3, <1>10, <1>11 DEF FreshInv

(* createtags() closes its files.                                          *)
LEMMA FreshCloseNew ==
  ASSUME WholeInv, mode = "create",
         ReleaseForGtags \/ SyncGtags \/ ReleaseForGrtags \/ SyncGrtags
  PROVE  FreshInv'
<1>1. /\ TypeInv /\ FreshInv /\ CreateFresh /\ Remade /\ pc # "idle"
  BY DEF WholeInv, TagsInv, FreshInv, RemakeInv, Remaking, CreateFresh,
         ReleaseForGtags, SyncGtags, ReleaseForGrtags, SyncGrtags, ReleaseGpath
<1>2. UNCHANGED <<file, source, clock, mode>>
  BY DEF ReleaseForGtags, SyncGtags, ReleaseForGrtags, SyncGrtags, ReleaseGpath, projectVars
<1>3. \A q \in Paths : Exists(q)' => file'[q].mtime <= clock'
  BY <1>1, <1>2 DEF FreshInv, Exists
<1>4. ASSUME UNCHANGED <<gpath, tags, settled>>, pc' # "idle",
             pc' \in {"synced", "sync_GRTAGS"} => Newest'
      PROVE  FreshInv'
  <2>1. CreateFresh'
    BY <1>1, <1>2, <1>4 DEF CreateFresh, Typed, Resolved
  <2> QED
    BY <1>2, <1>3, <1>4, <2>1 DEF FreshInv
<1>5. CASE ReleaseForGtags
  BY <1>4, <1>5 DEF ReleaseForGtags, ReleaseGpath
<1>6. CASE SyncGtags
  <2>1. mtime' = clock
    BY <1>6 DEF SyncGtags, Modified
  <2>2. Newest'
    BY <1>1, <1>2, <2>1 DEF FreshInv, Newest, Exists, TypeInv, TypeOK
  <2> QED
    BY <1>4, <1>6, <2>2 DEF SyncGtags, memoryVars
<1>7. CASE ReleaseForGrtags
  <2>1. pc = "synced" /\ mtime' = mtime
    BY <1>7 DEF ReleaseForGrtags, ReleaseGpath
  <2>2. Newest'
    BY <1>1, <1>2, <2>1 DEF CreateFresh, Newest, Exists
  <2> QED
    BY <1>4, <1>7, <2>2 DEF ReleaseForGrtags, ReleaseGpath
<1>8. CASE SyncGrtags
  <2>1. /\ pc = "sync_GRTAGS" /\ pc' = "idle" /\ gpathFile' = gpathFile /\ mtime' = mtime
        /\ tagFile' = [tagFile EXCEPT !["GRTAGS"] = Valid(tags["GRTAGS"])]
    BY <1>8 DEF SyncGrtags, Finish
  <2>2. /\ tagFile'["GRTAGS"].status = "valid"
        /\ \A db \in Db : tagFile'[db].recs = tags[db]
        /\ gpathFile'.entries = gpath.entries /\ addlist = {}
    BY <1>1, <2>1 DEF Remade, Valid, Db, TypeInv, TypeOK
  <2>3. /\ \A q : Listed(q)' <=> Listed(q)
        /\ \A q : Exists(q)' <=> Exists(q)
        /\ \A db \in Db : Project(db)' = Project(db)
    BY <1>2, TreeKept
  <2>4. \A e \in gpathFile'.entries : \A db \in Db : Tells(tagFile[db].recs, db, e)'
    BY <1>1, <2>2, <2>3 DEF Remade, Tells
  <2>5. \A e \in gpathFile'.entries : e.path \in Paths
    BY <1>1, <2>2 DEF TypeInv, TypeOK, PathTable, Entry
  <2>6. ASSUME NEW e \in gpathFile'.entries PROVE Noticed(e)' /\ Untagged(e)'
    <3>1. \A db \in Db : e.path \notin source' => Project(db)'[e.path] = {}
      BY <1>2, <2>5 DEF Project
    <3> QED
      BY <2>4, <3>1 DEF Noticed, Untagged, Tells
  <2>7. Fresh(gpathFile)'
    BY <1>1, <1>2, <2>2, <2>6 DEF CreateFresh, Fresh, Typed, Resolved
  <2>8. \A q \in Paths : Known(gpathFile, q)' <=> Listed(q)'
    BY <1>1, <2>2, <2>3 DEF Remade, Known
  <2>9. Newest'
    BY <1>1, <1>2, <2>1 DEF CreateFresh, Newest, Exists
  <2>10. IdleFresh'
    BY <2>2, <2>4, <2>7, <2>8, <2>9 DEF IdleFresh, Complete
  <2> QED
    BY <1>3, <2>1, <2>10 DEF FreshInv
<1> QED
  BY <1>5, <1>6, <1>7, <1>8

LEMMA FreshStep ==
  ASSUME Hazards = {}, WholeInv, [Next]_vars
  PROVE  FreshInv'
<1>1. CASE UNCHANGED vars
  BY <1>1, FreshAside DEF vars, projectVars, WholeInv, TagsInv
<1>2. CASE Environment
  BY <1>2, FreshEnvironment
<1>3. CASE Begin
  BY <1>3, FreshInspect, FreshSingle, FreshCreate DEF Begin
<1>4. CASE Step
  BY <1>4, FreshSweep, FreshOpenTags, FreshClose, FreshCloseNew, FreshDeletePaths, FreshUtime,
     FreshExit, FreshParse, FreshPutOther, FreshBuild DEF Step
<1> QED
  BY <1>1, <1>2, <1>3, <1>4 DEF Next

LEMMA WholeInvariant ==
  ASSUME Hazards = {}
  PROVE  Spec => []WholeInv
<1>1. "crash" \notin Hazards
  OBVIOUS
<1>2. Init => WholeInv
  BY TypeInit, PathTableInit, IdInit, AgreeInit, RemakeInit, FreshInit DEF WholeInv, TagsInv
<1>3. WholeInv /\ [Next]_vars => WholeInv'
  <2> SUFFICES ASSUME WholeInv, [Next]_vars PROVE WholeInv'
    OBVIOUS
  <2>1. TypeInv /\ PathTableSound /\ TagsInv /\ AgreeInv /\ RemakeInv
    BY DEF WholeInv, TagsInv
  <2>2. TypeInv'
    BY <2>1, TypeStep
  <2>3. PathTableSound'
    BY <2>1, <2>2, PathTableStep
  <2>4. IdPart'
    BY <1>1, <2>1, <2>2, IdStep
  <2>5. AgreeInv'
    BY <1>1, <2>1, AgreeStep
  <2>6. RemakeInv'
    BY <2>1, <2>2, <2>3, RemakeStep
  <2>7. FreshInv'
    BY FreshStep
  <2> QED
    BY <2>2, <2>3, <2>4, <2>5, <2>6, <2>7 DEF WholeInv, TagsInv
<1> QED
  BY <1>2, <1>3, PTL DEF Spec

-----------------------------------------------------------------------------
(* Every id a record carries is in GPATH between runs: gtagsop.c never dies*)
(* of a path that is not found (incremental() deletes the tags of the paths*)
(* it deletes).                                                            *)
THEOREM TagsAlwaysResolve ==
  ASSUME Hazards = {}
  PROVE  Spec => []TagsResolve
<1>1. WholeInv => TagsResolve
  BY DEF WholeInv, FreshInv, IdleFresh, Fresh, Resolved, TagsResolve
<1> QED
  BY <1>1, WholeInvariant, PTL

(* What the tag files have wrong about a source file is newer than GTAGS,  *)
(* so that the next `gtags -i' sees it (Inspect, Utime).                   *)
THEOREM StaleIsAlwaysNewer ==
  ASSUME Hazards = {}
  PROVE  Spec => []StaleIsNewer
<1>1. WholeInv => StaleIsNewer
  <2> SUFFICES ASSUME WholeInv, pc = "idle", NEW p \in source, Exists(p), Known(gpathFile, p),
                      NEW db \in Db, Index(db)[p] # Project(db)[p]
               PROVE  mtime < file[p].mtime
    BY DEF StaleIsNewer
  <2>1. PICK e \in gpathFile.entries : e.path = p
    BY DEF Known
  <2>2. OneToOne(gpathFile) /\ p \in Paths
    BY DEF WholeInv, TagsInv, PathTableSound, TypeInv, TypeOK
  <2>3. Noticed(e)
    BY <2>1 DEF WholeInv, FreshInv, IdleFresh, Fresh
  <2>4. Text(tagFile[db].recs, e) # Project(db)[e.path]
    BY <2>1, <2>2, IndexIsText
  <2> QED
    BY <2>1, <2>3, <2>4 DEF Noticed, Tells
<1> QED
  BY <1>1, WholeInvariant, PTL

(* A whole run, incremental or not, leaves the tag files equal to what     *)
(* remaking them from the tree would give, and runs of --single-update     *)
(* keep them so, until a file is edited (incremental, updatetags).         *)
THEOREM UpdatesAreAccurate ==
  ASSUME Hazards = {}
  PROVE  Spec => []Accurate
<1>1. WholeInv => Accurate
  <2> SUFFICES ASSUME WholeInv, pc = "idle", settled = "yes", NEW p \in Paths
               PROVE  Current(p)
    BY DEF Accurate
  <2>1. OneToOne(gpathFile) /\ Complete(gpathFile)
    BY DEF WholeInv, TagsInv, PathTableSound, FreshInv, IdleFresh
  <2>2. Told(p)
    BY <2>1 DEF Complete, Told
  <2> QED
    BY <2>1, <2>2, CurrentIfTold
<1> QED
  BY <1>1, WholeInvariant, PTL

(* Run again, `gtags -i' has nothing to do (doc/global.texi, Incremental   *)
(* updating).                                                              *)
THEOREM UpdatesAreIdempotent ==
  ASSUME Hazards = {}
  PROVE  Spec => []Idempotent
<1>1. WholeInv => Idempotent
  <2> SUFFICES ASSUME WholeInv, settled = "yes", pc = "exit", mode = "full" PROVE ~updated
    BY DEF Idempotent
  <2>1. mode # "create" /\ ExitFresh
    BY DEF WholeInv, TagsInv, FreshInv, RunFresh
  <2> QED
    BY <2>1 DEF ExitFresh
<1> QED
  BY <1>1, WholeInvariant, PTL
-----------------------------------------------------------------------------
(***************************************************************************)
(* The refinement of TagIndex.                                             *)
(***************************************************************************)

(* What this run has read at a path and would put into a tag file.         *)
Seen(db, p) == UNION {Yield(db, c) : c \in extracted[p]}

(* The texts the next tag file may hold under an entry.                    *)
Allowed(db, e) ==
  {Seen(db, e.path), {}} \cup
  (IF e \in gpathFile.entries THEN {Text(tagFile[db].recs, e)} ELSE {})

SeenInv ==
  /\ pc \in {"idle", "sweep", "tags"} => extracted = [p \in Paths |-> {}]
  /\ pc \in {"sweep", "tags"} =>
       \A e \in gpath.entries : e.path \in addlist => e.fid \in deleteset
  /\ pc \in {"parse", "build"} =>
       \A p \in addlist :
         /\ extracted[p] = {}
         /\ \A db \in Db : \A e \in gpath.entries : e.path = p => Text(tags[db], e) = {}
  /\ pc \in Writing \cup {"build"} =>
       /\ gpathFile.entries \subseteq gpath.entries
       /\ \A db \in Db : \A e \in gpath.entries : Text(tags[db], e) \in Allowed(db, e)
  /\ pc # "idle" =>
       \A db \in Db : \A e \in gpath.entries \ gpathFile.entries :
         Text(tagFile[db].recs, e) \in {Seen(db, e.path), {}}

RefInv == TagsInv /\ AgreeInv /\ SeenInv

-----------------------------------------------------------------------------
(* The strengthening is inductive.                                         *)

LEMMA SeenInit == Init => SeenInv
BY DEF Init, SeenInv, Writing

(* An id that is still to be given has no records.                         *)
LEMMA NoTextYet ==
  ASSUME NEW recs \in SUBSET Record, NEW g \in PathTable, Below(recs, g), NEW e, e.fid = g.next
  PROVE  Text(recs, e) = {}
<1>1. \A r \in recs : r.fid # e.fid
  BY DEF Below, Record, PathTable
<1> QED
  BY <1>1 DEF Text

(* One file is read.                                                       *)
LEMMA SeenExtract ==
  ASSUME RefInv, NEW p \in addlist, NEW t \in PathType, Extract(p, t), pc \in {"parse", "build"},
         p \in source => Exists(p), UNCHANGED <<file, source, gpathFile, tagFile, pc>>
  PROVE  SeenInv'
<1>1. /\ TypeInv /\ PathTableSound /\ SeenInv /\ p \in Paths /\ gpath \in PathTable
      /\ addlist \subseteq Paths /\ extracted \in [Paths -> SUBSET Contents]
      /\ tagFile \in [Db -> [status : Status, recs : SUBSET Record]]
  BY DEF RefInv, TagsInv, TypeInv, TypeOK
<1>2. \A db \in Db : Below(tags[db], gpath) /\ Below(tagFile[db].recs, gpath)
  BY DEF RefInv, TagsInv, IdPart, RunPart
<1>3. /\ \A q \in addlist : extracted[q] = {}
      /\ \A q \in addlist : \A db \in Db : \A e \in gpath.entries :
           e.path = q => Text(tags[db], e) = {}
      /\ gpathFile.entries \subseteq gpath.entries
      /\ \A db \in Db : \A e \in gpath.entries : Text(tags[db], e) \in Allowed(db, e)
      /\ \A db \in Db : \A e \in gpath.entries \ gpathFile.entries :
           Text(tagFile[db].recs, e) \in {Seen(db, e.path), {}}
  BY <1>1 DEF SeenInv, Writing
<1>4. /\ gpath' = GpathPut(gpath, p, t)
      /\ \A db \in Db : \A e \in gpath'.entries :
           \/ e.path = p /\ Text(tags'[db], e) = Project(db)[e.path]
           \/ e \in gpath.entries /\ e.path # p /\ Text(tags'[db], e) = Text(tags[db], e)
  BY <1>1, <1>2, <1>3, ExtractTells
<1>5. /\ gpath.entries \subseteq gpath'.entries
      /\ \A e \in gpath'.entries \ gpath.entries : e.path = p /\ e.fid = gpath.next
      /\ \A e \in gpath'.entries : e.path \in Paths
  BY <1>1, <1>4, PutKnown DEF PathTable, Entry
<1>6. /\ extracted' = [extracted EXCEPT ![p] = IF p \in source THEN {file[p].content} ELSE {}]
      /\ addlist' = addlist \ {p}
  BY DEF Extract, Done
<1>7. \A db \in Db : Seen(db, p)' = Project(db)[p]
  BY <1>1, <1>6 DEF Seen, Project
<1>8. \A q \in Paths \ {p} : extracted'[q] = extracted[q] /\ \A db \in Db : Seen(db, q)' = Seen(db, q)
  BY <1>1, <1>6 DEF Seen
<1>9. ASSUME NEW db \in Db, NEW e \in gpath'.entries
      PROVE  Text(tags'[db], e) \in Allowed(db, e)'
  <2>1. CASE e.path = p /\ Text(tags'[db], e) = Project(db)[e.path]
    BY <1>7, <2>1 DEF Allowed
  <2>2. CASE e \in gpath.entries /\ e.path # p /\ Text(tags'[db], e) = Text(tags[db], e)
    BY <1>3, <1>5, <1>8, <2>2 DEF Allowed
  <2> QED
    BY <1>4, <2>1, <2>2
<1>10. ASSUME NEW q \in addlist'
       PROVE  /\ extracted'[q] = {}
              /\ \A db \in Db : \A e \in gpath'.entries : e.path = q => Text(tags'[db], e) = {}
  <2>1. q \in addlist /\ q # p /\ q \in Paths
    BY <1>1, <1>6
  <2> QED
    BY <1>3, <1>4, <1>8, <2>1
<1>11. ASSUME NEW db \in Db, NEW e \in gpath'.entries \ gpathFile.entries
       PROVE  Text(tagFile[db].recs, e) \in {Seen(db, e.path)', {}}
  <2>1. CASE e \in gpath.entries /\ e.path # p
    BY <1>3, <1>5, <1>8, <2>1
  <2>2. CASE e \in gpath.entries /\ e.path = p
    <3>1. Seen(db, e.path) = {}
      BY <1>3, <2>2 DEF Seen
    <3> QED
      BY <1>3, <2>2, <3>1
  <2>3. CASE e \notin gpath.entries
    <3>1. e.fid = gpath.next /\ tagFile[db].recs \in SUBSET Record
      BY <1>1, <1>5, <2>3
    <3>2. Text(tagFile[db].recs, e) = {}
      BY <1>1, <1>2, <3>1, NoTextYet
    <3> QED
      BY <3>2
  <2> QED
    BY <2>1, <2>2, <2>3
<1>12. gpathFile'.entries \subseteq gpath'.entries
  BY <1>3, <1>5
<1> QED
  BY <1>9, <1>10, <1>11, <1>12 DEF SeenInv

LEMMA SeenStep ==
  ASSUME RefInv, [Next]_vars, "crash" \notin Hazards
  PROVE  SeenInv'
<1>1. /\ TypeInv /\ PathTableSound /\ SeenInv /\ IdPart /\ AgreeInv /\ gpath \in PathTable
      /\ tagFile \in [Db -> [status : Status, recs : SUBSET Record]]
  BY DEF RefInv, TagsInv, TypeInv, TypeOK
<1>2. ASSUME UNCHANGED <<gpathFile, tagFile, gpath, tags, addlist, deleteset, extracted, pc>>
      PROVE  SeenInv'
  BY <1>1, <1>2 DEF SeenInv, Allowed, Seen
<1>3. ASSUME pc' = "idle", extracted' = [p \in Paths |-> {}] PROVE SeenInv'
  BY <1>3 DEF SeenInv, Writing
<1>4. CASE UNCHANGED vars
  BY <1>2, <1>4 DEF vars, memoryVars, diskVars, listVars
<1>5. CASE Environment
  BY <1>2, <1>5 DEF Environment, Tick, Crash, Write, Remove, Reconfigure, memoryVars, diskVars,
                    listVars
<1>6. CASE Begin
  <2>1. ASSUME OpenGpath, pc = "idle", pc' \in {"sweep", "tags", "paths", "exit"},
               gpathFile' = gpathFile, extracted' = extracted,
               pc' \in {"sweep", "tags"} =>
                 \A e \in gpath'.entries : e.path \in addlist' => e.fid \in deleteset'
        PROVE  SeenInv'
    <3>1. gpath'.entries = gpathFile'.entries /\ extracted' = [p \in Paths |-> {}]
      BY <1>1, <2>1 DEF OpenGpath, SeenInv
    <3> QED
      BY <2>1, <3>1 DEF SeenInv, Writing
  <2>2. ASSUME OpenGpath PROVE gpath' \in PathTable /\ OneToOne(gpath')
    BY <1>1, <2>2 DEF OpenGpath, PathTable, TypeInv, TypeOK, PathTableSound, OneToOne
  <2>3. CASE Inspect
    <3> DEFINE known == {p \in {q \in Paths : Listed(q)} : Known(gpath', p)}
               newer == {p \in known \cap source : mtime < file[p].mtime}
    <3>1. /\ deleteset' = Outdated({EntryOf(gpath', p) : p \in newer})
          /\ \A p \in addlist' : p \in newer \/ ~Known(gpath', p)
      BY <2>3 DEF Inspect
    <3> HIDE DEF newer
    <3>2. ASSUME NEW e \in gpath'.entries, e.path \in addlist' PROVE e.fid \in deleteset'
      <4>1. Known(gpath', e.path) /\ EntryOf(gpath', e.path) = e
        BY <2>2, <2>3, EntryOfEntry DEF Inspect
      <4> QED
        BY <3>1, <3>2, <4>1 DEF Outdated
    <3> QED
      BY <2>1, <2>3, <3>2 DEF Inspect, MayUpdate, diskVars
  <2>4. ASSUME NEW p \in Paths, Single(p) PROVE SeenInv'
    <3> DEFINE known == Known(gpath', p)
               retag == known /\ EntryOf(gpath', p).type = "source"
               taken == IF IsBinary(p) THEN {} ELSE {p}
    <3>1. /\ addlist' = IF retag \/ (~known /\ p \in source) THEN taken ELSE {}
          /\ deleteset' = IF retag THEN Outdated({EntryOf(gpath', q) : q \in taken}) ELSE {}
      BY <2>4 DEF Single
    <3>2. ASSUME NEW e \in gpath'.entries, e.path \in addlist' PROVE e.fid \in deleteset'
      <4>1. Known(gpath', e.path) /\ EntryOf(gpath', e.path) = e
        BY <2>2, <2>4, EntryOfEntry DEF Single
      <4>2. e.path = p /\ taken = {p} /\ retag
        BY <3>1, <3>2, <4>1
      <4>3. deleteset' = Outdated({EntryOf(gpath', q) : q \in {p}})
        BY <3>1, <4>2
      <4> QED
        BY <4>1, <4>2, <4>3 DEF Outdated
    <3>3. pc' \in {"tags", "paths", "exit"} /\ pc = "idle"
      BY <2>4 DEF Single, Proceed, MayUpdate
    <3> QED
      BY <2>1, <2>4, <3>2, <3>3 DEF Single, diskVars
  <2>5. CASE Create
    <3>1. /\ pc = "idle" /\ pc' = "build" /\ gpathFile'.entries = {} /\ gpath'.entries = {}
          /\ extracted' = extracted
      BY <2>5 DEF Create, NewGpath
    <3>2. extracted' = [p \in Paths |-> {}] /\ addlist' \subseteq Paths
      BY <1>1, <2>5, <3>1 DEF SeenInv, Create
    <3> QED
      BY <3>1, <3>2 DEF SeenInv
  <2> QED
    BY <1>6, <2>3, <2>4, <2>5 DEF Begin
<1>7. CASE Step
  <2>1. CASE Sweep
    <3>1. /\ UNCHANGED <<gpathFile, tagFile, gpath, addlist, extracted>>
          /\ deleteset \subseteq deleteset' /\ pc = "sweep" /\ pc' \in {"tags", "paths", "exit"}
      BY <2>1 DEF Sweep, Proceed, diskVars, memoryVars
    <3> QED
      BY <1>1, <3>1 DEF SeenInv, Seen, Writing
  <2>2. CASE OpenTags
    <3>1. CASE Abandon
      BY <1>3, <3>1 DEF Abandon
    <3>2. CASE ~Abandon
      <4>1. /\ pc = "tags" /\ pc' = "parse"
            /\ UNCHANGED <<gpathFile, tagFile, gpath, addlist, deleteset, extracted>>
            /\ tags' = [db \in Db |-> Kept(db)]
        BY <2>2, <3>2 DEF OpenTags, diskVars, listVars
      <4>2. gpathFile.entries \subseteq gpath.entries /\ addlist \subseteq Paths
        BY <1>1, <4>1 DEF IdPart, PhasePart, TypeInv, TypeOK
      <4>3. ASSUME NEW db \in Db, NEW e \in gpath.entries
            PROVE  /\ Text(tags'[db], e) \in Allowed(db, e)'
                   /\ e.path \in addlist => Text(tags'[db], e) = {}
        <5>1. CASE e.fid \in deleteset
          <6>1. Text(Kept(db), e) = {}
            BY <5>1 DEF Text, Kept
          <6> QED
            BY <4>1, <6>1 DEF Allowed
        <5>2. CASE e.fid \notin deleteset
          <6>1. Text(Kept(db), e) = Text(tagFile[db].recs, e)
            BY <5>2 DEF Text, Kept
          <6>2. e.path \notin addlist
            BY <1>1, <4>1, <5>2 DEF SeenInv
          <6>3. e \notin gpathFile.entries => Text(tagFile[db].recs, e) \in {Seen(db, e.path), {}}
            BY <1>1, <4>1 DEF SeenInv
          <6> QED
            BY <4>1, <6>1, <6>2, <6>3 DEF Allowed, Seen
        <5> QED
          BY <5>1, <5>2
      <4>4. ASSUME NEW db \in Db, NEW e \in gpath.entries \ gpathFile.entries
            PROVE  Text(tagFile[db].recs, e) \in {Seen(db, e.path), {}}
        BY <1>1, <4>1 DEF SeenInv
      <4>5. extracted = [p \in Paths |-> {}]
        BY <1>1, <4>1 DEF SeenInv
      <4> QED
        BY <4>1, <4>2, <4>3, <4>4, <4>5 DEF SeenInv, Seen
    <3> QED
      BY <3>1, <3>2
  <2>3. CASE ReleaseForGtags
    <3>1. /\ UNCHANGED <<gpathFile, tagFile, gpath, tags, extracted>>
          /\ pc \in {"parse", "build"} /\ pc' = "sync_GTAGS"
      BY <1>1, <2>3 DEF ReleaseForGtags, ReleaseGpath, GpathClose, TypeInv, Counted
    <3> QED
      BY <1>1, <3>1 DEF SeenInv, Allowed, Seen, Writing
  <2>4. CASE ReleaseForGrtags
    <3>1. /\ UNCHANGED <<tagFile, gpath, tags, extracted>> /\ pc = "synced" /\ pc' = "sync_GRTAGS"
          /\ gpathFile'.entries \in {gpathFile.entries, gpath.entries}
      BY <2>4 DEF ReleaseForGrtags, ReleaseGpath, GpathClose, Durable
    <3>2. gpathFile.entries \subseteq gpath.entries
      BY <1>1, <3>1 DEF SeenInv, Writing
    <3> QED
      BY <1>1, <3>1, <3>2 DEF SeenInv, Allowed, Seen, Writing
  <2>5. CASE SyncGtags
    <3>1. /\ UNCHANGED <<gpathFile, gpath, tags, extracted>> /\ pc = "sync_GTAGS" /\ pc' = "synced"
          /\ tagFile'["GTAGS"].recs = tags["GTAGS"]
          /\ tagFile'["GRTAGS"].recs = tagFile["GRTAGS"].recs
      BY <1>1, <2>5 DEF SyncGtags, memoryVars, Valid, Db
    <3>2. ASSUME NEW db \in Db, NEW e \in gpath.entries
          PROVE  /\ Text(tags[db], e) \in Allowed(db, e)'
                 /\ e \notin gpathFile.entries => Text(tagFile'[db].recs, e) \in {Seen(db, e.path), {}}
      <4>1. /\ Text(tags[db], e) \in Allowed(db, e)
            /\ e \notin gpathFile.entries => Text(tagFile[db].recs, e) \in {Seen(db, e.path), {}}
        BY <1>1, <3>1 DEF SeenInv, Writing
      <4>2. CASE db = "GTAGS"
        BY <3>1, <4>1, <4>2 DEF Allowed, Seen
      <4>3. CASE db = "GRTAGS"
        BY <3>1, <4>1, <4>3 DEF Allowed, Seen
      <4> QED
        BY <4>2, <4>3 DEF Db
    <3> QED
      BY <1>1, <3>1, <3>2 DEF SeenInv, Seen, Writing
  <2>6. CASE SyncGrtags
    <3>1. CASE mode = "create"
      BY <1>3, <2>6, <3>1 DEF SyncGrtags, Finish
    <3>2. CASE mode # "create"
      <4>1. /\ UNCHANGED <<gpathFile, gpath, extracted>> /\ pc = "sync_GRTAGS" /\ pc' = "paths"
            /\ \A db \in Db : tagFile'[db].recs = tags[db]
        BY <1>1, <2>6, <3>2 DEF SyncGrtags, Valid, Db, AgreeInv
      <4>2. \A db \in Db : \A e \in gpath.entries : Text(tags[db], e) \in Allowed(db, e)
        BY <1>1, <4>1 DEF SeenInv, Writing
      <4> QED
        BY <4>1, <4>2 DEF SeenInv, Allowed, Seen, Writing
    <3> QED
      BY <3>1, <3>2
  <2>7. CASE DeletePaths
    <3>1. /\ UNCHANGED <<gpathFile, tagFile, extracted>> /\ pc = "paths" /\ pc' = "others"
          /\ gpath'.entries \subseteq gpath.entries
      BY <2>7 DEF DeletePaths, GpathDelete, diskVars
    <3> QED
      BY <1>1, <3>1 DEF SeenInv, Seen, Writing
  <2>8. CASE Utime
    <3>1. /\ UNCHANGED <<gpathFile, tagFile, extracted, gpath>> /\ pc = "others" /\ pc' = "exit"
      BY <2>8 DEF Utime, memoryVars
    <3> QED
      BY <1>1, <3>1 DEF SeenInv, Seen, Writing
  <2>9. CASE Exit
    BY <1>3, <2>9 DEF Exit, Finish
  <2>10. ASSUME NEW p \in Paths, Parse(p) PROVE SeenInv'
    <3>1. CASE Abandon
      BY <1>3, <3>1 DEF Abandon
    <3>2. CASE ~Abandon
      BY <2>10, <3>2, SeenExtract DEF Parse, PathType, diskVars, projectVars
    <3> QED
      BY <3>1, <3>2
  <2>11. ASSUME NEW p \in Paths, PutOther(p) PROVE SeenInv'
    <3>1. /\ UNCHANGED <<gpathFile, tagFile, extracted>> /\ pc = "others" /\ pc' = "others"
          /\ gpath' = GpathPut(gpath, p, "other") /\ "other" \in PathType
      BY <2>11 DEF PutOther, diskVars, PathType
    <3>2. \A e \in gpath'.entries \ gpath.entries : e.fid = gpath.next
      BY <1>1, <3>1, PutKnown
    <3>3. \A db \in Db : Below(tagFile[db].recs, gpath) /\ tagFile[db].recs \in SUBSET Record
      BY <1>1, <3>1 DEF IdPart, RunPart
    <3>4. \A db \in Db : \A e \in gpath'.entries \ gpath.entries : Text(tagFile[db].recs, e) = {}
      BY <1>1, <3>2, <3>3, NoTextYet
    <3> QED
      BY <1>1, <3>1, <3>4 DEF SeenInv, Seen, Writing
  <2>12. ASSUME NEW p \in Paths, Build(p) PROVE SeenInv'
    <3>1. CASE Listed(p)
      BY <2>12, <3>1, SeenExtract DEF Build, PathType, diskVars, projectVars, Listed
    <3>2. CASE ~Listed(p)
      <4>1. /\ UNCHANGED <<gpathFile, tagFile, gpath, tags, extracted, pc>> /\ pc = "build"
            /\ addlist' \subseteq addlist
        BY <2>12, <3>2 DEF Build, diskVars
      <4> QED
        BY <1>1, <4>1 DEF SeenInv, Allowed, Seen, Writing
    <3> QED
      BY <3>1, <3>2
  <2> QED
    BY <1>7, <2>1, <2>2, <2>3, <2>4, <2>5, <2>6, <2>7, <2>8, <2>9, <2>10, <2>11, <2>12 DEF Step
<1> QED
  BY <1>4, <1>5, <1>6, <1>7 DEF Next

-----------------------------------------------------------------------------
(* The steps, for one tag file.                                            *)

NoneSeen == [p \in Paths |-> {}]

EditOf(db) ==
  /\ \E p \in Paths, c \in Contents \cup {None} : ContentOf' = [ContentOf EXCEPT ![p] = c]
  /\ UNCHANGED <<SeenFor(db), Index(db)>>

ReadOf(db, p) ==
  /\ ContentOf[p] # None
  /\ SeenFor(db)' = [SeenFor(db) EXCEPT ![p] = {ContentOf[p]}]
  /\ UNCHANGED <<ContentOf, Index(db)>>

PublishOf(db) ==
  /\ \A p \in Paths : Index(db)'[p] \in {Index(db)[p], SeenFor(db)[p], {}}
  /\ SeenFor(db)' \in {SeenFor(db), NoneSeen}
  /\ UNCHANGED ContentOf

StutterOf(db) == UNCHANGED <<ContentOf, SeenFor(db), Index(db)>>

SimulatedOf(db) ==
  EditOf(db) \/ PublishOf(db) \/ StutterOf(db) \/ \E p \in Paths : ReadOf(db, p)

(* What a reader finds depends on the disk alone, what the run has read on *)
(* what its parser was given.                                              *)
LEMMA ViewKept ==
  ASSUME NEW db \in Db
  PROVE  /\ UNCHANGED <<gpathFile, tagFile>> => Index(db)' = Index(db)
         /\ extracted' = extracted => SeenFor(db)' = SeenFor(db)
         /\ file' = file => ContentOf' = ContentOf
         /\ extracted' = [p \in Paths |-> {}] => SeenFor(db)' = NoneSeen
<1>1. extracted' = [p \in Paths |-> {}] => SeenFor(db)' = NoneSeen
  <2> SUFFICES ASSUME extracted' = [p \in Paths |-> {}] PROVE SeenFor(db)' = NoneSeen
    OBVIOUS
  <2>1. \A p \in Paths : UNION {Yield(db, c) : c \in extracted'[p]} = {}
    OBVIOUS
  <2> QED
    BY <2>1 DEF SeenFor, NoneSeen
<1> QED
  BY <1>1 DEF Index, SeenFor, ContentOf, Exists

(* What a reader finds after a step under a path.                          *)
LEMMA IndexNext ==
  ASSUME PathTableSound', NEW db \in Db, NEW p \in Paths
  PROVE  \/ Index(db)'[p] = {}
         \/ \E e \in gpathFile'.entries : e.path = p /\ Index(db)'[p] = Text(tagFile'[db].recs, e)
<1>1. CASE \E e \in gpathFile'.entries : e.path = p
  <2>1. PICK e \in gpathFile'.entries : e.path = p
    BY <1>1
  <2>2. \A s : (\E d \in gpathFile'.entries : d.path = p /\ d.fid = s.fid) <=> s.fid = e.fid
    BY <2>1 DEF PathTableSound, OneToOne
  <2>3. Index(db)'[p] = Text(tagFile'[db].recs, e)
    BY <2>2 DEF Index, Text
  <2> QED
    BY <2>1, <2>3
<1>2. CASE ~\E e \in gpathFile'.entries : e.path = p
  BY <1>2 DEF Index
<1> QED
  BY <1>1, <1>2

(* A close makes durable what was there, what was read or nothing.         *)
LEMMA PublishIfAllowed ==
  ASSUME RefInv, PathTableSound', NEW db \in Db, file' = file,
         extracted' \in {extracted, [p \in Paths |-> {}]},
         \A e \in gpathFile'.entries :
           /\ e.path \in Paths
           /\ Text(tagFile'[db].recs, e) \in Allowed(db, e)
  PROVE  PublishOf(db)
<1>1. ASSUME NEW p \in Paths PROVE Index(db)'[p] \in {Index(db)[p], SeenFor(db)[p], {}}
  <2>1. SeenFor(db)[p] = Seen(db, p)
    BY DEF SeenFor, Seen
  <2>2. ASSUME NEW e \in gpathFile'.entries, e.path = p,
               Index(db)'[p] = Text(tagFile'[db].recs, e)
        PROVE  Index(db)'[p] \in {Index(db)[p], SeenFor(db)[p], {}}
    <3>1. CASE Index(db)'[p] \in {Seen(db, p), {}}
      BY <2>1, <3>1
    <3>2. CASE e \in gpathFile.entries /\ Index(db)'[p] = Text(tagFile[db].recs, e)
      <4>1. OneToOne(gpathFile)
        BY DEF RefInv, TagsInv, PathTableSound
      <4> QED
        BY <2>2, <3>2, <4>1, IndexIsText
    <3> QED
      BY <2>2, <3>1, <3>2 DEF Allowed
  <2> QED
    BY <2>2, IndexNext
<1>2. SeenFor(db)' \in {SeenFor(db), NoneSeen} /\ ContentOf' = ContentOf
  BY ViewKept
<1> QED
  BY <1>1, <1>2 DEF PublishOf

(* One file is read, or gives nothing.                                     *)
LEMMA ReadIfExtracted ==
  ASSUME RefInv, NEW p \in addlist, NEW t \in PathType, Extract(p, t), pc \in {"parse", "build"},
         p \in source => Exists(p), UNCHANGED <<file, gpathFile, tagFile>>, NEW db \in Db
  PROVE  SimulatedOf(db)
<1>1. /\ extracted \in [Paths -> SUBSET Contents] /\ p \in Paths /\ extracted[p] = {}
      /\ p \in source => file[p].content \in Contents
  BY DEF RefInv, SeenInv, TagsInv, TypeInv, TypeOK, Exists, FileStat
<1>2. extracted' = [extracted EXCEPT ![p] = IF p \in source THEN {file[p].content} ELSE {}]
  BY DEF Extract
<1>3. Index(db)' = Index(db) /\ ContentOf' = ContentOf
  BY ViewKept
<1> DEFINE y == IF p \in source THEN Yield(db, file[p].content) ELSE {}
<1>4. SeenFor(db)' = [SeenFor(db) EXCEPT ![p] = y]
  <2>1. UNION {Yield(db, c) : c \in extracted'[p]} = y
    BY <1>1, <1>2
  <2>2. \A q \in Paths \ {p} : extracted'[q] = extracted[q]
    BY <1>1, <1>2
  <2> HIDE DEF y
  <2> QED
    BY <2>1, <2>2 DEF SeenFor
<1>5. SeenFor(db)[p] = {}
  BY <1>1 DEF SeenFor
<1>6. CASE y = {}
  <2>1. SeenFor(db)' = SeenFor(db)
    BY <1>4, <1>5, <1>6 DEF SeenFor
  <2> QED
    BY <1>3, <2>1 DEF SimulatedOf, StutterOf
<1>7. CASE y # {}
  <2>1. p \in source /\ y = {file[p].content}
    BY <1>7 DEF Yield
  <2>2. ContentOf[p] = file[p].content /\ ContentOf[p] # None
    BY <1>1, <2>1, ContentsAssumption DEF ContentOf
  <2>3. ReadOf(db, p)
    BY <1>3, <1>4, <2>1, <2>2 DEF ReadOf
  <2> QED
    BY <1>1, <2>3 DEF SimulatedOf
<1> QED
  BY <1>6, <1>7

LEMMA StepSimulated ==
  ASSUME RefInv, RefInv', [Next]_vars, "crash" \notin Hazards, NEW db \in Db
  PROVE  SimulatedOf(db)
<1>1. /\ TypeInv /\ PathTableSound /\ SeenInv /\ IdPart /\ AgreeInv /\ gpath \in PathTable
      /\ tagFile \in [Db -> [status : Status, recs : SUBSET Record]]
      /\ addlist \subseteq Paths /\ PathTableSound'
  BY DEF RefInv, TagsInv, TypeInv, TypeOK
<1>2. \A e \in gpath.entries \cup gpathFile.entries : e.path \in Paths
  BY <1>1 DEF TypeInv, TypeOK, PathTable, Entry
<1>3. ASSUME UNCHANGED <<file, gpathFile, tagFile, extracted>> PROVE SimulatedOf(db)
  BY <1>3, ViewKept DEF SimulatedOf, StutterOf
<1>4. ASSUME file' = file, extracted' \in {extracted, [p \in Paths |-> {}]},
             \A e \in gpathFile'.entries : /\ e.path \in Paths
                                           /\ Text(tagFile'[db].recs, e) \in Allowed(db, e)
      PROVE  SimulatedOf(db)
  BY <1>1, <1>4, PublishIfAllowed DEF SimulatedOf
<1>5. \A e \in gpathFile.entries : Text(tagFile[db].recs, e) \in Allowed(db, e)
  BY DEF Allowed
<1>6. ASSUME Abandon PROVE SimulatedOf(db)
  <2>1. UNCHANGED <<file, gpathFile, tagFile>> /\ extracted' = [p \in Paths |-> {}]
    BY <1>6 DEF Abandon, projectVars, diskVars
  <2> QED
    BY <1>2, <1>4, <1>5, <2>1
<1>7. CASE UNCHANGED vars
  BY <1>3, <1>7 DEF vars, projectVars, diskVars
<1>8. CASE Environment
  <2>1. ASSUME NEW p \in Paths, NEW s, s = None \/ (s.content \in Contents /\ s # None),
               file' = [file EXCEPT ![p] = s], UNCHANGED <<gpathFile, tagFile, extracted>>
        PROVE  SimulatedOf(db)
    <3> DEFINE c == IF s # None THEN s.content ELSE None
    <3>1. ContentOf' = [ContentOf EXCEPT ![p] = c]
      BY <1>1, <2>1 DEF ContentOf, Exists, TypeInv, TypeOK
    <3>2. c \in Contents \cup {None}
      BY <2>1
    <3> HIDE DEF c
    <3>3. Index(db)' = Index(db) /\ SeenFor(db)' = SeenFor(db)
      BY <2>1, ViewKept
    <3> QED
      BY <3>1, <3>2, <3>3 DEF SimulatedOf, EditOf
  <2>2. ASSUME NEW p \in Paths, Write(p) PROVE SimulatedOf(db)
    <3>1. PICK c \in Contents, t \in (IF "backdated" \in Hazards THEN 1 .. clock ELSE {clock}) :
            file' = [file EXCEPT ![p] = [content |-> c, mtime |-> t]]
      BY <2>2 DEF Write
    <3> DEFINE s == [content |-> c, mtime |-> t]
    <3>2. s = None \/ (s.content \in Contents /\ s # None)
      OBVIOUS
    <3>3. file' = [file EXCEPT ![p] = s] /\ UNCHANGED <<gpathFile, tagFile, extracted>>
      BY <2>2, <3>1 DEF Write, diskVars
    <3> HIDE DEF s
    <3> QED
      BY <2>1, <3>2, <3>3
  <2>3. ASSUME NEW p \in Paths, Remove(p) PROVE SimulatedOf(db)
    <3>1. file' = [file EXCEPT ![p] = None] /\ UNCHANGED <<gpathFile, tagFile, extracted>>
      BY <2>3 DEF Remove, diskVars
    <3> DEFINE s == None
    <3>2. s = None \/ (s.content \in Contents /\ s # None)
      OBVIOUS
    <3>3. file' = [file EXCEPT ![p] = s]
      BY <3>1
    <3> HIDE DEF s
    <3> QED
      BY <2>1, <3>1, <3>2, <3>3
  <2>4. ASSUME NEW p \in Paths, Reconfigure(p) PROVE SimulatedOf(db)
    BY <1>3, <2>4 DEF Reconfigure, diskVars
  <2>5. CASE Tick
    BY <1>3, <2>5 DEF Tick, diskVars
  <2> QED
    BY <1>8, <2>2, <2>3, <2>4, <2>5 DEF Environment, Crash
<1>9. CASE Begin
  <2>1. CASE Create
    <3>1. gpathFile'.entries = {} /\ UNCHANGED <<file, extracted>>
      BY <2>1 DEF Create, projectVars
    <3> QED
      BY <1>4, <3>1
  <2>2. CASE Inspect \/ \E p \in Paths : Single(p)
    BY <1>3, <2>2 DEF Inspect, Single, projectVars, diskVars
  <2> QED
    BY <1>9, <2>1, <2>2 DEF Begin
<1>10. CASE Step
  <2>1. CASE Sweep \/ DeletePaths \/ Utime \/ \E p \in Paths : PutOther(p)
    BY <1>3, <2>1 DEF Sweep, DeletePaths, Utime, PutOther, projectVars, diskVars
  <2>2. CASE OpenTags
    <3>1. CASE Abandon
      BY <1>6, <3>1
    <3>2. CASE ~Abandon
      BY <1>3, <2>2, <3>2 DEF OpenTags, projectVars, diskVars
    <3> QED
      BY <3>1, <3>2
  <2>3. CASE ReleaseForGtags
    BY <1>1, <1>3, <2>3 DEF ReleaseForGtags, ReleaseGpath, GpathClose, TypeInv, Counted, projectVars
  <2>4. CASE ReleaseForGrtags
    <3>1. /\ UNCHANGED <<file, tagFile, extracted>> /\ pc = "synced"
          /\ gpathFile'.entries \in {gpathFile.entries, gpath.entries}
      BY <2>4 DEF ReleaseForGrtags, ReleaseGpath, GpathClose, Durable, projectVars
    <3>2. \A e \in gpath.entries \ gpathFile.entries : Text(tagFile[db].recs, e) \in Allowed(db, e)
      BY <1>1, <3>1 DEF SeenInv, Allowed
    <3>3. \A e \in gpath.entries \cup gpathFile.entries :
            Text(tagFile'[db].recs, e) \in Allowed(db, e)
      BY <1>5, <3>1, <3>2
    <3> QED
      BY <1>2, <1>4, <3>1, <3>3
  <2>5. CASE SyncGtags \/ SyncGrtags
    <3>1. /\ UNCHANGED <<file, gpathFile>> /\ pc \in Writing
          /\ extracted' \in {extracted, [p \in Paths |-> {}]}
          /\ tagFile'[db].recs \in {tagFile[db].recs, tags[db]}
      BY <1>1, <2>5 DEF SyncGtags, SyncGrtags, Finish, Valid, Db, projectVars, Writing
    <3>2. /\ gpathFile.entries \subseteq gpath.entries
          /\ \A e \in gpath.entries : Text(tags[db], e) \in Allowed(db, e)
      BY <1>1, <3>1 DEF SeenInv
    <3>3. \A e \in gpathFile.entries : Text(tagFile'[db].recs, e) \in Allowed(db, e)
      BY <1>5, <3>1, <3>2
    <3> QED
      BY <1>2, <1>4, <3>1, <3>3
  <2>6. CASE Exit
    <3>1. /\ UNCHANGED <<file, tagFile>> /\ pc = "exit" /\ extracted' = [p \in Paths |-> {}]
          /\ gpathFile'.entries \in {gpathFile.entries, gpath.entries}
      BY <2>6 DEF Exit, Finish, GpathClose, Durable, projectVars
    <3>2. \A e \in gpath.entries \ gpathFile.entries : Text(tagFile[db].recs, e) \in Allowed(db, e)
      BY <1>1, <3>1 DEF SeenInv, Allowed
    <3>3. \A e \in gpath.entries \cup gpathFile.entries :
            Text(tagFile'[db].recs, e) \in Allowed(db, e)
      BY <1>5, <3>1, <3>2
    <3> QED
      BY <1>2, <1>4, <3>1, <3>3
  <2>7. ASSUME NEW p \in Paths, Parse(p) PROVE SimulatedOf(db)
    <3>1. CASE Abandon
      BY <1>6, <3>1
    <3>2. CASE ~Abandon
      BY <2>7, <3>2, ReadIfExtracted DEF Parse, PathType, diskVars, projectVars
    <3> QED
      BY <3>1, <3>2
  <2>8. ASSUME NEW p \in Paths, Build(p) PROVE SimulatedOf(db)
    <3>1. CASE Listed(p)
      BY <2>8, <3>1, ReadIfExtracted DEF Build, PathType, diskVars, projectVars, Listed
    <3>2. CASE ~Listed(p)
      BY <1>3, <2>8, <3>2 DEF Build, diskVars, projectVars
    <3> QED
      BY <3>1, <3>2
  <2> QED
    BY <1>10, <2>1, <2>2, <2>3, <2>4, <2>5, <2>6, <2>7, <2>8 DEF Step
<1> QED
  BY <1>7, <1>8, <1>9, <1>10 DEF Next

-----------------------------------------------------------------------------
(* The theorem.                                                            *)

LEMMA RefInvariant ==
  ASSUME "crash" \notin Hazards
  PROVE  Spec => []RefInv
<1>1. Init => RefInv
  BY TypeInit, PathTableInit, IdInit, AgreeInit, SeenInit DEF RefInv, TagsInv
<1>2. RefInv /\ [Next]_vars => RefInv'
  BY TypeStep, PathTableStep, IdStep, AgreeStep, SeenStep DEF RefInv, TagsInv
<1> QED
  BY <1>1, <1>2, PTL DEF Spec

(* Before the first run there is nothing to find.                          *)
LEMMA InitAbstract ==
  ASSUME Init
  PROVE  /\ ContentOf \in [Paths -> Contents \cup {None}]
         /\ \A db \in Db : SeenFor(db) = NoneSeen /\ Index(db) = NoneSeen
<1>1. \A p \in Paths : file[p] # None => file[p].content \in Contents
  BY DEF Init
<1>2. \A p \in Paths : ContentOf[p] \in Contents \cup {None}
  BY <1>1 DEF ContentOf, Exists
<1>3. ContentOf \in [Paths -> Contents \cup {None}]
  BY <1>2 DEF ContentOf
<1>4. ASSUME NEW db \in Db PROVE SeenFor(db) = NoneSeen /\ Index(db) = NoneSeen
  <2>1. /\ \A p \in Paths : UNION {Yield(db, c) : c \in extracted[p]} = {}
        /\ tagFile[db].recs = {}
    BY DEF Init
  <2> QED
    BY <2>1 DEF SeenFor, Index, NoneSeen
<1> QED
  BY <1>3, <1>4

LEMMA PublishInRange ==
  ASSUME NEW db \in Db, PublishOf(db)
  PROVE  Index(db)' \in [Paths -> {Index(db)[p] : p \in Paths} \cup {SeenFor(db)[p] : p \in Paths}
                                   \cup {{}}]
<1>1. Index(db)' = [p \in Paths |-> Index(db)'[p]]
  BY DEF Index
<1>2. \A p \in Paths : Index(db)'[p] \in {Index(db)[p], SeenFor(db)[p], {}}
  BY DEF PublishOf
<1> QED
  BY <1>1, <1>2

(* What a reader finds in GTAGS and in GRTAGS is what TagIndex allows, for *)
(* any number of files, contents and runs, with edits and changes of       *)
(* configuration at any moment, as long as no gtags is killed (updatetags, *)
(* createtags and the closes of gtags_close and gpath_close).              *)
THEOREM TagFilesImplementIndexes ==
  ASSUME "crash" \notin Hazards
  PROVE  Spec => TagFilesAreIndexes
<1>1. Init => Definitions!Init /\ References!Init
  BY InitAbstract DEF Definitions!Init, References!Init, Definitions!Nothing, References!Nothing,
                      NoneSeen, Db
<1>2. ASSUME RefInv, RefInv', [Next]_vars
      PROVE  [Definitions!Next]_Definitions!vars /\ [References!Next]_References!vars
  <2>1. SimulatedOf("GTAGS") /\ SimulatedOf("GRTAGS")
    BY <1>2, StepSimulated DEF Db
  <2>2. ASSUME SimulatedOf("GTAGS") PROVE [Definitions!Next]_Definitions!vars
    <3>1. CASE EditOf("GTAGS")
      BY <3>1 DEF EditOf, Definitions!Next, Definitions!Edit
    <3>2. CASE StutterOf("GTAGS")
      BY <3>2 DEF StutterOf, Definitions!vars
    <3>3. CASE \E p \in Paths : ReadOf("GTAGS", p)
      BY <3>3 DEF ReadOf, Definitions!Next, Definitions!Read
    <3>4. CASE PublishOf("GTAGS")
      BY <3>4, PublishInRange
         DEF PublishOf, Definitions!Next, Definitions!Publish, Definitions!Nothing, NoneSeen, Db
    <3> QED
      BY <2>2, <3>1, <3>2, <3>3, <3>4 DEF SimulatedOf
  <2>3. ASSUME SimulatedOf("GRTAGS") PROVE [References!Next]_References!vars
    <3>1. CASE EditOf("GRTAGS")
      BY <3>1 DEF EditOf, References!Next, References!Edit
    <3>2. CASE StutterOf("GRTAGS")
      BY <3>2 DEF StutterOf, References!vars
    <3>3. CASE \E p \in Paths : ReadOf("GRTAGS", p)
      BY <3>3 DEF ReadOf, References!Next, References!Read
    <3>4. CASE PublishOf("GRTAGS")
      BY <3>4, PublishInRange
         DEF PublishOf, References!Next, References!Publish, References!Nothing, NoneSeen, Db
    <3> QED
      BY <2>3, <3>1, <3>2, <3>3, <3>4 DEF SimulatedOf
  <2> QED
    BY <2>1, <2>2, <2>3
<1> QED
  BY <1>1, <1>2, RefInvariant, PTL DEF Spec, TagFilesAreIndexes, Definitions!Spec, References!Spec
=============================================================================
