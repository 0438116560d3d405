---------------------------- MODULE GtagsUpdate ----------------------------
(***************************************************************************)
(* The life of GNU GLOBAL's tag files under gtags(1): `gtags' makes GPATH, *)
(* GTAGS and GRTAGS from a source tree, `gtags -i' brings them up to date  *)
(* and `gtags --single-update=file' does so for one file.  The module is   *)
(* global-6.2.12/gtags/gtags.c (createtags, incremental, updatetags) with  *)
(* the calls it makes into libutil/gpathop.c, gtagsop.c, dbop.c, idset.c.  *)
(*                                                                         *)
(* A tag file changes on disk only when it is closed: dbop_close reads the *)
(* sorted records back into the B-tree and __bt_close writes the tree.  So *)
(* the databases exist twice, on disk and in the memory of the running     *)
(* program, and the order in which the three files become durable is the   *)
(* order of the close calls.                                               *)
(*                                                                         *)
(* One program runs at a time.  The people and tools that edit the source  *)
(* tree run beside it; what they may do is chosen by Hazards.              *)
(***************************************************************************)
EXTENDS Naturals, FiniteSets

CONSTANTS
  Paths,       (* path names of the project                                *)
  Contents,    (* what a file can hold                                     *)
  Binary,      (* the contents test("b") calls binary                      *)
  Undefining,  (* the contents with references but no definitions          *)
  Sources,     (* paths the first configuration's langmap makes source     *)
  Hazards,     (* what the environment may do, see HazardKinds             *)
  MaxTime,     (* bound of the clock, in seconds                           *)
  MaxFid,      (* bound of the file ids in GPATH when an update begins     *)
  None         (* no file at this path                                     *)

HazardKinds ==
  { "concurrent_edit",   (* a file changes while gtags runs                *)
    "same_second",       (* a file changes in the second GTAGS was stamped *)
    "backdated",         (* a file is replaced by one with an older mtime  *)
    "unrelated_change",  (* --single-update although others changed too    *)
    "reconfigure",       (* langmap is changed                             *)
    "crash" }            (* gtags is killed                                *)

ASSUME PathsAssumption == Sources \subseteq Paths
ASSUME ContentsAssumption ==
  Binary \subseteq Contents /\ Undefining \subseteq Contents /\ None \notin Contents
ASSUME HazardsAssumption == Hazards \subseteq HazardKinds
ASSUME BoundsAssumption == MaxTime \in Nat /\ MaxFid \in Nat

VARIABLES
  (* the project *)
  file,         (* path -> None or [content, mtime]                        *)
  source,       (* the paths issourcefile() accepts                        *)
  clock,
  (* the tag files on disk *)
  gpathFile,    (* GPATH                                                   *)
  tagFile,      (* GTAGS and GRTAGS                                        *)
  mtime,        (* modification time of GTAGS                              *)
  (* the memory of the running gtags *)
  pc,
  mode,         (* which of its three jobs the current or last run did     *)
  gpath,        (* GPATH as cached by gpathop.c, with _nextkey             *)
  opened,       (* its reference count                                     *)
  tags,         (* records of GTAGS and GRTAGS, to be written at close     *)
  addlist, addlistOther, deletelist, deleteset, findset,
  updated,      (* the answer incremental() prints                         *)
  (* history *)
  extracted,    (* path -> what this run's parser read there               *)
  settled       (* has a whole run happened since the last disturbance?    *)

projectVars == <<file, source, clock>>
diskVars    == <<gpathFile, tagFile, mtime>>
listVars    == <<addlist, addlistOther, deletelist, deleteset, findset>>
memoryVars  == <<gpath, opened, tags>>
vars == <<projectVars, diskVars, pc, mode, memoryVars, listVars, updated, extracted, settled>>

Db        == {"GTAGS", "GRTAGS"}
PathType  == {"source", "other"}
FileStat  == [content : Contents, mtime : Nat]
Entry     == [path : Paths, fid : Nat, type : PathType]
Record    == [fid : Nat, path : Paths, content : Contents]
Status    == {"absent", "blank", "valid"}

-----------------------------------------------------------------------------
(* The source tree.                                                        *)

Exists(p)   == file[p] # None
IsBinary(p) == Exists(p) /\ file[p].content \in Binary

(* What find_read() reports and incremental() and createtags() accept: a   *)
(* source file, or another file that is not binary.                        *)
Listed(p) == Exists(p) /\ (p \in source \/ ~IsBinary(p))

(* The records one parsed content gives to a tag file.                     *)
Yield(db, c) == IF db = "GTAGS" /\ c \in Undefining THEN {} ELSE {c}

-----------------------------------------------------------------------------
(* GPATH: two records per path, path -> fid and fid -> path, always put    *)
(* and deleted together, so one entry stands for both.                     *)

Known(g, p)  == \E e \in g.entries : e.path = p
EntryOf(g, p) == CHOOSE e \in g.entries : e.path = p

(* The id for a new path.                                                  *)
Recycled(g) == Cardinality(g.entries) + 1                          \* mutant
NextKey(g)  == g.next

GpathPut(g, p, t) ==
  IF Known(g, p)
  THEN g
  ELSE [entries |-> g.entries \cup {[path |-> p, fid |-> NextKey(g), type |-> t]},
        next    |-> g.next + 1]

GpathDelete(g, ps) == [g EXCEPT !.entries = {e \in @ : e.path \notin ps}]

Blank == [status |-> "blank", recs |-> {}]
Valid(rs) == [status |-> "valid", recs |-> rs]

(* What gpath_close() writes.                                              *)
WithoutNext(g) == [status |-> "valid", entries |-> g.entries, next |-> 1]  \* mutant
Durable(g)     == [status |-> "valid", entries |-> g.entries, next |-> g.next]

CountTwice == opened' = opened - 2                                 \* mutant
CountDown  == opened' = opened - 1

(* gpath_close: the last close writes _nextkey and the tree.               *)
GpathClose ==
  /\ CountDown
  /\ gpathFile' = IF opened = 1 THEN Durable(gpath) ELSE gpathFile

(* What a reader of the tag files on disk finds for a path.                *)
Index(db) ==
  [p \in Paths |->
     {r.content : r \in {s \in tagFile[db].recs :
                          \E e \in gpathFile.entries : e.path = p /\ e.fid = s.fid}}]

(* What a tag file made from the present tree would say.                   *)
Project(db) ==
  [p \in Paths |->
     IF Exists(p) /\ p \in source THEN Yield(db, file[p].content) ELSE {}]

Current(p) ==
  /\ Known(gpathFile, p) <=> Listed(p)
  /\ \A db \in Db : Index(db)[p] = Project(db)[p]

-----------------------------------------------------------------------------
(* The environment.                                                        *)

MayEdit ==
  /\ pc = "idle" \/ "concurrent_edit" \in Hazards
  /\ mtime < clock \/ "same_second" \in Hazards

Write(p) ==
  /\ MayEdit
  /\ \E c \in Contents, t \in (IF "backdated" \in Hazards THEN 1 .. clock ELSE {clock}) :
       file' = [file EXCEPT ![p] = [content |-> c, mtime |-> t]]
  /\ settled' = "no"
  /\ UNCHANGED <<source, clock, diskVars, pc, mode, memoryVars, listVars, updated, extracted>>

Remove(p) ==
  /\ pc = "idle" \/ "concurrent_edit" \in Hazards
  /\ Exists(p)
  /\ file' = [file EXCEPT ![p] = None]
  /\ settled' = "no"
  /\ UNCHANGED <<source, clock, diskVars, pc, mode, memoryVars, listVars, updated, extracted>>

Tick ==
  /\ clock < MaxTime
  /\ clock' = clock + 1
  /\ UNCHANGED <<file, source, diskVars, pc, mode, memoryVars, listVars, updated, extracted, settled>>

(* langmap of gtags.conf is edited: one path changes sides.                *)
Reconfigure(p) ==
  /\ "reconfigure" \in Hazards
  /\ pc = "idle"
  /\ source' = IF p \in source THEN source \ {p} ELSE source \cup {p}
  /\ settled' = "no"
  /\ UNCHANGED <<file, clock, diskVars, pc, mode, memoryVars, listVars, updated, extracted>>

(* The program ends without closing anything: nothing it holds in memory   *)
(* reaches the disk.                                                       *)
Abandon ==
  /\ pc' = "idle"
  /\ mode' = "none"
  /\ gpath' = [entries |-> {}, next |-> 1]
  /\ opened' = 0
  /\ tags' = [db \in Db |-> {}]
  /\ addlist' = {} /\ addlistOther' = {} /\ deletelist' = {}
  /\ deleteset' = {} /\ findset' = {}
  /\ updated' = FALSE
  /\ extracted' = [p \in Paths |-> {}]
  /\ settled' = "no"
  /\ UNCHANGED <<projectVars, diskVars>>

Crash ==
  /\ "crash" \in Hazards
  /\ pc # "idle"
  /\ Abandon

-----------------------------------------------------------------------------
(* gtags -i: incremental().                                                *)

(* main() falls back to createtags() when a file is missing, and dies when *)
(* GTAGS or GPATH has no version or next-key record.                       *)
MayUpdate ==
  /\ pc = "idle"
  /\ gpathFile.status = "valid"
  /\ tagFile["GTAGS"].status = "valid"
  /\ tagFile["GRTAGS"].status # "absent"
  /\ gpathFile.next <= MaxFid

OpenGpath ==
  /\ gpath' = [entries |-> gpathFile.entries, next |-> gpathFile.next]
  /\ opened' = 1

(* What the lists ask for: new tags, or only new paths, or nothing.        *)
Proceed ==
  /\ pc' = IF deleteset' # {} \/ addlist' # {} THEN "tags"
           ELSE IF deletelist' # {} \/ addlistOther' # {} THEN "paths"
           ELSE "exit"
  /\ updated' = (pc' # "exit")

(* The ids whose tags are to be deleted: of files modified, of files gone. *)
DeletesNone(es) == {}                                              \* mutant
Outdated(es) == {e.fid : e \in es}

DeletesNoTags(es) == {}                                            \* mutant
Orphaned(es) == {e.fid : e \in {d \in es : d.type = "source"}}

(* The walk over the tree: which paths are new, which are newer than GTAGS.*)
(* GTAGS was stat()ed just before; only gtags itself can change its mtime. *)
Inspect ==
  /\ MayUpdate
  /\ OpenGpath
  /\ LET seen  == {p \in Paths : Listed(p)}
         known == {p \in seen : Known(gpath', p)}
         newer == {p \in known \cap source : mtime < file[p].mtime}
     IN  /\ findset' = {EntryOf(gpath', p).fid : p \in known}
         /\ addlist' = ((seen \cap source) \ known) \cup newer
         /\ addlistOther' = (seen \ source) \ known
         /\ deleteset' = Outdated({EntryOf(gpath', p) : p \in newer})
  /\ pc' = "sweep"
  /\ mode' = "full"
  /\ settled' = IF settled = "no" THEN "running" ELSE settled
  /\ UNCHANGED <<projectVars, diskVars, tags, deletelist, updated, extracted>>

(* The loop over the ids of GPATH: what is gone from the tree.             *)
Sweep ==
  /\ pc = "sweep"
  /\ LET gone == {e \in gpath.entries :
                    \/ e.fid \notin findset
                    \/ ~Exists(e.path)
                    \/ e.type = "other" /\ IsBinary(e.path)}
     IN  /\ deletelist' = {e.path : e \in gone}
         /\ deleteset' = deleteset \cup Orphaned(gone)
  /\ UNCHANGED <<addlist, addlistOther, findset>>
  /\ Proceed
  /\ UNCHANGED <<projectVars, diskVars, mode, memoryVars, extracted, settled>>

(* --single-update=p: only p is inspected.  The manual asks that no other  *)
(* file has changed.                                                       *)
Single(p) ==
  /\ MayUpdate
  /\ Exists(p)
  /\ "unrelated_change" \in Hazards \/ \A q \in Paths \ {p} : Current(q)
  /\ OpenGpath
  /\ LET known  == Known(gpath', p)
         retag  == known /\ EntryOf(gpath', p).type = "source"
         taken  == IF IsBinary(p) THEN {} ELSE {p}
     IN  /\ addlist' = IF retag \/ (~known /\ p \in source) THEN taken ELSE {}
         /\ addlistOther' = IF ~known /\ p \notin source THEN taken ELSE {}
         /\ deleteset' = IF retag THEN Outdated({EntryOf(gpath', q) : q \in taken}) ELSE {}
  /\ deletelist' = {}
  /\ Proceed
  /\ mode' = "single"
  /\ UNCHANGED <<projectVars, diskVars, tags, findset, extracted, settled>>

-----------------------------------------------------------------------------
(* updatetags().                                                           *)

(* gtags_delete().                                                         *)
KeepsReferences(db) ==                                             \* mutant
  IF db = "GTAGS" THEN {r \in tagFile[db].recs : r.fid \notin deleteset} ELSE tagFile[db].recs
Kept(db) == {r \in tagFile[db].recs : r.fid \notin deleteset}

(* gpath_open() in the two calls of gtags_open().                          *)
ReopensOnce == opened' = opened + 1                                \* mutant
ReopenGpath == opened' = opened + 2

(* An unfinished tag file has no version record, and gtags_open() dies of  *)
(* it.                                                                     *)
Openable(db) == tagFile[db].status = "valid"

(* Both tag files are opened, which opens GPATH twice more, and the records*)
(* of the deleted and modified files are deleted.                          *)
OpenTags ==
  /\ pc = "tags"
  /\ IF \A db \in Db : Openable(db)
     THEN /\ ReopenGpath
          /\ tags' = [db \in Db |-> Kept(db)]
          /\ pc' = "parse"
          /\ UNCHANGED <<projectVars, diskVars, mode, gpath, listVars, updated,
                         extracted, settled>>
     ELSE Abandon

(* The id the records of a path are put under, gpath_path2fid().           *)
LastFid(g, p) == g.next - 1                                        \* mutant
FidOf(g, p) == EntryOf(g, p).fid

NeverDone(p) == UNCHANGED addlist                                  \* mutant
Done(p) == addlist' = addlist \ {p}

(* parse_file(): a path that langmap does not map is not opened and gives  *)
(* nothing.                                                                *)
Parsed(db, p) == IF p \in source THEN Yield(db, file[p].content) ELSE {}

(* gtags_put_using() and gtags_flush(): what was parsed, under a file id.  *)
PutTags(db, p, fid) ==
  tags[db] \cup {[fid |-> fid, path |-> p, content |-> c] : c \in Parsed(db, p)}

(* gpath_put, gpath_path2fid, parse_file, gtags_flush for one path.        *)
Extract(p, type) ==
  LET g == GpathPut(gpath, p, type)
  IN  /\ gpath' = g
      /\ tags' = [db \in Db |-> PutTags(db, p, FidOf(g, p))]
      /\ extracted' = [extracted EXCEPT ![p] = IF p \in source THEN {file[p].content} ELSE {}]
      /\ Done(p)

Parse(p) ==
  /\ pc = "parse"
  /\ p \in addlist
  /\ IF p \in source /\ ~Exists(p)
     THEN Abandon                                \* the parser cannot open the file
     ELSE /\ Extract(p, "source")
          /\ UNCHANGED <<projectVars, diskVars, pc, mode, opened, addlistOther, deletelist,
                         deleteset, findset, updated, settled>>

(* gtags_close(): first gpath_close(), then dbop_close().                  *)
ReleaseGpath(from, to) ==
  /\ pc \in from
  /\ addlist = {}
  /\ GpathClose
  /\ pc' = to
  /\ UNCHANGED <<projectVars, tagFile, mtime, mode, gpath, tags, listVars, updated,
                 extracted, settled>>

ReleaseForGtags  == ReleaseGpath({"parse", "build"}, "sync_GTAGS")
ReleaseForGrtags == ReleaseGpath({"synced"}, "sync_GRTAGS")

(* The B-tree is written only if a record was put or deleted.              *)
Modified(db) ==
  \/ mode = "create"
  \/ \E r \in tagFile[db].recs : r.fid \in deleteset
  \/ \E p \in Paths, c \in Contents : c \in extracted[p] /\ Yield(db, c) # {}

SyncGtags ==
  /\ pc = "sync_GTAGS"
  /\ tagFile' = [tagFile EXCEPT !["GTAGS"] = Valid(tags["GTAGS"])]
  /\ mtime' = IF Modified("GTAGS") THEN clock ELSE mtime
  /\ pc' = "synced"
  /\ UNCHANGED <<projectVars, gpathFile, mode, memoryVars, listVars, updated, extracted, settled>>

Finish ==
  /\ pc' = "idle"
  /\ gpath' = [entries |-> {}, next |-> 1]
  /\ tags' = [db \in Db |-> {}]
  /\ addlist' = {} /\ addlistOther' = {} /\ deletelist' = {}
  /\ deleteset' = {} /\ findset' = {}
  /\ extracted' = [p \in Paths |-> {}]
  /\ settled' = IF settled = "running" THEN "yes" ELSE settled

SyncGrtags ==
  /\ pc = "sync_GRTAGS"
  /\ tagFile' = [tagFile EXCEPT !["GRTAGS"] = Valid(tags["GRTAGS"])]
  /\ IF mode = "create"
     THEN Finish
     ELSE pc' = "paths" /\ UNCHANGED <<gpath, tags, listVars, extracted, settled>>
  /\ UNCHANGED <<projectVars, gpathFile, mtime, mode, opened, updated>>

-----------------------------------------------------------------------------
(* The rest of incremental(): the paths that carry no tags, the time stamp,*)
(* the closing of GPATH.                                                   *)

DeletePaths ==
  /\ pc = "paths"
  /\ gpath' = GpathDelete(gpath, deletelist)
  /\ pc' = "others"
  /\ UNCHANGED <<projectVars, diskVars, mode, opened, tags, listVars, updated, extracted, settled>>

PutOther(p) ==
  /\ pc = "others"
  /\ p \in addlistOther
  /\ gpath' = GpathPut(gpath, p, "other")
  /\ addlistOther' = addlistOther \ {p}
  /\ UNCHANGED <<projectVars, diskVars, pc, mode, opened, tags, addlist, deletelist, deleteset,
                 findset, updated, extracted, settled>>

NoStamp == UNCHANGED mtime                                         \* mutant
Stamp   == mtime' = clock

Utime ==
  /\ pc = "others"
  /\ addlistOther = {}
  /\ Stamp
  /\ pc' = "exit"
  /\ UNCHANGED <<projectVars, gpathFile, tagFile, mode, memoryVars, listVars, updated,
                 extracted, settled>>

Exit ==
  /\ pc = "exit"
  /\ GpathClose
  /\ Finish
  /\ UNCHANGED <<projectVars, tagFile, mtime, mode, updated>>

-----------------------------------------------------------------------------
(* gpath_open() with mode 1: dbop_open unlinks the old file.  The second   *)
(* call, for GRTAGS, only counts.                                          *)
OldGpath == gpath' = [entries |-> gpathFile.entries, next |-> gpathFile.next] /\ opened' = 2  \* mutant
NewGpath == gpath' = [entries |-> {}, next |-> 1] /\ opened' = 2

(* gtags: createtags().  The old files are unlinked and new ones begun.    *)

Create ==
  /\ pc = "idle"
  /\ gpathFile' = [status |-> "blank", entries |-> {}, next |-> 1]
  /\ tagFile' = [db \in Db |-> Blank]
  /\ mtime' = clock
  /\ NewGpath
  /\ addlist' = {p \in Paths : Listed(p)}
  /\ pc' = "build"
  /\ mode' = "create"
  /\ settled' = "running"
  /\ updated' = TRUE
  /\ UNCHANGED <<projectVars, tags, addlistOther, deletelist, deleteset, findset, extracted>>

(* One path of the walk.  A file that has vanished since its directory was *)
(* read is skipped.                                                        *)
Build(p) ==
  /\ pc = "build"
  /\ p \in addlist
  /\ IF Listed(p)
     THEN Extract(p, IF p \in source THEN "source" ELSE "other")
     ELSE addlist' = addlist \ {p} /\ UNCHANGED <<gpath, tags, extracted>>
  /\ UNCHANGED <<projectVars, diskVars, pc, mode, opened, addlistOther, deletelist, deleteset,
                 findset, updated, settled>>

-----------------------------------------------------------------------------
Init ==
  /\ file \in [Paths -> {None} \cup {[content |-> c, mtime |-> 1] : c \in Contents}]
  /\ source = Sources
  /\ clock = 1
  /\ gpathFile = [status |-> "absent", entries |-> {}, next |-> 1]
  /\ tagFile = [db \in Db |-> [status |-> "absent", recs |-> {}]]
  /\ mtime = 0
  /\ pc = "idle"
  /\ mode = "none"
  /\ gpath = [entries |-> {}, next |-> 1]
  /\ opened = 0
  /\ tags = [db \in Db |-> {}]
  /\ addlist = {} /\ addlistOther = {} /\ deletelist = {}
  /\ deleteset = {} /\ findset = {}
  /\ updated = FALSE
  /\ extracted = [p \in Paths |-> {}]
  /\ settled = "no"

Environment ==
  \/ Tick
  \/ Crash
  \/ \E p \in Paths : Write(p) \/ Remove(p) \/ Reconfigure(p)

Begin == Inspect \/ Create \/ \E p \in Paths : Single(p)

Step ==
  \/ Sweep \/ OpenTags \/ ReleaseForGtags \/ SyncGtags \/ ReleaseForGrtags \/ SyncGrtags
  \/ DeletePaths \/ Utime \/ Exit
  \/ \E p \in Paths : Parse(p) \/ PutOther(p) \/ Build(p)

Next == Environment \/ Begin \/ Step

Spec == Init /\ [][Next]_vars

(* A gtags that runs goes on running; nobody is obliged to start one or to *)
(* edit a file.                                                            *)
FairSpec == Spec /\ WF_vars(Step)

-----------------------------------------------------------------------------
(* Properties.                                                             *)

PathTable == [entries : SUBSET Entry, next : Nat \ {0}]

(* Every variable holds a value of the kind its comment above names.       *)
TypeOK ==
  /\ file \in [Paths -> FileStat \cup {None}]
  /\ source \in SUBSET Paths
  /\ clock \in Nat
  /\ gpathFile \in [status : Status, entries : SUBSET Entry, next : Nat \ {0}]
  /\ tagFile \in [Db -> [status : Status, recs : SUBSET Record]]
  /\ mtime \in Nat
  /\ pc \in {"idle", "sweep", "tags", "parse", "build", "sync_GTAGS", "synced", "sync_GRTAGS",
            "paths", "others", "exit"}
  /\ mode \in {"none", "full", "single", "create"}
  /\ gpath \in PathTable
  /\ opened \in 0 .. 3
  /\ tags \in [Db -> SUBSET Record]
  /\ addlist \in SUBSET Paths
  /\ addlistOther \in SUBSET Paths
  /\ deletelist \in SUBSET Paths
  /\ deleteset \in SUBSET Nat
  /\ findset \in SUBSET Nat
  /\ updated \in BOOLEAN
  /\ extracted \in [Paths -> SUBSET Contents]
  /\ settled \in {"no", "running", "yes"}

(* GPATH is a one-to-one table: no path has two ids, no id two paths, and  *)
(* the next id is above every id in use, on disk as in memory, whatever    *)
(* was edited, reconfigured or killed meanwhile (gpath_put, gpath_close).  *)
OneToOne(g) ==
  /\ \A e \in g.entries : 0 < e.fid /\ e.fid < g.next
  /\ \A d, e \in g.entries : d.path = e.path \/ d.fid = e.fid => d = e

PathTableSound == OneToOne(gpath) /\ OneToOne(gpathFile)

(* GPATH tells of a new source file only after its tags are on disk, in    *)
(* both tag files.  So a file whose update was killed is still new to the  *)
(* next run.  It is the reference count of GPATH that makes incremental()  *)
(* close it last (gpath_open, gpath_close, gtags_close).                   *)
NewFilesLast ==
  [][\A e \in gpathFile'.entries \ gpathFile.entries :
       e.type = "source" /\ mode # "create" =>
         \A db \in Db :
           UNION {Yield(db, c) : c \in extracted[e.path]}
             \subseteq {r.content : r \in {s \in tagFile[db].recs : s.fid = e.fid}}]_vars

(* A tag never points into another file: the path GPATH gives for the file *)
(* id of a record is the path the record was parsed from.  Ids of deleted  *)
(* files must not be used again while records of them may be left.         *)
NoMisattribution ==
  \A db \in Db : \A r \in tagFile[db].recs : \A e \in gpathFile.entries :
    e.fid = r.fid => e.path = r.path

(* Between runs every record's file id is in GPATH: segment_read() in      *)
(* gtagsop.c, which looks each one up, never dies with "path not found".   *)
TagsResolve ==
  pc = "idle" =>
    \A db \in Db : \A r \in tagFile[db].recs : \E e \in gpathFile.entries : e.fid = r.fid

(* Between runs GTAGS and GRTAGS tell of the same readings.                *)
TagFilesAgree ==
  pc = "idle" /\ tagFile["GRTAGS"].status = "valid" =>
    tagFile["GTAGS"].recs = {r \in tagFile["GRTAGS"].recs : Yield("GTAGS", r.content) # {}}

(* Whatever the tag files have wrong, the next `gtags -i' will see it: a   *)
(* source file whose tags are out of date is newer than GTAGS.             *)
StaleIsNewer ==
  pc = "idle" =>
    \A p \in source :
      Exists(p) /\ Known(gpathFile, p) /\ (\E db \in Db : Index(db)[p] # Project(db)[p])
        => mtime < file[p].mtime

(* A whole run that nothing disturbed leaves the tag files equal to what   *)
(* remaking them from the present tree would give.                         *)
Accurate == settled = "yes" /\ pc = "idle" => \A p \in Paths : Current(p)

(* "Global databases are up to date." (the end of incremental()) is said   *)
(* only when they are: nothing was disturbed while the run that said it    *)
(* was inspecting, so there was something to say it about.                 *)
UpToDateIsTrue ==
  settled = "yes" /\ pc = "idle" /\ mode = "full" /\ ~updated => \A p \in Paths : Current(p)

(* However badly the tag files were left, by a killed run or by a change   *)
(* of langmap, making them anew makes them right.                          *)
RemakeRepairs ==
  settled = "yes" /\ pc = "idle" /\ mode = "create" => \A p \in Paths : Current(p)

(* doc/global.texi, Incremental updating: run again, gtags -i does nothing.*)
Idempotent == settled = "yes" /\ pc = "exit" /\ mode = "full" => ~updated

(* A run in progress ends.                                                 *)
Terminates == pc # "idle" ~> pc = "idle"

=============================================================================
