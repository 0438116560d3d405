# Verification of the programs behind this Emacs configuration

The repository is an Emacs configuration (`emacs`, `config/*.el`) together with
the programs it drives. Two of these keep databases that are derived from a
source tree and brought up to date by comparing time stamps, one is an
event-driven front end of a debugger, several are small stateful Emacs packages.
This directory holds TLA+ models of the parts with real state, the TLC
configurations that check them, and TLAPS proofs of the most important facts.

All paths below are relative to `src/`. GLOBAL stands for `global-6.2.12/`.

## 1. Inventory

| component | state it keeps | operations | hard behaviour | what makes it correct |
|---|---|---|---|---|
| **gtags** (`GLOBAL/gtags/gtags.c`, `libutil/gpathop.c`) | on disk GPATH, GTAGS, GRTAGS and the mtime of GTAGS; in memory the lists `addlist`, `addlist_other`, `deletelist`, `deleteset`, `findset`, and GPATH with `_nextkey` and a reference count | `createtags`, `incremental`, `updatetags`, `--single-update` | files edited during a run, second-wide time stamps, three files that become durable one after the other, kills, ids that outlive their files | no tag points into another file; both tag files agree; what is stale is newer than GTAGS; an undisturbed update equals a remake |
| **dbop** (`libutil/dbop.c`) | a B-tree per tag file, two pipes and a `sort` process while it is made | `dbop_open/put/close`, cursor | inherited pipe ends, pipes that fill up, a sort that fails | every record arrives once and in order; nobody waits for ever |
| **gtagsop** (`libutil/gtagsop.c`) | the formats of records, a pool of lines per path | `gtags_open/put/flush/delete/first/next/close` | deletion under the cursor, line compression | every record's id is in GPATH; what is decoded is what was encoded |
| **libdb** (`libdb/`) | pages of a file in an LRU cache, the tree on them | `mpool_new/get/put/sync`, `__bt_*` | eviction of pinned or dirty pages, I/O errors, a cursor on a page that changes | the cache is transparent |
| **libutil** (`idset.c`, `find.c`, `test.c`) | bit sets, the directory walk | add, contains, first/next | word boundaries | a bit set is a set |
| **libparser** | scanner state | `parse_file` | text | (out of scope: what is a tag is text) |
| **global, htags, gtags-cscope** | none of their own | queries | reading while gtags writes | (see section 7) |
| **gtags.el** | stack of jumps, `*GTAGS SELECT*` buffers | find, pop, select | buffers killed under the stack | popping returns to where one was |
| **multi-gdb-ui.el** (loaded by `config/gdb.el`) | input queue, output sink, prompting and running flags, pending triggers | enqueue/dequeue, a handler per annotation | asynchronous GDB output, user input at any moment, phase errors and resync | every queued command is sent once, its output goes to its own handler |
| **gnuserv.el** | `server-clients`, buffer-local `server-buffer-clients`, `current-client`, partial request | filter, edit, done, kill, restart | requests and kills in any order, destructive list surgery | a client is told exactly once, when its last buffer is done |
| **session.el** (loaded by `config/recover-desktop.el`) | `session-file-alist`, rings, histories, and the session file `~/.session` | store, mark, restore, save, load | kills during a save, two sessions writing one file, old entries behind new ones | a file is visited at the place stored last, a mark stays until it is taken away |
| **wcy-desktop.el** | placeholder buffers | save, open lazily | saving over an unread placeholder | a placeholder never replaces a file |
| **cscope** (`cscope-15.8a/src/build.c`) | `cscope.out`, inverted index files, list of sources | `build`, `rebuild` | merge of old and new cross-references, replacement of three files, time stamps | the new database equals one built from nothing |
| **cedet (3 versions), ecb (2), auto-complete** | inside Emacs | parsing, browsing, completion | | vendored as they are, not modelled |
| **configuration, small commands** | none | key bindings, settings | | not modelled |

How they interact: Emacs runs `gtags`/`global -u` and `cscope` as child
processes, and talks to `gdb` and `gnuserv` through process filters. Inside
GLOBAL, `gtags.c` calls `gtagsop.c`, which calls `dbop.c`, which calls the B-tree
of `libdb`, which works on the pages of `mpool.c`; `gtagsop.c` and `gtags.c`
share `gpathop.c` through its reference count; `parser.c` calls back `put_syms`
for every symbol. The files GTAGS, GRTAGS and GPATH are the only thing gtags and
the readers (`global`) share; the manual (`gtags/manual.in:190`) states that
there is no concurrency control about them.

The full list of hazards, each at its line and with the properties that would
catch it going wrong, is in `PROJECT.json`.

## 2. Modules

| module | models |
|---|---|
| `GtagsUpdate` | gtags' three jobs, GPATH, the order of durability, the environment |
| `TagIndex` | abstract: what a tag file promises a reader |
| `GtagsRefines` | the refinement of `TagIndex` by `GtagsUpdate`, once for each tag file |
| `GtagsUpdate_proofs` | theorems about `GtagsUpdate` that hold under edits, kills or both |
| `GtagsAccurate_proofs` | theorems about `GtagsUpdate`: the tag files and the source tree, and the refinement of `TagIndex` |
| `MCGtagsUpdate` | symmetry for TLC |
| `SortedWrite` | sorted writing: gtags, its `sort` processes, the pipes |
| `MCSortedWrite` | the two tag files of gtags |
| `SortedWrite_proofs` | theorems about `SortedWrite`: every safety property of its run |
| `CompactLines` | the lines of a tag, from `flush_pool()` through GRTAGS to what `global` prints |
| `CompactLines_proofs` | theorems about `CompactLines`: every property of its run |
| `Mpool` | the page cache of `libdb` under the B-tree |
| `Mpool_proofs` | theorems about `Mpool`: every property of its passing run |
| `OrderedStore` | abstract: what the callers of a tag file rely on |
| `BTree` | the B-tree under a tag file; implements `OrderedStore` |
| `GdbInput` | `multi-gdb-ui.el`: input queue, output phases, triggers, with GDB and the program beside it |
| `GdbInput_proofs` | theorems about `GdbInput`: every safety property of its run |
| `FilePlaces` | abstract: what session.el promises about places and marks |
| `Session` | `session.el`: the alist of file places and the session file |
| `MCSession` | symmetry for TLC |
| `Session_proofs` | theorems about `Session`: types, and the refinement of `FilePlaces` |
| `CscopeBuild` | `build()` of cscope, with the session around it and kills |
| `CscopeBuild_proofs` | theorems about `CscopeBuild`: every property of its passing run |

Those from `GtagsUpdate` to `BTree` are layers of one program: `GtagsUpdate` says
which records are put and deleted and when files become durable, `SortedWrite`
how the records of a new file reach the B-tree, `CompactLines` what a record of
GRTAGS means, `BTree` how the tree keeps records in order, `Mpool` how its pages
reach the disk. Each takes the layer below by what it promises; `OrderedStore` is
that promise for the tree. `GdbInput`, `CscopeBuild` and `Session` are programs of their own.

### GtagsUpdate

`file` is the project: a path has a content and an mtime, or no file. `source` is
the set of paths that langmap maps to a language, the answer of `issourcefile()`.
`gpathFile`, `tagFile` and `mtime` are the disk, the rest but the last two
variables is the memory of a running gtags: the names are those of `gtags.c`, and
`opened` is the variable of that name in `gpathop.c`. `extracted` and `settled`
are history for the properties.

A tag record `[fid, path, content]` stands for all the records one parse of a
file gives: the file id under which they are put, and, as history, the path and
content they were extracted from. A content in `Undefining` has references but
no definitions, so it gives GRTAGS records and none to GTAGS. A content in
`Binary` is one `test("b")` calls binary.

The steps of a run follow the calls of `gtags.c`:

    gtags           Create, Build(p)*, ReleaseForGtags, SyncGtags, ReleaseForGrtags, SyncGrtags
    gtags -i        Inspect, Sweep, [OpenTags, Parse(p)*, the four closing steps],
                    DeletePaths, PutOther(p)*, Utime, Exit
    --single-update Single(p), then as gtags -i

A database changes on disk when it is closed: `gpath_close` writes the tree only
when the reference count falls to zero, `gtags_close` first closes GPATH, then its
own B-tree. These are the actions `ReleaseFor...`, `SyncG...` and `Exit`, and it is
between them that a kill matters. A `die()` in the program is `Abandon`, exactly
like a kill.

The constant `Hazards` says what the environment may do, so that a run of TLC can
ask which assumption a property needs: edits during a run, edits in the second of
the time stamp, files with old mtimes, unrelated changes beside
`--single-update`, changes of langmap, kills.

Simplifications, with the reason why they lose nothing the properties see:

- `Inspect` is one step. The walk stats each file once; edits of distinct files
  commute with it, and an edit of a file after its own stat is an edit after
  `Inspect`.
- `Create` unlinks and opens the three files in one step. A kill in between
  leaves a state in which `gtags -i` refuses to run or starts anew, like a kill
  just after.
- One tree is written at once, when it is closed. That is so while it fits into
  the cache (`GTAGSCACHE`, 50 MB unless set); a larger one has pages on disk
  before. A kill in the middle of `mpool_sync` leaves a damaged B-tree; `Mpool`
  has both, but what a damaged tree does is outside of either model.
- A file that cannot be opened during the walk, and every other `die()` before
  the first file is opened for writing, is a run that never happened.
- The list of paths to skip is constant. The mtime of GRTAGS is not read by anybody.
- Time has the resolution of `st_mtime`, one second.

### SortedWrite

For each tag file the two pipes of `start_sort_process()`, who holds which end, the stdio buffer of
`sortout` and the sort process, through fork, close, exec and exit. `gtags_open()` puts the options
of a tag file into it before the next is opened (`Put` while `pc` is `"opened"`, then
`OpenAnother`), so that the next child has a copy of a buffer that is not empty (`copy`). If
`execvp()` fails in it (`ExecFails`), it goes on in the code of its parent until it dies, and
`exit()` writes that copy into the pipe of the other file (`WriteCopy`, `Dies`); `again` is the
history of what was written so. What sort makes of its lines is any order of them that ascends
(`SortLines`). A full buffer is written record by record into a pipe of bounded size; a write to a
pipe nobody can read ends the writer; a reader sees the end of file when nobody holds the write end.
`dbop_close` of the files in order, as `createtags` does. The sort program is modelled by its
contract, and may fail at any moment: before or after exec, while reading or writing, perhaps in the
middle of a line.

### CompactLines

The writer is `flush_pool()`, one line number a step: `Repeat`, `Follow` (with
the range that `Prolong` opens or continues), `Jump` (which closes a range and
may end the record), `EndOfPool`. The reader is `put_compact_format()`, one
number a step: `Fetch` in its four forms, `SeekSource` with what it keeps in the
static variables of `output.c`, `Show`. `fopen()` of the source file may fail, and then `src` stays as it was
(`opened` is the history of it); `Visit` stands for the records of other files that are printed in between, which
close this one and leave any text in `src`. `segment_read()` in between sorts the
records unless `--nofilter` is given. The source file may be shorter than it was
when the tags were made. A record is a sequence of numbers with the separator
before each (`"head"` for none, `"comma"`, `"dash"`); its length is counted in numbers, so `Limit` stands for
`DBOP_PAGESIZE / 4` characters.

`global.c` has a second reader of the format, `decide_tag_by_context()`, which
only asks whether a line is in a record; it is not modelled.

### Mpool

`cache` is the lru chain, least recently used first, each buffer with its page number, its image and
the flags MPOOL_DIRTY and MPOOL_PINNED; the hash chains are an index of it and left out. `New`,
`Hit`, `Miss`, `Put` are `mpool_new`, `mpool_get` and `mpool_put`; each takes `mpool_bkt` and
`mpool_write` with it. `Change` is the B-tree working on a page it holds. `Close`, `Sync`, `Closed`
are `dbop_close`, `__bt_close`, `mpool_sync`, one page a step, so that a kill or a full disk can
come between two pages. A read or write that fails in mid-call ends the program, unless it comes in
one of the places where libdb takes NULL for an answer and goes on (`bt_put.c:277`,
`bt_search.c:160` and `198`, `bt_seq.c:359`, `bt_page.c`). Then a page that could not be written
stays in its buffer, dirty and already converted, and is converted once more by the next try
(`FlushFails`; `spoiled` is the history of these pages), and the buffer taken for a page that could
not be read is on no list any more (`ReadFails`; `lost` counts them, up to `MaxLost`). An image is a
content and a byte order: `__bt_pgin` and `__bt_pgout` convert the buffer itself, and a page that
was written and is still in the cache is in the order of the file.

`held`, `touched` and `latest` are what the B-tree knows: the pages it has
pointers to, those of them it has changed, and what it last put into each page.
The B-tree is trusted with two things: it does not get a
page it holds (an `abort()` under DEBUG) and it gives a changed page back with
MPOOL_DIRTY. In-memory databases, which are closed with `abandon`, have no file
and are left out.

### BTree

`t` is the BTREE structure with its pages: leaves are chained by `prev` and `next`,
an internal page has `<<key, child>>` entries. The operators are the functions of
`bt_search.c`, `bt_put.c`, `bt_split.c`, `bt_delete.c`, `bt_seq.c` and `bt_page.c`: `Probe`
is the binary search, `Down` the descent with the stack, `Beside` the look at the
neighbours for a duplicate, and the split operators make the new page where
`bt_psplit` does, for the root, a leaf or an internal page, with the shortened key
of `__bt_defpfx` in the parent. A process has the tree for itself, so a call is one
action. Records take one or two units of a page, which is what the choice of
a split point and the question whether a record fits can tell apart; user keys are even
numbers, so that an odd one is a key shortened below the next.

`strayed` is history: a put has matched on the page beside the one it came down to and split it with
the stack of the other (`bt_search.c:108`). Such a put is taken like every other; what the tree is
then worth is not what the callers expect (section 4), and the properties are about trees where it
has not happened.

Left out: overflow pages (a long record is one more short one), `bt_fast` when the
last page was freed, `R_CURSOR` and the other flags nobody in GLOBAL passes. With
`GtagsUse` the calls come in the orders of `dbop.c` and its callers: a file is either being
made (puts), updated (deletions during a scan, then puts) or read.

`view` is the refinement mapping, computed with every step: the records along the leaf
chain and the place of the cursor among them. `IsOrderedStore` is `OrderedStore`
under it.

### GdbInput

`ui` is the state of Emacs: `queue` is `gdb-input-queue`, `prompting`, `sink` (`gdb-output-sink`),
`current`, `pending` (`gdb-pending-triggers`), `running` (`gud-running`), `flush`, `partial` (the
collected output), `acc` (`gud-marker-acc`), and what each display shows. `gdb` and `out` are GDB
and the annotations it wrote that Emacs has not received; `ui.tty` is what Emacs sent and nobody has
read, which a running program reads as its own input. `Receive` runs one handler for one annotation;
`Gdb` reads a line at its prompt or at a question; `ProgramReads`, `ProgramStops`; `Type`,
`Display`, `KillBuffer` are the user. `AskAll` is what `gdb-post-prompt` has after it called the
function of every display in turn: what is not pending becomes pending, and its query joins the
queue, frame first, then the stack, the breakpoints and the others (`AskedOf`). It is written at
once and not as a fold, so that it can be reasoned about.

`Prompt` runs the handler of the item that was answered before it takes the next one.
`UpdateHandler` is that of a display; the one of the breakpoints may ask GDB where the source file
of a breakpoint is, and enqueues two items of its own (`Custom`, `Lookups`), of which the second has
`gdb-get-location` for a handler. `located` says that the file was found and is in
`gdb-location-alist`. The custom functions of four displays make their buffer current whether it is
there or not, so a display that was killed meanwhile is an error that skips the rest of `gdb-prompt`
(`HandlerFails`).

GDB is external and modelled by what the handlers expect of it. Six constants say what a user or a
program may do beyond the orderly: `OpensAnytime`, `AnswersEarly`, `LeavesInput`, `DiesWithIO`,
`KillsAwaited` (a display is killed whose answer is awaited), `FilesLost` (GDB does not find the
source file, and `gdb-get-location` resynchronises).

Left out: the disassembly, for which the frame's handler asks, watch expressions, completion, and the other
commands that menus and mouse clicks enqueue; each is one more item with a handler.

### CscopeBuild

`disk` is `cscope.out` (its option `-q`, the list of files in its trailer, the data in order and its
time), and the two files of the inverted index, of which only matters which cross-reference they
index and, of the first, whether it was cut short. `Start` is `main()`, `Rebuild` the command `^R`;
both end in `build()`, whose first half is `UpToDate` or `Begin`. `NewFile`, `ChangedFile` and
`Copy` are the three ways the loop deals with a file, `NextPass` the pass over included files,
`MakeIndex` the sort and `invmake()`, `CloseNew`, `Unlink` and `Rename` the end with its three
`movefile()` calls. `Crash` may come before any of these steps. The exit status of sort is thrown
away (`build.c:470`), and `invmake()` takes the end of its input for the end of the postings, so
that a sort that dies leaves a part of an index with `-q` in the header: `MakeIndex` chooses `cut`,
a history. Only when no term comes through at all, or `invmake()` cannot write, `-q` is given up.

The content of a file is the set of files it includes; that is what the build needs
to know of it, and two contents that differ stand for any change. File names
are even numbers in the order of `strcmp()`; an odd one is a name with a newline at
its end, an odd thing that `build()` makes (section 4). The old cross-reference is
read forwards only: `From` is what remains after the names before the current one.

Simplifications: one cscope at a time, and none that only reads (`-d`); one directory; the
compressed and the plain format of `cscope.out` carry the same data; `-U` and `-u` are what they
make of `fileschanged` and `unconditional`; the lists of source files are read in one step
(`makefilelist()`); the time stamp of the new `cscope.out` is that of its close. Files change
between two sessions and between two builds of a session, so that `^R` meets files that were edited
or removed; they do not change while a build runs, not within the second of `cscope.out`, and not to
a file with an older time (`mv`, `cp -p`), unless `Hazards` says so.

### Session

`alist` is `session-file-alist` of each Emacs, `point` where point is in the buffer of
each file (0 without a buffer), `disk` the session file. An entry has its file, a
place and the permanent mark; the place stands for point, mark, narrowing, last change and local
variables, which are stored and restored with it. `Stored` is
`session-store-buffer-places` with each prefix argument, and with either answer of
`session-buffer-check-function`; `KillBuffer`, `Toggle`, `Recompute`, `StoreLive` are its
callers. A save is `BeginSave`, `StoreLive` for every buffer, `DeleteFile`, and `WriteFile` or
`WriteFails`, after which Emacs goes on or ends; `Quit` may come between any two. `Printed`
is `session-save-insert-variable`.

`FilePlaces` has a map from files to places and marks where `Session` has a list with old entries
behind new ones; `MapOf` is the refinement mapping. The saved map is gone only from the removal of
the old session file (`Remove`) to the end of the write that follows. That write leaves all that is
known, with the places where point is in the buffers of marked files (`Save`), unless there were
`MaxSize` files or more; or it fails (`Fail`), or Emacs dies in it (`Die`), and `failed` says so.
`failed` of `Session` is the history that tells these apart. Two Emacs that end overwrite each
other's session file: session.el has nothing against it, and nor has `FilePlaces`.

Left out: a change of the file by others, except that it may be gone or too short (`FileNotFound`);
the rings, histories and registers in the same file; `session-old-save-file`; entries that could not
be read back (`session.el:1475`), which only a customised `session-locals-include` can make: of
those an older entry of the same file may be printed.

## 3. Runs

| run | asks | bounds | states |
|---|---|---|---|
| `clean` | Undisturbed, does any sequence of edits, makes, updates and single updates leave the tag files as a remake would? | 2 source files and one other, 3 contents (ordinary, without definitions, binary), 3 seconds, 3 ids | 470 000 |
| `disturbed` | With edits at any moment and langmap changes, is a tag ever in the wrong file, do the tag files disagree, is the abstract index implemented by both? Does a run end? | 2 files, 2 contents, 2 seconds, 2 ids | 330 000 |
| `killed` | Killed anywhere, is GPATH sound, are new files still new, does a remake repair? | 2 files, 2 contents | 230 000 |
| `sort_ends` | With a sort that may fail at any moment: does every record of the other file arrive, in order, is none invented, does nobody wait for ever? | 2 files, 2 keys, 3 records each, buffers of 2, pipes of 1 | 232 000 |
| `lines_sorted` | Is every line printed once, in order, and from a file that can be opened with its own text? | 2 tags with 5 uses in 5 lines, a file of 0 to 5 lines or none, records of 1 number before they end, other files between the tags | 1 257 000 |
| `mpool_cache` | Is the cache transparent, is a pinned page safe, how far does the cache grow, is success worth something? | 1 buffer, 3 pages, 2 of them held at once, 2 contents, the other byte order, 1 buffer lost by a failed read | 1 621 000 |
| `btree_gtags` | Through splits, deletions and scans, is the leaf chain the tree, is every record found, is no page lost, does the tree keep records as `OrderedStore` says, until a put strays? | 3 keys of 2 sizes and the meta record, pages of 5 units, 4 puts, trees of up to three levels | 25 000 |
| `gdb_lockstep` | Does each display get its own output, does Emacs know when GDB waits, is every display up to date at a prompt, is no annotation unexpected, is what is queued sent? | 1 display besides frame and breakpoints, 4 lines typed, a source file found or to be looked for | 340 000 |
| `cscope_merge` | After any builds, lists, options and kills: is what is written current, is only what changed read, is the index of the data, is what is stale newer? | 2 files that may include each other or themselves, 2 lists, 2 seconds, any number of builds | 4 359 000 |
| `cscope_names` | counterexample, section 4 | 2 files | |
| `session_kept` | Does session.el keep places and marks as `FilePlaces` says, through saves, kills and new sessions? | 2 files, 2 places, alists of up to 3 entries, all of which may be saved, any number of sessions | 283 000 |
| `session_first` | counterexample, section 4 | 2 files, 1 entry saved | |

Why the bounds are enough. Two source files let one be stale while another is edited, and let an id
be deleted and given again; the third path of `clean` crosses between source, other and binary.
Three clock values are the least in which a file can be older than, as old as and newer than GTAGS.
Ids are never reused, so `MaxFid` bounds how many deletions precede an update; one more than the
number of files is enough for a deleted id beside a new one. Two sort processes are what gtags has;
a pipe of one record and a buffer of two make each of them full, empty and in between. Five lines
have room for a range, a gap and a second range, or for one that the end of a record cuts. One
buffer under three pages makes nearly every step of the B-tree an eviction, and two pages held at
once make the cache grow. A page of five units holds from two to five records, so that four puts
split a leaf, a root and, with the entries of two units, an internal page. Four lines typed are one
to run the program, one it reads, one GDB asks about and its answer; one display more than the two
that are always there shows whether displays wait for each other. Two files that may include each
other let a file be listed, included, both, or neither, come out of the order of names (`<<4, 2>>`),
vanish and return; with two seconds there is one before and one after a change. Beyond its run,
`CscopeBuild` was also checked with three files (the list `{2}` and contents `{4}` and `{6}`: 8 114
000 states) and with the lists `{2}`, `{4}`, `{2, 4}` (6 915 000); and with weak fairness of `Step`
and the list `{2, 4}` every build ends. `Session` was also checked with two Emacs and one file, and
with `MaxSize = 2`, where an alist of three entries is not saved. The theorems below hold without
any of these bounds.

`NewFilesLast` is what makes a killed update repeatable: a path enters GPATH on
disk only when its tags are in both tag files, so the next run still finds it new.

Fairness. `FairSpec` of `GtagsUpdate` assumes that a gtags that runs goes on
(weak fairness of `Step`); nothing makes anybody start one or edit a file.
`SortedWrite` assumes that the kernel runs every process that can run, and not
that a sort fails. `GdbInput` assumes that Emacs runs the filter when output
has come and that GDB reads what it is sent; the program need not stop and the
user need not type. The other modules are checked for safety only.

`CHECK_DEADLOCK FALSE` is set because clocks, ids and typed lines are bounded,
because gtags ends, and because cscope does nothing without source files.

## 4. What the runs found

Two runs end in a counterexample:

- **`session_first`**: `session-save-insert-variable` prints a list only when it has come to its end
  (`session.el:1487`), so a variable with more elements than may be saved is not cut but left out: with
  places of more than 100 files none is saved, and with more than 10 kills the kill ring is not.
- **`cscope_names`**: with an up-to-date database the names of included files are
  read with `fgets()` after an `fscanf()` that left a newline (`build.c:317-320`), so they
  are shifted by one and end in a newline; with `-q` references are shown in the wrong file.

Others were found by runs that are not kept; each comes back with one change:

- An incremental update compares a file's mtime with that of GTAGS
  (`gtags.c:612`), which is stamped at the end of the run (`gtags.c:690`). A file edited after it
  was parsed is older than GTAGS and not seen by any later update:
  `StaleIsNewer` of `GtagsUpdate` with `Hazards = {"concurrent_edit"}`.
- A make killed after GTAGS and GPATH were closed and before GRTAGS was leaves an empty
  GRTAGS; `gtags -i` checks that the three files exist and says that all is up to
  date: `UpToDateIsTrue` with `Hazards = {"crash"}`.
- `gpath_put` does nothing for a known path, so a file that langmap turns from
  other into source keeps the mark `GPATH_OTHER`; when it is removed its tags stay, and
  reading them dies with "path not found": `TagsResolve` with `"reconfigure"` in `Hazards`.
- The exit status of `sort` is not looked at (`dbop.c:235`), so a sort that runs out of
  room leaves a tag file without its records and gtags succeeds:
  `CompleteIfSorted` without its condition.
- When the sort of GRTAGS cannot be executed, its process ends in `exit()` with the stdio buffer of
  GTAGS' pipe that it inherited (`dbop.c:221-232`), and the options of GTAGS are in GTAGS twice:
  `NothingInvented` without its part about `again`.
- `put_compact_format` goes back in the source file only when the path or the tag
  changes (`output.c:132`); with `--nofilter` records may come with their lines in
  another order and a line is printed with the text of a later one: `OwnText` with
  `Filtered = FALSE` in `CompactLines`.
- When the next source file cannot be opened (`output.c:128`), `src` keeps the text of the file before it, and
  every line of the missing file is printed with that text: `OwnText` without its last alternative.
- `dbop_close` throws the result of the close away (`dbop.c:750`), and nearly all pages are written
  in the close. On a full disk gtags leaves a tag file without its last pages and ends with success
  (`Mpool`, `SavedUnlessFailed` without its condition). With a full disk in mid-call and a file of
  the other byte order, a page that could not be written may be converted twice (`mpool.c:373,
  425`): `Transparent` without `spoiled`.
- In a tree with duplicates `__bt_search()` may take a match on the page beside the one it came down
  to, with the stack of the other page (`bt_search.c:108`). When the record then put there does not
  fit, the entry of the new page goes to the wrong place in the parent, the tree leads to the leaves
  in another order than their chain, later searches miss records, and a page that is freed can stay
  linked. `ChainIsTree`, `SearchFinds` and `PagesAccounted` of `BTree` without the condition
  `~strayed` fail with the four puts of `btree_gtags`.
- A display opened while the program runs is recorded in
  `gdb-pending-triggers` although its item was dropped (`multi-gdb-ui.el:1718, 1200`); no
  display is refreshed any more until GDB and Emacs are resynchronised:
  `UpToDate` of `GdbInput` with `OpensAnytime = TRUE`.
- A display that is killed while its answer is awaited makes its custom function fail in the middle
  of `gdb-prompt` (`multi-gdb-ui.el:1341, 1868, 2121`), so that nothing more is sent and Emacs does
  not know that GDB waits: `Lockstep`, and without it `Served`, with `KillsAwaited = TRUE`.
- When GDB does not know where the file of a breakpoint is, `gdb-get-location` calls `gdb-resync`
  (`multi-gdb-ui.el:3064`) in the middle of `gdb-prompt`, which throws away the commands typed ahead
  and the refreshes that wait, though GDB and Emacs are in step: `UpToDate` with `FilesLost = TRUE`.
- `GdbInput` with `LeavesInput`: GDB reads what was typed for the program, and every
  property but `Served` fails; with `DiesWithIO` a signal of a program with its own
  buffer resynchronises; `AnswersEarly` breaks nothing, though
  `gdb-subprompt` says it never dequeues (`multi-gdb-ui.el:1175`): TLC finds every property true in
  2 031 000 states, and the theorems of section 5 do not exclude it.
- `build()` compares the names of the old list only as far as the new one goes
  (`build.c:307-315`), so taking away the last source files is not noticed, where `cscope.1` says
  that it rebuilds when the list is different; a change in a header alone
  is not noticed until a source file changes.
- A buffer killed with the prefix -2 should have its entry deleted (`session.el:1270`); the code
  compares an entry, a list, with a name by `string=` (1183), and the error ends it with nothing done.
- A sort that dies while the inverted index is made leaves a part of an index in place, and cscope uses it
  (`build.c:470`): `cut` in `IndexAgrees`.
- A source file that is replaced by another with an older time (`mv`, `cp -p`) is taken for unchanged:
  `StaleIsNewer` of `CscopeBuild` with `"old_time"` in `Hazards`.
- A cscope killed between two `movefile()` calls leaves a new index beside the old
  `cscope.out`, and a later start may find that up to date and open both: this is `torn`
  in `IndexAgrees`.
- `BTree` with `GtagsUse = FALSE` meets cases that the orders of calls in GLOBAL
  keep away: a cursor moved to the wrong page by a split (`bt_split.c:700`), a
  deletion that passes over duplicates on the next page, `bt_fast` on a page that was freed.

## 5. Proofs

`GtagsUpdate_proofs` proves for every set of paths, contents and hazards, without
bounds on the clock's or the ids' history beyond the guards:

- `TypeInvariant`: `Spec => [](TypeOK /\ Counted)`. `Counted` ties the reference
  count of GPATH to the program counter; without it `opened \in 0 .. 3` is not
  inductive.
- `PathTableIsSound`: `Spec => []PathTableSound`, under every hazard. The invariant is inductive with
  `TypeOK`: `GpathPut` takes the counter as the new id, every id in use is below
  it, and `Durable` writes both.
- `NeverMisattributed`: if no gtags is killed, `Spec => []NoMisattribution`. It rests on the inductive
  invariant `TagsInv`: every id in a record is below the counter of GPATH
  (so an id newly given never meets an old record); a record whose id is still
  in GPATH names the path GPATH gives for it; and, through the phases of a run,
  memory and disk differ only as far as the pending lists say. It is proved
  action by action; `IdStep` is the induction step.
- `TagFilesAlwaysAgree`: if no gtags is killed, `Spec => []TagFilesAgree`. `AgreeInv`
  says that in memory GTAGS is always GRTAGS without the files that define nothing, and
  where between the two closes the disk may differ.
- `NewFilesComeLast`: `Spec => NewFilesLast`, kills included. `NewInv` follows what was read
  of a path until it is in both files on disk.

Why "no kill" in `NeverMisattributed` and `TagFilesAlwaysAgree`: records become durable before GPATH does, so
a killed update may leave records under ids that GPATH's counter on disk has not
reached; the next run gives these ids again.
What killed runs guarantee instead is checked by `killed` and proved, like
`NewFilesComeLast`, without that assumption.

`GtagsAccurate_proofs` compares the tag files with the source tree.

- `RemakingRepairs`: `Spec => []RemakeRepairs` under every hazard. `RemakeInv` says of a
  make during which nothing changes that it has in memory exactly what the paths it has
  visited hold, and which of it is on disk.
- `TagsAlwaysResolve`, `StaleIsAlwaysNewer`, `UpdatesAreAccurate`, `UpdatesAreIdempotent`
  assume an undisturbed project (`Hazards = {}`), as `clean` does; section 4 shows what
  each hazard breaks. One inductive invariant, `WholeInv`, gives all four: `TagsInv`,
  `AgreeInv`, `RemakeInv`, and `FreshInv`, which has a part for each phase of a run. The
  core of it is `Fresh`: what the disk has wrong of a path is newer than GTAGS or missing, thus something
  `Inspect` notices. From there each phase says what of the difference is still in its
  lists (`SweepFresh`, `TagsFresh`), in memory (`WriteFresh`) or only in GPATH
  (`OthersFresh`), until at the end none is left (`ExitFresh`).

It also proves `TagFilesImplementIndexes`: if no gtags is killed,
`Spec => TagFilesAreIndexes`, for both tag files and with edits and changes of langmap at any moment.
`SeenInv` is what the mapping needs: the records a tag file is about to hold under an entry
of GPATH are what the disk has there, what this run has read there, or none; and an entry that
is not on disk yet has none but what was read. `StepSimulated` then maps each action: `Parse` and
`Build` to `Read`, an edit to `Edit`, a close to `Publish`, the rest to no step.

`Mpool_proofs` proves every property of the run `mpool_cache` for every size of cache and file, both
byte orders and every combination of faults, those included after which the program goes on:
`TypeInvariant`, `NoPageTwice`, `PinsHold`, `CacheIsTransparent`, `ClosedIsSaved`, `CacheIsBounded`.
None of them is inductive alone; `Inv` is their conjunction with

- `Chain`: buffers are for pages of the file and are, with the lost ones, as many as were allocated;
- `Data`: the last word on a page is in its buffer if it is dirty or being changed, and in the file
  otherwise, in every stage; in the stage of the sync the images of clean buffers are not in the
  machine's order any more. A page in `spoiled` is excused from this and no other is.

A step that takes a buffer moves the others in the lru chain. The lemmas
`MovedToTail`, `AddedAtTail`, `MovedElements` and `MovedChain` say once what such a move
preserves; `VictimExists` (the first unpinned buffer exists, by well-foundedness of
the natural numbers) and `FlushSaves` say that an eviction loses nothing.
`CacheIsBounded` counts: when no buffer is free the chain is in bijection with the pages
held, and `curcache` is its length and the buffers lost.

`CscopeBuild_proofs` proves every property of the run `cscope_merge` for any finite set of files,
contents and lists, and any number of builds. `TypeInvariant` and `IndexIsOfCrossRef`
hold under every hazard; `StaleDataAreSeen`, `UnchangedAreCopied` and `BuildIsCurrent` assume that
nothing changes during a build or in the second of `cscope.out` (`Hazards = {}`), as
the run does; kills are allowed in all of them. The steps:

- `SortedHasAll`: the list is made by rank, so that sorting keeps every name once
  follows from counting (an injection of a finite set into an interval of its size is onto);
- `FromIsRest`: what `getoldfile()` passes over is a part at the front;
- `IndexInv`: during the replacement the files already in place are of the new data;
- `BuildInv` is inductive: `SourceInv` (each file once, all present), `ClosureInv`
  (the list is between the given files and those they reach, and the includes
  of every file seen are in it or found), `DataInv` (new data are current; old data that are not belong to
  files newer than the old time), `CopyInv` (as long as the order is the old one,
  what remains of the old data is what remains of the list);
- `PassHasEffect`: a file that is read and a file that is copied have the same
  effect. With it one argument serves the three actions of the loop.

At the end `ClosureInv` makes the list the least closed set, and a bijection counts it.

`SortedWrite_proofs` proves the three safety properties of `sort_ends` for any number of tag files,
keys and records, and buffers and pipes of any size: `TypeInvariant`, `CompleteUnlessFailed`,
`NothingIsInvented`. A sort that is not executed is one of the ways to fail, so the theorems speak
of what a child writes a second time as the run does. The inductive invariant `Safe` has these parts
besides the types:

- `Started`: which sort processes there are, from the program counter of gtags;
- `Inherits`: what a child has a copy of, and that only a child of another file can have it;
- `Holders`: who holds which end of a pipe. A tag file's end of file can be trusted only because no other
  process keeps the write end open, and its records can be lost only when nobody can read them;
- `Flow`: where the records are. While sort reads, what was put is, as a bag, in sort, its pipe and
  gtags' buffer; once it writes, what is in the tag file, the pipe and sort is the sorted whole, and
  after a failure a part of it from the front. What children wrote again is counted with what was
  put.

Two facts carry every step. `Moved` says that a record that goes from the head of one sequence to the
end of the next leaves what they are together as it was; sequences joined with `\o` are used instead of
counts wherever the order matters. `SortKeepsLines` says that each order sort may choose has every record as
often as its input (a bijection between the places of a key). `PartialFront` and
`PartialOfSorted` turn a failed sort into a front of the sorted records, the last of them perhaps cut.

`CompactLines_proofs` proves every property of `lines_sorted` for any number of tags, any uses and records of
any length: `TypeInvariant`, and with the sort filter `LinesAlwaysSurvive` and `TextIsOwn`. What a record means
is the sum of its numbers, which a recursive function would compute and the prover could not follow. Instead
`Decodes(r, p)` says that the sequence `p` has the sums of the record `r` and that they increase, and the
invariant says that such a `p` exists: every step that adds a number to a record adds a sum to `p`
(`DecodesMore`, `EncodesMore`). From these

- `Written`: the records of a tag, the one under construction and the open range cover exactly the uses taken so
  far, and every record begins behind the end of the one before. With that the sort filter, which knows only the first
  line of each record, gives back the order they were written in (`SegmentEncodes`);
- `Printed`: at any number of any record, the lines shown are the uses up to the last line shown. That
  the next line is the next use is `NextNumber`: nothing lies between two numbers unless a dash stands between
  them (`Between`), or in another record (`Elsewhere`);
- `Texts`: a source file that could be opened is read exactly up to the line shown last, or has
  ended and a line behind its end was shown. The delicate case is a new tag: the file is rewound
  unless its first line is behind the last line of the tag before, and then the reader is not behind
  the line it wants.

`TextIsOwn` is about files that can be opened, whatever other files are printed before this one or
between two tags of it; beside a line of a file that is gone stands the text that was read last, and
the theorem does not hide it: `OwnText` says `~open` of such a line. The hypothesis of the last two
theorems, the sort filter, is the default of `global`; section 4 has the counterexample with
`--nofilter`.

`Session_proofs` proves `SessionKeepsPlaces`: `Spec => PlacesKept`, for any number of Emacs
processes and files and every size of the session file, the case of too many files included, which
`session_kept` does not reach; with it `TypeInvariant`. Each operation on the alist is one on its
map: `UnmarkedMap`, `PushMap`, and `PrintedMap`, where the ranks of the first entries are counted
(`RanksAreOnto`); `IndexIsFirst` (a first entry exists) is well-foundedness of the natural numbers.
`StageInv` says that a process that does not run has no buffers, which `Start` needs, and that only
places in live buffers are stored.

`GdbInput_proofs` proves the safety properties of `gdb_lockstep` for any finite set of displays and
any number of lines typed: `TypeInvariant`, `EachGetsItsOwn`, `InStep`, `AlwaysUpToDate`. Their
hypothesis `Habits` excludes five of the six habits: a display opened while Emacs is not at a
prompt, a program that ends with input unread, a signal to a program with its own buffer, a display
killed while its answer is awaited, a source file that GDB does not find. Section 4 says what each
of them breaks. An answer typed before GDB asks is allowed. Neither of the two processes sees the
state of the other, so that the inductive invariant `Inv` is about what is on the way between them:

- `Grammar`: each annotation GDB has written follows the one before it (`MayFollow`), and the
  handlers of Emacs are called in an order they accept;
- `Phase`: what Emacs believes (`prompting`, `sink`, `current`) together with the annotations it has
  not received is what GDB is doing: `OwnPhase` while the command is one of Emacs' own, `UserPhase`
  while it is the user's;
- `Waiting`, `Blocks`: a trigger is pending exactly while its query is in the queue, once, or was
  sent and is not answered (`Answering`); what handlers ask for themselves is in no display and
  waits for nobody, and there may be any number of it. The queue is taken from its end; lines of the
  user that are sent before queries stand there together, and then the queries of all open displays
  are in the queue;
- `Fresh`, `Shown`: a display that is not up to date is queued, is being answered, or nothing is pending and
  Emacs has not yet received that GDB read a command, so that the next prompt asks; a display shows nothing or an
  output of its own query.

`NextInputIs` says what is sent next, `AskAllIs` what a prompt adds to the queue, and `UserReceives`
and `AskingReceives` take one handler each through all the parts of the invariant. `Lockstep` alone
is not inductive: that no annotation is unexpected follows from `Phase`, whose steps need `Grammar`
and the order of the queue.

The proofs rest on the constants' assumptions in `GtagsUpdate`, `SortedWrite`, `CompactLines`,
`Mpool`, `CscopeBuild`, `Session` and `GdbInput`, which every run evaluates, and on lemmas about the
table operators (`EntryOfKnown`, `PutKnown`, `FidOfPut`, `PutOneToOne`, `DeleteSound`).

Only model-checked: liveness (`Terminates`, `AllEnd`, `Served`), which is out of the prover's
reach; and all of `BTree`, its refinement of `OrderedStore` included. The descent of the tree and
the split of a path of pages are recursive functions, and what those give for every
tree needs an induction the prover cannot do.

## 6. Plan

Done, in this order: `GtagsUpdate` with `TagIndex` and `GtagsRefines`; `SortedWrite`;
`CompactLines`; `Mpool`; `BTree` with `OrderedStore`; `GdbInput`; `CscopeBuild`; `Session` with
`FilePlaces`; the theorems above.

Left, the most important first:

1. A second process: `global` that reads while gtags closes its files, `cscope -d` while
   another cscope replaces them.
2. A model of `idset.c`, whose iteration goes on in the middle of a word of bits.
3. Theorems about `BTree`, whose descent and splits have first to be written without recursion.

`gnuserv.el` and `wcy-desktop.el` come last: the configuration has their loading commented out
(`.emacs:111`, `config/recover-desktop.el`), and the server of the first is not in the repository.

## 7. Not modelled

What a symbol is (`libparser`, cscope's scanner), the format and search of the inverted index, output formats
of `global` and `htags`, options and configuration files, Windows, overflow pages of the
B-tree, the vendored Emacs packages cedet, ecb and auto-complete, and everything that
only lays out windows. Most of the implementation lines of the repository are of
this kind: generated scanners, C libraries that come with the programs, parsers and screens. Their
state is a buffer or a table of constants, and what they compute is text; the models
cover the parts that keep state beyond one call. `PROJECT.json` gives the reason
component by component.
