------------------------------- MODULE Mpool -------------------------------
(***************************************************************************)
(* The page cache under a tag file: global-6.2.12/libdb/mpool.c, with what *)
(* its callers make of it.  The B-tree takes pages, changes them in place  *)
(* and gives them back; the cache writes a page when it needs the buffer   *)
(* or when the file is closed.  A read or write that fails ends the        *)
(* program, or is taken for an answer by the B-tree, which goes on;        *)
(* dbop.c ignores the result of the close.                                 *)
(*                                                                         *)
(* A buffer is identified with its place in the lru chain, a page with its *)
(* content and the byte order it is in: pgin and pgout convert a page in   *)
(* place when the file comes from a machine of the other byte order.       *)
(*                                                                         *)
(* latest is what the B-tree put into each page; it is the file that the   *)
(* callers believe in, and the properties compare it with the real one.    *)
(***************************************************************************)
EXTENDS Integers, Sequences, FiniteSets

CONSTANTS
  Contents,  (* contents of a page                                         *)
  NeedSwap,  (* B_NEEDSWAP: the file has the other byte order              *)
  MaxCache,  (* mp->maxcache                                               *)
  MaxPages,  (* bound of the file, in pages                                *)
  MaxHeld,   (* bound of the pages that the B-tree has pinned at a time    *)
  MaxLost,   (* bound of the failed reads after which the program goes on  *)
  Faults     (* what can fail: "read", "write", "crash"                    *)

ASSUME SwapAssumption == NeedSwap \in BOOLEAN
ASSUME BoundsAssumption == MaxCache \in Nat \ {0} /\ MaxPages \in Nat /\ MaxHeld \in Nat /\ MaxLost \in Nat
ASSUME FaultsAssumption == Faults \subseteq {"read", "write", "crash"}

VARIABLES
  file,      (* the file on disk: the image of page p is file[p + 1]       *)
  stage,     (* "closed", "open", "sync"                                   *)
  cache,     (* the lru chain, least recently used first                   *)
  curcache,  (* buffers allocated                                          *)
  npages,    (* pages of the file, the ones not yet written included       *)
  held,      (* pages the B-tree has a pointer to                          *)
  touched,   (* those it has changed since it got them                     *)
  latest,    (* page number -> content                                     *)
  exit,      (* the end of the last program: "none", "success", "error"    *)
  failed,    (* history: a read or write of the last program failed        *)
  lost,      (* history: the buffers that are on no list                   *)
  spoiled    (* history: the pages whose byte order is not known any more  *)

pool == <<cache, curcache, npages>>
tree == <<held, touched, latest>>
ended == <<exit, failed>>
harm == <<lost, spoiled>>
vars == <<file, stage, pool, tree, ended, harm>>

Zero   == "zero"            \* what a hole in a file holds
Values == Contents \cup {Zero}
Image  == [val : Values, foreign : BOOLEAN]
Buffer == [pgno : Nat, data : Image, dirty : BOOLEAN, pinned : BOOLEAN]

InMemory(c) == [val |-> c, foreign |-> FALSE]
OnDisk(c)   == [val |-> c, foreign |-> NeedSwap]

(* __bt_pgin() and __bt_pgout().                                           *)
Convert(d) == IF NeedSwap THEN [d EXCEPT !.foreign = ~@] ELSE d

Places     == 1 .. Len(cache)
Cached(p)  == \E j \in Places : cache[j].pgno = p
PlaceOf(p) == CHOOSE j \in Places : cache[j].pgno = p       \* mpool_look()
Without(s, k) == [j \in 1 .. Len(s) - 1 |-> IF j < k THEN s[j] ELSE s[j + 1]]

-----------------------------------------------------------------------------
(* mpool_write(): the image of a buffer goes to its page; a write beyond   *)
(* the end of the file leaves a hole before it.                            *)
Extent(f, p) == IF p < Len(f) THEN Len(f) ELSE p + 1

Written(f, b) ==
  [q \in 1 .. Extent(f, b.pgno) |->
     IF q = b.pgno + 1 THEN Convert(b.data) ELSE IF q <= Len(f) THEN f[q] ELSE OnDisk(Zero)]

(* mpool_bkt(): a new buffer while there is room, or when all are pinned;  *)
(* else the least recently used that is not pinned, written if dirty.      *)
AnyBuffer == Places                                                \* mutant
Victims   == {j \in Places : ~cache[j].pinned}

AlwaysRoom == TRUE                                                 \* mutant
HasRoom == curcache < MaxCache \/ Victims = {}

Victim  == CHOOSE j \in Victims : \A k \in Victims : j <= k
Evicts  == ~HasRoom
Flushes == Evicts /\ cache[Victim].dirty

(* The file once a buffer has been found.                                  *)
FileNow == IF Flushes THEN Written(file, cache[Victim]) ELSE file

(* The buffer is given a page and goes to the tail of the lru chain.       *)
Assign(b) ==
  /\ file' = FileNow
  /\ cache' = Append(IF Evicts THEN Without(cache, Victim) ELSE cache, b)
  /\ curcache' = IF Evicts THEN curcache ELSE curcache + 1

Room == Cardinality(held) < MaxHeld

(* mpool_new(): the caller fills the page, whatever the buffer held.       *)
New ==
  /\ stage = "open"
  /\ Room
  /\ npages < MaxPages
  /\ \E c \in Contents :
       /\ Assign([pgno |-> npages, data |-> InMemory(c), dirty |-> FALSE, pinned |-> TRUE])
       /\ latest' = [q \in 0 .. npages |-> IF q = npages THEN c ELSE latest[q]]
  /\ npages' = npages + 1
  /\ held' = held \cup {npages}
  /\ touched' = touched \cup {npages}
  /\ UNCHANGED <<stage, ended, harm>>

(* mpool_get(), of a page in the cache: to the tail of the lru chain.      *)
Hit(p) ==
  /\ stage = "open"
  /\ Room
  /\ p \notin held                                  \* "page %d already pinned"
  /\ Cached(p)
  /\ LET j == PlaceOf(p)
     IN  cache' = Append(Without(cache, j), [cache[j] EXCEPT !.pinned = TRUE])
  /\ held' = held \cup {p}
  /\ UNCHANGED <<file, stage, curcache, npages, touched, latest, ended, harm>>

(* mpool_get(), of another page: it is read, after the buffer was flushed. *)
Miss(p) ==
  /\ stage = "open"
  /\ Room
  /\ p \in 0 .. npages - 1
  /\ ~Cached(p)
  /\ p < Len(FileNow)                                      \* no short read
  /\ Assign([pgno |-> p, data |-> Convert(FileNow[p + 1]), dirty |-> FALSE, pinned |-> TRUE])
  /\ held' = held \cup {p}
  /\ UNCHANGED <<stage, npages, touched, latest, ended, harm>>

(* The B-tree changes a page it holds, in place.                           *)
Change(p) ==
  /\ stage = "open"
  /\ p \in held
  /\ \E c \in Contents :
       /\ cache' = [cache EXCEPT ![PlaceOf(p)].data.val = c]
       /\ latest' = [latest EXCEPT ![p] = c]
  /\ touched' = touched \cup {p}
  /\ UNCHANGED <<file, stage, curcache, npages, held, ended, harm>>

(* mpool_put(): with MPOOL_DIRTY if the page was changed; the mark of an   *)
(* earlier change stays.                                                   *)
OnlyThisTime(was, flag) == flag                                    \* mutant
Mark(was, flag) == was \/ flag

Put(p) ==
  /\ stage = "open"
  /\ p \in held
  /\ \E flag \in BOOLEAN :
       /\ p \in touched => flag
       /\ LET b == cache[PlaceOf(p)]
          IN  cache' = [cache EXCEPT ![PlaceOf(p)] =
                          [b EXCEPT !.pinned = FALSE, !.dirty = Mark(b.dirty, flag)]]
  /\ held' = held \ {p}
  /\ touched' = touched \ {p}
  /\ UNCHANGED <<file, stage, curcache, npages, latest, ended, harm>>

-----------------------------------------------------------------------------
(* Opening and closing.                                                    *)

OneTooMany == Len(file) + 1                         \* mutant
PagesOf    == Len(file)                    \* st_size / pagesize

(* dbop_open(), __bt_open(), mpool_open().  The byte order is that of the  *)
(* meta page, whatever the others are in.                                  *)
Open ==
  /\ stage = "closed"
  /\ stage' = "open"
  /\ npages' = PagesOf
  /\ latest' = [q \in 0 .. Len(file) - 1 |-> file[q + 1].val]
  /\ exit' = "none"
  /\ failed' = FALSE
  /\ spoiled' = {q \in 0 .. Len(file) - 1 : file[q + 1].foreign # NeedSwap}
  /\ UNCHANGED <<file, cache, curcache, held, touched, lost>>

End(e) ==
  /\ stage' = "closed"
  /\ cache' = <<>>
  /\ curcache' = 0
  /\ held' = {}
  /\ touched' = {}
  /\ exit' = e
  /\ lost' = 0
  /\ UNCHANGED <<npages, latest, spoiled>>

(* dbop_close(), __bt_close(), __bt_sync(), mpool_sync(): all pages are    *)
(* given back and the dirty ones are written in the order of the lru chain.*)
Close ==
  /\ stage = "open"
  /\ held = {}
  /\ stage' = "sync"
  /\ UNCHANGED <<file, pool, tree, ended, harm>>

Dirty == {j \in Places : cache[j].dirty}

Sync ==
  /\ stage = "sync"
  /\ \E j \in Dirty :
       /\ \A k \in Dirty : j <= k
       /\ file' = Written(file, cache[j])
       /\ cache' = [cache EXCEPT ![j] =
                       [cache[j] EXCEPT !.data = Convert(cache[j].data), !.dirty = FALSE]]
  /\ UNCHANGED <<stage, curcache, npages, tree, ended, harm>>

FirstOnly == 1 \notin Dirty                                        \* mutant
AllClean  == Dirty = {}

Closed ==
  /\ stage = "sync"
  /\ AllClean
  /\ End("success")
  /\ UNCHANGED <<file, failed>>

-----------------------------------------------------------------------------
(* Failures.                                                               *)

(* dbop_close() throws a failure away: that of a write of mpool_sync(), or *)
(* of bt_meta(), which takes a page.                                       *)
SyncFails ==
  /\ "write" \in Faults
  /\ stage = "sync"
  /\ Dirty # {}
  /\ failed' = TRUE
  /\ End("success")
  /\ UNCHANGED file

(* Of an error of a call of the B-tree dbop.c dies.                        *)
DieOrClose == End("error") \/ (held = {} /\ End("success"))

(* A page that could not be written keeps its buffer and its mark, but     *)
(* pgout has converted it.  The program may go on: bt_fast(), __bt_snext(),*)
(* __bt_sprev() and __bt_new() take no page for "not this way".            *)
FlushFails ==
  /\ "write" \in Faults
  /\ stage = "open"
  /\ Room
  /\ Flushes
  /\ failed' = TRUE
  /\ \/ DieOrClose
     \/ /\ cache' = [cache EXCEPT ![Victim] = [cache[Victim] EXCEPT !.data = Convert(cache[Victim].data)]]
        /\ spoiled' = IF NeedSwap THEN spoiled \cup {cache[Victim].pgno} ELSE spoiled
        /\ UNCHANGED <<stage, curcache, npages, tree, exit, lost>>
  /\ UNCHANGED file

(* A page that could not be read leaves a buffer that is on no list, and   *)
(* the program may go on in the same way.                                  *)
ReadFails ==
  /\ "read" \in Faults
  /\ stage = "open"
  /\ Room
  /\ \E p \in 0 .. npages - 1 : ~Cached(p)
  /\ file' = FileNow
  /\ failed' = TRUE
  /\ \/ DieOrClose
     \/ /\ lost < MaxLost
        /\ lost' = lost + 1
        /\ cache' = IF Evicts THEN Without(cache, Victim) ELSE cache
        /\ curcache' = IF Evicts THEN curcache ELSE curcache + 1
        /\ UNCHANGED <<stage, npages, tree, exit, spoiled>>

Crash ==
  /\ "crash" \in Faults
  /\ stage # "closed"
  /\ End("error")
  /\ UNCHANGED <<file, failed>>

Init ==
  /\ \E n \in 0 .. MaxPages : file \in [1 .. n -> {OnDisk(c) : c \in Contents}]
  /\ stage = "closed"
  /\ cache = <<>> /\ curcache = 0 /\ npages = 0
  /\ held = {} /\ touched = {} /\ latest = <<>>
  /\ exit = "none" /\ failed = FALSE
  /\ lost = 0 /\ spoiled = {}

Next ==
  \/ Open \/ New \/ Close \/ Sync \/ Closed
  \/ \E p \in 0 .. MaxPages - 1 : Hit(p) \/ Miss(p) \/ Change(p) \/ Put(p)
  \/ SyncFails \/ FlushFails \/ ReadFails \/ Crash

Spec == Init /\ [][Next]_vars

-----------------------------------------------------------------------------
(* Properties.                                                             *)

Pages == 0 .. npages - 1

(* Every variable holds a value of the kind its comment above names.       *)
TypeOK ==
  /\ file \in Seq(Image)
  /\ stage \in {"closed", "open", "sync"}
  /\ cache \in Seq(Buffer)
  /\ curcache \in Nat
  /\ npages \in Nat
  /\ held \subseteq Pages
  /\ touched \subseteq held
  /\ stage # "closed" => latest \in [Pages -> Values]
  /\ exit \in {"none", "success", "error"}
  /\ failed \in BOOLEAN
  /\ lost \in Nat
  /\ spoiled \subseteq Nat

(* No page is in two buffers, so no change can be made to one of two       *)
(* copies (mpool_look, mpool_get, mpool_new).                              *)
OneBuffer == \A j, k \in Places : cache[j].pgno = cache[k].pgno => j = k

(* A pointer the B-tree holds stays good: its page is in the cache, pinned,*)
(* whatever else was read or allocated since; and a page that nobody holds *)
(* can be evicted (mpool_bkt, mpool_put).                                  *)
HeldIsPinned == held = {cache[j].pgno : j \in {k \in Places : cache[k].pinned}}

Resident  == {cache[j].pgno : j \in Places}
OnFile(p) == p < Len(file) /\ (p \in spoiled \/ file[p + 1] = OnDisk(latest[p]))

(* The cache is transparent: what the B-tree finds in a page is what it    *)
(* put there last, in the byte order of the machine, and what is neither   *)
(* dirty nor being changed can be read again from the file.  When a page   *)
(* could not be written and its buffer was converted (mpool_bkt), that is  *)
(* lost for this page, but for no other.                                   *)
Transparent ==
  stage = "open" =>
    /\ \A j \in Places :
         /\ cache[j].pgno \in spoiled \/ cache[j].data = InMemory(latest[cache[j].pgno])
         /\ cache[j].dirty \/ cache[j].pgno \in touched \/ OnFile(cache[j].pgno)
    /\ \A p \in Pages : p \in Resident \/ OnFile(p)

(* The cache grows beyond its limit only as far as pages are pinned at the *)
(* same time, and by one buffer for each read that failed (mpool_bkt,      *)
(* mpool_get).                                                             *)
CacheBound == curcache <= lost + (IF MaxHeld > MaxCache THEN MaxHeld ELSE MaxCache)

Saved == Len(file) = npages /\ \A p \in Pages : OnFile(p)

(* "Gtags exits with a non-0 value if an error occurred, 0 otherwise"      *)
(* (gtags/manual.in): success means that every page is in the file, with   *)
(* what was put there last, in the byte order of the file, unless a read or*)
(* write failed (mpool_sync, mpool_bkt).  A page may be changed, evicted   *)
(* and read again before the close.  Pages spoiled before are left out.    *)
SavedUnlessFailed == stage = "closed" /\ exit = "success" /\ ~failed => Saved

=============================================================================
