------------------------------- MODULE BTree -------------------------------
(***************************************************************************)
(* The B-tree that holds a tag file: global-6.2.12/libdb/bt_search.c,      *)
(* bt_put.c, bt_split.c, bt_delete.c, bt_seq.c, bt_get.c and bt_page.c.    *)
(* One process works on a tree and every call runs to its end, so a call   *)
(* is one action; the operators below are the functions it is made of.     *)
(*                                                                         *)
(* t is the BTREE structure with the pages of the file.  Slots of a page   *)
(* are counted from 1, page numbers are places in t.pages, and lengths are *)
(* in units: a record takes one or two, a page holds PageSize of them.     *)
(* User keys are even and an odd number is the shortened form of the key   *)
(* after it (__bt_defpfx).  Overflow pages are in no page of the tree and  *)
(* left out: a record that long is, here, one more short one.              *)
(***************************************************************************)
EXTENDS Integers, Sequences, FiniteSets, SequencesExt

CONSTANTS
  Keys,        (* keys of records, even numbers                            *)
  Big,         (* those whose records take two units                       *)
  MetaKey,     (* " __.VERSION": less than every key of Keys               *)
  PageSize,    (* units of a page                                          *)
  InnerSize,   (* units of an entry of an internal page                    *)
  MaxPuts,     (* bound of the records ever put                            *)
  GtagsUse     (* TRUE: the calls come in the orders in which dbop.c and   *)
               (* its callers make them; FALSE: in every order             *)

ASSUME KeysAssumption == \A k \in Keys : k % 2 = 0 /\ MetaKey \in 1 .. k - 1 /\ MetaKey % 2 = 0
ASSUME SizeAssumption == PageSize >= 4 /\ 2 * InnerSize <= PageSize
ASSUME UseAssumption  == GtagsUse \in BOOLEAN /\ MaxPuts \in Nat

VARIABLES
  t,           (* the tree                                                 *)
  ret,         (* what the last call returned                              *)
  puts,        (* records put so far; the number is the data of a record   *)
  scan,        (* a dbop_first() was made and no dbop_put() since          *)
  strayed,     (* history: a put split a page that __bt_search() reached   *)
               (* from the one beside it                                   *)
  view         (* the tree as its reader sees it, computed from t          *)

vars == <<t, ret, puts, scan, strayed, view>>

Root    == 1
Invalid == 0                   \* P_INVALID
EmptyKey == 0                  \* a key of no bytes
Special == <<>>                \* RET_SPECIAL
Hole    == <<-1, 0>>           \* a slot that was never filled

RecordSize(k) == IF k \in Big THEN 2 ELSE 1
ItemSize(h, x) == IF h.leaf THEN RecordSize(x[1]) ELSE InnerSize
Used(h) == FoldLeft(LAMBDA n, x : n + ItemSize(h, x), 0, h.items)
WithoutItsSlot(h, x) == Used(h) + ItemSize(h, x) - 1 <= PageSize      \* mutant
Fits(h, x) == Used(h) + ItemSize(h, x) <= PageSize

Page(b, pg) == b.pages[pg]
KeyAt(b, e) == Page(b, e.pg).items[e.ix][1]
Pos(pg, ix) == [pg |-> pg, ix |-> ix]
Nowhere     == Pos(Invalid, 0)

NoCursor  == [st |-> "none", pg |-> Invalid, ix |-> 0, key |-> EmptyKey]
BlankLeaf == [leaf |-> TRUE, prev |-> Invalid, next |-> Invalid, items |-> <<>>, gone |-> EmptyKey]

-----------------------------------------------------------------------------
(* Searching.                                                              *)

(* __bt_cmp(): the first key of a level is less than any key.              *)
Cmp(b, k, pg, i) ==
  IF i = 1 /\ Page(b, pg).prev = Invalid /\ ~Page(b, pg).leaf THEN 1
  ELSE k - KeyAt(b, Pos(pg, i))

(* The binary search in a page: the slot of a match, or the slot before    *)
(* which the key would go.                                                 *)
Probe(b, k, pg) ==
  LET n == Len(Page(b, pg).items)
      look[base \in 0 .. n, lim \in 0 .. n] ==
        IF lim = 0 THEN [hit |-> FALSE, ix |-> base + 1]
        ELSE LET i == base + lim \div 2
                 c == Cmp(b, k, pg, i + 1)
             IN  IF c = 0 THEN [hit |-> TRUE, ix |-> i + 1]
                 ELSE IF c > 0 THEN look[i + 1, (lim - 1) \div 2] ELSE look[base, lim \div 2]
  IN  look[0, n]

(* The entry of an internal page that leads to the key.                    *)
BranchBy(p) == IF p.hit \/ p.ix = 1 THEN p.ix ELSE p.ix - 1
Branch(b, k, pg) == BranchBy(Probe(b, k, pg))

(* Going down from the root to the leaf of a key; stack is bt_stack, the   *)
(* internal pages passed with the entry taken in each.  The empty key is   *)
(* less than any other and leads to the first leaf.                        *)
Down(b, k) ==
  LET way[d \in 0 .. Len(b.pages)] ==
        IF d = 0 THEN [pg |-> Root, stack |-> <<>>]
        ELSE LET s == way[d - 1] IN
             IF Page(b, s.pg).leaf THEN s
             ELSE LET i == Branch(b, k, s.pg)
                  IN  [pg |-> Page(b, s.pg).items[i][2], stack |-> Append(s.stack, Pos(s.pg, i))]
  IN  way[Len(b.pages)]

(* __bt_sprev() and __bt_snext(): in a tree with duplicates a match may be *)
(* the last record of the page before, or else the first of the page       *)
(* after, when the key would go to an end of the page.                     *)
NotBeside(b, k, pg, i) == Nowhere                                      \* mutant
Beside(b, k, pg, i) ==
  LET h     == Page(b, pg)
      left  == Pos(h.prev, IF h.prev = Invalid THEN 0 ELSE Len(Page(b, h.prev).items))
      right == Pos(h.next, 1)
      match(e) == e.pg # Invalid /\ KeyAt(b, e) = k
  IN  IF b.dups /\ i = 1 /\ match(left) THEN left
      ELSE IF b.dups /\ i = Len(h.items) + 1 /\ match(right) THEN right
      ELSE Nowhere

(* __bt_search(), of the leaf w that Down() came to.  The stack stays that *)
(* of the page searched.                                                   *)
SearchLeaf(b, k, w) ==
  LET p == Probe(b, k, w.pg)
      n == IF p.hit THEN Nowhere ELSE Beside(b, k, w.pg, p.ix)
      at(e, x) == [pg |-> e.pg, ix |-> e.ix, exact |-> x, stack |-> w.stack]
  IN  IF n # Nowhere THEN at(n, TRUE) ELSE at(Pos(w.pg, p.ix), p.hit)
Search(b, k) == SearchLeaf(b, k, Down(b, k))

Before(b, e) ==
  IF e.ix > 1 THEN Pos(e.pg, e.ix - 1)
  ELSE LET p == Page(b, e.pg).prev IN IF p = Invalid THEN Nowhere ELSE Pos(p, Len(Page(b, p).items))
After(b, e) ==
  IF e.ix < Len(Page(b, e.pg).items) THEN Pos(e.pg, e.ix + 1)
  ELSE LET p == Page(b, e.pg).next IN IF p = Invalid THEN Nowhere ELSE Pos(p, 1)

(* __bt_first(): the first record that is not less than the key, by what   *)
(* __bt_search() found.                                                    *)
FirstBy(b, k, s) ==
  LET back[n \in 0 .. puts + 1] ==
        IF n = 0 THEN Pos(s.pg, s.ix)
        ELSE LET e == back[n - 1]
                 p == Before(b, e)
             IN  IF p # Nowhere /\ KeyAt(b, p) = k THEN p ELSE e
  IN  IF s.exact THEN IF b.dups THEN back[puts + 1] ELSE Pos(s.pg, s.ix)
      ELSE IF s.ix <= Len(Page(b, s.pg).items) THEN Pos(s.pg, s.ix)
      ELSE After(b, Pos(s.pg, s.ix))
FirstFrom(b, k) == FirstBy(b, k, Search(b, k))
-----------------------------------------------------------------------------
(* Pages.                                                                  *)

(* __bt_free() and __bt_new().                                             *)
Free(b, pg) ==
  [b EXCEPT !.pages[pg].prev = Invalid, !.pages[pg].next = b.free, !.free = pg]
StillFree(b) ==                                                        \* mutant
  IF b.free # Invalid THEN [pg |-> b.free, b |-> b]
  ELSE [pg |-> Len(b.pages) + 1, b |-> [b EXCEPT !.pages = Append(@, BlankLeaf)]]
New(b) ==
  IF b.free # Invalid
  THEN [pg |-> b.free, b |-> [b EXCEPT !.free = Page(b, b.free).next]]
  ELSE [pg |-> Len(b.pages) + 1, b |-> [b EXCEPT !.pages = Append(@, BlankLeaf)]]

(* __bt_relink(): the level closes over a page.                            *)
OneWay(b, pg) ==                                                       \* mutant
  IF Page(b, pg).prev = Invalid THEN b
  ELSE [b EXCEPT !.pages[Page(b, pg).prev].next = Page(b, pg).next]
Relink(b, pg) ==
  LET h == Page(b, pg) IN
  [b EXCEPT !.pages =
     [q \in 1 .. Len(b.pages) |->
        [b.pages[q] EXCEPT
           !.prev = IF q = h.next THEN h.prev ELSE @,
           !.next = IF q = h.prev THEN h.next ELSE @]]]
-----------------------------------------------------------------------------
(* Deleting.                                                               *)

(* __bt_curdel(): the cursor goes to a neighbour with the same key, the    *)
(* one before first, or keeps the key it was on.                           *)
CursorDelete(b, e) ==
  LET k == KeyAt(b, e)
      same(x) == x # Nowhere /\ KeyAt(b, x) = k
      to(st, x) == [b EXCEPT !.cursor = [st |-> st, pg |-> x.pg, ix |-> x.ix, key |-> EmptyKey]]
      p == Before(b, e)
      n == After(b, e)
      inside(x) == same(x) /\ x.pg = e.pg
  IN  IF b.dups /\ (inside(p) \/ (same(p) /\ ~inside(n))) THEN to("before", p)
      ELSE IF b.dups /\ same(n) THEN to("after", n)
      ELSE [b EXCEPT !.cursor = [st |-> "acquire", pg |-> Invalid, ix |-> 0, key |-> k]]

OnPage(c, pg) == c.st \notin {"none", "acquire"} /\ c.pg = pg

(* The records after a deleted one move up, and the cursor with them.      *)
LeftBehind(b, e) == b                                                  \* mutant
Shifted(b, e) ==
  IF OnPage(b.cursor, e.pg) /\ b.cursor.ix > e.ix THEN [b EXCEPT !.cursor.ix = @ - 1] ELSE b

(* __bt_dleaf(): one record leaves its page.                               *)
DeleteLeaf(b, e) ==
  LET c == IF OnPage(b.cursor, e.pg) /\ b.cursor.ix = e.ix THEN CursorDelete(b, e) ELSE b
      d == [c EXCEPT !.pages[e.pg].items = RemoveAt(@, e.ix),
                     !.pages[e.pg].gone = IF Len(Page(b, e.pg).items) = 1 /\ e.pg # Root THEN KeyAt(b, e) ELSE @]
  IN  Shifted(d, e)

(* __bt_pdelete(): an empty page leaves the tree, and every parent that    *)
(* has no other entry with it; the root becomes an empty leaf.             *)
DeletePage(b, stack, pg) ==
  LET drop(x, q) == Free(Relink(x, q), q)
      up[n \in 0 .. Len(stack)] ==
        IF n = 0 THEN [b |-> b, more |-> TRUE]
        ELSE LET s == up[n - 1]
                 e == stack[Len(stack) + 1 - n]
             IN  IF ~s.more THEN s
                 ELSE IF Len(Page(s.b, e.pg).items) > 1
                 THEN [b |-> [s.b EXCEPT !.pages[e.pg].items = RemoveAt(@, e.ix)], more |-> FALSE]
                 ELSE IF e.pg = Root
                 THEN [b |-> [s.b EXCEPT !.pages[Root].items = <<>>, !.pages[Root].leaf = TRUE],
                       more |-> FALSE]
                 ELSE [b |-> drop([s.b EXCEPT !.pages[e.pg].items = <<>>], e.pg), more |-> TRUE]
      c == up[Len(stack)].b
  IN  IF pg = Root THEN c ELSE drop(c, pg)

(* __bt_stkacq(): the stack of the page of the cursor.  The cursor's key   *)
(* is empty unless its record was deleted, so that the search ends in the  *)
(* first leaf; then the page is looked for to the right.                   *)
NextStack(b, stack) ==
  LET open == {j \in 1 .. Len(stack) : stack[j].ix < Len(Page(b, stack[j].pg).items)}
      j == CHOOSE x \in open : \A y \in open : y <= x
      child(e) == Page(b, e.pg).items[e.ix][2]
      turn == Append(SubSeq(stack, 1, j - 1), Pos(stack[j].pg, stack[j].ix + 1))
  IN  FoldLeft(LAMBDA s, x : Append(s, Pos(child(Last(s)), 1)), turn,
               SubSeq(stack, j + 1, Len(stack)))
StackOfCursor(b) ==
  LET s == Search(b, b.cursor.key)
      go[n \in 0 .. Len(b.pages)] ==
        IF n = 0 THEN [pg |-> s.pg, stack |-> s.stack]
        ELSE LET x == go[n - 1] IN
             IF x.pg = b.cursor.pg \/ Page(b, x.pg).next = Invalid THEN x
             ELSE [pg |-> Page(b, x.pg).next, stack |-> NextStack(b, x.stack)]
  IN  go[Len(b.pages)].stack

(* __bt_delete() of the record under the cursor.                           *)
DeleteAtCursor(b) ==
  LET e == Pos(b.cursor.pg, b.cursor.ix)
      d == DeleteLeaf(b, e)
  IN  IF Len(Page(b, e.pg).items) = 1 THEN DeletePage(d, StackOfCursor(b), e.pg) ELSE d

(* One turn of the loop of __bt_bdelete(): the matches from the one found  *)
(* to the right, then those to its left on the page.                       *)
DeleteMatches(b, k, s) ==
  LET items == Page(b, s.pg).items
      same(i) == items[i][1] = k
      right == Cardinality({i \in s.ix .. Len(items) : \A x \in s.ix .. i : same(x)})
      left  == Cardinality({i \in 1 .. s.ix - 1 : \A x \in i .. s.ix - 1 : same(x)})
      r == FoldLeft(LAMBDA x, i : DeleteLeaf(x, Pos(s.pg, s.ix)), b, [i \in 1 .. right |-> i])
      d == FoldLeft(LAMBDA x, i : DeleteLeaf(x, Pos(s.pg, s.ix - i)), r, [i \in 1 .. left |-> i])
      empty == Page(d, s.pg).items = <<>>
  IN  IF ~b.dups
      THEN LET o == DeleteLeaf(b, Pos(s.pg, s.ix))
           IN  [b |-> IF Page(o, s.pg).items = <<>> THEN DeletePage(o, s.stack, s.pg) ELSE o,
                again |-> FALSE]
      ELSE [b |-> IF empty THEN DeletePage(d, s.stack, s.pg) ELSE d,
            again |-> empty \/ s.ix + right = Len(items) + 1 \/ (left > 0 /\ left = s.ix - 1)]

DeleteByKey(b, k) ==
  LET loop[n \in 0 .. puts + 1] ==
        IF n = 0 THEN [b |-> b, again |-> TRUE]
        ELSE LET x == loop[n - 1]
             IN  IF x.again /\ Search(x.b, k).exact THEN DeleteMatches(x.b, k, Search(x.b, k)) ELSE x
  IN  loop[puts + 1].b
-----------------------------------------------------------------------------
(* Splitting.                                                              *)

(* __bt_defpfx(): the shortest key that tells k from the one before it.    *)
Shortened(before, k) == IF before = k THEN k ELSE k - 1

(* bt_psplit(): how many slots of the page, the new one included, go to    *)
(* the left.  used is what they take up so far.                            *)
LeftSlots(h, skip, x) ==
  LET all  == InsertAt(h.items, skip, x)
      size(i) == ItemSize(h, all[i])
      old(i) == IF i > skip THEN i - 1 ELSE i          \* nxt, of slot i
      fill[i \in 1 .. Len(all), used \in 0 .. 2 * PageSize] ==
        IF (skip <= i /\ used + size(i) >= PageSize) \/ old(i) = Len(h.items) THEN i - 1
        ELSE IF 2 * (used + size(i)) >= PageSize THEN i ELSE fill[i + 1, used + size(i)]
  IN  fill[1, 0]

(* bt_psplit(): the slots of the two pages.  When the new slot is alone on *)
(* the left, the test for the slot to skip (skip = nxt = 0) holds on the   *)
(* right page too and leaves its first slot unfilled.                      *)
Halves(h, skip, x) ==
  LET all == InsertAt(h.items, skip, x)
      n   == LeftSlots(h, skip, x)
      right == SubSeq(all, n + 1, Len(all))
  IN  [left |-> SubSeq(all, 1, n), right |-> IF skip = 1 /\ n = 1 THEN <<Hole>> \o right ELSE right]

(* bt_psplit(): the cursor of the page that was split.  nxt is the number  *)
(* of old slots on the left page.                                          *)
SplitCursor(c, h, pg, l, r, skip, x) ==
  LET n   == LeftSlots(h, skip, x)
      nxt == IF skip <= n THEN n - 1 ELSE n
      i   == IF c.ix >= skip THEN c.ix + 1 ELSE c.ix
  IN  IF ~OnPage(c, pg) THEN c
      ELSE IF i <= nxt THEN [c EXCEPT !.pg = l, !.ix = i] ELSE [c EXCEPT !.pg = r, !.ix = i - nxt]

(* bt_page(): a page but the root.  An entry that goes after the last one  *)
(* of a level gets a page of its own.                                      *)
SplitPage(b, pg, skip, x) ==
  LET h == Page(b, pg)
      n == New(b)
      r == n.pg
      halves == Halves(h, skip, x)
      page(prev, next, items) == [leaf |-> h.leaf, prev |-> prev, next |-> next, items |-> items,
                                  gone |-> EmptyKey]
      append == h.next = Invalid /\ skip = Len(h.items) + 1
      pages  == [n.b.pages EXCEPT
                   ![r]  = page(pg, h.next, IF append THEN <<x>> ELSE halves.right),
                   ![pg] = page(h.prev, r, IF append THEN h.items ELSE halves.left)]
  IN  [l |-> pg, r |-> r,
       b |-> [n.b EXCEPT
                !.pages = [q \in 1 .. Len(pages) |->
                             IF q = h.next THEN [pages[q] EXCEPT !.prev = r] ELSE pages[q]],
                !.cursor = IF append THEN @ ELSE SplitCursor(@, h, pg, pg, r, skip, x)]]

(* bt_root() and bt_broot(): the root gets two new pages under it.         *)
SplitRoot(b, skip, x) ==
  LET h == Page(b, Root)
      n == New(b)
      m == New(n.b)
      halves == Halves(h, skip, x)
      page(prev, next, items) == [leaf |-> h.leaf, prev |-> prev, next |-> next, items |-> items,
                                  gone |-> EmptyKey]
      root == [h EXCEPT !.leaf = FALSE, !.items = <<<<EmptyKey, n.pg>>, <<halves.right[1][1], m.pg>>>>]
  IN  [l |-> n.pg, r |-> m.pg,
       b |-> [m.b EXCEPT
                !.pages = [@ EXCEPT ![n.pg] = page(Invalid, m.pg, halves.left),
                                    ![m.pg] = page(n.pg, Invalid, halves.right),
                                    ![Root] = root],
                !.cursor = SplitCursor(@, h, Root, n.pg, m.pg, skip, x)]]

SplitAt(b, e, x) == IF e.pg = Root THEN SplitRoot(b, e.ix, x) ELSE SplitPage(b, e.pg, e.ix, x)

(* The entry of a new right page in its parent.  The key is shortened for  *)
(* a leaf, but not the one next to the first entry of a level.             *)
EntryFor(b, l, r, h, skip) ==
  LET k == KeyAt(b, Pos(r, 1)) IN
  <<IF Page(b, r).leaf /\ (h.prev # Invalid \/ skip > 2)
    THEN Shortened(Last(Page(b, l).items)[1], k) ELSE k, r>>

(* __bt_split(): the page is split, then its parents as far as needed.     *)
Split(b, stack, e, x) ==
  LET s0 == SplitAt(b, e, x)
      up[n \in 0 .. Len(stack)] ==
        IF n = 0 THEN [b |-> s0.b, l |-> s0.l, r |-> s0.r, more |-> TRUE]
        ELSE LET s == up[n - 1]
                 p == stack[Len(stack) + 1 - n]
                 h == Page(s.b, p.pg)
                 y == EntryFor(s.b, s.l, s.r, h, p.ix + 1)
                 z == SplitAt(s.b, Pos(p.pg, p.ix + 1), y)
             IN  IF ~s.more THEN s
                 ELSE IF Fits(h, y)
                 THEN [s EXCEPT !.b.pages[p.pg].items = InsertAt(@, p.ix + 1, y), !.more = FALSE]
                 ELSE [b |-> z.b, l |-> z.l, r |-> z.r, more |-> TRUE]
  IN  up[Len(stack)].b
-----------------------------------------------------------------------------
(* Putting.                                                                *)

(* bt_fast(): the page of the last put, when that was at an end of the     *)
(* tree and the key goes there too.  On a page that was emptied since, the *)
(* first slot still points at the record it had.                           *)
Fast(b, k) ==
  LET h == Page(b, b.last.pg)
      n == Len(h.items)
      i == b.last.ix
      there == IF i <= n THEN h.items[i][1] ELSE h.gone
      forward == b.order = "FORWARD" /\ h.next = Invalid /\ i = n /\ k >= there
      back    == b.order = "BACK" /\ h.prev = Invalid /\ i = 1 /\ k <= there
  IN  [hit   |-> Used(h) + RecordSize(k) <= PageSize /\ (forward \/ back),
       pg    |-> b.last.pg,
       ix    |-> IF forward /\ k # there THEN i + 1 ELSE i,
       exact |-> k = there,
       stack |-> <<>>]

(* The place of a put: the one bt_fast() knows, or the one of a search.    *)
Place(b, k) == IF b.order # "NOT" /\ Fast(b, k).hit THEN Fast(b, k) ELSE Search(b, k)
Remember(b, k, s) ==
  IF b.order # "NOT" /\ Fast(b, k).hit THEN [b EXCEPT !.last.ix = s.ix]
  ELSE [b EXCEPT !.order = "NOT", !.last = Nowhere]

(* The record goes into a page that has room, or the page is split; a put  *)
(* at an end of the tree is remembered for the next.                       *)
Insert(d, s, x) ==
  LET h == [Page(d, s.pg) EXCEPT !.items = InsertAt(@, s.ix, x)]
      p == [d EXCEPT !.pages[s.pg] = h,
                     !.cursor.ix = IF OnPage(d.cursor, s.pg) /\ @ >= s.ix THEN @ + 1 ELSE @]
      order == IF h.next = Invalid
               THEN IF s.ix = Len(h.items) THEN "FORWARD" ELSE "NOT"
               ELSE IF h.prev = Invalid /\ s.ix = 1 THEN "BACK" ELSE "NOT"
  IN  IF ~Fits(Page(d, s.pg), x) THEN Split(d, s.stack, Pos(s.pg, s.ix), x)
      ELSE IF d.order = "NOT" /\ order # "NOT"
      THEN [p EXCEPT !.order = order, !.last = Pos(s.pg, s.ix)] ELSE p

(* __bt_put(): in a tree without duplicates the record takes the place of  *)
(* the one found.                                                          *)
PutAt(b, s, x) ==
  LET c == Remember(b, x[1], s)
  IN  Insert(IF s.exact /\ ~b.dups THEN DeleteLeaf(c, s) ELSE c, s, x)
PutRecord(b, k, v) == PutAt(b, Place(b, k), <<k, v>>)
-----------------------------------------------------------------------------
(* The tree as its reader sees it.                                         *)

(* The leaves from the left to the right, as nextpg links them.            *)
ChainOf(b) ==
  LET go[n \in 1 .. Len(b.pages)] ==
        IF n = 1 THEN <<Down(b, EmptyKey).pg>>
        ELSE LET s == go[n - 1]
                 q == Page(b, Last(s)).next
             IN  IF q = Invalid \/ Contains(s, q) THEN s ELSE Append(s, q)
  IN  go[Len(b.pages)]

RecordsOf(b) == FoldLeft(LAMBDA s, pg : s \o Page(b, pg).items, <<>>, ChainOf(b))

(* The place of a position among the records.                              *)
PlaceOf(b, e) ==
  LET chain == ChainOf(b)
      before == SubSeq(chain, 1, SelectInSeq(chain, LAMBDA pg : pg = e.pg) - 1)
  IN  e.ix + FoldLeft(LAMBDA n, pg : n + Len(Page(b, pg).items), 0, before)

(* The place of the cursor: on a record, or before the one to return next. *)
CursorOf(b) ==
  LET c == b.cursor
      e == Pos(c.pg, c.ix)
  IN  IF c.st = "acquire"
      THEN [at |-> 1 + Len(SelectSeq(RecordsOf(b), LAMBDA r : r[1] < c.key)), on |-> FALSE]
      ELSE [at |-> IF c.st = "before" THEN PlaceOf(b, e) + 1 ELSE PlaceOf(b, e), on |-> c.st = "on"]

ViewOf(b, scanning) ==
  [recs |-> RecordsOf(b), cur |-> IF scanning THEN CursorOf(b) ELSE [at |-> 0, on |-> FALSE]]

-----------------------------------------------------------------------------
(* The calls.                                                              *)

SetCursor(b, e) == [b EXCEPT !.cursor = [st |-> "on", pg |-> e.pg, ix |-> e.ix, key |-> EmptyKey]]

(* __bt_seq() has found position e, or nothing.                            *)
Return(e) ==
  /\ IF e = Nowhere
     THEN ret' = Special /\ UNCHANGED <<t, scan>>
     ELSE /\ ret' = Page(t, e.pg).items[e.ix]
          /\ t' = SetCursor(t, e)
          /\ scan' = TRUE
  /\ UNCHANGED <<puts, strayed>>

FirstRecord(b) ==
  LET w == Down(b, EmptyKey)
  IN  IF Page(b, w.pg).items = <<>> THEN Nowhere ELSE Pos(w.pg, 1)

(* The put of a key splits a page with the stack of another.               *)
Strays(b, k) ==
  LET s == Search(b, k)
  IN  /\ ~(b.order # "NOT" /\ Fast(b, k).hit)
      /\ s.pg # Down(b, k).pg
      /\ ~Fits(Page(b, s.pg), <<k, 0>>)

(* __bt_put(), by dbop_put() and dbop_update().                            *)
Put ==
  /\ puts < MaxPuts
  /\ \E k \in Keys \cup (IF GtagsUse /\ ~t.dups THEN {MetaKey} ELSE {}) :
       /\ t' = PutRecord(t, k, puts + 1)
       /\ strayed' = (strayed \/ Strays(t, k))
  /\ puts' = puts + 1
  /\ ret' = Special
  /\ scan' = (scan /\ ~GtagsUse)

(* __bt_seq() with R_FIRST, with R_CURSOR (dbop_first()), and with R_NEXT  *)
(* (dbop_next()).                                                          *)
First == Return(FirstRecord(t))
Seek  == \E k \in Keys : Return(FirstFrom(t, k))
NextRecord ==
  /\ GtagsUse => scan
  /\ LET c == t.cursor
         e == Pos(c.pg, c.ix)
     IN  Return(IF c.st = "none" THEN FirstRecord(t)
                ELSE IF c.st = "acquire" THEN FirstFrom(t, c.key)
                ELSE IF c.st = "after" THEN e ELSE After(t, e))

(* __bt_delete() with R_CURSOR: dbop_delete() without a path.  It does     *)
(* nothing unless the cursor is on a record.  gtags makes it after a read  *)
(* that returned a record, and a read skips the version.                   *)
DeleteCurrent ==
  /\ GtagsUse => scan /\ ret # Special /\ ret[1] # MetaKey
  /\ t.cursor.st = "on"
  /\ t' = DeleteAtCursor(t)
  /\ ret' = Special
  /\ UNCHANGED <<puts, scan, strayed>>

(* __bt_delete() of a key: dbop_delete() with a path, for GPATH only, and  *)
(* GPATH has no duplicates.                                                *)
DeleteKey ==
  /\ GtagsUse => ~t.dups
  /\ \E k \in Keys : t' = DeleteByKey(t, k)
  /\ ret' = Special
  /\ UNCHANGED <<puts, scan, strayed>>

(* dbop_close() and dbop_open(): the pages are all that is left.           *)
Reopen ==
  /\ t' = [t EXCEPT !.cursor = NoCursor, !.order = "NOT", !.last = Nowhere]
  /\ ret' = Special
  /\ scan' = FALSE
  /\ UNCHANGED <<puts, strayed>>

(* dbopen() of a new file; dbop_putversion() puts the first record.        *)
Empty(d) ==
  [dups |-> d, pages |-> <<BlankLeaf>>, free |-> Invalid, cursor |-> NoCursor,
   order |-> "NOT", last |-> Nowhere]
Init ==
  /\ puts = 0
  /\ \E d \in BOOLEAN : t = IF GtagsUse THEN PutRecord(Empty(d), MetaKey, 0) ELSE Empty(d)
  /\ ret = Special
  /\ scan = FALSE /\ strayed = FALSE
  /\ view = ViewOf(t, scan)

Next ==
  /\ Put \/ First \/ Seek \/ NextRecord \/ DeleteCurrent \/ DeleteKey \/ Reopen
  /\ view' = ViewOf(t', scan')

Spec == Init /\ [][Next]_vars
-----------------------------------------------------------------------------
(* Properties.                                                             *)

Pages == 1 .. Len(t.pages)
NullPage == {Invalid}

TypeOK ==
  /\ t.dups \in BOOLEAN
  /\ \A pg \in Pages : LET h == Page(t, pg) IN
       /\ h.leaf \in BOOLEAN
       /\ {h.prev, h.next} \subseteq Pages \cup NullPage
       /\ Used(h) <= PageSize
       /\ \A i \in 1 .. Len(h.items) :
            IF h.leaf THEN h.items[i] \in (Keys \cup {MetaKey}) \X (0 .. MaxPuts)
                      ELSE h.items[i] \in Nat \X Pages
  /\ t.free \in Pages \cup NullPage
  /\ t.cursor.st \in {"none", "on", "after", "before", "acquire"}
  /\ t.order \in {"NOT", "FORWARD", "BACK"}
  /\ ret = Special \/ ret \in (Keys \cup {MetaKey}) \X (0 .. MaxPuts)
  /\ puts \in 0 .. MaxPuts
  /\ {scan, strayed} \subseteq BOOLEAN

Store == INSTANCE OrderedStore WITH
           Keys <- Keys \cup {MetaKey}, Vals <- 0 .. MaxPuts,
           dups <- t.dups, recs <- view.recs, cur <- view.cur, ret <- ret

(* For its callers the tree is an ordered list of records with a cursor:   *)
(* whatever pages a call empties, frees, takes again or splits, a put adds *)
(* one record at its place, a walk returns every record once and in order, *)
(* also while the records it returns are deleted (gtags_delete()), and a   *)
(* deletion takes away the records it names and no other: up to and with   *)
(* the first put that splits a page which __bt_search() reached from the   *)
(* one beside it (bt_search.c:108).                                        *)
IsOrderedStore == Store!Init /\ [][strayed \/ Store!Next]_(Store!vars)

(* The entries of a page and of the pages under it, from the left.         *)
LeavesUnder ==
  LET kids(pg) == LET h == Page(t, pg) IN
                  IF h.leaf THEN <<pg>> ELSE [i \in 1 .. Len(h.items) |-> h.items[i][2]]
      level[n \in 0 .. Len(t.pages)] ==
        IF n = 0 THEN <<Root>>
        ELSE LET s == level[n - 1] IN FlattenSeq([i \in 1 .. Len(s) |-> kids(s[i])])
  IN  level[Len(t.pages)]

(* The two ways over the records agree: the leaves that the internal pages *)
(* lead to are the ones that nextpg links, in the same order, prevpg is    *)
(* the way back, and no leaf is empty but a root.  Only a put that splits  *)
(* the page beside the one it searched makes them differ.                  *)
ChainIsTree ==
  LET chain == ChainOf(t) IN
  ~strayed =>
  /\ LeavesUnder = chain
  /\ \A i \in 1 .. Len(chain) :
       /\ Page(t, chain[i]).prev = (IF i = 1 THEN Invalid ELSE chain[i - 1])
       /\ Page(t, chain[i]).items = <<>> => chain[i] = Root

(* No record is lost for dbop_get(): __bt_search() finds one of its key,   *)
(* whatever keys the internal pages have kept, and __bt_first() the first, *)
(* as long as the tree has not strayed.                                    *)
SearchFinds ==
  ~strayed => \A i \in 1 .. Len(view.recs) : LET k == view.recs[i][1] IN
    /\ Search(t, k).exact
    /\ PlaceOf(t, FirstFrom(t, k)) <= i

(* Every page of the file is in the tree or on the free list, and no page  *)
(* is in both or in one of them twice, as long as the tree has not strayed.*)
Parents == {pg \in Pages : ~Page(t, pg).leaf}
FreePages ==
  LET go[n \in 0 .. Len(t.pages)] ==
        IF n = 0 THEN IF t.free = Invalid THEN <<>> ELSE <<t.free>>
        ELSE LET s == go[n - 1] IN
             IF s = <<>> \/ Page(t, Last(s)).next = Invalid THEN s ELSE Append(s, Page(t, Last(s)).next)
  IN  go[Len(t.pages)]
Linked == [pg \in Pages |->
             Cardinality({e \in Pages \X (1 .. PageSize) :
                /\ ~Contains(FreePages, e[1])
                /\ ~Page(t, e[1]).leaf
                /\ e[2] <= Len(Page(t, e[1]).items)
                /\ Page(t, e[1]).items[e[2]][2] = pg})]
PagesAccounted ==
  ~strayed => \A pg \in Pages :
    Linked[pg] + Cardinality({i \in 1 .. Len(FreePages) : FreePages[i] = pg}) = (IF pg = Root THEN 0 ELSE 1)

=============================================================================
