---------------------------- MODULE Mpool_proofs ----------------------------
(***************************************************************************)
(* The theorems about Mpool.  Every property of its run holds for every    *)
(* size of the cache and of the file, every set of contents, in both byte  *)
(* orders, and whatever fails: the invariant Inv below is inductive.       *)
(***************************************************************************)
EXTENDS Mpool, FunctionTheorems, FiniteSetTheorems, NaturalsInduction, WellFoundedInduction, TLAPS

(* Buffers are allocated for the pages of the file, one each, or lost, and *)
(* a closed file has none.                                                 *)
Chain ==
  /\ Resident \subseteq Pages
  /\ curcache = Len(cache) + lost
  /\ stage = "closed" => cache = <<>> /\ held = {} /\ lost = 0
  /\ stage = "sync" => held = {}

(* Where the last word of the B-tree on a page is: in the buffer, if it is *)
(* dirty or being changed, else in the file.  Of a page that was converted *)
(* and not written nobody knows.                                           *)
Fresh(b) == b.pgno \in spoiled \/ b.data = InMemory(latest[b.pgno])
Buffered(b) == b.dirty \/ b.pgno \in touched

BuffersGood ==
  \A j \in Places :
    /\ stage = "open" \/ cache[j].dirty => Fresh(cache[j])
    /\ Buffered(cache[j]) \/ OnFile(cache[j].pgno)

OthersOnFile == \A p \in Pages : p \in Resident \/ OnFile(p)

Data ==
  stage # "closed" =>
    /\ BuffersGood
    /\ OthersOnFile
    /\ Len(file) <= npages
    /\ exit = "none"

Inv ==
  /\ TypeOK
  /\ OneBuffer
  /\ HeldIsPinned
  /\ Chain
  /\ Data
  /\ SavedUnlessFailed

-----------------------------------------------------------------------------
(* The lru chain t is s without the places out, and then b.                *)
Moved(s, t, out, b) ==
  /\ t \in Seq(Buffer)
  /\ Len(t) \in Nat \ {0}
  /\ t[Len(t)] = b
  /\ \E old \in [1 .. Len(t) - 1 -> (1 .. Len(s)) \ out] :
       /\ \A j \in 1 .. Len(t) - 1 : t[j] = s[old[j]]
       /\ \A i, j \in 1 .. Len(t) - 1 : old[i] = old[j] => i = j
       /\ \A q \in (1 .. Len(s)) \ out : \E j \in 1 .. Len(t) - 1 : old[j] = q

LEMMA MovedToTail ==
  ASSUME NEW s \in Seq(Buffer), NEW b \in Buffer, NEW k \in 1 .. Len(s)
  PROVE  /\ Moved(s, Append(Without(s, k), b), {k}, b)
         /\ Len(Append(Without(s, k), b)) = Len(s)
<1> DEFINE w == Without(s, k)
           t == Append(w, b)
           old == [j \in 1 .. Len(s) - 1 |-> IF j < k THEN j ELSE j + 1]
<1>1. Len(s) \in Nat \ {0} /\ k \in Nat
  OBVIOUS
<1>2. w \in Seq(Buffer) /\ Len(w) = Len(s) - 1
  BY <1>1 DEF Without
<1>3. /\ t \in Seq(Buffer)
      /\ Len(t) = Len(s)
      /\ t[Len(t)] = b
      /\ \A j \in 1 .. Len(t) - 1 : t[j] = w[j]
  BY <1>1, <1>2
<1>4. \A j \in 1 .. Len(t) - 1 : t[j] = s[old[j]]
  BY <1>1, <1>3 DEF Without
<1>5. old \in [1 .. Len(t) - 1 -> (1 .. Len(s)) \ {k}]
  BY <1>1, <1>3
<1>6. \A i, j \in 1 .. Len(t) - 1 : old[i] = old[j] => i = j
  BY <1>1, <1>3
<1>7. ASSUME NEW q \in (1 .. Len(s)) \ {k}
      PROVE  \E j \in 1 .. Len(t) - 1 : old[j] = q
  <2>1. CASE q < k
    BY <2>1, <1>1, <1>3
  <2>2. CASE q > k
    <3>1. q - 1 \in 1 .. Len(t) - 1 /\ old[q - 1] = q
      BY <2>2, <1>1, <1>3
    <3> QED BY <3>1
  <2>3. q < k \/ q > k
    BY <1>1
  <2> QED BY <2>1, <2>2, <2>3
<1>8. Len(t) \in Nat \ {0}
  BY <1>1, <1>3
<1> HIDE DEF old, t, w
<1>9. Moved(s, t, {k}, b)
  BY <1>3, <1>4, <1>5, <1>6, <1>7, <1>8 DEF Moved
<1> QED BY <1>9, <1>3 DEF t, w

LEMMA AddedAtTail ==
  ASSUME NEW s \in Seq(Buffer), NEW b \in Buffer
  PROVE  /\ Moved(s, Append(s, b), {}, b)
         /\ Len(Append(s, b)) = Len(s) + 1
<1> DEFINE t == Append(s, b)
           old == [j \in 1 .. Len(s) |-> j]
<1>1. Len(s) \in Nat
  OBVIOUS
<1>2. /\ t \in Seq(Buffer)
      /\ Len(t) = Len(s) + 1
      /\ t[Len(t)] = b
      /\ \A j \in 1 .. Len(t) - 1 : t[j] = s[old[j]]
  BY <1>1
<1>3. /\ old \in [1 .. Len(t) - 1 -> (1 .. Len(s)) \ {}]
      /\ \A i, j \in 1 .. Len(t) - 1 : old[i] = old[j] => i = j
      /\ \A q \in (1 .. Len(s)) \ {} : \E j \in 1 .. Len(t) - 1 : old[j] = q
  BY <1>1, <1>2
<1>4. Len(t) \in Nat \ {0}
  BY <1>1, <1>2
<1> HIDE DEF old, t
<1>5. Moved(s, t, {}, b)
  BY <1>2, <1>3, <1>4 DEF Moved
<1> QED BY <1>5, <1>2 DEF t

(* What t holds.                                                           *)
LEMMA MovedElements ==
  ASSUME NEW s \in Seq(Buffer), NEW t, NEW b, NEW out, Moved(s, t, out, b)
  PROVE  /\ t \in Seq(Buffer)
         /\ \E j \in 1 .. Len(t) : t[j] = b
         /\ \A j \in 1 .. Len(t) : t[j] = b \/ \E q \in (1 .. Len(s)) \ out : t[j] = s[q]
         /\ \A q \in (1 .. Len(s)) \ out : \E j \in 1 .. Len(t) : t[j] = s[q]
<1>1. PICK old \in [1 .. Len(t) - 1 -> (1 .. Len(s)) \ out] :
        /\ \A j \in 1 .. Len(t) - 1 : t[j] = s[old[j]]
        /\ \A q \in (1 .. Len(s)) \ out : \E j \in 1 .. Len(t) - 1 : old[j] = q
  BY DEF Moved
<1>2. t \in Seq(Buffer) /\ Len(t) \in Nat \ {0} /\ t[Len(t)] = b
  BY DEF Moved
<1>3. Len(t) \in 1 .. Len(t) /\ 1 .. Len(t) = (1 .. Len(t) - 1) \cup {Len(t)}
  BY <1>2
<1>4. \E j \in 1 .. Len(t) : t[j] = b
  BY <1>2, <1>3
<1>5. ASSUME NEW j \in 1 .. Len(t)
      PROVE  t[j] = b \/ \E q \in (1 .. Len(s)) \ out : t[j] = s[q]
  <2>1. CASE j = Len(t)
    BY <2>1, <1>2
  <2>2. CASE j \in 1 .. Len(t) - 1
    <3>1. old[j] \in (1 .. Len(s)) \ out /\ t[j] = s[old[j]]
      BY <2>2, <1>1
    <3> QED BY <3>1
  <2> QED BY <2>1, <2>2, <1>3
<1>6. ASSUME NEW q \in (1 .. Len(s)) \ out
      PROVE  \E j \in 1 .. Len(t) : t[j] = s[q]
  <2>1. PICK j \in 1 .. Len(t) - 1 : old[j] = q
    BY <1>1
  <2>2. j \in 1 .. Len(t) /\ t[j] = s[q]
    BY <2>1, <1>1, <1>3
  <2> QED BY <2>2
<1> QED BY <1>2, <1>4, <1>5, <1>6

(* A buffer for a page that no other buffer holds keeps one buffer for     *)
(* each page, and a pinned one keeps the pins right.                       *)
LEMMA MovedChain ==
  ASSUME NEW b, NEW out, cache \in Seq(Buffer), Moved(cache, cache', out, b),
         OneBuffer, HeldIsPinned, b.pinned, held' = held \cup {b.pgno},
         \A q \in Places \ out : cache[q].pgno # b.pgno,
         \A q \in out \cap Places : cache[q].pinned => cache[q].pgno = b.pgno
  PROVE  /\ OneBuffer'
         /\ HeldIsPinned'
         /\ Resident' = {cache[q].pgno : q \in Places \ out} \cup {b.pgno}
<1>1. /\ \E j \in Places' : cache'[j] = b
      /\ \A j \in Places' : cache'[j] = b \/ \E q \in Places \ out : cache'[j] = cache[q]
      /\ \A q \in Places \ out : \E j \in Places' : cache'[j] = cache[q]
  BY MovedElements DEF Places
<1>2. OneBuffer'
  <2>1. PICK old \in [1 .. Len(cache') - 1 -> Places \ out] :
          /\ \A j \in 1 .. Len(cache') - 1 : cache'[j] = cache[old[j]]
          /\ \A i, j \in 1 .. Len(cache') - 1 : old[i] = old[j] => i = j
    BY DEF Moved, Places
  <2>2. Len(cache') \in Nat \ {0} /\ cache'[Len(cache')] = b
    BY DEF Moved
  <2>3. Places' = (1 .. Len(cache') - 1) \cup {Len(cache')}
    BY <2>2 DEF Places
  <2>4. ASSUME NEW i \in 1 .. Len(cache') - 1
        PROVE  old[i] \in Places \ out /\ cache'[i] = cache[old[i]] /\ cache'[i].pgno # b.pgno
    BY <2>1
  <2>5. ASSUME NEW i \in Places', NEW j \in Places', cache'[i].pgno = cache'[j].pgno
        PROVE  i = j
    <3>1. CASE i = Len(cache') /\ j = Len(cache')
      BY <3>1
    <3>2. CASE i = Len(cache') /\ j \in 1 .. Len(cache') - 1
      BY <3>2, <2>2, <2>4, <2>5
    <3>3. CASE i \in 1 .. Len(cache') - 1 /\ j = Len(cache')
      BY <3>3, <2>2, <2>4, <2>5
    <3>4. CASE i \in 1 .. Len(cache') - 1 /\ j \in 1 .. Len(cache') - 1
      <4>1. old[i] \in Places /\ old[j] \in Places /\ cache[old[i]].pgno = cache[old[j]].pgno
        BY <3>4, <2>4, <2>5
      <4>2. old[i] = old[j]
        BY <4>1 DEF OneBuffer
      <4> QED BY <4>2, <3>4, <2>1
    <3> QED BY <3>1, <3>2, <3>3, <3>4, <2>3
  <2> QED BY <2>5 DEF OneBuffer
<1>3. Resident' = {cache[q].pgno : q \in Places \ out} \cup {b.pgno}
  <2>1. ASSUME NEW p \in Resident'
        PROVE  p \in {cache[q].pgno : q \in Places \ out} \cup {b.pgno}
    BY <1>1 DEF Resident
  <2>2. ASSUME NEW p \in {cache[q].pgno : q \in Places \ out} \cup {b.pgno}
        PROVE  p \in Resident'
    BY <1>1 DEF Resident
  <2> QED BY <2>1, <2>2
<1>4. HeldIsPinned'
  <2>1. ASSUME NEW p \in held'
        PROVE  p \in {cache'[j].pgno : j \in {k \in Places' : cache'[k].pinned}}
    <3>1. CASE p = b.pgno
      BY <3>1, <1>1
    <3>2. CASE p \in held /\ p # b.pgno
      <4>1. PICK q \in Places : cache[q].pinned /\ cache[q].pgno = p
        BY <3>2 DEF HeldIsPinned
      <4>2. q \in Places \ out
        BY <4>1, <3>2
      <4>3. PICK j \in Places' : cache'[j] = cache[q]
        BY <4>2, <1>1
      <4> QED BY <4>1, <4>3
    <3> QED BY <3>1, <3>2
  <2>2. ASSUME NEW j \in Places', cache'[j].pinned
        PROVE  cache'[j].pgno \in held'
    BY <2>2, <1>1 DEF HeldIsPinned
  <2> QED BY <2>1, <2>2 DEF HeldIsPinned
<1> QED BY <1>2, <1>3, <1>4

-----------------------------------------------------------------------------
(* Images of pages.                                                        *)

LEMMA Conversion ==
  /\ \A c : Convert(InMemory(c)) = OnDisk(c) /\ Convert(OnDisk(c)) = InMemory(c)
  /\ \A d \in Image : Convert(d) \in Image
  /\ \A c \in Values : InMemory(c) \in Image /\ OnDisk(c) \in Image
BY SwapAssumption DEF Convert, InMemory, OnDisk, Image

LEMMA WrittenFile ==
  ASSUME NEW f \in Seq(Image), NEW b \in Buffer
  PROVE  /\ Written(f, b) \in Seq(Image)
         /\ Len(f) <= Len(Written(f, b))
         /\ b.pgno < Len(Written(f, b))
         /\ Written(f, b)[b.pgno + 1] = Convert(b.data)
         /\ \A p \in Nat : p < Len(f) /\ p # b.pgno => Written(f, b)[p + 1] = f[p + 1]
         /\ \A n \in Nat : Len(f) <= n /\ b.pgno < n => Len(Written(f, b)) <= n
<1> DEFINE n == Extent(f, b.pgno)
<1>1. Len(f) \in Nat /\ b.pgno \in Nat /\ b.data \in Image
  BY DEF Buffer
<1>2. n \in Nat /\ Len(f) <= n /\ b.pgno < n /\ (n = Len(f) \/ n = b.pgno + 1)
  BY <1>1 DEF Extent
<1>3. OnDisk(Zero) \in Image /\ Convert(b.data) \in Image
  BY <1>1, Conversion DEF Values
<1> HIDE DEF n
<1>4. Written(f, b) = [q \in 1 .. n |->
        IF q = b.pgno + 1 THEN Convert(b.data) ELSE IF q <= Len(f) THEN f[q] ELSE OnDisk(Zero)]
  BY DEF Written, n
<1>5. \A q \in 1 .. n : q <= Len(f) => f[q] \in Image
  BY <1>1, <1>2
<1>6. Written(f, b) \in [1 .. n -> Image]
  BY <1>3, <1>4, <1>5
<1>7. Written(f, b) \in Seq(Image) /\ Len(Written(f, b)) = n
  BY <1>2, <1>6
<1>8. b.pgno + 1 \in 1 .. n /\ Written(f, b)[b.pgno + 1] = Convert(b.data)
  BY <1>1, <1>2, <1>4
<1>9. ASSUME NEW p \in Nat, p < Len(f), p # b.pgno
      PROVE  Written(f, b)[p + 1] = f[p + 1]
  BY <1>1, <1>2, <1>4, <1>9
<1> QED BY <1>1, <1>2, <1>7, <1>8, <1>9

(* What a page of the B-tree is once a buffer has been found.              *)
OnNow(p) == p < Len(FileNow) /\ (p \in spoiled \/ FileNow[p + 1] = OnDisk(latest[p]))

LEMMA VictimExists ==
  ASSUME cache \in Seq(Buffer), Evicts
  PROVE  Victim \in Places /\ ~cache[Victim].pinned
<1>1. Victims # {} /\ Victims \subseteq Nat
  BY DEF Evicts, HasRoom, Victims, Places
<1> DEFINE Less == {ss \in Nat \X Nat : ss[1] < ss[2]}
<1>2. \E j \in Victims : \A k \in Victims : ~(<<k, j>> \in Less)
  <2>1. IsWellFoundedOn(Less, Nat)
    BY NatLessThanWellFounded DEF OpToRel
  <2> HIDE DEF Less
  <2> QED BY <1>1, <2>1, WFMin
<1>3. \E j \in Victims : \A k \in Victims : j <= k
  <2>1. PICK j \in Victims : \A k \in Victims : ~(<<k, j>> \in Less)
    BY <1>2
  <2>2. ASSUME NEW k \in Victims
        PROVE  j <= k
    <3>1. j \in Nat /\ k \in Nat /\ ~(<<k, j>> \in Less)
      BY <1>1, <2>1
    <3>2. <<k, j>>[1] = k /\ <<k, j>>[2] = j /\ <<k, j>> \in Nat \X Nat
      BY <3>1
    <3>3. ~(k < j)
      BY <3>1, <3>2
    <3> QED BY <3>1, <3>3
  <2> QED BY <2>2
<1>4. Victim \in Victims
  BY <1>3 DEF Victim
<1> QED BY <1>4 DEF Victims

(* The file loses no page that was saved, and gets the one that is evicted.*)
LEMMA FlushSaves ==
  ASSUME Inv, stage = "open"
  PROVE  /\ FileNow \in Seq(Image)
         /\ Len(FileNow) <= npages
         /\ \A p \in Pages : OnFile(p) => OnNow(p)
         /\ Evicts => Victim \in Places /\ ~cache[Victim].pinned /\ OnNow(cache[Victim].pgno)
<1> USE DEF Inv
<1>1. file \in Seq(Image) /\ cache \in Seq(Buffer) /\ npages \in Nat /\ Len(file) <= npages
  BY DEF TypeOK, Data
<1>2. CASE ~Evicts
  BY <1>1, <1>2 DEF FileNow, Flushes, OnFile, OnNow
<1>3. CASE Evicts
  <2> DEFINE v == cache[Victim]
  <2>1. Victim \in Places /\ ~v.pinned /\ v \in Buffer
    BY <1>1, <1>3, VictimExists DEF Places
  <2>2. v.pgno \in Pages
    BY <2>1 DEF Chain, Resident
  <2>3. v.pgno \notin touched
    <3>1. v.pgno \notin held
      BY <2>1 DEF HeldIsPinned, OneBuffer
    <3> QED BY <3>1 DEF TypeOK
  <2>4. /\ v.pgno \in spoiled \/ v.data = InMemory(latest[v.pgno])
        /\ v.dirty \/ OnFile(v.pgno)
        /\ latest[v.pgno] \in Values
    BY <2>1, <2>2, <2>3 DEF Data, BuffersGood, Buffered, Fresh, TypeOK
  <2>5. CASE ~v.dirty
    BY <1>1, <2>1, <2>4, <2>5 DEF FileNow, Flushes, OnFile, OnNow
  <2>6. CASE v.dirty
    <3>1. FileNow = Written(file, v)
      BY <1>3, <2>6 DEF FileNow, Flushes
    <3>2. v.pgno \in spoiled \/ FileNow[v.pgno + 1] = OnDisk(latest[v.pgno])
      <4>1. Written(file, v)[v.pgno + 1] = Convert(v.data)
        BY <1>1, <2>1, WrittenFile
      <4>2. v.pgno \in spoiled \/ Convert(v.data) = OnDisk(latest[v.pgno])
        BY <2>4, Conversion
      <4> QED BY <3>1, <4>1, <4>2
    <3>3. FileNow \in Seq(Image) /\ v.pgno < Len(FileNow) /\ Len(file) <= Len(FileNow)
      BY <1>1, <2>1, <3>1, WrittenFile
    <3>4. v.pgno < npages
      BY <1>1, <2>2 DEF Pages
    <3>5. Len(FileNow) <= npages
      BY <1>1, <2>1, <3>1, <3>4, WrittenFile
    <3>6. ASSUME NEW p \in Pages, OnFile(p)
          PROVE  OnNow(p)
      <4>1. p \in Nat /\ p < Len(file) /\ (p \in spoiled \/ file[p + 1] = OnDisk(latest[p]))
        BY <1>1, <3>6 DEF Pages, OnFile
      <4>2. p < Len(FileNow)
        BY <1>1, <3>3, <4>1
      <4>3. CASE p = v.pgno
        BY <3>2, <4>2, <4>3 DEF OnNow
      <4>4. CASE p # v.pgno
        BY <1>1, <2>1, <3>1, <4>1, <4>2, <4>4, WrittenFile DEF OnNow
      <4> QED BY <4>3, <4>4
    <3>7. OnNow(v.pgno)
      BY <3>2, <3>3 DEF OnNow
    <3> QED BY <2>1, <3>3, <3>5, <3>6, <3>7
  <2> QED BY <2>5, <2>6
<1> QED BY <1>2, <1>3

-----------------------------------------------------------------------------
(* Taking a buffer for a page that is not in the cache.                    *)

LEMMA AssignMoves ==
  ASSUME Inv, stage = "open", NEW b \in Buffer, Assign(b)
  PROVE  /\ curcache' = Len(cache') + lost
         /\ \E out \in SUBSET Places :
              /\ Moved(cache, cache', out, b)
              /\ \A q \in out : ~cache[q].pinned /\ OnNow(cache[q].pgno)
<1>1. cache \in Seq(Buffer) /\ curcache = Len(cache) + lost /\ lost \in Nat
  BY DEF Inv, TypeOK, Chain
<1>2. CASE Evicts
  <2>1. Victim \in Places /\ ~cache[Victim].pinned /\ OnNow(cache[Victim].pgno)
    BY <1>2, FlushSaves
  <2>2. /\ cache' = Append(Without(cache, Victim), b)
        /\ curcache' = curcache
    BY <1>2 DEF Assign
  <2>3. Moved(cache, cache', {Victim}, b) /\ Len(cache') = Len(cache)
    BY <1>1, <2>1, <2>2, MovedToTail DEF Places
  <2> QED BY <1>1, <2>1, <2>2, <2>3
<1>3. CASE ~Evicts
  <2>1. cache' = Append(cache, b) /\ curcache' = curcache + 1
    BY <1>3 DEF Assign
  <2>2. Moved(cache, cache', {}, b) /\ Len(cache') = Len(cache) + 1
    BY <1>1, <2>1, AddedAtTail
  <2> QED BY <1>1, <2>1, <2>2
<1> QED BY <1>2, <1>3

LEMMA AssignTakes ==
  ASSUME Inv, stage = "open", NEW b \in Buffer, Assign(b),
         b.pinned, ~Cached(b.pgno), held' = held \cup {b.pgno}
  PROVE  /\ cache' \in Seq(Buffer)
         /\ OneBuffer' /\ HeldIsPinned' /\ curcache' = Len(cache') + lost
         /\ Resident' \subseteq Resident \cup {b.pgno}
         /\ b.pgno \in Resident'
         /\ \A p \in Resident : p \in Resident' \/ OnNow(p)
         /\ \A j \in Places' : cache'[j] = b \/ \E q \in Places : cache'[j] = cache[q]
<1>1. PICK out \in SUBSET Places :
        /\ Moved(cache, cache', out, b)
        /\ \A q \in out : ~cache[q].pinned /\ OnNow(cache[q].pgno)
  BY AssignMoves
<1>2. cache \in Seq(Buffer) /\ OneBuffer /\ HeldIsPinned
  BY DEF Inv, TypeOK
<1>3. \A q \in Places \ out : cache[q].pgno # b.pgno
  BY DEF Cached
<1>4. /\ OneBuffer'
      /\ HeldIsPinned'
      /\ Resident' = {cache[q].pgno : q \in Places \ out} \cup {b.pgno}
  BY <1>1, <1>2, <1>3, MovedChain
<1>5. /\ cache' \in Seq(Buffer)
      /\ \A j \in Places' : cache'[j] = b \/ \E q \in Places \ out : cache'[j] = cache[q]
  BY <1>1, <1>2, MovedElements DEF Places
<1>6. ASSUME NEW p \in Resident
      PROVE  p \in Resident' \/ OnNow(p)
  <2>1. PICK q \in Places : cache[q].pgno = p
    BY DEF Resident
  <2>2. CASE q \in out
    BY <1>1, <2>1, <2>2
  <2>3. CASE q \notin out
    BY <1>4, <2>1, <2>3
  <2> QED BY <2>2, <2>3
<1>7. Resident' \subseteq Resident \cup {b.pgno}
  BY <1>4 DEF Resident
<1> QED BY <1>4, <1>5, <1>6, <1>7, AssignMoves

-----------------------------------------------------------------------------
(* Every step preserves the invariant.                                     *)

LEMMA Beginning == Init => Inv
<1> SUFFICES ASSUME Init PROVE Inv
  OBVIOUS
<1>1. PICK n \in 0 .. MaxPages : file \in [1 .. n -> {OnDisk(c) : c \in Contents}]
  BY DEF Init
<1>2. /\ stage = "closed" /\ cache = <<>> /\ curcache = 0 /\ npages = 0
      /\ held = {} /\ touched = {} /\ exit = "none" /\ failed = FALSE
      /\ lost = 0 /\ spoiled = {}
  BY DEF Init
<1>3. file \in Seq(Image)
  <2>1. \A c \in Contents : OnDisk(c) \in Image
    BY Conversion DEF Values
  <2>2. n \in Nat /\ file \in [1 .. n -> Image]
    BY <1>1, <2>1, BoundsAssumption
  <2> QED BY <2>2
<1>4. cache \in Seq(Buffer) /\ Len(cache) = 0 /\ Places = {}
  BY <1>2 DEF Places
<1>5. TypeOK
  BY <1>2, <1>3, <1>4 DEF TypeOK
<1>6. OneBuffer /\ HeldIsPinned /\ Chain
  BY <1>2, <1>4 DEF OneBuffer, HeldIsPinned, Chain, Resident
<1>7. Data /\ SavedUnlessFailed
  BY <1>2 DEF Data, SavedUnlessFailed
<1> QED BY <1>5, <1>6, <1>7 DEF Inv

LEMMA StepNew == Inv /\ New => Inv'
<1> SUFFICES ASSUME Inv, New PROVE Inv'
  OBVIOUS
<1> USE DEF Inv
<1>1. PICK c \in Contents :
        /\ Assign([pgno |-> npages, data |-> InMemory(c), dirty |-> FALSE, pinned |-> TRUE])
        /\ latest' = [q \in 0 .. npages |-> IF q = npages THEN c ELSE latest[q]]
  BY DEF New
<1> DEFINE b == [pgno |-> npages, data |-> InMemory(c), dirty |-> FALSE, pinned |-> TRUE]
<1>2. /\ stage = "open" /\ stage' = "open" /\ exit' = exit /\ failed' = failed
      /\ npages' = npages + 1 /\ held' = held \cup {npages} /\ touched' = touched \cup {npages}
      /\ file' = FileNow /\ lost' = lost /\ spoiled' = spoiled
  BY <1>1 DEF New, Assign, ended, harm
<1>3. /\ npages \in Nat /\ latest \in [Pages -> Values] /\ cache \in Seq(Buffer)
      /\ held \subseteq Pages /\ touched \subseteq held /\ Resident \subseteq Pages
      /\ exit \in {"none", "success", "error"} /\ failed \in BOOLEAN
      /\ lost \in Nat /\ spoiled \subseteq Nat
  BY <1>2 DEF TypeOK, Chain
<1>4. b \in Buffer /\ b.pgno = npages /\ b.pinned /\ b.data = InMemory(c)
  BY <1>3, Conversion DEF Buffer, Values
<1>5. Pages' = Pages \cup {npages} /\ npages \notin Pages /\ Pages' = 0 .. npages
  BY <1>2, <1>3 DEF Pages
<1>6. ~Cached(npages)
  BY <1>3, <1>5 DEF Cached, Resident
<1> HIDE DEF b
<1>7. /\ cache' \in Seq(Buffer)
      /\ OneBuffer' /\ HeldIsPinned' /\ curcache' = Len(cache') + lost
      /\ Resident' \subseteq Resident \cup {npages}
      /\ npages \in Resident'
      /\ \A p \in Resident : p \in Resident' \/ OnNow(p)
      /\ \A j \in Places' : cache'[j] = b \/ \E q \in Places : cache'[j] = cache[q]
  <2>1. Assign(b) /\ held' = held \cup {b.pgno}
    BY <1>1, <1>2, <1>4 DEF b
  <2> HIDE DEF Inv
  <2> QED BY <1>2, <1>4, <1>6, <2>1, AssignTakes
<1>8. /\ latest' \in [Pages' -> Values]
      /\ latest'[npages] = c
      /\ \A p \in Pages : latest'[p] = latest[p]
  BY <1>1, <1>3, <1>5 DEF Values, Pages
<1>9. /\ FileNow \in Seq(Image)
      /\ Len(FileNow) <= npages
      /\ \A p \in Pages : OnFile(p) => OnNow(p)
  BY <1>2, FlushSaves
<1>10. curcache' \in Nat
  <2>1. lost \in Nat
    BY <1>2 DEF TypeOK
  <2> QED BY <1>7, <2>1
<1>11. TypeOK'
  BY <1>2, <1>3, <1>5, <1>7, <1>8, <1>9, <1>10 DEF TypeOK
<1>12. Chain'
  BY <1>2, <1>3, <1>5, <1>7 DEF Chain
<1>13. \A p \in Pages : OnNow(p) => OnFile(p)'
  BY <1>2, <1>8 DEF OnNow, OnFile
<1>14. BuffersGood'
  <2>1. ASSUME NEW j \in Places'
        PROVE  /\ Fresh(cache[j])'
               /\ Buffered(cache[j])' \/ OnFile(cache[j].pgno)'
    <3>1. CASE cache'[j] = b
      BY <3>1, <1>2, <1>4, <1>8 DEF Fresh, Buffered
    <3>2. ASSUME NEW q \in Places, cache'[j] = cache[q]
          PROVE  /\ Fresh(cache[j])'
                 /\ Buffered(cache[j])' \/ OnFile(cache[j].pgno)'
      <4>1. cache[q].pgno \in Pages
        BY <1>3 DEF Resident
      <4>2. Fresh(cache[q]) /\ (Buffered(cache[q]) \/ OnFile(cache[q].pgno))
        BY <1>2 DEF Data, BuffersGood
      <4>3. Fresh(cache[j])'
        BY <3>2, <4>1, <4>2, <1>2, <1>8 DEF Fresh
      <4>4. Buffered(cache[q]) => Buffered(cache[j])'
        BY <3>2, <1>2 DEF Buffered
      <4>5. OnFile(cache[q].pgno) => OnFile(cache[j].pgno)'
        BY <3>2, <4>1, <1>9, <1>13
      <4> QED BY <4>2, <4>3, <4>4, <4>5
    <3> QED BY <3>1, <3>2, <1>7
  <2> QED BY <2>1 DEF BuffersGood
<1>15. OthersOnFile'
  <2>1. ASSUME NEW p \in Pages
        PROVE  p \in Resident' \/ OnFile(p)'
    BY <1>2, <1>7, <1>9, <1>13 DEF Data, OthersOnFile
  <2> QED BY <2>1, <1>5, <1>7 DEF OthersOnFile
<1>16. Len(file') <= npages'
  BY <1>2, <1>3, <1>9
<1>17. Data'
  BY <1>2, <1>14, <1>15, <1>16 DEF Data
<1>18. SavedUnlessFailed'
  BY <1>2 DEF SavedUnlessFailed
<1> QED BY <1>7, <1>11, <1>12, <1>17, <1>18

LEMMA StepMiss == ASSUME NEW p, Inv, Miss(p) PROVE Inv'
<1> USE DEF Inv
<1> DEFINE b == [pgno |-> p, data |-> Convert(FileNow[p + 1]), dirty |-> FALSE, pinned |-> TRUE]
<1>1. /\ stage = "open" /\ p \in Pages /\ ~Cached(p) /\ Assign(b)
      /\ held' = held \cup {p} /\ file' = FileNow
      /\ stage' = stage /\ npages' = npages /\ touched' = touched /\ latest' = latest
      /\ exit' = exit /\ failed' = failed /\ lost' = lost /\ spoiled' = spoiled
  BY DEF Miss, Assign, Pages, ended, harm
<1>2. /\ npages \in Nat /\ latest \in [Pages -> Values] /\ cache \in Seq(Buffer)
      /\ held \subseteq Pages /\ touched \subseteq held /\ Resident \subseteq Pages
      /\ exit \in {"none", "success", "error"} /\ failed \in BOOLEAN
      /\ lost \in Nat /\ spoiled \subseteq Nat
  BY <1>1 DEF TypeOK, Chain
<1>3. /\ FileNow \in Seq(Image)
      /\ Len(FileNow) <= npages
      /\ \A q \in Pages : OnFile(q) => OnNow(q)
  BY <1>1, FlushSaves
<1>4. p \notin Resident
  BY <1>1 DEF Cached, Resident
<1>5. OnNow(p)
  BY <1>1, <1>3, <1>4 DEF Data, OthersOnFile
<1>6. /\ b \in Buffer /\ b.pgno = p /\ b.pinned
      /\ p \in spoiled \/ b.data = InMemory(latest[p])
  <2>1. p \in Nat /\ latest[p] \in Values
    BY <1>1, <1>2 DEF Pages
  <2>2. p \in spoiled \/ Convert(FileNow[p + 1]) = InMemory(latest[p])
    BY <1>5, Conversion DEF OnNow
  <2>3. FileNow[p + 1] \in Image
    BY <2>1, <1>3, <1>5 DEF OnNow
  <2>4. Convert(FileNow[p + 1]) \in Image
    BY <2>3, Conversion
  <2> QED BY <2>1, <2>2, <2>4 DEF Buffer
<1>7. /\ cache' \in Seq(Buffer)
      /\ OneBuffer' /\ HeldIsPinned' /\ curcache' = Len(cache') + lost
      /\ Resident' \subseteq Resident \cup {p}
      /\ p \in Resident'
      /\ \A q \in Resident : q \in Resident' \/ OnNow(q)
      /\ \A j \in Places' : cache'[j] = b \/ \E q \in Places : cache'[j] = cache[q]
  <2> HIDE DEF Inv, b
  <2> QED BY <1>1, <1>6, AssignTakes
<1> HIDE DEF b
<1>8. Pages' = Pages
  BY <1>1 DEF Pages
<1>9. curcache' \in Nat
  <2>1. lost \in Nat
    BY <1>2 DEF TypeOK
  <2> QED BY <1>7, <2>1
<1>10. TypeOK'
  BY <1>1, <1>2, <1>3, <1>7, <1>8, <1>9 DEF TypeOK
<1>11. Chain'
  BY <1>1, <1>2, <1>7, <1>8 DEF Chain
<1>12. \A q \in Pages : OnNow(q) => OnFile(q)'
  BY <1>1 DEF OnNow, OnFile
<1>13. BuffersGood'
  <2>1. ASSUME NEW j \in Places'
        PROVE  /\ Fresh(cache[j])'
               /\ Buffered(cache[j])' \/ OnFile(cache[j].pgno)'
    <3>1. CASE cache'[j] = b
      BY <3>1, <1>1, <1>5, <1>6, <1>12 DEF Fresh, Buffered
    <3>2. ASSUME NEW q \in Places, cache'[j] = cache[q]
          PROVE  /\ Fresh(cache[j])'
                 /\ Buffered(cache[j])' \/ OnFile(cache[j].pgno)'
      <4>1. cache[q].pgno \in Pages
        BY <1>2 DEF Resident
      <4>2. Fresh(cache[q]) /\ (Buffered(cache[q]) \/ OnFile(cache[q].pgno))
        BY <1>1 DEF Data, BuffersGood
      <4>3. Fresh(cache[j])'
        BY <3>2, <4>2, <1>1 DEF Fresh
      <4>4. Buffered(cache[q]) => Buffered(cache[j])'
        BY <3>2, <1>1 DEF Buffered
      <4>5. OnFile(cache[q].pgno) => OnFile(cache[j].pgno)'
        BY <3>2, <4>1, <1>3, <1>12
      <4> QED BY <4>2, <4>3, <4>4, <4>5
    <3> QED BY <3>1, <3>2, <1>7
  <2> QED BY <2>1 DEF BuffersGood
<1>14. OthersOnFile'
  BY <1>1, <1>3, <1>7, <1>8, <1>12 DEF Data, OthersOnFile
<1>15. Len(file') <= npages'
  BY <1>1, <1>3
<1>16. Data'
  BY <1>1, <1>13, <1>14, <1>15 DEF Data
<1>17. SavedUnlessFailed'
  BY <1>1 DEF SavedUnlessFailed
<1> QED BY <1>7, <1>10, <1>11, <1>16, <1>17

(* The buffer that mpool_look() finds.                                     *)
LEMMA Found ==
  ASSUME NEW p, Cached(p)
  PROVE  PlaceOf(p) \in Places /\ cache[PlaceOf(p)].pgno = p
BY DEF Cached, PlaceOf

LEMMA HeldIsFound ==
  ASSUME NEW p \in held, HeldIsPinned
  PROVE  PlaceOf(p) \in Places /\ cache[PlaceOf(p)].pgno = p
BY Found DEF HeldIsPinned, Cached

LEMMA StepHit == ASSUME NEW p, Inv, Hit(p) PROVE Inv'
<1> USE DEF Inv
<1> DEFINE k == PlaceOf(p)
           b == [cache[k] EXCEPT !.pinned = TRUE]
<1>1. /\ stage = "open" /\ p \notin held /\ Cached(p)
      /\ cache' = Append(Without(cache, k), b)
      /\ held' = held \cup {p} /\ file' = file /\ curcache' = curcache
      /\ stage' = stage /\ npages' = npages /\ touched' = touched /\ latest' = latest
      /\ exit' = exit /\ failed' = failed /\ lost' = lost /\ spoiled' = spoiled
  BY DEF Hit, ended, harm
<1>2. /\ npages \in Nat /\ latest \in [Pages -> Values] /\ cache \in Seq(Buffer)
      /\ held \subseteq Pages /\ touched \subseteq held /\ Resident \subseteq Pages
      /\ exit \in {"none", "success", "error"} /\ failed \in BOOLEAN
      /\ lost \in Nat /\ spoiled \subseteq Nat
  BY <1>1 DEF TypeOK, Chain
<1>3. k \in Places /\ cache[k].pgno = p /\ cache[k] \in Buffer
  BY <1>1, <1>2, Found DEF Places
<1>4. /\ b \in Buffer /\ b.pgno = p /\ b.pinned
      /\ b.data = cache[k].data /\ b.dirty = cache[k].dirty
  BY <1>3 DEF Buffer
<1>5. Moved(cache, cache', {k}, b) /\ Len(cache') = Len(cache)
  <2> HIDE DEF Inv, b, k
  <2> QED BY <1>1, <1>2, <1>3, <1>4, MovedToTail DEF Places
<1>6. \A q \in Places \ {k} : cache[q].pgno # b.pgno
  BY <1>3, <1>4 DEF OneBuffer
<1> HIDE DEF b
<1>7. /\ OneBuffer'
      /\ HeldIsPinned'
      /\ Resident' = {cache[q].pgno : q \in Places \ {k}} \cup {p}
  BY <1>1, <1>2, <1>3, <1>4, <1>5, <1>6, MovedChain
<1>8. Resident' = Resident
  BY <1>3, <1>7 DEF Resident
<1>9. /\ cache' \in Seq(Buffer)
      /\ \A j \in Places' : cache'[j] = b \/ \E q \in Places : cache'[j] = cache[q]
  BY <1>2, <1>5, MovedElements DEF Places
<1>10. Pages' = Pages /\ p \in Pages
  BY <1>1, <1>2, <1>3 DEF Pages, Resident
<1>11. TypeOK'
  BY <1>1, <1>2, <1>9, <1>10 DEF TypeOK
<1>12. Chain'
  BY <1>1, <1>2, <1>5, <1>8, <1>10 DEF Chain
<1>13. BuffersGood'
  <2>1. ASSUME NEW q \in Places, NEW j \in Places',
               cache'[j].pgno = cache[q].pgno, cache'[j].data = cache[q].data,
               cache'[j].dirty = cache[q].dirty
        PROVE  /\ Fresh(cache[j])'
               /\ Buffered(cache[j])' \/ OnFile(cache[j].pgno)'
    <3>1. Fresh(cache[q]) /\ (Buffered(cache[q]) \/ OnFile(cache[q].pgno))
      BY <1>1 DEF Data, BuffersGood
    <3> QED BY <1>1, <2>1, <3>1 DEF Fresh, Buffered, OnFile
  <2>2. ASSUME NEW j \in Places'
        PROVE  \E q \in Places : /\ cache'[j].pgno = cache[q].pgno
                                 /\ cache'[j].data = cache[q].data
                                 /\ cache'[j].dirty = cache[q].dirty
    BY <1>3, <1>4, <1>9
  <2> QED BY <2>1, <2>2 DEF BuffersGood
<1>14. OthersOnFile'
  BY <1>1, <1>8, <1>10 DEF Data, OthersOnFile, OnFile
<1>15. Data'
  BY <1>1, <1>13, <1>14 DEF Data
<1>16. SavedUnlessFailed'
  BY <1>1 DEF SavedUnlessFailed
<1> QED BY <1>7, <1>11, <1>12, <1>15, <1>16

(* A buffer changes and keeps its page.                                    *)
LEMMA Replaced ==
  ASSUME NEW k \in Places, NEW b \in Buffer, cache \in Seq(Buffer), OneBuffer,
         b.pgno = cache[k].pgno, cache' = [cache EXCEPT ![k] = b]
  PROVE  /\ cache' \in Seq(Buffer) /\ Len(cache') = Len(cache) /\ Places' = Places
         /\ cache'[k] = b /\ \A j \in Places : j # k => cache'[j] = cache[j]
         /\ OneBuffer' /\ Resident' = Resident
<1>1. /\ cache' \in Seq(Buffer) /\ Len(cache') = Len(cache)
      /\ cache'[k] = b /\ \A j \in Places : j # k => cache'[j] = cache[j]
  BY DEF Places
<1>2. Places' = Places
  BY <1>1 DEF Places
<1>3. \A j \in Places : cache'[j].pgno = cache[j].pgno
  BY <1>1
<1>4. OneBuffer' /\ Resident' = Resident
  BY <1>2, <1>3 DEF OneBuffer, Resident
<1> QED BY <1>1, <1>2, <1>4

LEMMA ValueChanged ==
  ASSUME NEW d \in Image, NEW x, NEW c, d = InMemory(x)
  PROVE  [d EXCEPT !.val = c] = InMemory(c)
<1>1. [d EXCEPT !.val = c] = [val |-> c, foreign |-> d.foreign]
  BY DEF Image
<1> QED BY <1>1 DEF InMemory

LEMMA StepChange == ASSUME NEW p, Inv, Change(p) PROVE Inv'
<1> USE DEF Inv
<1>1. PICK c \in Contents :
        /\ cache' = [cache EXCEPT ![PlaceOf(p)].data.val = c]
        /\ latest' = [latest EXCEPT ![p] = c]
  BY DEF Change
<1> DEFINE k == PlaceOf(p)
           b == [cache[k] EXCEPT !.data.val = c]
<1>2. /\ stage = "open" /\ p \in held /\ touched' = touched \cup {p} /\ file' = file
      /\ stage' = stage /\ curcache' = curcache /\ npages' = npages /\ held' = held
      /\ exit' = exit /\ failed' = failed /\ lost' = lost /\ spoiled' = spoiled
  BY DEF Change, ended, harm
<1>3. /\ npages \in Nat /\ latest \in [Pages -> Values] /\ cache \in Seq(Buffer)
      /\ held \subseteq Pages /\ touched \subseteq held /\ Resident \subseteq Pages
      /\ exit \in {"none", "success", "error"} /\ failed \in BOOLEAN
      /\ lost \in Nat /\ spoiled \subseteq Nat
  BY <1>2 DEF TypeOK, Chain
<1>4. k \in Places /\ cache[k].pgno = p /\ cache[k] \in Buffer
  BY <1>2, <1>3, HeldIsFound DEF Places
<1>5. p \in spoiled \/ cache[k].data = InMemory(latest[p])
  BY <1>2, <1>4 DEF Data, BuffersGood, Fresh
<1>6. /\ b \in Buffer /\ b.pgno = p /\ (p \in spoiled \/ b.data = InMemory(c))
      /\ b.dirty = cache[k].dirty /\ b.pinned = cache[k].pinned
  <2>1. cache[k].data \in Image /\ c \in Values
    BY <1>4 DEF Buffer, Values
  <2>2. p \in spoiled \/ [cache[k].data EXCEPT !.val = c] = InMemory(c)
    BY <1>5, <2>1, ValueChanged
  <2>3. [cache[k].data EXCEPT !.val = c] \in Image
    BY <2>1 DEF Image
  <2> QED BY <1>4, <2>2, <2>3 DEF Buffer
<1>7. cache' = [cache EXCEPT ![k] = b]
  BY <1>1
<1> HIDE DEF b
<1>8. /\ cache' \in Seq(Buffer) /\ Len(cache') = Len(cache) /\ Places' = Places
      /\ cache'[k] = b /\ \A j \in Places : j # k => cache'[j] = cache[j]
      /\ OneBuffer' /\ Resident' = Resident
  <2> HIDE DEF Inv, k
  <2>1. OneBuffer
    BY DEF Inv
  <2> QED BY <1>3, <1>4, <1>6, <1>7, <2>1, Replaced
<1> HIDE DEF k
<1>9. Pages' = Pages
  BY <1>2 DEF Pages
<1>10. latest' \in [Pages -> Values] /\ latest'[p] = c /\ \A q \in Pages : q # p => latest'[q] = latest[q]
  BY <1>1, <1>2, <1>3 DEF Values
<1>11. TypeOK'
  BY <1>2, <1>3, <1>8, <1>9, <1>10 DEF TypeOK
<1>12. HeldIsPinned'
  <2>1. \A j \in Places : cache'[j].pgno = cache[j].pgno /\ cache'[j].pinned = cache[j].pinned
    BY <1>4, <1>6, <1>8
  <2> QED BY <1>2, <1>8, <2>1 DEF HeldIsPinned
<1>13. Chain'
  BY <1>2, <1>8, <1>9 DEF Chain
<1>14. BuffersGood'
  <2>1. ASSUME NEW j \in Places
        PROVE  /\ Fresh(cache[j])'
               /\ Buffered(cache[j])' \/ OnFile(cache[j].pgno)'
    <3>1. CASE j = k
      BY <3>1, <1>2, <1>6, <1>8, <1>10 DEF Fresh, Buffered
    <3>2. CASE j # k
      <4>1. cache'[j] = cache[j] /\ cache[j].pgno # p /\ cache[j].pgno \in Pages
        BY <3>2, <1>3, <1>4, <1>8 DEF OneBuffer, Resident
      <4>2. Fresh(cache[j]) /\ (Buffered(cache[j]) \/ OnFile(cache[j].pgno))
        BY <1>2 DEF Data, BuffersGood
      <4> QED BY <1>2, <1>10, <4>1, <4>2 DEF Fresh, Buffered, OnFile
    <3> QED BY <3>1, <3>2
  <2> QED BY <1>8, <2>1 DEF BuffersGood
<1>15. OthersOnFile'
  <2>1. ASSUME NEW q \in Pages, q \notin Resident
        PROVE  OnFile(q)'
    <3>1. OnFile(q) /\ q # p
      BY <1>2, <1>4, <2>1 DEF Data, OthersOnFile, Resident
    <3> QED BY <1>2, <1>10, <3>1 DEF OnFile
  <2> QED BY <1>8, <1>9, <2>1 DEF OthersOnFile
<1>16. Data'
  BY <1>2, <1>14, <1>15 DEF Data
<1>17. SavedUnlessFailed'
  BY <1>2 DEF SavedUnlessFailed
<1> QED BY <1>8, <1>11, <1>12, <1>13, <1>16, <1>17

LEMMA StepPut == ASSUME NEW p, Inv, Put(p) PROVE Inv'
<1> USE DEF Inv
<1>1. PICK flag \in BOOLEAN :
        /\ p \in touched => flag
        /\ cache' = [cache EXCEPT ![PlaceOf(p)] =
                        [cache[PlaceOf(p)] EXCEPT !.pinned = FALSE,
                                                  !.dirty = Mark(cache[PlaceOf(p)].dirty, flag)]]
  BY DEF Put
<1> DEFINE k == PlaceOf(p)
           b == [cache[k] EXCEPT !.pinned = FALSE, !.dirty = Mark(cache[k].dirty, flag)]
<1>2. /\ stage = "open" /\ p \in held /\ held' = held \ {p} /\ touched' = touched \ {p}
      /\ file' = file /\ latest' = latest
      /\ stage' = stage /\ curcache' = curcache /\ npages' = npages
      /\ exit' = exit /\ failed' = failed /\ lost' = lost /\ spoiled' = spoiled
  BY DEF Put, ended, harm
<1>3. /\ npages \in Nat /\ latest \in [Pages -> Values] /\ cache \in Seq(Buffer)
      /\ held \subseteq Pages /\ touched \subseteq held /\ Resident \subseteq Pages
      /\ exit \in {"none", "success", "error"} /\ failed \in BOOLEAN
      /\ lost \in Nat /\ spoiled \subseteq Nat
  BY <1>2 DEF TypeOK, Chain
<1>4. k \in Places /\ cache[k].pgno = p /\ cache[k] \in Buffer
  BY <1>2, <1>3, HeldIsFound DEF Places
<1>5. /\ b \in Buffer /\ b.pgno = p /\ b.data = cache[k].data
      /\ ~b.pinned /\ (cache[k].dirty \/ p \in touched => b.dirty)
  BY <1>1, <1>4 DEF Buffer, Mark
<1>6. cache' = [cache EXCEPT ![k] = b]
  BY <1>1
<1> HIDE DEF b
<1>7. /\ cache' \in Seq(Buffer) /\ Len(cache') = Len(cache) /\ Places' = Places
      /\ cache'[k] = b /\ \A j \in Places : j # k => cache'[j] = cache[j]
      /\ OneBuffer' /\ Resident' = Resident
  <2> HIDE DEF Inv, k
  <2>1. OneBuffer
    BY DEF Inv
  <2> QED BY <1>3, <1>4, <1>5, <1>6, <2>1, Replaced
<1> HIDE DEF k
<1>8. Pages' = Pages
  BY <1>2 DEF Pages
<1>9. TypeOK'
  BY <1>2, <1>3, <1>7, <1>8 DEF TypeOK
<1>10. HeldIsPinned'
  <2>1. \A j \in Places : j # k => cache'[j] = cache[j] /\ cache[j].pgno # p
    BY <1>4, <1>7 DEF OneBuffer
  <2>2. ASSUME NEW q \in held'
        PROVE  \E j \in Places : cache'[j].pinned /\ cache'[j].pgno = q
    <3>1. PICK j \in Places : cache[j].pinned /\ cache[j].pgno = q
      BY <1>2, <2>2 DEF HeldIsPinned
    <3>2. j # k
      BY <1>2, <1>4, <2>2, <3>1
    <3> QED BY <2>1, <3>1, <3>2
  <2>3. ASSUME NEW j \in Places, cache'[j].pinned
        PROVE  cache'[j].pgno \in held'
    BY <1>2, <1>5, <1>7, <2>1, <2>3 DEF HeldIsPinned
  <2> QED BY <1>7, <2>2, <2>3 DEF HeldIsPinned
<1>11. Chain'
  BY <1>2, <1>7, <1>8 DEF Chain
<1>12. BuffersGood'
  <2>1. ASSUME NEW j \in Places
        PROVE  /\ Fresh(cache[j])'
               /\ Buffered(cache[j])' \/ OnFile(cache[j].pgno)'
    <3>1. Fresh(cache[j]) /\ (Buffered(cache[j]) \/ OnFile(cache[j].pgno))
      BY <1>2 DEF Data, BuffersGood
    <3>2. CASE j = k
      BY <3>1, <3>2, <1>2, <1>4, <1>5, <1>7 DEF Fresh, Buffered, OnFile
    <3>3. CASE j # k
      <4>1. cache'[j] = cache[j] /\ cache[j].pgno # p
        BY <3>3, <1>4, <1>7 DEF OneBuffer
      <4> QED BY <1>2, <3>1, <4>1 DEF Fresh, Buffered, OnFile
    <3> QED BY <3>2, <3>3
  <2> QED BY <1>7, <2>1 DEF BuffersGood
<1>13. OthersOnFile'
  BY <1>2, <1>7, <1>8 DEF Data, OthersOnFile, OnFile
<1>14. Data'
  BY <1>2, <1>12, <1>13 DEF Data
<1>15. SavedUnlessFailed'
  BY <1>2 DEF SavedUnlessFailed
<1> QED BY <1>7, <1>9, <1>10, <1>11, <1>14, <1>15

LEMMA StepOpen == Inv /\ Open => Inv'
<1> SUFFICES ASSUME Inv, Open PROVE Inv'
  OBVIOUS
<1> USE DEF Inv
<1>1. /\ stage = "closed" /\ stage' = "open" /\ npages' = Len(file)
      /\ latest' = [q \in 0 .. Len(file) - 1 |-> file[q + 1].val]
      /\ exit' = "none" /\ failed' = FALSE /\ file' = file
      /\ cache' = cache /\ curcache' = curcache /\ held' = held /\ touched' = touched
      /\ lost' = lost /\ spoiled' = {q \in 0 .. Len(file) - 1 : file[q + 1].foreign # NeedSwap}
  BY DEF Open, PagesOf
<1>2. /\ cache = <<>> /\ held = {} /\ touched = {} /\ file \in Seq(Image)
      /\ curcache = Len(cache) + lost /\ lost \in Nat /\ curcache \in Nat
  BY <1>1 DEF Chain, TypeOK
<1>3. Places' = {} /\ Len(cache') = 0 /\ cache' \in Seq(Buffer)
  BY <1>1, <1>2 DEF Places
<1>4. Pages' = 0 .. Len(file) - 1 /\ Len(file) \in Nat
  BY <1>1, <1>2 DEF Pages
<1>5. ASSUME NEW q \in 0 .. Len(file) - 1
      PROVE  /\ file[q + 1].val \in Values
             /\ q \in spoiled' \/ file[q + 1] = OnDisk(file[q + 1].val)
             /\ q < Len(file)
  <2>1. q + 1 \in 1 .. Len(file) /\ q < Len(file)
    BY <1>4
  <2>2. file[q + 1] \in Image
    BY <1>2, <2>1
  <2>3. file[q + 1].foreign = NeedSwap => file[q + 1] = OnDisk(file[q + 1].val)
    BY <2>2 DEF Image, OnDisk
  <2> QED BY <1>1, <2>1, <2>2, <2>3 DEF Image
<1>6. TypeOK'
  <2>1. spoiled' \subseteq Nat
    BY <1>1, <1>2
  <2>2. latest' \in [Pages' -> Values]
    BY <1>1, <1>4, <1>5
  <2> QED BY <1>1, <1>2, <1>3, <1>4, <2>1, <2>2 DEF TypeOK
<1>7. OneBuffer' /\ HeldIsPinned'
  BY <1>1, <1>2, <1>3 DEF OneBuffer, HeldIsPinned
<1>8. Chain'
  BY <1>1, <1>2, <1>3 DEF Chain, Resident
<1>9. Data'
  <2>1. BuffersGood'
    BY <1>3 DEF BuffersGood
  <2>2. OthersOnFile'
    BY <1>1, <1>4, <1>5 DEF OthersOnFile, OnFile
  <2>3. Len(file') <= npages'
    BY <1>1, <1>4
  <2> QED BY <1>1, <2>1, <2>2, <2>3 DEF Data
<1>10. SavedUnlessFailed'
  BY <1>1 DEF SavedUnlessFailed
<1> QED BY <1>6, <1>7, <1>8, <1>9, <1>10

LEMMA StepClose == Inv /\ Close => Inv'
<1> SUFFICES ASSUME Inv, Close PROVE Inv'
  OBVIOUS
<1> USE DEF Inv
<1>1. /\ stage = "open" /\ held = {} /\ stage' = "sync"
      /\ file' = file /\ cache' = cache /\ curcache' = curcache /\ npages' = npages
      /\ held' = held /\ touched' = touched /\ latest' = latest
      /\ exit' = exit /\ failed' = failed /\ lost' = lost /\ spoiled' = spoiled
  BY DEF Close, pool, tree, ended, harm
<1>2. Places' = Places /\ Resident' = Resident /\ Pages' = Pages
  BY <1>1 DEF Places, Resident, Pages
<1>3. TypeOK'
  BY <1>1, <1>2 DEF TypeOK
<1>4. OneBuffer' /\ HeldIsPinned' /\ Chain'
  BY <1>1, <1>2 DEF OneBuffer, HeldIsPinned, Chain
<1>5. BuffersGood'
  BY <1>1, <1>2 DEF Data, BuffersGood, Fresh, Buffered, OnFile
<1>6. OthersOnFile'
  BY <1>1, <1>2 DEF Data, OthersOnFile, OnFile
<1>7. Data'
  BY <1>1, <1>5, <1>6 DEF Data
<1>8. SavedUnlessFailed'
  BY <1>1 DEF SavedUnlessFailed
<1> QED BY <1>3, <1>4, <1>7, <1>8

LEMMA StepSync == Inv /\ Sync => Inv'
<1> SUFFICES ASSUME Inv, Sync PROVE Inv'
  OBVIOUS
<1> USE DEF Inv
<1>1. PICK k \in Dirty :
        /\ file' = Written(file, cache[k])
        /\ cache' = [cache EXCEPT ![k] =
                       [cache[k] EXCEPT !.data = Convert(cache[k].data), !.dirty = FALSE]]
  BY DEF Sync
<1> DEFINE v == cache[k]
           b == [v EXCEPT !.data = Convert(v.data), !.dirty = FALSE]
<1>2. /\ stage = "sync" /\ stage' = stage
      /\ curcache' = curcache /\ npages' = npages
      /\ held' = held /\ touched' = touched /\ latest' = latest
      /\ exit' = exit /\ failed' = failed /\ lost' = lost /\ spoiled' = spoiled
  BY DEF Sync, tree, ended, harm
<1>3. /\ npages \in Nat /\ latest \in [Pages -> Values] /\ cache \in Seq(Buffer)
      /\ held = {} /\ touched = {} /\ Resident \subseteq Pages /\ file \in Seq(Image)
      /\ Len(file) <= npages
  BY <1>2 DEF TypeOK, Chain, Data
<1>4. k \in Places /\ v.dirty /\ v \in Buffer /\ v.pgno \in Pages
  BY <1>1, <1>3 DEF Dirty, Places, Resident
<1>5. (v.pgno \in spoiled \/ v.data = InMemory(latest[v.pgno])) /\ latest[v.pgno] \in Values
  BY <1>2, <1>3, <1>4 DEF Data, BuffersGood, Fresh
<1>6. v.pgno \in spoiled \/ Convert(v.data) = OnDisk(latest[v.pgno])
  BY <1>5, Conversion
<1>7. b \in Buffer /\ b.pgno = v.pgno /\ ~b.dirty /\ b.pinned = v.pinned
  <2>1. Convert(v.data) \in Image
    BY <1>4, Conversion DEF Buffer
  <2> QED BY <1>4, <2>1 DEF Buffer
<1>8. cache' = [cache EXCEPT ![k] = b]
  BY <1>1
<1> HIDE DEF b
<1>9. /\ cache' \in Seq(Buffer) /\ Len(cache') = Len(cache) /\ Places' = Places
      /\ cache'[k] = b /\ \A j \in Places : j # k => cache'[j] = cache[j]
      /\ OneBuffer' /\ Resident' = Resident
  <2>1. OneBuffer
    OBVIOUS
  <2> HIDE DEF Inv
  <2> QED BY <1>3, <1>4, <1>7, <1>8, <2>1, Replaced
<1>10. /\ file' \in Seq(Image)
       /\ Len(file) <= Len(file')
       /\ v.pgno < Len(file')
       /\ v.pgno \in spoiled \/ file'[v.pgno + 1] = OnDisk(latest[v.pgno])
       /\ \A p \in Nat : p < Len(file) /\ p # v.pgno => file'[p + 1] = file[p + 1]
       /\ Len(file') <= npages
  <2>1. v.pgno < npages
    BY <1>3, <1>4 DEF Pages
  <2> HIDE DEF v
  <2>2. /\ Written(file, v) \in Seq(Image)
        /\ Len(file) <= Len(Written(file, v))
        /\ v.pgno < Len(Written(file, v))
        /\ Written(file, v)[v.pgno + 1] = Convert(v.data)
        /\ \A p \in Nat : p < Len(file) /\ p # v.pgno => Written(file, v)[p + 1] = file[p + 1]
        /\ \A n \in Nat : Len(file) <= n /\ v.pgno < n => Len(Written(file, v)) <= n
    <3> HIDE DEF Inv
    <3> QED BY <1>3, <1>4, WrittenFile
  <2>3. file' = Written(file, v)
    BY <1>1 DEF v
  <2> QED BY <1>3, <1>6, <2>1, <2>2, <2>3
<1>11. Pages' = Pages
  BY <1>2 DEF Pages
<1>12. ASSUME NEW p \in Pages, p = v.pgno \/ OnFile(p)
       PROVE  OnFile(p)'
  <2>1. CASE p = v.pgno
    BY <2>1, <1>2, <1>10 DEF OnFile
  <2>2. CASE p # v.pgno
    <3>1. p \in Nat /\ p < Len(file) /\ (p \in spoiled \/ file[p + 1] = OnDisk(latest[p]))
      BY <1>12, <2>2, <1>3 DEF Pages, OnFile
    <3>2. Len(file) \in Nat /\ Len(file') \in Nat
      BY <1>3, <1>10
    <3> QED BY <1>2, <1>10, <2>2, <3>1, <3>2 DEF OnFile
  <2> QED BY <2>1, <2>2
<1>13. TypeOK'
  BY <1>2, <1>9, <1>10, <1>11 DEF TypeOK
<1>14. HeldIsPinned'
  <2>1. \A j \in Places : cache'[j].pgno = cache[j].pgno /\ cache'[j].pinned = cache[j].pinned
    BY <1>7, <1>9
  <2> QED BY <1>2, <1>9, <2>1 DEF HeldIsPinned
<1>15. Chain'
  BY <1>2, <1>9, <1>11 DEF Chain
<1>16. BuffersGood'
  <2>1. ASSUME NEW j \in Places
        PROVE  /\ cache'[j].dirty => Fresh(cache[j])'
               /\ Buffered(cache[j])' \/ OnFile(cache[j].pgno)'
    <3>1. CASE j = k
      BY <3>1, <1>4, <1>7, <1>9, <1>12
    <3>2. CASE j # k
      <4>1. cache'[j] = cache[j] /\ cache[j].pgno \in Pages
        BY <3>2, <1>3, <1>9 DEF Resident
      <4>2. /\ cache[j].dirty => Fresh(cache[j])
            /\ Buffered(cache[j]) \/ OnFile(cache[j].pgno)
        BY <1>2 DEF Data, BuffersGood
      <4>3. OnFile(cache[j].pgno) => OnFile(cache[j].pgno)'
        BY <4>1, <1>12
      <4> QED BY <1>2, <4>1, <4>2, <4>3 DEF Fresh, Buffered
    <3> QED BY <3>1, <3>2
  <2> QED BY <1>2, <1>9, <2>1 DEF BuffersGood
<1>17. OthersOnFile'
  BY <1>2, <1>9, <1>11, <1>12 DEF Data, OthersOnFile
<1>18. Data'
  BY <1>2, <1>10, <1>16, <1>17 DEF Data
<1>19. SavedUnlessFailed'
  BY <1>2 DEF SavedUnlessFailed
<1> QED BY <1>9, <1>13, <1>14, <1>15, <1>18, <1>19

(* A program that ends leaves its file behind and nothing else.            *)
LEMMA StepEnd ==
  ASSUME Inv, NEW e \in {"success", "error"}, End(e), failed' \in BOOLEAN,
         file' \in Seq(Image), SavedUnlessFailed'
  PROVE  Inv'
<1>1. /\ stage' = "closed" /\ cache' = <<>> /\ curcache' = 0
      /\ held' = {} /\ touched' = {} /\ exit' = e /\ npages' = npages
      /\ lost' = 0 /\ spoiled' = spoiled
  BY DEF End
<1>2. npages \in Nat /\ spoiled \subseteq Nat
  BY DEF Inv, TypeOK
<1>3. Places' = {} /\ Len(cache') = 0 /\ cache' \in Seq(Buffer)
  BY <1>1 DEF Places
<1>4. TypeOK'
  BY <1>1, <1>2, <1>3 DEF TypeOK
<1>5. OneBuffer' /\ HeldIsPinned' /\ Chain'
  BY <1>1, <1>3 DEF OneBuffer, HeldIsPinned, Chain, Resident
<1>6. Data'
  BY <1>1 DEF Data
<1> QED BY <1>4, <1>5, <1>6 DEF Inv

LEMMA StepClosed == Inv /\ Closed => Inv'
<1> SUFFICES ASSUME Inv, Closed PROVE Inv'
  OBVIOUS
<1>1. /\ stage = "sync" /\ Dirty = {} /\ End("success")
      /\ file' = file /\ failed' = failed /\ npages' = npages /\ latest' = latest
      /\ spoiled' = spoiled
  BY DEF Closed, AllClean, End
<1>2. /\ touched = {} /\ npages \in Nat /\ file \in Seq(Image) /\ failed \in BOOLEAN
      /\ Len(file) <= npages
  BY <1>1 DEF Inv, Chain, TypeOK, Data
<1>3. ASSUME NEW p \in Pages
      PROVE  OnFile(p)
  <2>1. CASE p \in Resident
    <3>1. PICK j \in Places : cache[j].pgno = p
      BY <2>1 DEF Resident
    <3>2. ~Buffered(cache[j])
      BY <1>1, <1>2 DEF Buffered, Dirty
    <3> QED BY <1>1, <3>1, <3>2 DEF Inv, Data, BuffersGood
  <2>2. CASE p \notin Resident
    BY <1>1, <2>2 DEF Inv, Data, OthersOnFile
  <2> QED BY <2>1, <2>2
<1>4. Len(file) = npages
  <2>1. CASE npages = 0
    BY <1>2, <2>1
  <2>2. CASE npages > 0
    <3>1. npages - 1 \in Pages
      BY <1>2, <2>2 DEF Pages
    <3>2. npages - 1 < Len(file)
      BY <1>3, <3>1 DEF OnFile
    <3> QED BY <1>2, <3>2
  <2> QED BY <1>2, <2>1, <2>2
<1>5. SavedUnlessFailed'
  BY <1>1, <1>3, <1>4 DEF SavedUnlessFailed, Saved, Pages, OnFile
<1> QED BY <1>1, <1>2, <1>5, StepEnd

(* The page that could not be written was converted in its buffer, which   *)
(* keeps its mark.                                                         *)
LEMMA StepFlushFails ==
  ASSUME Inv, stage = "open", Flushes, failed' = TRUE, file' = file,
         cache' = [cache EXCEPT ![Victim] = [cache[Victim] EXCEPT !.data = Convert(cache[Victim].data)]],
         spoiled' = IF NeedSwap THEN spoiled \cup {cache[Victim].pgno} ELSE spoiled,
         UNCHANGED <<stage, curcache, npages, tree, exit, lost>>
  PROVE  Inv'
<1> USE DEF Inv
<1> DEFINE k == Victim
           v == cache[k]
           b == [v EXCEPT !.data = Convert(v.data)]
<1>1. /\ stage' = stage /\ curcache' = curcache /\ npages' = npages /\ exit' = exit /\ lost' = lost
      /\ held' = held /\ touched' = touched /\ latest' = latest
  BY DEF tree
<1>2. /\ npages \in Nat /\ latest \in [Pages -> Values] /\ cache \in Seq(Buffer)
      /\ Resident \subseteq Pages /\ spoiled \subseteq Nat
  BY DEF TypeOK, Chain
<1>3. k \in Places /\ v.dirty /\ v \in Buffer
  BY <1>2, VictimExists DEF Flushes, Places
<1>4. /\ b \in Buffer /\ b.pgno = v.pgno /\ b.dirty = v.dirty /\ b.pinned = v.pinned
      /\ b.data = Convert(v.data)
  BY <1>3, Conversion DEF Buffer
<1>5. cache' = [cache EXCEPT ![k] = b]
  OBVIOUS
<1> HIDE DEF b
<1>6. /\ cache' \in Seq(Buffer) /\ Len(cache') = Len(cache) /\ Places' = Places
      /\ cache'[k] = b /\ \A j \in Places : j # k => cache'[j] = cache[j]
      /\ OneBuffer' /\ Resident' = Resident
  <2> HIDE DEF Inv, k
  <2>1. OneBuffer
    BY DEF Inv
  <2> QED BY <1>2, <1>3, <1>4, <1>5, <2>1, Replaced
<1>7. /\ Pages' = Pages /\ spoiled \subseteq spoiled' /\ spoiled' \subseteq Nat
      /\ v.pgno \in spoiled' \/ b.data = v.data
  BY <1>1, <1>2, <1>3, <1>4 DEF Pages, Buffer, Convert
<1> HIDE DEF k, v
<1>8. \A j \in Places : /\ cache'[j].pgno = cache[j].pgno /\ cache'[j].pinned = cache[j].pinned
                        /\ cache'[j].dirty = cache[j].dirty
                        /\ cache[j].pgno \in spoiled' \/ cache'[j].data = cache[j].data
  <2>1. ASSUME NEW j \in Places
        PROVE  /\ cache'[j].pgno = cache[j].pgno /\ cache'[j].pinned = cache[j].pinned
               /\ cache'[j].dirty = cache[j].dirty
               /\ cache[j].pgno \in spoiled' \/ cache'[j].data = cache[j].data
    <3>1. CASE j = k
      BY <3>1, <1>4, <1>6, <1>7 DEF v
    <3>2. CASE j # k
      BY <3>2, <1>6
    <3> QED BY <3>1, <3>2
  <2> QED BY <2>1
<1>9. TypeOK'
  BY <1>1, <1>6, <1>7 DEF TypeOK
<1>10. HeldIsPinned' /\ Chain'
  BY <1>1, <1>6, <1>7, <1>8 DEF HeldIsPinned, Chain
<1>11. \A p : OnFile(p) => OnFile(p)'
  BY <1>1, <1>7 DEF OnFile
<1>12. BuffersGood'
  <2>1. ASSUME NEW j \in Places
        PROVE  /\ Fresh(cache[j])'
               /\ Buffered(cache[j])' \/ OnFile(cache[j].pgno)'
    <3>1. Fresh(cache[j]) /\ (Buffered(cache[j]) \/ OnFile(cache[j].pgno))
      BY DEF Data, BuffersGood
    <3>2. Fresh(cache[j])'
      BY <3>1, <1>1, <1>7, <1>8 DEF Fresh
    <3>3. Buffered(cache[j]) => Buffered(cache[j])'
      BY <1>1, <1>8 DEF Buffered
    <3>4. OnFile(cache[j].pgno) => OnFile(cache[j].pgno)'
      BY <1>8, <1>11
    <3> QED BY <3>1, <3>2, <3>3, <3>4
  <2> QED BY <1>6, <2>1 DEF BuffersGood
<1>13. Data'
  BY <1>1, <1>6, <1>7, <1>11, <1>12 DEF Data, OthersOnFile
<1>14. SavedUnlessFailed'
  BY <1>1 DEF SavedUnlessFailed
<1> QED BY <1>6, <1>9, <1>10, <1>13, <1>14

(* The chain without one of its buffers.                                   *)
LEMMA WithoutOne ==
  ASSUME NEW k \in Places, cache \in Seq(Buffer), OneBuffer, cache' = Without(cache, k)
  PROVE  /\ cache' \in Seq(Buffer) /\ Len(cache') = Len(cache) - 1
         /\ OneBuffer'
         /\ \A j \in Places' : \E q \in Places \ {k} : cache'[j] = cache[q]
         /\ \A q \in Places \ {k} : \E j \in Places' : cache'[j] = cache[q]
<1> DEFINE old == [j \in 1 .. Len(cache) - 1 |-> IF j < k THEN j ELSE j + 1]
<1>1. Len(cache) \in Nat \ {0} /\ k \in Nat /\ k <= Len(cache)
  BY DEF Places
<1>2. cache' \in Seq(Buffer) /\ Len(cache') = Len(cache) - 1
  BY <1>1 DEF Without, Places
<1>3. Places' = 1 .. Len(cache) - 1
  BY <1>1, <1>2 DEF Places
<1>4. \A j \in Places' : old[j] \in Places \ {k} /\ cache'[j] = cache[old[j]]
  BY <1>1, <1>3 DEF Without, Places
<1>5. \A i, j \in Places' : old[i] = old[j] => i = j
  BY <1>1, <1>3
<1>6. ASSUME NEW q \in Places \ {k}
      PROVE  \E j \in Places' : old[j] = q
  <2>1. CASE q < k
    <3>1. q \in Places' /\ old[q] = q
      BY <2>1, <1>1, <1>3 DEF Places
    <3> QED BY <3>1
  <2>2. CASE q > k
    <3>1. q - 1 \in Places' /\ old[q - 1] = q
      BY <2>2, <1>1, <1>3 DEF Places
    <3> QED BY <3>1
  <2>3. q < k \/ q > k
    BY <1>1 DEF Places
  <2> QED BY <2>1, <2>2, <2>3
<1> HIDE DEF old
<1>7. OneBuffer'
  <2>1. ASSUME NEW i \in Places', NEW j \in Places', cache'[i].pgno = cache'[j].pgno
        PROVE  i = j
    <3>1. old[i] = old[j]
      BY <2>1, <1>4 DEF OneBuffer
    <3> QED BY <3>1, <1>5
  <2> QED BY <2>1 DEF OneBuffer
<1>8. \A q \in Places \ {k} : \E j \in Places' : cache'[j] = cache[q]
  <2>1. ASSUME NEW q \in Places \ {k}
        PROVE  \E j \in Places' : cache'[j] = cache[q]
    <3>1. PICK j \in Places' : old[j] = q
      BY <1>6
    <3> QED BY <3>1, <1>4
  <2> QED BY <2>1
<1> QED BY <1>2, <1>4, <1>7, <1>8

(* The buffer for a page that could not be read is on no list.             *)
LEMMA StepReadFails ==
  ASSUME Inv, stage = "open", failed' = TRUE, file' = FileNow, lost' = lost + 1,
         cache' = IF Evicts THEN Without(cache, Victim) ELSE cache,
         curcache' = IF Evicts THEN curcache ELSE curcache + 1,
         UNCHANGED <<stage, npages, tree, exit, spoiled>>
  PROVE  Inv'
<1> USE DEF Inv
<1>1. /\ stage' = stage /\ npages' = npages /\ exit' = exit /\ spoiled' = spoiled
      /\ held' = held /\ touched' = touched /\ latest' = latest
  BY DEF tree
<1>2. /\ npages \in Nat /\ cache \in Seq(Buffer) /\ Resident \subseteq Pages
      /\ curcache = Len(cache) + lost /\ lost \in Nat /\ curcache \in Nat
  BY DEF TypeOK, Chain
<1>3. /\ FileNow \in Seq(Image) /\ Len(FileNow) <= npages
      /\ \A p \in Pages : OnFile(p) => OnNow(p)
      /\ Evicts => Victim \in Places /\ ~cache[Victim].pinned /\ OnNow(cache[Victim].pgno)
  BY FlushSaves
<1>4. Pages' = Pages
  BY <1>1 DEF Pages
<1>5. \A p : OnNow(p) => OnFile(p)'
  BY <1>1 DEF OnNow, OnFile
<1>6. PICK out \in SUBSET Places :
        /\ cache' \in Seq(Buffer) /\ OneBuffer' /\ curcache' = Len(cache') + lost'
        /\ \A j \in Places' : \E q \in Places \ out : cache'[j] = cache[q]
        /\ \A q \in Places \ out : \E j \in Places' : cache'[j] = cache[q]
        /\ \A q \in out : ~cache[q].pinned /\ OnNow(cache[q].pgno)
  <2>1. CASE Evicts
    <3>1. /\ cache' \in Seq(Buffer) /\ Len(cache') = Len(cache) - 1
          /\ OneBuffer'
          /\ \A j \in Places' : \E q \in Places \ {Victim} : cache'[j] = cache[q]
          /\ \A q \in Places \ {Victim} : \E j \in Places' : cache'[j] = cache[q]
      <4>1. OneBuffer /\ cache' = Without(cache, Victim)
        BY <2>1
      <4> HIDE DEF Inv
      <4> QED BY <1>2, <1>3, <2>1, <4>1, WithoutOne
    <3>2. curcache' = Len(cache') + lost'
      BY <1>2, <2>1, <3>1
    <3> QED BY <1>3, <2>1, <3>1, <3>2
  <2>2. CASE ~Evicts
    <3>1. cache' = cache /\ Places' = Places
      BY <2>2 DEF Places
    <3>2. OneBuffer'
      BY <3>1 DEF OneBuffer
    <3>3. cache' \in Seq(Buffer) /\ curcache' = Len(cache') + lost'
      BY <1>2, <2>2, <3>1
    <3>4. /\ \A j \in Places' : \E q \in Places \ {} : cache'[j] = cache[q]
          /\ \A q \in Places \ {} : \E j \in Places' : cache'[j] = cache[q]
      BY <3>1
    <3>5. {} \in SUBSET Places /\ \A q \in {} : ~cache[q].pinned /\ OnNow(cache[q].pgno)
      OBVIOUS
    <3> HIDE DEF Inv
    <3> QED BY <3>2, <3>3, <3>4, <3>5, Zenon
  <2> QED BY <2>1, <2>2
<1>7. curcache' \in Nat /\ lost' \in Nat
  BY <1>2
<1>8. TypeOK'
  BY <1>1, <1>3, <1>4, <1>6, <1>7 DEF TypeOK
<1>9. HeldIsPinned'
  <2>1. ASSUME NEW p \in held
        PROVE  \E j \in Places' : cache'[j].pinned /\ cache'[j].pgno = p
    <3>1. PICK q \in Places : cache[q].pinned /\ cache[q].pgno = p
      BY DEF HeldIsPinned
    <3> QED BY <3>1, <1>6
  <2>2. ASSUME NEW j \in Places', cache'[j].pinned
        PROVE  cache'[j].pgno \in held
    BY <2>2, <1>6 DEF HeldIsPinned
  <2> QED BY <1>1, <2>1, <2>2 DEF HeldIsPinned
<1>10. Resident' \subseteq Resident
  BY <1>6 DEF Resident
<1>11. Chain'
  BY <1>1, <1>2, <1>4, <1>6, <1>10 DEF Chain
<1>12. BuffersGood'
  <2>1. ASSUME NEW j \in Places'
        PROVE  /\ Fresh(cache[j])'
               /\ Buffered(cache[j])' \/ OnFile(cache[j].pgno)'
    <3>1. PICK q \in Places : cache'[j] = cache[q]
      BY <1>6
    <3>2. cache[q].pgno \in Pages
      BY <1>2 DEF Resident
    <3>3. Fresh(cache[q]) /\ (Buffered(cache[q]) \/ OnFile(cache[q].pgno))
      BY DEF Data, BuffersGood
    <3>4. Fresh(cache[j])'
      BY <3>1, <3>3, <1>1 DEF Fresh
    <3>5. Buffered(cache[q]) => Buffered(cache[j])'
      BY <3>1, <1>1 DEF Buffered
    <3>6. OnFile(cache[q].pgno) => OnFile(cache[j].pgno)'
      BY <3>1, <3>2, <1>3, <1>5
    <3> QED BY <3>3, <3>4, <3>5, <3>6
  <2> QED BY <2>1 DEF BuffersGood
<1>13. OthersOnFile'
  <2>1. ASSUME NEW p \in Pages, p \notin Resident'
        PROVE  OnFile(p)'
    <3>1. CASE p \in Resident
      <4>1. PICK q \in Places : cache[q].pgno = p
        BY <3>1 DEF Resident
      <4>2. q \in out
        BY <2>1, <4>1, <1>6 DEF Resident
      <4> QED BY <4>1, <4>2, <1>5, <1>6
    <3>2. CASE p \notin Resident
      BY <3>2, <1>3, <1>5 DEF Data, OthersOnFile
    <3> QED BY <3>1, <3>2
  <2> QED BY <1>4, <2>1 DEF OthersOnFile
<1>14. Data'
  BY <1>1, <1>3, <1>12, <1>13 DEF Data
<1>15. SavedUnlessFailed'
  BY <1>1 DEF SavedUnlessFailed
<1> QED BY <1>6, <1>8, <1>9, <1>11, <1>14, <1>15

LEMMA StepFails == Inv /\ (SyncFails \/ FlushFails \/ ReadFails \/ Crash) => Inv'
<1> SUFFICES ASSUME Inv PROVE SyncFails \/ FlushFails \/ ReadFails \/ Crash => Inv'
  OBVIOUS
<1>1. file \in Seq(Image) /\ failed \in BOOLEAN
  BY DEF Inv, TypeOK
<1>2. ASSUME file' \in Seq(Image), failed' = TRUE, NEW e \in {"success", "error"}, End(e)
      PROVE  Inv'
  BY <1>2, StepEnd DEF SavedUnlessFailed
<1>3. CASE SyncFails
  BY <1>1, <1>2, <1>3 DEF SyncFails
<1>4. CASE FlushFails
  <2>1. CASE DieOrClose
    BY <1>1, <1>2, <1>4, <2>1 DEF FlushFails, DieOrClose
  <2>2. CASE ~DieOrClose
    BY <1>4, <2>2, StepFlushFails DEF FlushFails
  <2> QED BY <2>1, <2>2
<1>5. CASE ReadFails
  <2>1. stage = "open" /\ file' = FileNow /\ failed' = TRUE
    BY <1>5 DEF ReadFails
  <2>2. CASE DieOrClose
    <3>1. PICK e \in {"success", "error"} : End(e)
      BY <2>2 DEF DieOrClose
    <3>2. FileNow \in Seq(Image)
      BY <2>1, FlushSaves
    <3> QED BY <1>2, <2>1, <3>1, <3>2
  <2>3. CASE ~DieOrClose
    BY <1>5, <2>1, <2>3, StepReadFails DEF ReadFails
  <2> QED BY <2>2, <2>3
<1>6. CASE Crash
  <2>1. file' = file /\ failed' = failed /\ End("error") /\ exit' = "error"
    BY <1>6 DEF Crash, End
  <2> QED BY <1>1, <2>1, StepEnd DEF SavedUnlessFailed
<1> QED BY <1>3, <1>4, <1>5, <1>6

LEMMA Step == Inv /\ [Next]_vars => Inv'
<1> SUFFICES ASSUME Inv, [Next]_vars PROVE Inv'
  OBVIOUS
<1>1. CASE UNCHANGED vars
  <2>1. /\ UNCHANGED <<file, stage, cache, curcache, npages>>
        /\ UNCHANGED <<held, touched, latest, exit, failed, lost, spoiled>>
    BY <1>1 DEF vars, pool, tree, ended, harm
  <2>2. Places' = Places /\ Resident' = Resident /\ Pages' = Pages
    BY <2>1 DEF Places, Resident, Pages
  <2>3. TypeOK' /\ OneBuffer' /\ HeldIsPinned' /\ Chain'
    <3>1. TypeOK'
      BY <2>1, <2>2 DEF Inv, TypeOK
    <3>2. OneBuffer' /\ HeldIsPinned'
      BY <2>1, <2>2 DEF Inv, OneBuffer, HeldIsPinned
    <3>3. Chain'
      BY <2>1, <2>2 DEF Inv, Chain
    <3> QED BY <3>1, <3>2, <3>3
  <2>4. BuffersGood' <=> BuffersGood
    BY <2>1, <2>2 DEF BuffersGood, Fresh, Buffered, OnFile
  <2>5. OthersOnFile' <=> OthersOnFile
    BY <2>1, <2>2 DEF OthersOnFile, OnFile
  <2>6. Data'
    BY <2>1, <2>4, <2>5 DEF Inv, Data
  <2>7. SavedUnlessFailed'
    BY <2>1, <2>2 DEF Inv, SavedUnlessFailed, Saved, OnFile
  <2> QED BY <2>3, <2>6, <2>7 DEF Inv
<1>2. CASE Open
  BY <1>2, StepOpen
<1>3. CASE New
  BY <1>3, StepNew
<1>4. CASE Close
  BY <1>4, StepClose
<1>5. CASE Sync
  BY <1>5, StepSync
<1>6. CASE Closed
  BY <1>6, StepClosed
<1>7. ASSUME NEW p \in 0 .. MaxPages - 1, Hit(p) \/ Miss(p) \/ Change(p) \/ Put(p)
      PROVE  Inv'
  BY <1>7, StepHit, StepMiss, StepChange, StepPut
<1>8. CASE SyncFails \/ FlushFails \/ ReadFails \/ Crash
  BY <1>8, StepFails
<1> QED BY <1>1, <1>2, <1>3, <1>4, <1>5, <1>6, <1>7, <1>8 DEF Next

LEMMA Invariance == Spec => []Inv
<1>1. Init => Inv
  BY Beginning
<1>2. Inv /\ [Next]_vars => Inv'
  BY Step
<1> QED BY <1>1, <1>2, PTL DEF Spec

-----------------------------------------------------------------------------
(* Every variable keeps its kind, and the B-tree holds and changes pages   *)
(* of the file only (all of mpool.c).                                      *)
THEOREM TypeInvariant == Spec => []TypeOK
<1>1. Inv => TypeOK
  BY DEF Inv
<1> QED BY <1>1, Invariance, PTL

(* A page is never in two buffers (mpool_look, mpool_get, mpool_new).      *)
THEOREM NoPageTwice == Spec => []OneBuffer
<1>1. Inv => OneBuffer
  BY DEF Inv
<1> QED BY <1>1, Invariance, PTL

(* A page the B-tree holds stays in its buffer (mpool_bkt).                *)
THEOREM PinsHold == Spec => []HeldIsPinned
<1>1. Inv => HeldIsPinned
  BY DEF Inv
<1> QED BY <1>1, Invariance, PTL

(* What the B-tree reads is what it wrote, however small the cache is, but *)
(* for the pages that could not be written and were converted nonetheless  *)
(* (mpool_get, mpool_bkt, mpool_write).                                    *)
THEOREM CacheIsTransparent == Spec => []Transparent
<1>1. Inv => Transparent
  <2> SUFFICES ASSUME Inv, stage = "open"
               PROVE  /\ \A j \in Places :
                           /\ Fresh(cache[j])
                           /\ Buffered(cache[j]) \/ OnFile(cache[j].pgno)
                      /\ \A p \in Pages : p \in Resident \/ OnFile(p)
    BY DEF Transparent, Fresh, Buffered
  <2> QED BY DEF Inv, Data, BuffersGood, OthersOnFile
<1> QED BY <1>1, Invariance, PTL

(* A program that ends well and had no error of input or output has saved  *)
(* every page (mpool_sync, __bt_close).                                    *)
THEOREM ClosedIsSaved == Spec => []SavedUnlessFailed
<1>1. Inv => SavedUnlessFailed
  BY DEF Inv
<1> QED BY <1>1, Invariance, PTL

-----------------------------------------------------------------------------
(* How far the cache grows.                                                *)

LEMMA PinnedAreHeld ==
  ASSUME Inv, Victims = {}
  PROVE  Len(cache) = Cardinality(held)
<1>1. Len(cache) \in Nat /\ \A j \in Places : cache[j].pinned
  BY DEF Inv, TypeOK, Victims
<1> DEFINE f == [j \in Places |-> cache[j].pgno]
<1>2. held = {f[j] : j \in Places}
  BY <1>1 DEF Inv, HeldIsPinned
<1>3. f \in Bijection(Places, held)
  <2>1. f \in [Places -> held] /\ \A p \in held : \E j \in Places : f[j] = p
    BY <1>2
  <2>2. \A i, j \in Places : f[i] = f[j] => i = j
    BY DEF Inv, OneBuffer
  <2> HIDE DEF f
  <2> QED BY <2>1, <2>2 DEF Bijection, Injection, Surjection, IsInjective
<1>4. IsFiniteSet(Places) /\ Cardinality(Places) = Len(cache)
  BY <1>1, FS_Interval DEF Places
<1>5. Cardinality(held) = Cardinality(Places)
  <2> HIDE DEF f
  <2>1. f \in Surjection(Places, held) /\ f \in Injection(Places, held)
    BY <1>3 DEF Bijection
  <2> QED BY <1>4, <2>1, FS_Surjection
<1> QED BY <1>4, <1>5

(* The cache grows past its limit only when all its buffers are pinned, so *)
(* never past the number of pages the B-tree holds at once, but for the    *)
(* buffers that failed reads left behind (mpool_bkt, mpool_get).           *)
THEOREM CacheIsBounded == Spec => []CacheBound
<1> DEFINE Limit == IF MaxHeld > MaxCache THEN MaxHeld ELSE MaxCache
<1>0. Limit \in Nat /\ MaxHeld <= Limit /\ MaxCache <= Limit /\ MaxCache \in Nat /\ MaxHeld \in Nat
  BY BoundsAssumption
<1> HIDE DEF Limit
<1>1. Init => CacheBound
  BY <1>0 DEF Init, CacheBound, Limit
<1>2. Inv /\ CacheBound /\ [Next]_vars => CacheBound'
  <2> SUFFICES ASSUME Inv, curcache <= lost + Limit, [Next]_vars
               PROVE  curcache' <= lost' + Limit
    BY DEF CacheBound, Limit
  <2>1. curcache \in Nat /\ lost \in Nat /\ curcache = Len(cache) + lost /\ Len(cache) \in Nat
    BY DEF Inv, TypeOK, Chain
  <2>2. ASSUME Room
        PROVE  (IF Evicts THEN curcache ELSE curcache + 1) <= lost + Limit
    <3>1. CASE Evicts
      BY <3>1
    <3>2. CASE ~Evicts
      <4>1. curcache < MaxCache \/ Victims = {}
        BY <3>2 DEF Evicts, HasRoom
      <4>2. CASE curcache < MaxCache
        BY <1>0, <2>1, <3>2, <4>2
      <4>3. CASE Victims = {}
        <5>1. Len(cache) < MaxHeld
          BY <2>1, <2>2, <4>3, PinnedAreHeld DEF Room
        <5> QED BY <1>0, <2>1, <3>2, <5>1
      <4> QED BY <4>1, <4>2, <4>3
    <3> QED BY <3>1, <3>2
  <2>3. ASSUME NEW e, End(e)
        PROVE  curcache' <= lost' + Limit
    BY <1>0, <2>3 DEF End
  <2>4. ASSUME NEW b, Assign(b), Room, lost' = lost
        PROVE  curcache' <= lost' + Limit
    BY <2>2, <2>4 DEF Assign
  <2>5. CASE New
    BY <2>4, <2>5 DEF New, harm
  <2>6. ASSUME NEW p, Miss(p)
        PROVE  curcache' <= lost' + Limit
    BY <2>4, <2>6 DEF Miss, harm
  <2>7. ASSUME NEW p, Hit(p) \/ Change(p) \/ Put(p)
        PROVE  curcache' <= lost' + Limit
    BY <2>7 DEF Hit, Change, Put, harm
  <2>8. CASE Open \/ Close \/ Sync \/ UNCHANGED vars
    BY <2>8 DEF Open, Close, Sync, vars, pool, harm
  <2>9. CASE Closed \/ SyncFails \/ Crash
    BY <2>3, <2>9 DEF Closed, SyncFails, Crash
  <2>10. CASE FlushFails
    <3>1. CASE DieOrClose
      BY <2>3, <3>1 DEF DieOrClose
    <3>2. CASE ~DieOrClose
      BY <2>10, <3>2 DEF FlushFails
    <3> QED BY <3>1, <3>2
  <2>11. CASE ReadFails
    <3>1. CASE DieOrClose
      BY <2>3, <3>1 DEF DieOrClose
    <3>2. CASE ~DieOrClose
      <4>1. curcache' <= lost + Limit /\ lost' = lost + 1
        BY <2>2, <2>11, <3>2 DEF ReadFails
      <4>2. curcache' \in Nat
        BY <2>1, <2>11, <3>2 DEF ReadFails
      <4> QED BY <1>0, <2>1, <4>1, <4>2
    <3> QED BY <3>1, <3>2
  <2> QED BY <2>5, <2>6, <2>7, <2>8, <2>9, <2>10, <2>11 DEF Next
<1> QED BY <1>1, <1>2, Invariance, PTL DEF Spec

=============================================================================
