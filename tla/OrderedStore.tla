---------------------------- MODULE OrderedStore ----------------------------
(***************************************************************************)
(* What the callers of a tag file rely on (libutil/dbop.c): a list of      *)
(* records kept in the order of their keys, one record to a key unless the *)
(* file was made with DBOP_DUP, and one cursor that walks forward over it. *)
(* The cursor is on a record or, when that record has been deleted, in the *)
(* gap before the record it has to return next.                            *)
(***************************************************************************)
EXTENDS Integers, Sequences, SequencesExt

CONSTANTS
  Keys,     (* keys of the records, integers in their order                *)
  Vals      (* data of the records                                         *)

VARIABLES
  dups,     (* several records may have one key                            *)
  recs,     (* the records <<key, data>>, in order                         *)
  cur,      (* the cursor, Nowhere when no scan is under way               *)
  ret       (* what the last call returned                                 *)

vars == <<dups, recs, cur, ret>>

Nowhere == [at |-> 0, on |-> FALSE]
Special == <<>>              \* RET_SPECIAL: there is no such record

Ordered(s) ==
  \A i \in 1 .. Len(s) - 1 : IF dups THEN s[i][1] <= s[i + 1][1] ELSE s[i][1] < s[i + 1][1]

Init ==
  /\ dups \in BOOLEAN
  /\ \E k \in Keys, v \in Vals : recs \in {<<>>, <<<<k, v>>>>}
  /\ cur = Nowhere
  /\ ret = Special

(* A record is put somewhere among the ones with its key.  It takes the    *)
(* place of the one it finds when a key has one record only.  A scan ends. *)
Put ==
  /\ ret' = Special
  /\ cur' = Nowhere
  /\ \E i \in 1 .. Len(recs') :
       /\ recs'[i] \in Keys \X Vals
       /\ RemoveAt(recs', i) = IF dups THEN recs ELSE SelectSeq(recs, LAMBDA r : r[1] # recs'[i][1])
  /\ Ordered(recs')
  /\ UNCHANGED dups

(* The cursor goes to record i, or stays where it is when there is none.   *)
MoveTo(i) ==
  /\ IF i \in 1 .. Len(recs)
     THEN ret' = recs[i] /\ cur' = [at |-> i, on |-> TRUE]
     ELSE ret' = Special /\ UNCHANGED cur
  /\ UNCHANGED <<recs, dups>>

First == MoveTo(1)
Seek  == \E k \in Keys : MoveTo(1 + Len(SelectSeq(recs, LAMBDA r : r[1] < k)))
Next1 == cur # Nowhere /\ MoveTo(IF cur.on THEN cur.at + 1 ELSE cur.at)

(* The record under the cursor is deleted: the walk goes on at the one     *)
(* after it.                                                               *)
DeleteCurrent ==
  /\ ret' = Special
  /\ cur.on
  /\ cur' = [cur EXCEPT !.on = FALSE]
  /\ recs' = RemoveAt(recs, cur.at)
  /\ UNCHANGED dups

(* All the records of a key are deleted.                                   *)
DeleteKey ==
  /\ ret' = Special
  /\ \E k \in Keys :
       LET before == Len(SelectSeq(recs, LAMBDA r : r[1] < k))
           gone   == Len(SelectSeq(recs, LAMBDA r : r[1] = k))
       IN  /\ recs' = SelectSeq(recs, LAMBDA r : r[1] # k)
           /\ cur' = IF cur.at <= before THEN cur
                     ELSE IF cur.at <= before + gone THEN [at |-> before + 1, on |-> FALSE]
                     ELSE [cur EXCEPT !.at = @ - gone]
  /\ UNCHANGED dups

Reopen == cur' = Nowhere /\ ret' = Special /\ UNCHANGED <<dups, recs>>

Next == First \/ Next1 \/ Seek \/ Reopen \/ Put \/ DeleteCurrent \/ DeleteKey

Spec == Init /\ [][Next]_vars
=============================================================================
