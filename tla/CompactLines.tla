---------------------------- MODULE CompactLines ----------------------------
(***************************************************************************)
(* How GRTAGS keeps the lines on which a tag is used in a file, and how    *)
(* global(1) prints them.  The writer is flush_pool() of                   *)
(* global-6.2.12/libutil/gtagsop.c: it writes the sorted line numbers as   *)
(* differences and ranges, `10,3-2' for 10 13 14 15, in as many records as *)
(* the page size asks for.  The reader is put_compact_format() of          *)
(* global/output.c: it unfolds one record after another and, as it goes,   *)
(* reads the source file forward to show the text of each line; between    *)
(* two tags it may print lines of other files.                             *)
(*                                                                         *)
(* A record is the sequence of its numbers with the separators before      *)
(* them; its length is counted in numbers instead of characters.  The text *)
(* of a line is the number of the line, 0 is the empty text, and one more  *)
(* than the last line stands for a text of another file.                   *)
(***************************************************************************)
EXTENDS Naturals, Sequences, FiniteSetsExt, Functions

CONSTANTS
  TagCount,  (* tags used in the file                                      *)
  MaxLine,   (* the last line when the tags were made                      *)
  MaxUses,   (* bound of the number of uses in the file                    *)
  Limit,     (* DBOP_PAGESIZE / 4: a longer record is written at once      *)
  Filtered   (* the sort filter is on, no --nofilter                       *)

ASSUME TagsAssumption == TagCount \in Nat \ {0}
ASSUME BoundsAssumption == MaxLine \in Nat \ {0} /\ MaxUses \in Nat
ASSUME LimitAssumption == Limit \in Nat \ {0}
ASSUME FilteredAssumption == Filtered \in BOOLEAN

VARIABLES
  phase,    (* "write", "search", "read", "done"                           *)
  tag,      (* the tag that is being written, or read                      *)
  (* flush_pool() *)
  uses,     (* tag -> the lines in its pool, after qsort()                 *)
  i,        (* the next of them to write                                   *)
  last,     (* the line before it                                          *)
  cont,     (* where a range began, 0 if none has begun                    *)
  sb,       (* the record under construction                               *)
  records,  (* tag -> what dbop_put() has taken                            *)
  (* put_compact_format() *)
  rec, at,  (* the reader is at this number of this record, 0 at its start *)
  line,     (* its `last': the line it was at                              *)
  upto,     (* its `cont': the end of a range, 0 if it is in none          *)
  (* the static variables of output.c *)
  curpath,      (* does it name this file?                                 *)
  curtag,       (* a tag, or 0 for a string that is none                   *)
  cur_lineno,   (* the lines read from the source file                     *)
  last_lineno,
  fp,           (* is the source file open?                                *)
  src,          (* the text read last                                      *)
  opened,       (* history: did the last fopen() of this file succeed?     *)
  (* the rest *)
  fileLen,  (* the lines the source file has when global runs              *)
  out       (* what convert_put_using() was called with                    *)

writer == <<uses, i, last, cont, sb, records>>
cursor == <<rec, at, line, upto>>
output == <<curpath, curtag, cur_lineno, last_lineno, fp, src, opened>>
vars == <<phase, tag, writer, cursor, output, fileLen, out>>

Tags  == 1 .. TagCount      \* in the order of the database
Lines == 1 .. MaxLine
Seps  == {"head", "comma", "dash"}
Token == [sep : Seps, n : Nat]
Shown == [tag : Tags, line : Nat, text : Nat, open : BOOLEAN]
OtherText == MaxLine + 1

Sorted(s) == \A j \in 1 .. Len(s) - 1 : s[j] <= s[j + 1]
Pools     == {s \in UNION {[1 .. k -> Lines] : k \in 1 .. MaxUses} : Sorted(s)}
Total(f)  == MapThenSumSet(LAMBDA t : Len(f[t]), Tags)

-----------------------------------------------------------------------------
(* flush_pool()                                                            *)

Consume ==
  /\ phase = "write"
  /\ i <= Len(uses[tag])
  /\ i' = i + 1
  /\ last' = uses[tag][i]
  /\ UNCHANGED <<phase, tag, uses, cursor, output, fileLen, out>>

(* A tag used twice on a line.                                             *)
Repeat ==
  /\ Consume
  /\ last' = last
  /\ UNCHANGED <<cont, sb, records>>

(* The line after the last one opens a range or prolongs it, but not at    *)
(* the head of a record.                                                   *)
Prolong ==
  IF cont # 0
  THEN UNCHANGED <<cont, sb>>
  ELSE IF sb = <<>>
       THEN sb' = <<[sep |-> "head", n |-> last']>> /\ UNCHANGED cont
       ELSE cont' = last /\ UNCHANGED sb

Follow ==
  /\ Consume
  /\ last > 0
  /\ last' = last + 1
  /\ Prolong
  /\ UNCHANGED records

(* An open range is written as the distance from its start.                *)
FromTheEnd  == IF cont = 0 THEN sb ELSE Append(sb, [sep |-> "dash", n |-> cont - last])  \* mutant
RangeLost   == sb                                                  \* mutant
RangeClosed == IF cont = 0 THEN sb ELSE Append(sb, [sep |-> "dash", n |-> last - cont])

(* Any other line ends the range and is written as a difference, or as     *)
(* itself at the head.                                                     *)
Grown ==
  IF RangeClosed = <<>>
  THEN <<[sep |-> "head", n |-> last']>>
  ELSE Append(RangeClosed, [sep |-> "comma", n |-> last' - last])

PutRecord(r) == records' = [records EXCEPT ![tag] = Append(@, r)]

(* A record that has outgrown the limit is written and the next begins.    *)
Split(grown) ==
  IF Len(grown) > Limit
  THEN sb' = <<>> /\ PutRecord(grown)
  ELSE sb' = grown /\ UNCHANGED records

Jump ==
  /\ Consume
  /\ last' # last
  /\ ~(last > 0 /\ last' = last + 1)
  /\ cont' = 0
  /\ Split(Grown)

(* The end of the line numbers of a tag; after the last tag, global runs.  *)
EndOfPool ==
  /\ phase = "write"
  /\ i > Len(uses[tag])
  /\ IF RangeClosed = <<>> THEN UNCHANGED records ELSE PutRecord(RangeClosed)
  /\ i' = 1 /\ last' = 0 /\ cont' = 0 /\ sb' = <<>>
  /\ IF tag + 1 \in Tags
     THEN tag' = tag + 1 /\ UNCHANGED phase
     ELSE tag' = 1 /\ phase' = "search"
  /\ UNCHANGED <<uses, cursor, output, fileLen, out>>

-----------------------------------------------------------------------------
(* search() of global.c.                                                   *)

(* segment_read(): the B-tree keeps the records of a key in no order; the  *)
(* sort filter sorts them by their first line.                             *)
Orders(s) == {[j \in 1 .. Len(s) |-> s[p[j]]] : p \in Bijection(1 .. Len(s), 1 .. Len(s))}
ByFirstLine(r) == \A j, k \in 1 .. Len(r) : j < k => r[j][1].n <= r[k][1].n
Segment(s) ==
  IF Filtered THEN {r \in Orders(s) : ByFirstLine(r)} ELSE Orders(s)

Search ==
  /\ phase = "search"
  /\ \E r \in [Tags -> UNION {Segment(records[t]) : t \in Tags}] :
       /\ \A t \in Tags : r[t] \in Segment(records[t])
       /\ records' = r
  /\ phase' = "read"
  /\ UNCHANGED <<tag, uses, i, last, cont, sb, cursor, output, fileLen, out>>

-----------------------------------------------------------------------------
(* put_compact_format()                                                    *)

(* A change of path opens the source file, if it is there, and takes for   *)
(* curtag the tag name as it is stored, compressed to `@n'; src is kept.   *)
(* A later call with another tag than curtag rewinds the file when that    *)
(* tag is used above.                                                      *)
NeverRewind(first) == UNCHANGED cur_lineno                         \* mutant
Rewind(first) ==
  cur_lineno' = IF first < last_lineno /\ fp THEN 0 ELSE cur_lineno

SeekSource ==
  IF ~curpath
  THEN /\ curpath' = TRUE /\ curtag' = 0 /\ cur_lineno' = 0 /\ last_lineno' = 0
       /\ \E there \in BOOLEAN : fp' = there /\ opened' = there
  ELSE /\ IF curtag = tag
          THEN UNCHANGED <<curtag, cur_lineno, last_lineno>>
          ELSE curtag' = tag /\ Rewind(records[tag][rec][1].n) /\ last_lineno' = 0
       /\ UNCHANGED <<curpath, fp, opened>>

Begin ==
  /\ phase = "read"
  /\ at = 0
  /\ rec <= Len(records[tag])
  /\ at' = 1
  /\ line' = 0
  /\ upto' = 0
  /\ SeekSource
  /\ UNCHANGED <<phase, tag, writer, rec, src, fileLen, out>>

(* The end of the loop: the file is read up to the line, if it goes so far,*)
(* and closed at its end.                                                  *)
Show(n) ==
  /\ IF n # last_lineno /\ fp /\ cur_lineno < n
     THEN IF n <= fileLen
          THEN cur_lineno' = n /\ src' = n /\ UNCHANGED fp
          ELSE cur_lineno' = fileLen /\ src' = 0 /\ fp' = FALSE
     ELSE UNCHANGED <<cur_lineno, src, fp>>
  /\ out' = Append(out, [tag |-> tag, line |-> n, text |-> src', open |-> opened])
  /\ line' = n
  /\ last_lineno' = n
  /\ UNCHANGED <<phase, tag, writer, rec, curpath, curtag, opened, fileLen>>

LeaveRange  == upto' = 0

(* Inside a range: the next line of it, or its end.                        *)
Unfold ==
  /\ phase = "read"
  /\ upto > 0
  /\ IF line + 1 > upto
     THEN /\ LeaveRange
          /\ UNCHANGED <<phase, tag, writer, rec, line, output, fileLen, out>>
     ELSE Show(line + 1) /\ UNCHANGED upto
  /\ UNCHANGED at

(* The next number of the record.                                          *)
Fetch(sep) ==
  /\ phase = "read"
  /\ upto = 0
  /\ at \in 1 .. Len(records[tag][rec])
  /\ records[tag][rec][at].sep = sep
  /\ at' = at + 1

Number == records[tag][rec][at].n

First == Fetch("head") /\ Show(Number) /\ UNCHANGED upto
Gap   == Fetch("comma") /\ Show(line + Number) /\ UNCHANGED upto
Start == Fetch("dash") /\ Show(line + 1) /\ upto' = line + Number

(* The loop of search(): the next record, of this tag or of the next.      *)
NextRecord ==
  /\ phase = "read"
  /\ upto = 0
  /\ at > Len(records[tag][rec])
  /\ at' = 0
  /\ IF rec < Len(records[tag])
     THEN rec' = rec + 1 /\ UNCHANGED <<tag, phase>>
     ELSE /\ rec' = 1
          /\ IF tag + 1 \in Tags
             THEN tag' = tag + 1 /\ UNCHANGED phase
             ELSE phase' = "done" /\ UNCHANGED tag
  /\ UNCHANGED <<writer, line, upto, output, fileLen, out>>

(* Lines of another file are printed: between two tags, for the filter     *)
(* sorts the records of a tag by their path.  src is a text of that file,  *)
(* or empty behind its end, or kept if it cannot be opened; the other      *)
(* variables are set anew when this file is back.                          *)
Visit ==
  /\ phase = "read"
  /\ at = 0
  /\ rec = 1 \/ ~Filtered
  /\ src' \in {src, 0, OtherText}
  /\ curpath' = FALSE
  /\ curtag' = 0 /\ cur_lineno' = 0 /\ last_lineno' = 0 /\ fp' = FALSE /\ opened' = FALSE
  /\ UNCHANGED <<phase, tag, writer, cursor, fileLen, out>>

Init ==
  /\ phase = "write"
  /\ tag = 1
  /\ uses \in {u \in [Tags -> Pools] : Total(u) <= MaxUses}
  /\ i = 1 /\ last = 0 /\ cont = 0 /\ sb = <<>>
  /\ records = [t \in Tags |-> <<>>]
  /\ rec = 1 /\ at = 0 /\ line = 0 /\ upto = 0
  /\ curpath = FALSE /\ curtag = 0 /\ cur_lineno = 0 /\ last_lineno = 0 /\ fp = FALSE /\ src = 0
  /\ opened = FALSE
  /\ fileLen \in 0 .. MaxLine
  /\ out = <<>>

Next ==
  \/ Repeat \/ Follow \/ Jump \/ EndOfPool
  \/ Search
  \/ Begin \/ Unfold \/ First \/ Gap \/ Start \/ NextRecord \/ Visit

Spec == Init /\ [][Next]_vars

-----------------------------------------------------------------------------
(* Properties.                                                             *)

(* Every variable holds a value of the kind its comment above names.       *)
TypeOK ==
  /\ phase \in {"write", "search", "read", "done"}
  /\ tag \in Tags
  /\ uses \in [Tags -> Seq(Lines)]
  /\ i \in Nat \ {0}
  /\ last \in Nat /\ cont \in Nat
  /\ sb \in Seq(Token)
  /\ records \in [Tags -> Seq(Seq(Token))]
  /\ rec \in Nat \ {0} /\ at \in Nat
  /\ line \in Nat /\ upto \in Nat
  /\ curpath \in BOOLEAN
  /\ curtag \in Tags \cup {0}
  /\ cur_lineno \in Nat /\ last_lineno \in Nat
  /\ fp \in BOOLEAN
  /\ src \in Nat /\ opened \in BOOLEAN
  /\ fileLen \in Nat
  /\ out \in Seq(Shown)

Uses(t) == {uses[t][j] : j \in 1 .. Len(uses[t])}

(* global prints the lines that were put into the pool, each once and in   *)
(* order: none lost where a record is split or a range ends, none added    *)
(* (flush_pool() against put_compact_format()).                            *)
LinesSurvive ==
  phase = "done" =>
    /\ \A j, k \in 1 .. Len(out) : j < k /\ out[j].tag = out[k].tag => out[j].line < out[k].line
    /\ \A t \in Tags : {out[j].line : j \in {k \in 1 .. Len(out) : out[k].tag = t}} = Uses(t)

(* A line of a source file that could be opened is shown with its own      *)
(* text; with none only if the file has become shorter (the reading        *)
(* forward of put_compact_format(), with what it keeps between two calls). *)
(* Beside a line of a file that is gone stands the text that was read last,*)
(* of whatever file.                                                       *)
OwnText ==
  \A j \in 1 .. Len(out) :
    \/ out[j].text = out[j].line
    \/ out[j].text = 0 /\ \E k \in 1 .. j : out[k].line > fileLen
    \/ ~out[j].open

=============================================================================
