---------------------------- MODULE SortedWrite ----------------------------
(***************************************************************************)
(* Sorted writing of tag files: global-6.2.12/libutil/dbop.c.  While a tag *)
(* file is made, dbop_put() sends its records through a pipe to a sort(1)  *)
(* process; dbop_close() ends the input, reads the sorted records back and *)
(* adds them to the B-tree.  gtags keeps two tag files open, so it forks   *)
(* the second sort while it holds the pipes of the first, and while its    *)
(* stdio buffer may already hold records for the first: the child has a    *)
(* copy of it, which it writes if it ends without executing sort.          *)
(*                                                                         *)
(* A pipe has two ends, held by processes: a reader sees the end of the    *)
(* input when nobody holds the write end any more, a writer is killed by   *)
(* SIGPIPE when nobody holds the read end.                                 *)
(***************************************************************************)
EXTENDS Naturals, Sequences, SequencesExt, FiniteSets

CONSTANTS
  Files,       (* the tag files, as a sequence: opened and closed in order *)
  Keys,        (* the keys of records, positive numbers                    *)
  MaxPuts,     (* bound of the records put into one file                   *)
  BufSize,     (* records in the stdio buffer of sortout                   *)
  PipeSize     (* records in a pipe                                        *)

ASSUME FilesAssumption ==
  /\ Files \in Seq(Range(Files)) /\ Files # <<>>
  /\ IsInjective(Files)
  /\ "gtags" \notin Range(Files)
ASSUME SizesAssumption ==
  /\ Keys \subseteq Nat \ {0} /\ MaxPuts \in Nat
  /\ BufSize \in Nat \ {0} /\ PipeSize \in Nat \ {0}

Db    == Range(Files)
Gtags == "gtags"
Procs == Db \cup {Gtags}      (* a sort process has the name of its file    *)
Ends  == {"opipe_r", "opipe_w", "ipipe_r", "ipipe_w"}
Cut   == 0                    (* a line whose end was never written        *)
Lines == Keys \cup {Cut}      (* what may come back from sort              *)

VARIABLES
  pc,       (* what gtags does                                             *)
  turn,     (* the number in Files of the file it opens or closes          *)
  current,  (* the file whose full buffer it flushes                       *)
  sort,     (* file -> the state of its sort process                       *)
  holds,    (* file -> end of a pipe -> the processes that have it open    *)
  cloexec,  (* the files whose ends in gtags are marked FD_CLOEXEC         *)
  buffer,   (* file -> stdio buffer of sortout                             *)
  copy,     (* a child of gtags -> file -> the buffer that it inherited    *)
  opipe,    (* file -> records on their way to sort                        *)
  lines,    (* file -> records in the memory of sort                       *)
  ipipe,    (* file -> records on their way back                           *)
  tree,     (* file -> records put into the B-tree, in this order          *)
  put,      (* history: file -> records given to dbop_put()                *)
  again     (* history: file -> records that a child wrote a second time   *)

vars == <<pc, turn, current, sort, holds, cloexec, buffer, copy, opipe, lines, ipipe, tree, put, again>>

Ascending(s) == \A i, j \in 1 .. Len(s) : i < j => s[i] <= s[j]
File       == Files[turn]
Push(q, f, k) == [q EXCEPT ![f] = Append(@, k)]
Pop(q, f)     == [q EXCEPT ![f] = Tail(@)]

(* Process p closes the given ends of the pipes of the given files.        *)
Close(p, fs, ends) ==
  [f \in Db |-> [x \in Ends |->
     IF f \in fs /\ x \in ends THEN holds[f][x] \ {p} ELSE holds[f][x]]]

-----------------------------------------------------------------------------
(* gtags opens the tag files: start_sort_process() for each.               *)

OpenPast == IF turn > Len(Files)                                   \* mutant
            THEN pc' = "put" /\ turn' = 1
            ELSE pc' = "opened" /\ UNCHANGED turn
OpenNext == IF turn = Len(Files)
            THEN pc' = "put" /\ turn' = 1
            ELSE pc' = "opened" /\ UNCHANGED turn

(* Without a POSIX sort, dbop_put() writes to the tree directly.           *)
NoSort ==
  /\ pc = "open"
  /\ sort[File] = "absent"
  /\ OpenNext
  /\ UNCHANGED <<current, sort, holds, cloexec, buffer, copy, opipe, lines, ipipe, tree, put, again>>

(* The next tag file, when the options of this one are put (Put).          *)
OpenAnother ==
  /\ pc = "opened"
  /\ pc' = "open"
  /\ turn' = turn + 1
  /\ UNCHANGED <<current, sort, holds, cloexec, buffer, copy, opipe, lines, ipipe, tree, put, again>>

(* pipe(), pipe(), fork(): the child has what its parent has, the unwritten *)
(* buffers of the files before too.                                        *)
Fork ==
  /\ pc = "open"
  /\ sort[File] = "none"
  /\ holds' = [f \in Db |-> [x \in Ends |->
                 IF f = File THEN {Gtags, File}
                 ELSE IF Gtags \in holds[f][x] THEN holds[f][x] \cup {File}
                 ELSE holds[f][x]]]
  /\ sort' = [sort EXCEPT ![File] = "forked"]
  /\ copy' = [copy EXCEPT ![File] = buffer]
  /\ pc' = "parent"
  /\ UNCHANGED <<turn, current, cloexec, buffer, opipe, lines, ipipe, tree, put, again>>

(* The parent closes the ends of the child and marks its own.              *)
Unmarked == cloexec                                                \* mutant
Marked   == cloexec \cup {File}

AfterFork ==
  /\ pc = "parent"
  /\ holds' = Close(Gtags, {File}, {"opipe_r", "ipipe_w"})
  /\ cloexec' = Marked
  /\ OpenNext
  /\ UNCHANGED <<current, sort, buffer, copy, opipe, lines, ipipe, tree, put, again>>

-----------------------------------------------------------------------------
(* A sort process, named by its file.                                      *)

Nothing  == [f \in Db |-> <<>>]
Alive(f) == sort[f] \in {"forked", "dying", "reading", "writing"}

(* Its own other ends are closed before exec, those of earlier files by    *)
(* exec, if they are marked; the memory of gtags is gone.                  *)
Exec(f) ==
  /\ sort[f] = "forked"
  /\ holds' = Close(f, cloexec \cup {f}, {"opipe_w", "ipipe_r"})
  /\ sort' = [sort EXCEPT ![f] = "reading"]
  /\ copy' = [copy EXCEPT ![f] = Nothing]
  /\ UNCHANGED <<pc, turn, current, cloexec, buffer, opipe, lines, ipipe, tree, put, again>>

(* dup2() or execvp() fails: the child goes on behind it as if it were the *)
(* parent, up to the fdopen() of an end it has closed, and dies.           *)
ExecFails(f) ==
  /\ sort[f] = "forked"
  /\ holds' = Close(f, {f}, {"opipe_w", "ipipe_r"})
  /\ sort' = [sort EXCEPT ![f] = "dying"]
  /\ UNCHANGED <<pc, turn, current, cloexec, buffer, copy, opipe, lines, ipipe, tree, put, again>>

(* exit() of the dying child writes what is in the stdio buffers it has    *)
(* from gtags, which will write the same.                                  *)
WriteCopy(g, f) ==
  /\ sort[g] = "dying"
  /\ copy[g][f] # <<>>
  /\ holds[f]["opipe_r"] # {}
  /\ Len(opipe[f]) < PipeSize
  /\ opipe' = Push(opipe, f, Head(copy[g][f]))
  /\ again' = Push(again, f, Head(copy[g][f]))
  /\ copy' = [copy EXCEPT ![g] = Pop(copy[g], f)]
  /\ UNCHANGED <<pc, turn, current, sort, holds, cloexec, buffer, lines, ipipe, tree, put>>

ReadLine(f) ==
  /\ sort[f] = "reading"
  /\ opipe[f] # <<>>
  /\ lines' = Push(lines, f, Head(opipe[f]))
  /\ opipe' = Pop(opipe, f)
  /\ UNCHANGED <<pc, turn, current, sort, holds, cloexec, buffer, copy, ipipe, tree, put, again>>

(* sort -k 1,1: what it may make of its lines.                             *)
Orders(s)    == {[i \in 1 .. Len(s) |-> s[p[i]]] : p \in Bijection(1 .. Len(s), 1 .. Len(s))}
AsRead(s)    == {s}                                                \* mutant
SortLines(s) == {r \in Orders(s) : Ascending(r)}

EndOfInput(f) ==
  /\ sort[f] = "reading"
  /\ opipe[f] = <<>>
  /\ holds[f]["opipe_w"] = {}
  /\ \E r \in SortLines(lines[f]) : lines' = [lines EXCEPT ![f] = r]
  /\ sort' = [sort EXCEPT ![f] = "writing"]
  /\ UNCHANGED <<pc, turn, current, holds, cloexec, buffer, copy, opipe, ipipe, tree, put, again>>

WriteLine(f) ==
  /\ sort[f] = "writing"
  /\ lines[f] # <<>>
  /\ holds[f]["ipipe_r"] # {}
  /\ Len(ipipe[f]) < PipeSize
  /\ ipipe' = Push(ipipe, f, Head(lines[f]))
  /\ lines' = Pop(lines, f)
  /\ UNCHANGED <<pc, turn, current, sort, holds, cloexec, buffer, copy, opipe, tree, put, again>>

SortEnds(f, how) ==
  /\ sort' = [sort EXCEPT ![f] = how]
  /\ lines' = [lines EXCEPT ![f] = <<>>]
  /\ holds' = Close(f, Db, Ends)
  /\ copy' = [copy EXCEPT ![f] = Nothing]
  /\ UNCHANGED <<pc, turn, current, cloexec, buffer, opipe, tree, put, again>>

(* All is written, or nobody is there to read it: SIGPIPE.                 *)
SortExits(f) ==
  /\ sort[f] = "writing"
  /\ lines[f] = <<>> \/ holds[f]["ipipe_r"] = {}
  /\ SortEnds(f, "exited")
  /\ UNCHANGED ipipe

(* A dying child ends when it has written everything, or by SIGPIPE.       *)
Dies(g) ==
  /\ sort[g] = "dying"
  /\ \/ copy[g] = Nothing
     \/ \E f \in Db : copy[g][f] # <<>> /\ holds[f]["opipe_r"] = {}
  /\ SortEnds(g, "unexecuted")
  /\ UNCHANGED ipipe

(* It is killed, or has no room for its temporaries.  It writes blocks, so *)
(* the last line it has written may be cut.                                *)
SortFails(f) ==
  /\ Alive(f)
  /\ SortEnds(f, IF sort[f] = "dying" THEN "unexecuted" ELSE "failed")
  /\ \/ UNCHANGED ipipe
     \/ /\ sort[f] = "writing"
        /\ lines[f] # <<>>
        /\ Len(ipipe[f]) < PipeSize
        /\ ipipe' = Push(ipipe, f, Cut)

-----------------------------------------------------------------------------
(* gtags puts records and closes the files.                                *)

(* gtags_open() puts options and a version when it has made a tag file; so *)
(* few that they do not fill the buffer.                                   *)
Put(f, k) ==
  /\ \/ pc = "put"
     \/ pc = "opened" /\ f = File /\ Len(buffer[f]) + 1 < BufSize
  /\ Len(put[f]) < MaxPuts
  /\ put' = Push(put, f, k)
  /\ IF sort[f] = "absent"
     THEN tree' = Push(tree, f, k) /\ UNCHANGED <<pc, current, buffer>>
     ELSE /\ buffer' = Push(buffer, f, k)
          /\ IF Len(buffer'[f]) = BufSize
             THEN pc' = "flush" /\ current' = f
             ELSE UNCHANGED <<pc, current>>
          /\ UNCHANGED tree
  /\ UNCHANGED <<turn, sort, holds, cloexec, copy, opipe, lines, ipipe, again>>

(* write(2) of the buffer of f, one record at a time; SIGPIPE ends gtags.  *)
Drain(f) ==
  IF holds[f]["opipe_r"] = {}
  THEN /\ pc' = "killed"
       /\ holds' = Close(Gtags, Db, Ends)
       /\ UNCHANGED <<buffer, opipe>>
  ELSE /\ Len(opipe[f]) < PipeSize
       /\ opipe' = Push(opipe, f, Head(buffer[f]))
       /\ buffer' = Pop(buffer, f)
       /\ pc' = IF pc = "flush" /\ Len(buffer[f]) = 1 THEN "put" ELSE pc
       /\ UNCHANGED holds

Flush ==
  /\ pc = "flush"
  /\ Drain(current)
  /\ UNCHANGED <<turn, current, sort, cloexec, copy, lines, ipipe, tree, put, again>>

(* dbop_close(): fclose(sortout) first writes what the buffer still has.   *)
StartClosing ==
  /\ pc = "put"
  /\ pc' = "fclose"
  /\ UNCHANGED <<turn, current, sort, holds, cloexec, buffer, copy, opipe, lines, ipipe, tree, put, again>>

CloseNext == IF turn = Len(Files)
             THEN pc' = "done" /\ UNCHANGED turn
             ELSE pc' = "fclose" /\ turn' = turn + 1

Fclose ==
  /\ pc = "fclose"
  /\ CASE sort[File] = "absent" -> CloseNext /\ UNCHANGED <<holds, buffer, opipe>>
       [] sort[File] # "absent" /\ buffer[File] # <<>> -> Drain(File) /\ UNCHANGED turn
       [] OTHER -> /\ holds' = Close(Gtags, {File}, {"opipe_w"})
                   /\ pc' = "read"
                   /\ UNCHANGED <<turn, buffer, opipe>>
  /\ UNCHANGED <<current, sort, cloexec, copy, lines, ipipe, tree, put, again>>

(* The records come back and are put into the tree, until the end of file. *)
(* A line cut before its separator is an "unexpected end of record"; cut   *)
(* behind it, it is put.                                                   *)
ReadBack ==
  /\ pc = "read"
  /\ ipipe[File] # <<>>
  /\ ipipe' = Pop(ipipe, File)
  /\ \/ tree' = Push(tree, File, Head(ipipe[File])) /\ UNCHANGED <<pc, holds>>
     \/ /\ Head(ipipe[File]) = Cut
        /\ pc' = "killed"
        /\ holds' = Close(Gtags, Db, Ends)
        /\ UNCHANGED tree
  /\ UNCHANGED <<turn, current, sort, cloexec, buffer, copy, opipe, lines, put, again>>

PipeEmpty(f) == TRUE                                               \* mutant
EndOfFile(f) == holds[f]["ipipe_w"] = {}

ReadEnd ==
  /\ pc = "read"
  /\ ipipe[File] = <<>>
  /\ EndOfFile(File)
  /\ holds' = Close(Gtags, {File}, {"ipipe_r"})
  /\ pc' = "wait"
  /\ UNCHANGED <<turn, current, sort, cloexec, buffer, copy, opipe, lines, ipipe, tree, put, again>>

(* terminate_sort_process(): the exit status is not looked at.             *)
Wait ==
  /\ pc = "wait"
  /\ sort[File] \in {"exited", "failed", "unexecuted"}
  /\ CloseNext
  /\ UNCHANGED <<current, sort, holds, cloexec, buffer, copy, opipe, lines, ipipe, tree, put, again>>

-----------------------------------------------------------------------------
Init ==
  /\ pc = "open"
  /\ turn = 1
  /\ current = Files[1]
  /\ sort \in {[f \in Db |-> "none"], [f \in Db |-> "absent"]}
  /\ holds = [f \in Db |-> [x \in Ends |-> {}]]
  /\ cloexec = {}
  /\ copy = [g \in Db |-> Nothing]
  /\ buffer = Nothing /\ opipe = Nothing /\ lines = Nothing /\ ipipe = Nothing
  /\ tree = Nothing /\ put = Nothing /\ again = Nothing

GtagsStep ==
  \/ NoSort \/ Fork \/ AfterFork \/ OpenAnother \/ Flush \/ StartClosing \/ Fclose \/ ReadBack \/ ReadEnd \/ Wait
  \/ \E f \in Db, k \in Keys : Put(f, k)

SortStep(g) ==
  \/ Exec(g) \/ ReadLine(g) \/ EndOfInput(g) \/ WriteLine(g) \/ SortExits(g) \/ Dies(g)
  \/ \E f \in Db : WriteCopy(g, f)

Next == GtagsStep \/ \E f \in Db : SortStep(f) \/ ExecFails(f) \/ SortFails(f)

(* The kernel runs every process that can run.                             *)
Spec == Init /\ [][Next]_vars /\ WF_vars(GtagsStep) /\ \A f \in Db : WF_vars(SortStep(f))

-----------------------------------------------------------------------------
(* Properties.                                                             *)

SortStates == {"none", "absent", "forked", "dying", "reading", "writing", "exited", "failed", "unexecuted"}

TypeOK ==
  /\ pc \in {"open", "parent", "opened", "put", "flush", "fclose", "read", "wait", "done", "killed"}
  /\ turn \in 1 .. Len(Files)
  /\ current \in Db
  /\ sort \in [Db -> SortStates]
  /\ holds \in [Db -> [Ends -> SUBSET Procs]]
  /\ cloexec \subseteq Db
  /\ buffer \in [Db -> Seq(Keys)] /\ opipe \in [Db -> Seq(Keys)]
  /\ copy \in [Db -> [Db -> Seq(Keys)]]
  /\ lines \in [Db -> Seq(Keys)] /\ put \in [Db -> Seq(Keys)] /\ again \in [Db -> Seq(Keys)]
  /\ ipipe \in [Db -> Seq(Lines)] /\ tree \in [Db -> Seq(Lines)]
  /\ \A f \in Db : /\ Len(buffer[f]) <= BufSize
                   /\ Len(opipe[f]) <= PipeSize
                   /\ Len(ipipe[f]) <= PipeSize

(* How often a key occurs; and in all that was written for f.              *)
Count(s, k)    == Cardinality({i \in DOMAIN s : s[i] = k})
Expected(f, k) == Count(put[f], k) + Count(again[f], k)

IsClosed(f) ==
  \/ pc = "done"
  \/ /\ pc \in {"fclose", "read", "wait"}
     /\ \E i \in 1 .. turn - 1 : Files[i] = f

HasAll(f) ==
  /\ \A k \in Keys : Count(tree[f], k) = Expected(f, k)
  /\ \A i \in DOMAIN tree[f] : tree[f][i] # Cut
  /\ sort[f] # "absent" => Ascending(tree[f])

(* dbop_close() has added to a tag file every record that was put into it, *)
(* and those a child of gtags wrote again, and, as the comment of          *)
(* dbop_open() says, "all writing is done by not insertion but addition":  *)
(* in the order of the keys.  Here for a tag file whose own sort process   *)
(* did its work, whatever happened to the others (dbop_put, dbop_close).   *)
CompleteIfSorted ==
  \A f \in Db : IsClosed(f) /\ sort[f] \notin {"failed", "unexecuted"} => HasAll(f)

(* Whatever fails, a tag file holds no record that was not put into it,    *)
(* and none twice, unless the sort of another file could not be executed   *)
(* (start_sort_process); what it holds is in order, and only the last      *)
(* record can be a damaged one (the loop of dbop_close() that reads from   *)
(* sort).                                                                  *)
NothingInvented ==
  \A f \in Db :
    /\ \A k \in Keys : Count(tree[f], k) <= Expected(f, k)
    /\ Range(again[f]) \subseteq Range(put[f])
    /\ again[f] # <<>> => \E g \in Db \ {f} : sort[g] \in {"dying", "unexecuted"}
    /\ \A i \in 1 .. Len(tree[f]) : tree[f][i] = Cut => i = Len(tree[f])
    /\ sort[f] # "absent" =>
         \A i, j \in 1 .. Len(tree[f]) : i < j /\ tree[f][j] # Cut => tree[f][i] <= tree[f][j]

(* gtags and its sort processes all end, whatever fails: none waits for a  *)
(* pipe whose other end another of them has open.                          *)
AllEnd ==
  <>[](pc \in {"done", "killed"} /\ \A f \in Db : ~Alive(f))

=============================================================================
