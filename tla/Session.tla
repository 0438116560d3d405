------------------------------ MODULE Session -------------------------------
(***************************************************************************)
(* The persistent session of Emacs: session.el.  session-file-alist has an *)
(* entry with its place for each file whose buffer was killed or still     *)
(* lived at the end; new entries are pushed in front of old ones of the    *)
(* same file.  When Emacs ends, the alist is written to the session file,  *)
(* the first entry of each file only, and the next Emacs loads it.         *)
(*                                                                         *)
(* Two Emacs may run on one session file.  One may be killed at any moment *)
(* and may fail to write.  Point stands for point, mark, narrowing and     *)
(* local variables, which are stored and restored with it.                 *)
(***************************************************************************)
EXTENDS Integers, Sequences, FiniteSets

CONSTANTS
  Emacs,       (* the processes that may run                               *)
  Files,
  Places,      (* positions in a file, 1 is its beginning                  *)
  MaxSize,     (* of session-file-alist in session-globals-include         *)
  MaxEntries,  (* bound of the length of session-file-alist                *)
  None

ASSUME PlacesAssumption == 1 \in Places /\ Places \subseteq Nat \ {0}
ASSUME SizeAssumption == MaxSize \in Nat \ {0} /\ MaxEntries \in Nat \ {0}
ASSUME NoneAssumption == None \notin [place : Places, permanent : BOOLEAN]

VARIABLES
  stage,      (* process -> "off", "on", "store", "write"                  *)
  after,      (* process -> its stage when the session is saved            *)
  alist,      (* process -> session-file-alist                             *)
  loaded,     (* process -> session-successful-p                           *)
  point,      (* process -> file -> point in its buffer, 0 if it has none  *)
  todo,       (* process -> files whose places are to be stored            *)
  disk,       (* the session file                                          *)
  failed      (* history: the last write of it did not come to its end     *)

vars == <<stage, after, alist, loaded, point, todo, disk, failed>>

Entry  == [file : Files, place : Places, permanent : BOOLEAN]
Closed == [f \in Files |-> 0]
Live(e) == {f \in Files : point[e][f] # 0}

(* assoc finds the first entry of a file.                                  *)
Firsts(s)    == {i \in DOMAIN s : \A j \in 1 .. i - 1 : s[j].file # s[i].file}
Has(s, f)    == \E i \in DOMAIN s : s[i].file = f
Index(s, f)  == CHOOSE i \in Firsts(s) : s[i].file = f
Assoc(s, f)  == s[Index(s, f)]
Marked(s, f) == Has(s, f) /\ Assoc(s, f).permanent
Unmarked(s, f) == IF Has(s, f) THEN [s EXCEPT ![Index(s, f)].permanent = FALSE] ELSE s

-----------------------------------------------------------------------------
(* session-store-buffer-places, with the prefix argument of the command    *)
(* and the answer of session-buffer-check-function.                        *)

Push(s, x) ==
  IF s # <<>> /\ Head(s).file = x.file THEN [s EXCEPT ![1] = x] ELSE <<x>> \o s

NewMark(s, f, arg) == Marked(s, f) \/ arg > 2

Stored(s, f, p, arg, passes) ==
  LET old == IF arg < 0 THEN Unmarked(s, f) ELSE s
      permanent == NewMark(old, f, arg)
  IN  IF (permanent /\ arg > 0) \/ arg > 1 \/ (arg = 1 /\ passes)
      THEN Push(old, [file |-> f, place |-> p, permanent |-> permanent])
      ELSE old

Store(e, f, arg) ==
  /\ Len(alist[e]) < MaxEntries
  /\ \E passes \in BOOLEAN :
       alist' = [alist EXCEPT ![e] = Stored(@, f, point[e][f], arg, passes)]

-----------------------------------------------------------------------------
(* The user visits, moves, kills, marks.                                   *)

(* session-find-file-hook                                                  *)
Restored(e, f) == IF Has(alist[e], f) THEN Assoc(alist[e], f).place ELSE 1

VisitFile(e, f) ==
  /\ stage[e] = "on"
  /\ point[e][f] = 0
  /\ point' = [point EXCEPT ![e][f] = Restored(e, f)]
  /\ UNCHANGED <<stage, after, alist, loaded, todo, disk, failed>>

(* The file does not exist or has become too short: its place is beyond    *)
(* the end of the buffer.  In the first case                               *)
(* session-find-file-not-found-hook asks about the mark.                   *)
FileNotFound(e, f) ==
  /\ stage[e] = "on"
  /\ point[e][f] = 0
  /\ point' = [point EXCEPT ![e][f] = 1]
  /\ \/ UNCHANGED alist
     \/ Marked(alist[e], f) /\ alist' = [alist EXCEPT ![e] = Unmarked(@, f)]
  /\ UNCHANGED <<stage, after, loaded, todo, disk, failed>>

Move(e, f, p) ==
  /\ stage[e] = "on"
  /\ point[e][f] # 0
  /\ point' = [point EXCEPT ![e][f] = p]
  /\ UNCHANGED <<stage, after, alist, loaded, todo, disk, failed>>

(* session-kill-buffer-hook.  With -2 it compares entries with the name as *)
(* strings, and the error ends it.                                         *)
KillBuffer(e, f, arg) ==
  /\ stage[e] = "on"
  /\ point[e][f] # 0
  /\ point' = [point EXCEPT ![e][f] = 0]
  /\ IF arg > -2 THEN Store(e, f, arg) ELSE UNCHANGED alist
  /\ UNCHANGED <<stage, after, loaded, todo, disk, failed>>

(* session-toggle-permanent-flag                                           *)
Toggle(e, f, on) ==
  /\ stage[e] = "on"
  /\ point[e][f] # 0
  /\ Store(e, f, IF on THEN 3 ELSE -1)
  /\ UNCHANGED <<stage, after, loaded, point, todo, disk, failed>>

(* session-file-changed-recompute, one buffer after another.               *)
Recompute(e, f) ==
  /\ stage[e] = "on"
  /\ point[e][f] # 0
  /\ Store(e, f, 1)
  /\ UNCHANGED <<stage, after, loaded, point, todo, disk, failed>>

-----------------------------------------------------------------------------
(* session-initialize-do: the session file is loaded, as far as it goes.   *)

Start(e) ==
  /\ stage[e] = "off"
  /\ stage' = [stage EXCEPT ![e] = "on"]
  /\ alist' = [alist EXCEPT ![e] = disk.alist]
  /\ loaded' = [loaded EXCEPT ![e] = disk.status # "cut"]
  /\ UNCHANGED <<after, point, todo, disk, failed>>

-----------------------------------------------------------------------------
(* session-save-session, as a command or from kill-emacs-hook.  If the     *)
(* session file was not loaded, it asks before it overwrites it.           *)

MaySave(e) == loaded[e] \/ disk.status = "absent"

BeginSave(e, next, agreed) ==
  /\ stage[e] = "on"
  /\ MaySave(e) \/ agreed
  /\ stage' = [stage EXCEPT ![e] = "store"]
  /\ after' = [after EXCEPT ![e] = next]
  /\ todo' = [todo EXCEPT ![e] = Live(e)]
  /\ UNCHANGED <<alist, loaded, point, disk, failed>>

(* The places of all buffers, in the order of buffer-list.  Files are      *)
(* local: an error with a remote one would leave its place as it was.      *)
StoreLive(e, f) ==
  /\ stage[e] = "store"
  /\ f \in todo[e]
  /\ Store(e, f, 1)
  /\ todo' = [todo EXCEPT ![e] = @ \ {f}]
  /\ UNCHANGED <<stage, after, loaded, point, disk, failed>>

(* The old session file is deleted before the new one is written.          *)
DeleteFile(e) ==
  /\ stage[e] = "store"
  /\ todo[e] = {}
  /\ disk' = [status |-> "absent", alist |-> <<>>]
  /\ stage' = [stage EXCEPT ![e] = "write"]
  /\ UNCHANGED <<after, alist, loaded, point, todo, failed>>

(* session-save-insert-variable prints the first entry of each file, at    *)
(* most MaxSize.  If the loop ended before the list, val is not null and   *)
(* nothing is printed.  Entries can be read back, as those with the        *)
(* variables of session-locals-include always can: one that could not      *)
(* would be passed over for an older entry of its file.                    *)
Rank(I, i) == Cardinality({j \in I : j <= i})
InOrder(s, I) == [k \in 1 .. Cardinality(I) |-> s[CHOOSE i \in I : Rank(I, i) = k]]

Exhausted(s) ==
  \/ Cardinality(Firsts(s)) < MaxSize
  \/ Cardinality(Firsts(s)) = MaxSize /\ Len(s) \in Firsts(s)

Lasts(s)   == {i \in DOMAIN s : \A j \in i + 1 .. Len(s) : s[j].file # s[i].file}
PrintedLasts(s) == IF Exhausted(s) THEN InOrder(s, Lasts(s)) ELSE <<>>     \* mutant
Printed(s) == IF Exhausted(s) THEN InOrder(s, Firsts(s)) ELSE <<>>

Finish(e, next) ==
  /\ stage' = [stage EXCEPT ![e] = next]
  /\ IF next = "off"
     THEN /\ alist' = [alist EXCEPT ![e] = <<>>]
          /\ point' = [point EXCEPT ![e] = Closed]
     ELSE UNCHANGED <<alist, point>>
  /\ todo' = [todo EXCEPT ![e] = {}]
  /\ UNCHANGED <<after, loaded>>

WriteFile(e) ==
  /\ stage[e] = "write"
  /\ disk' = [status |-> "whole", alist |-> Printed(alist[e])]
  /\ failed' = FALSE
  /\ Finish(e, after[e])

(* The old file cannot be deleted, or the write stops short, before or     *)
(* behind session-file-alist, between two forms or in one: the disk is     *)
(* full, and the user lets Emacs go or not, or Emacs is killed.            *)
WriteFails(e, next) ==
  /\ \/ stage[e] = "store" /\ todo[e] = {} /\ UNCHANGED <<disk, failed>>
     \/ stage[e] = "write" /\ UNCHANGED disk /\ failed' = TRUE
     \/ /\ stage[e] = "write"
        /\ failed' = TRUE
        /\ disk' \in [status : {"whole", "cut"}, alist : {<<>>, Printed(alist[e])}]
  /\ Finish(e, next)

(* Emacs is killed, or left without saving.                                *)
Quit(e) ==
  /\ stage[e] # "off"
  /\ UNCHANGED disk
  /\ failed' = (failed \/ stage[e] = "write")
  /\ Finish(e, "off")

-----------------------------------------------------------------------------
Init ==
  /\ stage = [e \in Emacs |-> "off"]
  /\ after = stage
  /\ alist = [e \in Emacs |-> <<>>]
  /\ loaded = [e \in Emacs |-> FALSE]
  /\ point = [e \in Emacs |-> Closed]
  /\ todo = [e \in Emacs |-> {}]
  /\ disk = [status |-> "absent", alist |-> <<>>]
  /\ failed = FALSE

OfBuffer(e, f) ==
  \/ VisitFile(e, f) \/ FileNotFound(e, f) \/ Recompute(e, f) \/ StoreLive(e, f)
  \/ \E p \in Places : Move(e, f, p)
  \/ \E arg \in -2 .. 3 : KillBuffer(e, f, arg)
  \/ \E on \in BOOLEAN : Toggle(e, f, on)

OfSession(e) ==
  \/ Start(e) \/ DeleteFile(e) \/ WriteFile(e) \/ Quit(e)
  \/ \E next \in {"on", "off"} :
       WriteFails(e, next) \/ \E agreed \in BOOLEAN : BeginSave(e, next, agreed)

Next == \E e \in Emacs : OfSession(e) \/ \E f \in Files : OfBuffer(e, f)

Spec == Init /\ [][Next]_vars

-----------------------------------------------------------------------------
(* Properties.                                                             *)

TypeOK ==
  /\ stage \in [Emacs -> {"off", "on", "store", "write"}]
  /\ after \in [Emacs -> {"off", "on"}]
  /\ alist \in [Emacs -> Seq(Entry)]
  /\ loaded \in [Emacs -> BOOLEAN]
  /\ point \in [Emacs -> [Files -> Places \cup {0}]]
  /\ todo \in [Emacs -> SUBSET Files]
  /\ disk \in [status : {"absent", "whole", "cut"}, alist : Seq(Entry)]
  /\ failed \in BOOLEAN

(* What an alist says of each file.                                        *)
MapOf(s) ==
  [f \in Files |->
     IF Has(s, f) THEN [place |-> Assoc(s, f).place, permanent |-> Assoc(s, f).permanent]
     ELSE None]

Promise == INSTANCE FilePlaces
  WITH known <- [e \in Emacs |-> MapOf(alist[e])], saved <- MapOf(disk.alist),
       replacing <- {e \in Emacs : stage[e] = "write"}

(* Through pushes, marks, the printing of the alist and its loading: a file*)
(* is visited at the place stored last, a mark goes only when the user     *)
(* takes it away, and the session file has all that was known when it was  *)
(* written, the places of marked files those of the end.  It has nothing   *)
(* only between its removal and the end of the next write, or after one    *)
(* that failed, was killed, or found too many files.  Of two Emacs that    *)
(* save, the last one counts.                                              *)
PlacesKept == Promise!Spec

(* "MAX-SIZE ... is the maximal number of elements to be saved for this    *)
(* symbol where only the first of equal elements are saved"                *)
(* (session.el:446): as many as there are, up to that number.              *)
FirstAreSaved ==
  [][\A e \in Emacs :
       WriteFile(e) =>
         LET n == Cardinality(Firsts(alist[e]))
         IN  Len(disk'.alist) = IF n < MaxSize THEN n ELSE MaxSize]_vars

=============================================================================
