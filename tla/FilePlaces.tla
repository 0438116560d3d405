----------------------------- MODULE FilePlaces -----------------------------
(***************************************************************************)
(* What session.el promises its user: Emacs remembers where point was in a *)
(* file and goes there when the file is visited again, in this session or  *)
(* a later one; a file once marked permanent stays so until it is          *)
(* unmarked.  What is remembered passes from a session to the next through *)
(* the session file, as a whole; nothing passes only when Emacs fails or   *)
(* is killed as it replaces that file, or remembers too many files.        *)
(***************************************************************************)
EXTENDS Naturals, FiniteSets

CONSTANTS
  Emacs,     (* the processes that may run                                 *)
  Files,
  Places,    (* positions in a file, 1 is its beginning                    *)
  MaxSize,   (* so many files are too many                                 *)
  None

VARIABLES
  point,     (* process -> file -> where point is, 0 in no buffer          *)
  known,     (* process -> file -> its place and mark, or None             *)
  saved,     (* file -> what the session file says of it, or None          *)
  replacing, (* the processes that have removed it to write a new one      *)
  failed     (* the last of them that ended did not write it               *)

fileVars == <<saved, replacing, failed>>
vars == <<point, known, fileVars>>

Nothing == [f \in Files |-> None]
Closed  == [f \in Files |-> 0]

Marked(e, f) == known[e][f] # None /\ known[e][f].permanent
PlaceOf(e, f) == IF known[e][f] = None THEN 1 ELSE known[e][f].place

Remember(e, f, k) == known' = [known EXCEPT ![e][f] = k]
SetPoint(e, f, p) == point' = [point EXCEPT ![e][f] = p]

DropMark(e, f) == Marked(e, f) /\ known' = [known EXCEPT ![e][f].permanent = FALSE]

Init ==
  /\ point = [e \in Emacs |-> Closed]
  /\ known = [e \in Emacs |-> Nothing]
  /\ saved = Nothing /\ replacing = {} /\ failed = FALSE

(* A session begins with what the session file says.                       *)
Start(e) ==
  /\ point[e] = Closed
  /\ known' = [known EXCEPT ![e] = saved]
  /\ UNCHANGED <<point, fileVars>>

(* A file that exists is visited at its place.                             *)
Visit(e, f) ==
  /\ point[e][f] = 0
  /\ SetPoint(e, f, PlaceOf(e, f))
  /\ UNCHANGED <<known, fileVars>>

(* A file that does not exist has no places, and may lose its mark.        *)
VisitNew(e, f) ==
  /\ point[e][f] = 0
  /\ SetPoint(e, f, 1)
  /\ UNCHANGED known \/ DropMark(e, f)
  /\ UNCHANGED fileVars

Move(e, f, p) ==
  /\ point[e][f] # 0
  /\ SetPoint(e, f, p)
  /\ UNCHANGED <<known, fileVars>>

(* Point is remembered, and the mark if there is one.                      *)
Note(e, f) ==
  /\ point[e][f] # 0
  /\ Remember(e, f, [place |-> point[e][f], permanent |-> Marked(e, f)])
  /\ UNCHANGED fileVars

Mark(e, f) ==
  /\ point[e][f] # 0
  /\ Remember(e, f, [place |-> point[e][f], permanent |-> TRUE])
  /\ UNCHANGED fileVars

Unmark(e, f) == DropMark(e, f) /\ UNCHANGED fileVars

(* Each of these may go with the end of the buffer, which may also pass    *)
(* without any.                                                            *)
Keep(e, f)   == (Note(e, f) \/ Mark(e, f) \/ Unmark(e, f)) /\ UNCHANGED point
Kill(e, f)   == SetPoint(e, f, 0) /\ (Note(e, f) \/ Mark(e, f) \/ Unmark(e, f))
Forget(e, f) == SetPoint(e, f, 0) /\ UNCHANGED <<known, fileVars>>

(* The session file is replaced: the old one is removed, and the new one   *)
(* says what is known, with the places where the marked files are now.     *)
Remove(e) ==
  /\ saved' = Nothing
  /\ replacing' = replacing \cup {e}
  /\ UNCHANGED <<point, known, failed>>

Latest(e)  == \A f \in Files : point[e][f] # 0 /\ Marked(e, f) => known[e][f].place = point[e][f]
TooMany(e) == Cardinality({f \in Files : known[e][f] # None}) >= MaxSize

(* The process goes on, or ends and forgets.                               *)
Stay == UNCHANGED <<point, known>>
Leave(e) ==
  /\ point' = [point EXCEPT ![e] = Closed]
  /\ known' = [known EXCEPT ![e] = Nothing]

Save(e) ==
  /\ e \in replacing /\ Latest(e)
  /\ saved' = known[e] \/ (TooMany(e) /\ saved' = Nothing)
  /\ replacing' = replacing \ {e} /\ failed' = FALSE
  /\ Stay \/ Leave(e)

(* The user is told that the file could not be written.                    *)
Fail(e) ==
  /\ e \in replacing
  /\ saved' \in {saved, known[e], Nothing}
  /\ replacing' = replacing \ {e} /\ failed' = TRUE
  /\ Stay \/ Leave(e)

(* Emacs is killed, or ends without saving.                                *)
Die(e) ==
  /\ Leave(e)
  /\ replacing' = replacing \ {e} /\ failed' = (failed \/ e \in replacing)
  /\ UNCHANGED saved

Next ==
  \/ \E e \in Emacs : Start(e) \/ Remove(e) \/ Save(e) \/ Fail(e) \/ Die(e)
  \/ \E e \in Emacs, f \in Files :
       Visit(e, f) \/ VisitNew(e, f) \/ Keep(e, f) \/ Kill(e, f) \/ Forget(e, f)
  \/ \E e \in Emacs, f \in Files, p \in Places : Move(e, f, p)

Spec == Init /\ [][Next]_vars

=============================================================================
