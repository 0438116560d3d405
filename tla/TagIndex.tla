------------------------------ MODULE TagIndex ------------------------------
(***************************************************************************)
(* What a tag file promises its readers, whatever the maker of the tag     *)
(* files does in between: looking a path up yields nothing, or what an     *)
(* earlier run published for it, or what the present run has itself read   *)
(* in that file.  Never the tags of another file, never a content the file *)
(* did not have when it was read, never a mixture of two readings.         *)
(***************************************************************************)
CONSTANTS
  Paths,
  Contents,
  None

VARIABLES
  content,  (* path -> what the file holds, None if there is no file       *)
  seen,     (* path -> what the present run has read there, as a set       *)
  index     (* path -> what a reader of the tag file finds, as a set       *)

vars == <<content, seen, index>>

Nothing == [p \in Paths |-> {}]

Init ==
  /\ content \in [Paths -> Contents \cup {None}]
  /\ seen = Nothing
  /\ index = Nothing

(* The project changes.                                                    *)
Edit ==
  /\ \E p \in Paths, c \in Contents \cup {None} : content' = [content EXCEPT ![p] = c]
  /\ UNCHANGED <<seen, index>>

(* The run reads a file as it is now.                                      *)
Read(p) ==
  /\ content[p] # None
  /\ seen' = [seen EXCEPT ![p] = {content[p]}]
  /\ UNCHANGED <<content, index>>

(* A file of the database becomes durable, or the run ends, or both.       *)
Publish ==
  /\ index' \in [Paths -> {index[p] : p \in Paths} \cup {seen[p] : p \in Paths} \cup {{}}]
  /\ \A p \in Paths : index'[p] \in {index[p], seen[p], {}}
  /\ seen' \in {seen, Nothing}
  /\ UNCHANGED content

Next == Edit \/ Publish \/ \E p \in Paths : Read(p)

Spec == Init /\ [][Next]_vars

=============================================================================
