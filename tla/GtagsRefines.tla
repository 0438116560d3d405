---------------------------- MODULE GtagsRefines ----------------------------
(***************************************************************************)
(* GtagsUpdate keeps the promise of TagIndex, for GTAGS and for GRTAGS: a  *)
(* reader who looks up a path sees what the mapping below says.            *)
(***************************************************************************)
EXTENDS GtagsUpdate

(* The abstract content of the project.                                    *)
ContentOf == [p \in Paths |-> IF Exists(p) THEN file[p].content ELSE None]

(* The readings of the present run that give records to a tag file.        *)
SeenFor(db) == [p \in Paths |-> UNION {Yield(db, c) : c \in extracted[p]}]

Definitions == INSTANCE TagIndex
  WITH content <- ContentOf, seen <- SeenFor("GTAGS"), index <- Index("GTAGS")

References == INSTANCE TagIndex
  WITH content <- ContentOf, seen <- SeenFor("GRTAGS"), index <- Index("GRTAGS")

(* Looking a symbol's file up through GPATH yields what the abstract index *)
(* allows (gtags_delete, gtags_put_using, the closes): in GTAGS, and in     *)
(* GRTAGS, which becomes durable at another moment.                        *)
TagFilesAreIndexes == Definitions!Spec /\ References!Spec

=============================================================================
