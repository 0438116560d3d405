--------------------------- MODULE MCSortedWrite ---------------------------
(* SortedWrite for the two tag files of gtags.                             *)
EXTENDS SortedWrite

TagFiles == <<"GTAGS", "GRTAGS">>
TwoKeys  == {1, 2}

=============================================================================
