\* Two files and alists with up to three entries, so that an entry may lie
\* behind another of its file; any number of sessions.
SPECIFICATION Spec
CONSTANTS
  Emacs = {e1}
  Files = {f, g}
  Places = {1, 2}
  MaxSize = 3
  MaxEntries = 3
  None = None
SYMMETRY Symmetry
PROPERTY PlacesKept
