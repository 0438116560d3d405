\* Two files where one entry may be saved.  FirstAreSaved is violated.
SPECIFICATION Spec
CONSTANTS
  Emacs = {e1}
  Files = {f, g}
  Places = {1, 2}
  MaxSize = 1
  MaxEntries = 3
  None = None
PROPERTY FirstAreSaved
