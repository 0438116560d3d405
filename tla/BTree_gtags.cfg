\* Trees of up to three levels with and without duplicates, in the orders of
\* calls that dbop.c and its callers make.  Four puts are enough for a stray
\* split and for calls on the tree it leaves; with five some call on such a
\* tree asks for a slot that its page does not have.
SPECIFICATION Spec
CONSTANTS
  Keys = {4, 6, 8}
  Big = {2, 4, 8}
  MetaKey = 2
  PageSize = 5
  InnerSize = 2
  MaxPuts = 4
  GtagsUse = TRUE
INVARIANTS
  TypeOK
  ChainIsTree
  SearchFinds
  PagesAccounted
PROPERTIES
  IsOrderedStore
