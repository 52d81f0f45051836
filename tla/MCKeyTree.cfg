\* Words added in any order, folding or not, any malloc failing.
SPECIFICATION Spec
CHECK_DEADLOCK FALSE
CONSTANTS
  Elems <- MCElems
  Wordlists <- MCWordlists
  Types = {TRUE, FALSE}
  AllocMayFail = TRUE
  MaxAdds = 3
  NULL = 0
INVARIANTS
  KeyTreeTypeOK
  LookupsAgree
  DataOfFirst
  ForeachComplete
PROPERTY WordsKept
