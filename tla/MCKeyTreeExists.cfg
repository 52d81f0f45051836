\* A word is added that begins one that is there.
SPECIFICATION Spec
CHECK_DEADLOCK FALSE
CONSTANTS
  Elems <- Beginnings
  Wordlists <- NoWords
  Types = {FALSE}
  AllocMayFail = FALSE
  MaxAdds = 3
  NULL = 0
INVARIANT ExistsHasData
