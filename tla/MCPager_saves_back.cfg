SPECIFICATION Spec
CONSTANTS
  wa = wa
  wb = wb
  wc = wc
  p1 = p1
  p2 = p2
  NoWord = NoWord
  NoQuery = NoQuery
  MaxId = 3
  Paths = {p1, p2}
  Words <- MCWords
  SortKey <- MCSortKey
  Files <- MCDescribed
  Typed <- MCTyped
  AuthorLists <- MCAuthorLists
  TitleLimit = 2
  TextLimit = 3
  MaxWrites = 4
  PageSize = 1
INVARIANT SavesBack
CHECK_DEADLOCK FALSE
