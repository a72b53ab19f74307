SPECIFICATION Spec
CONSTANTS
  Length = 3
  MaxRows = 3
  Keys = {1, 2}
  MaxOps = 3
INVARIANTS RowsAreFollowed ObjectChangesAreExact ResultsReplay
