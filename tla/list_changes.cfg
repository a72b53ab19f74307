SPECIFICATION Spec
CONSTANTS
  Length = 3
  MaxLen = 4
  MaxOps = 4
  DeleteAfterChanges = FALSE
INVARIANTS ChangesReplay ModifiedAreExact
