SPECIFICATION Spec
CONSTANTS Last = 2 Values = {1} KeysPerBlock = 2 MaxExtent = 3 MaxCount = 2 ResumeFull = FALSE
INVARIANTS SavedBeforeChanged UndoWorks
CHECK_DEADLOCK FALSE
