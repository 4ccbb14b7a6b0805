CONSTANTS
    Book = {b1, b2}
    NoChapter = NoChapter
    MaxChanges = 2
    MaxSelections = 2
    MaxSaves = 2
SPECIFICATION EditorSpec
INVARIANT TextStaysInItsChapter
CHECK_DEADLOCK FALSE
