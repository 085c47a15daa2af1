CONSTANTS
    Readers = {r1, r2}
    Letters <- OneLetter
    Modifiers = {"ctl", "rightctl"}
    Serial = {"^H", "^U"}
    Sizes = {2}
    INPUT_BUF = 3
    WORD = 6
    COLS = 2
    ROWS = 1
SPECIFICATION PartsSpec
INVARIANTS FilesIntact SpacesIntact NoMissedInput ModifiersFollowKeys
PROPERTIES FailureGivesBack LineDiscipline
VIEW View
SYMMETRY Symmetry
CHECK_DEADLOCK FALSE
