\* One command line: names of 1 to 3 letters, lines of 6, a history of 9 bytes.
SPECIFICATION MCSpec
VIEW View
CONSTANTS
    Nul = Nul
    ULongMax = 199
    CmdMax = 8
    HistorySize = 9
    Width = 11
    MaxArgs = 4
    Letters <- MCLetters
    Final <- MCFinal
    Bindings <- MCBindings
INVARIANTS EditorTypeOK ScreenShowsLine SetsWhatWasTyped
PROPERTIES ImplementsEditedLine
CHECK_DEADLOCK FALSE
