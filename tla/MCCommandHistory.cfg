SPECIFICATION HSpec
CONSTANTS
    None = None
    Threads = {w1, w2}
    Values = {a, b}
    Areas <- AllAreas
SYMMETRY Symm
VIEW Seen
INVARIANTS AnswersHold ErrorsChangeNothing SettingsSurvive
