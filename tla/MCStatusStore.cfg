SPECIFICATION Spec
CONSTANTS
    Procs = {p1, p2}
    NoProc = NoProc
    Addrs = {a1, a2, a3}
    NoAddr = NoAddr
    Accounts = {1, 2}
    Raw <- MCIdentities
    Documents <- MCDocuments
    MaxRefreshes = 2
SYMMETRY Symmetry
PROPERTIES RunsForGood ImplementsView
INVARIANTS TypeOK NoRace WholeAnswers
