SPECIFICATION FairSpec
CONSTANTS
    Players = {p1, p2}
    Stoppers = {s1}
    Senders = {h1}
    NoThread = NoThread
    MaxIntent = 3
INVARIANTS
    TerminalIsFinal
    HandoffSparesLaterPlays
PROPERTIES
    EffectsInOrder
    PublishMatchesRuntime
    OperationsReturn
