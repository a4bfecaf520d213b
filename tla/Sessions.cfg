SPECIFICATION FairSpec
CONSTANTS
    Visualizer = {waves, particles}
    CppVisualizer = {particles}
    Sounding = {waves}
    Greeter = {waves}
    Files <- FilesOfOne
    Score <- OneSession
INVARIANTS
    TypeOK
    DeclaredBeforeUse
PROPERTIES
    EverySegmentSounds
    QueuedMessagesArrive
CHECK_DEADLOCK FALSE
