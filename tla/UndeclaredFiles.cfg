SPECIFICATION Spec
CONSTANTS
    Visualizer = {waves}
    CppVisualizer = {}
    Sounding = {waves}
    Greeter = {waves}
    Files <- FilesOfTwo
    Score <- TwoSessions
INVARIANTS
    DeclaredBeforeUse
CHECK_DEADLOCK FALSE
