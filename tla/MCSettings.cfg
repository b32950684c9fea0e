SPECIFICATION FairSpec
CONSTANTS
    u1 = u1
    Updaters = {u1}
    Editor = Editor
    Watcher = Watcher
    Button = Button
    None = None
    MaxUpdates = 2
    MaxEdits = 1
    MaxCrashes = 1
INVARIANTS
    TypeOK
    UpdatesKept
    SettledAgrees
PROPERTIES
    EditsArrive
CHECK_DEADLOCK FALSE
