\* Two turns, one of which may ask once; at most one of a message of the user,
\* a branch switch, a refusal, an unconfirmed settlement, a failed transaction and a crash.
SPECIFICATION Spec
CONSTANTS
    t1 = t1
    t2 = t2
    Turns = {t1, t2}
    Askers = {t1}
    CallbacksPerRun = 1
    FlushAttempts = 2
    Rechecks = 1
    MaxAsks = 1
    MaxEvents = 1
INVARIANTS TypeOK ToldOnce NothingIsLost AFlushWillSee
PROPERTIES EveryCallbackIsTold
\* The chat rests once nothing is owed and nobody acts.
CHECK_DEADLOCK FALSE
