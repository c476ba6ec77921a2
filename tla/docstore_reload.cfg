SPECIFICATION Spec
CONSTANTS
    Handlers = {h1, h2}
    Updater = upd
    Docs = {d1, d2, d3, d4}
    NULL = NULL
INVARIANT ReloadTakesEffect
CHECK_DEADLOCK FALSE
