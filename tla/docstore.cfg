SPECIFICATION Spec
CONSTANTS
    Handlers = {h1, h2}
    Updater = upd
    Docs = {d1, d2, d3, d4}
    NULL = NULL
INVARIANTS TypeOK PublishedIsChecked
PROPERTIES  OneCell
CHECK_DEADLOCK FALSE
