\* Two files, two records, two calls waiting for embeddings.
SPECIFICATION StoresSpec
CONSTANTS
    ContextBricks <- MCContext
    MemoryBricks <- MCMemory
    Walk <- MCWalk
    Texts <- MCTexts
    Unread <- MCUnread
    Ids = {i, j}
    Tags = {s, t}
    Calls = {c, d}
    Gone = Gone
    NoRecord = NoRecord
INVARIANTS  ForgottenIsGone
