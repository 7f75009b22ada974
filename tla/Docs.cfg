SPECIFICATION MCSpec
CONSTANTS
    intro = intro
    flow = flow
    gone = gone
    sec = sec
    none = none
    Docs <- MCPages
    DefaultDoc = intro
    Unknown = gone
    SectionIds = {sec}
    NoName = none
    Blocks <- MCBlocks
    LongDocs = {flow}
    MaxInFlight = 2
    MaxEvents = 1
    Terms = {"a", "b"}
    Index <- MCIndex
    Queries <- MCQueries
    MaxResults = 2
INVARIANTS
    TypeOK
    SettledPageIsCurrent
    SidebarFollows
    DiagramsMatchTheme
    LibraryFetchedOnce
    LockHasOwner
    EnterOpensMarkedRow
    BestRowsShown
PROPERTIES
    SpinnerEnds
    HashIsFollowed

