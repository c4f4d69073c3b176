SPECIFICATION Spec
CONSTANTS
    b1 = b1
    b2 = b2
    template = template
    aggregate = aggregate
    broken = broken
    authors = authors
    page = page
    mailmap = mailmap
    clab = clab
    vendored = vendored
    NoFile = NoFile
    Empty = Empty
    HandEdited = HandEdited
    OwnDates = OwnDates
    Bases = {b1, b2}
    Customs = {template, aggregate, broken}
    Template = template
    Broken = {broken}
    Seeds = {authors, mailmap}
    InDocs = {authors}
    Pages = {page}
    Dirs = {clab, vendored}
    Skipped = {vendored}
    Navs <- MCNavs
    SnippetBase <- MCSnippetBase
    Trees <- MCTrees
    DevTree <- MCDevTree
    MaxEdits = 2
    MaxQueue = 2
INVARIANTS
    TypeOK
    SettledIsCurrent
    CompletedRunInstalls
    NavDenotesThePages
    DatesAreTheLogs
    SnippetPathsOnce
PROPERTIES
    ProjectFilesKept
    WatcherSettles
\* doc-build ends.
CHECK_DEADLOCK FALSE
