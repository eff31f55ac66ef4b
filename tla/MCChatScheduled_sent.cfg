SPECIFICATION Spec
CONSTANTS
    withFile = withFile
    textOnly = textOnly
    photo = photo
    r1 = r1
    r2 = r2
    Rows = {r1, r2}
    NoRow = NoRow
    Clients = {withFile, textOnly}
    Carried <- MCCarried
    Uploads = {photo}
    FilesOf <- MCFilesOf
    Batch = 2
    Attempts = 2
    MaxEdits = 1
    MaxFaults <- MCOneOfEach
INVARIANTS
    TypeOK
    SentOnce
    NothingStuck
    WaitsItsTurn
    RefusedIsTold
    AuthorIsHeard
    FilesKept
PROPERTIES
    Refinement
    Settles
