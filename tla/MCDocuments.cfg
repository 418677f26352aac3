SPECIFICATION Spec
CONSTANTS
    Requests = {r1, r2}
    Users = {alice, root}
    Admins = {root}
    Nobody = nobody
    AuthEnabled = TRUE
    Textless = {2}
    OldDocs = 1
    MaxDocs = 3
    MaxComments = 1
SYMMETRY RequestSymmetry
INVARIANTS
    TypeOK
    RowsAreBacked
    DeletionLeavesNothing
    VersionsFollowUploads
    CommentsGoWithTheirDocument
PROPERTIES
    ImplementsLibrary
CHECK_DEADLOCK FALSE
