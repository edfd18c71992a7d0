\* Two copies of the program and four mishaps, or one migration runner, two
\* rows and three troubles.
SPECIFICATION Spec
CONSTANTS
    CopyA = CopyA
    CopyB = CopyB
    Copies = {CopyA, CopyB}
    NoCopy = NoCopy
    Migrations <- MCMigrations
    Accounts = 2
    MaxMishaps = 4
    Rows = {1, 2}
    Scripts <- MCScripts
    MaxTroubles = 3
INVARIANTS
    OpenOnReleaseSchema
    RunEndsWhole
    NothingIsGone
PROPERTIES
    ResumesUnlessTorn
