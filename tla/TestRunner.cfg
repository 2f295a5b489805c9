SPECIFICATION Spec
CONSTANTS
    Files <- MCFiles
    Labels = {d}
    Names = {t}
    Tags = {slow}
    Seeds = {1}
    Retries = 1
    Args <- MCArgs
    MaxForms = 3
    MaxTests = 2
    MaxSeeds = 1
INVARIANTS
    TypeOK
    TestsFollowScopes
    FilesRunAlone
    SelectionFollowsFile
    VerdictHonest
PROPERTY
    SeedsAreOwn
