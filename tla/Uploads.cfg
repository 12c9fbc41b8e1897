SPECIFICATION FairSpec
CONSTANTS
    s1 = s1
    s2 = s2
    a = a
    b = b
    NoSession = NoSession
    Sessions = {s1, s2}
    Files = {a, b}
    FilesOf <- MCFilesOf
    Deleters = {d1, d2}
    Limits = {1, 2}
    MaxFailures = 2
INVARIANTS QuotaRespected LedgerBalanced CatalogWhole NothingLeaks
PROPERTIES UploadsSettle
CHECK_DEADLOCK FALSE
