CONSTANTS
    Handlers = {h1, h2}
    Requests <- MCRequests
    Rewrite <- MCRewrite
    Lines <- MCLines
    Original <- MCOriginal
    MaxTime = 2
    MaxCalls = 3
    NoFile = NoFile
SPECIFICATION Spec
INVARIANTS TypeOK OriginalRecoverable VersionsRecoverable
