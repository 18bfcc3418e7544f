\* A vendor with a callback and a cursor login.
SPECIFICATION FairSpec
CONSTANTS
    Provider = {1, 2}
    Cursor = {2}
    Callback = {1}
    Client = {c1, c2}
    MaxVersion = 2
    MaxInput = 5
INVARIANTS
    AckedSurvives
    FreshCredentials
    CursorRegisteredOnce
PROPERTIES
    AbandonedIsRemoved
