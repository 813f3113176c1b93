SPECIFICATION Spec
CONSTANTS
    Absent = Absent
    Archives <- MCArchives
    Folders <- MCFolders
    ClosesMayFail = FALSE
INVARIANT InstalledAsPacked
INVARIANT PlayIsRemembered
PROPERTY GameIsReplacedAtOnce
