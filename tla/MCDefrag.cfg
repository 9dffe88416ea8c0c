SPECIFICATION Spec
CONSTANTS
    FirstPage = 1
    EndPage = 18
    PageBytes = 2
    MetaBytes = 1
    NoName <- NoCharacter
    Alike = {}
    AlikeSize = 0
    Layouts <- AllLayouts
    Calls = {"simple", "file", "overall"}
INVARIANT
    SpreadEvenly
PROPERTIES
    FilesKept
    Ends
CHECK_DEADLOCK FALSE
