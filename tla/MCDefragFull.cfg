SPECIFICATION Spec
CONSTANTS
    FirstPage = 1
    EndPage = 26
    PageBytes = 2
    MetaBytes = 1
    NoName <- NoCharacter
    Alike = {}
    AlikeSize = 0
    Layouts <- StaleLayouts
    Calls = {"simple"}
PROPERTY
    NothingLost
CHECK_DEADLOCK FALSE
