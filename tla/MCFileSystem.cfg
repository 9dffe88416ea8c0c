SPECIFICATION Spec
CONSTANTS
    FirstPage = 1
    EndPage = 5
    PageBytes = 2
    MetaBytes = 1
    NoName <- NoCharacter
    Alike <- LettersB
    AlikeSize = 0
    Name <- TwoNames
    Fd = {0, 1}
    Rules = {"last_grows", "no_rewrite", "exclusive", "room"}
    MaxSize = 4
INVARIANTS
    FilesTrue
    ReadsRight
PROPERTY
    ImplementsStore
