SPECIFICATION Spec
CONSTANTS
    FirstPage = 1
    EndPage = 5
    PageBytes = 2
    MetaBytes = 1
    NoName <- NoCharacter
    Alike = {}
    AlikeSize = 0
    Name <- ShortAndLong
    Fd = {0, 1}
    Rules = {"last_grows", "no_rewrite", "exclusive", "room"}
    MaxSize = 2
INVARIANT
    NamesKept
