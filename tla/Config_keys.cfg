\* Two servers whose URLs have one server key.
SPECIFICATION ConfigSpec
CONSTANTS
    NoUrl = NoUrl
    Blank = Blank
    Raws <- MCRaws
    Words <- MCWords
    Written <- MCWritten
INVARIANTS
    SetUpIsRegistered
