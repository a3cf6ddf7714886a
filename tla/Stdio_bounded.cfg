\* Formats that fill the destination.
CONSTANTS
    HALF = 32
    MaxSize = 7
    MaxDirectives = 2
    Chars <- MCChars
    Formats <- MCFormats
SPECIFICATION Spec
INVARIANT WritesBounded
