\* A number that does not fit in the destination.
CONSTANTS
    HALF = 32
    MaxSize = 7
    MaxDirectives = 2
    Chars <- MCChars
    Formats <- MCFormats
SPECIFICATION Spec
PROPERTY Returns
