\* Ints of 6 bits: two digits in both bases.  Every format of up to two
\* directives, with and without a "%" at its end, into 0 to 7 characters: too
\* small for one number, for the second directive, and large enough for all.
CONSTANTS
    HALF = 32
    MaxSize = 7
    MaxDirectives = 2
    Chars <- MCChars
    Formats <- MCFormats
SPECIFICATION Spec
INVARIANTS
    TypeOK TerminatedAtCount Formatted OverflowJustified
PROPERTIES
    ReturnsUnlessNumberCut
