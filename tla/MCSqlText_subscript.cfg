SPECIFICATION Spec
CONSTANTS
    Alphabet <- MCSubscripts
    Named <- MCSubscripts
    Letters <- MCLetters
    Declared <- MCDeclared
    MaxLength = 7
INVARIANT SecondStatementIsSeen
