SPECIFICATION Spec
CONSTANTS
    Alphabet <- MCAlphabet
    Named <- MCNamed
    Letters <- MCLetters
    Declared <- MCDeclared
    MaxLength = 6
INVARIANTS PlaceholdersAreReplaced GuardIsExact SlotsLineUp
