----------------------------- MODULE MCSqlText -----------------------------
\* Six characters (in the configuration): a literal or a comment with something
\* in it and after it; seven of a smaller alphabet: a literal in a subscript.
EXTENDS SqlText

MCAlphabet == {"'", "\"", "[", "]", "-", "/", "*", "?", ";", NewLine}
MCSubscripts == {"'", "[", "]", ";", "x"}
MCNamed == {"'", "\"", "-", "?", ":", "p", " "}
MCLetters == {"p", "x"}
MCDeclared == {<<"p">>}
=============================================================================
