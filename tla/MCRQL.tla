------------------------------- MODULE MCRQL -------------------------------
(***************************************************************************)
(* Lines for the lexer: every text of up to four atoms of every kind, and  *)
(* every spelling of commands whose keys and values contain keywords,      *)
(* blanks, digits, quotes and escaped quotes.                              *)
(***************************************************************************)
EXTENDS RQL

SomeAtoms == {"SHOVE", "YOINK", "KEYS", "TTL", "a", "-", "1", " ", "\"", "'", "\\", "NUL", "#"}

ShortTexts == BoundedSeq(SomeAtoms, 4)

SomeKeys == {<<"a">>, <<"a", "-", "1">>, <<"TTL">>, <<"1">>, <<>>, <<"a", " ", "a">>, <<"\\", "'">>}

ValueAtoms == {"a", "SHOVE", "1", "\"", "'", "\\", " ", "#"}

SomeValues == BoundedSeq(ValueAtoms, 2)

(* MaxInt is below the second one.                                         *)
SomeTTLs == {<<"1">>, <<"1", "1">>}

OneBlank == {<<" ">>}

OneDigit == [d \in Digits |-> 1]

=============================================================================
