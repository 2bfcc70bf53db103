------------------------------- MODULE MCScan -------------------------------
(* Scan over three keys, one of which has a bracket in its name, with      *)
(* patterns that match all of them or some, and counts up to two.          *)
EXTENDS Scan

MCChars == {"a", "b", "[", "]", "*", "?", "^"}
MCKeyOrder == <<<<"[", "b">>, <<"a">>, <<"a", "b">>>>
MCPatterns == {<<"*">>, <<"a", "*">>, <<"?", "b">>, <<"[", "*">>, <<"[", "^", "a", "]", "*">>}
MCCounts == {NaN, 0, 1, 2}
=============================================================================
