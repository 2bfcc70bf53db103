-------------------------------- MODULE Glob --------------------------------
(***************************************************************************)
(* patternToRegex (src/js/src/store/database.js and commands/server.js):   *)
(* the patterns of KEYS and SCAN as regular expressions.  Texts are        *)
(* sequences of characters.  Between brackets a backslash and a range mean *)
(* what they mean in a regular expression; they are left out.              *)
(***************************************************************************)
EXTENDS Integers, SequencesExt

CONSTANT Chars   \* the characters, those with a meaning in patterns included

Texts == Seq(Chars)

(* An atom of a regular expression stands for one character of a set, or   *)
(* for any number of them.                                                 *)
One(S)  == [many |-> FALSE, chars |-> S]
Many(S) == [many |-> TRUE, chars |-> S]

Closings(p, i) == {j \in i + 1 .. Len(p) : p[j] = "]"}
ClassOf(p, i, j) ==
  IF i + 1 < j /\ p[i + 1] = "^" THEN Chars \ {p[q] : q \in i + 2 .. j - 1}
                                 ELSE {p[q] : q \in i + 1 .. j - 1}

(* The loop over the pattern; a bracket that is not closed is a character. *)
PatternToRegex_Open(p) ==
  LET from[i \in 1 .. Len(p) + 1] ==
        IF i > Len(p) THEN <<>>
        ELSE CASE p[i] = "*" -> <<Many(Chars)>> \o from[i + 1]
               [] p[i] = "?" -> <<One(Chars)>> \o from[i + 1]
               [] p[i] = "[" -> LET j == Max(Closings(p, i) \cup {Len(p)})
                                IN  <<One(ClassOf(p, i, j))>> \o from[j + 1]
               [] OTHER      -> <<One({p[i]})>> \o from[i + 1]
  IN  from[1]
PatternToRegex(p) ==
  LET from[i \in 1 .. Len(p) + 1] ==
        IF i > Len(p) THEN <<>>
        ELSE CASE p[i] = "*" -> <<Many(Chars)>> \o from[i + 1]
               [] p[i] = "?" -> <<One(Chars)>> \o from[i + 1]
               [] p[i] = "[" /\ Closings(p, i) # {} ->
                    LET j == Min(Closings(p, i)) IN <<One(ClassOf(p, i, j))>> \o from[j + 1]
               [] OTHER      -> <<One({p[i]})>> \o from[i + 1]
  IN  from[1]

(* RegExp.test, between ^ and $: where in t the atoms so far may end.      *)
Test(regex, t) ==
  LET After(ends, atom) ==
        IF atom.many THEN {n \in 0 .. Len(t) : \E e \in ends : e <= n /\ \A q \in e + 1 .. n : t[q] \in atom.chars}
        ELSE {e + 1 : e \in {n \in ends : n < Len(t) /\ t[n + 1] \in atom.chars}}
  IN  Len(t) \in FoldLeft(After, {0}, regex)

(* What a pattern means: a star stands for any text, a question mark for   *)
(* any character, a class for one of its characters, or none of them after *)
(* a ^, and whatever else for itself, a backslash and an open bracket too. *)
Like[p \in Texts] ==
  [t \in Texts |->
     IF p = <<>> THEN t = <<>>
     ELSE IF p[1] = "*" THEN \E n \in 0 .. Len(t) : Like[Tail(p)][SubSeq(t, n + 1, Len(t))]
     ELSE /\ t # <<>>
          /\ \/ p[1] = "?" /\ Like[Tail(p)][Tail(t)]
             \/ /\ p[1] \notin {"*", "?"} /\ (p[1] = "[" => ~Contains(p, "]"))
                /\ t[1] = p[1] /\ Like[Tail(p)][Tail(t)]
             \/ /\ p[1] = "[" /\ Contains(p, "]")
                /\ LET j     == SelectInSeq(p, LAMBDA c : c = "]")
                       class == SubSeq(p, 2, j - 1)
                   IN  /\ IF class # <<>> /\ class[1] = "^" THEN ~Contains(Tail(class), t[1])
                                                            ELSE Contains(class, t[1])
                       /\ Like[SubSeq(p, j + 1, Len(p))][Tail(t)]]
=============================================================================
