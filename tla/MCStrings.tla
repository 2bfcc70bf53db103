----------------------------- MODULE MCStrings -----------------------------
(* Strings over two keys and three texts: the empty one, which parseInt    *)
(* rejects, and two neighbouring integers.  No action reads request and    *)
(* reply: states that differ only there are one state to TLC (VIEW store). *)
EXTENDS Strings, TLC

MCValues == {"", "1", "2"}
MCParseInt(v) == CASE v = "1" -> 1 [] v = "2" -> 2 [] OTHER -> NaN
MCStr(n) == ToString(n)
MCConcat(v, w) == v \o w
MCLength(v) == Len(v)
MCCounters == {1, 2}
MCDeltas == {2, NaN}

MCDurations == {-1, 1, NaN}
MCInstants == {0, 2, 3}

NoOptions == [unit |-> "none", arg |-> 0, nx |-> FALSE, xx |-> FALSE,
              get |-> FALSE, keepttl |-> FALSE]
MCSetOptions ==
  {NoOptions,
   [NoOptions EXCEPT !.nx = TRUE], [NoOptions EXCEPT !.xx = TRUE],
   [NoOptions EXCEPT !.get = TRUE], [NoOptions EXCEPT !.keepttl = TRUE],
   [NoOptions EXCEPT !.nx = TRUE, !.unit = "PX", !.arg = 1],
   [NoOptions EXCEPT !.xx = TRUE, !.get = TRUE, !.unit = "EX", !.arg = 1],
   [NoOptions EXCEPT !.nx = TRUE, !.xx = TRUE],
   [NoOptions EXCEPT !.unit = "EX", !.arg = NaN],
   [NoOptions EXCEPT !.unit = "EXAT", !.arg = 2],
   [NoOptions EXCEPT !.unit = "PXAT", !.arg = 3]}

store == <<strings, now>>
=============================================================================
