-------------------------- MODULE MCAdapterStrings --------------------------
(* AdapterStrings over the texts and numbers of MCStrings and "NaN".       *)
EXTENDS AdapterStrings, TLC

MCValues == {"", "1", "2", "NaN"}
MCParseInt(v) == CASE v = "1" -> 1 [] v = "2" -> 2 [] OTHER -> NaN
MCStr(n) == ToString(n)
MCConcat(v, w) == v \o w
MCLength(v) == Len(v)
MCSubstring(v, i, j) == SubSeq(v, i + 1, j)
MCRanges == {-2, -1, 0, 1}
MCDurations == {-1, 1, NaN}
MCInstants == {}
MCSetOptions == {}
MCDeltas == {2, NaN}
MCCounters == {1, 2}
store == <<strings, now>>
=============================================================================
