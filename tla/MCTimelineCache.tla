--------------------------- MODULE MCTimelineCache ---------------------------
(* With posts 9 and 10 the order of the texts is not that of the ids.      *)
EXTENDS TimelineCache

MCTextRank == [p \in Posts |-> CASE p = 10 -> 1 [] p = 11 -> 2 [] p = 8 -> 3 [] OTHER -> 4]
==============================================================================
