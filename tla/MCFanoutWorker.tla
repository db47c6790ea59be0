--------------------------- MODULE MCFanoutWorker ----------------------------
(* Values for the constants of FanoutWorker that a .cfg cannot write.      *)
EXTENDS FanoutWorker

(* With posts 1, 9 and 10 the order of the texts is not that of the ids.   *)
MCTextRank == [p \in Posts |-> IF p = 9 THEN 3 ELSE IF p = 10 THEN 2 ELSE 1]

(* The users of an instance whose followers only go.                       *)
OnlyUnfollows == \A a \in Authors : followers'[a] \subseteq followers[a]
==============================================================================
