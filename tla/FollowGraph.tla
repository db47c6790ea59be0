----------------------------- MODULE FollowGraph -----------------------------
(***************************************************************************)
(* What the follow API promises its clients, with each request taking      *)
(* effect in one atomic step.  `edges` is the set of pairs                 *)
(* <<followee, follower>> of the followers table, `answer` what each       *)
(* request has been told.  FollowService implements this specification     *)
(* although its handlers check and write in separate SQL statements.       *)
(*                                                                         *)
(* The promise is not symmetric.  A follow that is told "ok" did add a     *)
(* relation that was absent; an unfollow that is told "ok" only leaves the *)
(* relation absent, another request may have removed it before.            *)
(***************************************************************************)
CONSTANTS Users, Requests

VARIABLES edges, answer

vars == <<edges, answer>>

NoAnswer == [op |-> "none"]

Pairs == Users \X Users

Answers == [op : {"follow", "unfollow"}, pair : Pairs,
            result : {"ok", "self", "exists", "absent", "error"}]

TypeOK ==
    /\ edges \subseteq Pairs
    /\ answer \in [Requests -> Answers \cup {NoAnswer}]

Init ==
    /\ edges = {}
    /\ answer = [r \in Requests |-> NoAnswer]

Tell(r, op, pair, result) ==
    /\ answer[r] = NoAnswer
    /\ answer' = [answer EXCEPT ![r] = [op |-> op, pair |-> pair, result |-> result]]

FollowOk(r, pair) ==
    /\ pair[1] # pair[2]
    /\ pair \notin edges
    /\ edges' = edges \cup {pair}
    /\ Tell(r, "follow", pair, "ok")

FollowRefused(r, pair) ==
    /\ \/ pair[1] = pair[2] /\ Tell(r, "follow", pair, "self")
       \/ pair[1] # pair[2] /\ pair \in edges /\ Tell(r, "follow", pair, "exists")
    /\ UNCHANGED edges

UnfollowOk(r, pair) ==
    /\ pair[1] # pair[2]
    /\ edges' = edges \ {pair}
    /\ Tell(r, "unfollow", pair, "ok")

UnfollowRefused(r, pair) ==
    /\ \/ pair[1] = pair[2] /\ Tell(r, "unfollow", pair, "self")
       \/ pair[1] # pair[2] /\ pair \notin edges /\ Tell(r, "unfollow", pair, "absent")
    /\ UNCHANGED edges

(* A database error says nothing of whether the statement took effect. *)
Failed(r, pair) ==
    /\ pair[1] # pair[2]
    /\ \/ Tell(r, "follow", pair, "error") /\ edges' \in {edges, edges \cup {pair}}
       \/ Tell(r, "unfollow", pair, "error") /\ edges' \in {edges, edges \ {pair}}

Next ==
    \E r \in Requests, pair \in Pairs :
        \/ FollowOk(r, pair)
        \/ FollowRefused(r, pair)
        \/ UnfollowOk(r, pair)
        \/ UnfollowRefused(r, pair)
        \/ Failed(r, pair)

Spec == Init /\ [][Next]_vars
==============================================================================
