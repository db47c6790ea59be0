---------------------------- MODULE FollowService ----------------------------
(***************************************************************************)
(* follow-service: POST /follow and POST /unfollow.  Every handler runs in *)
(* a goroutine of its own and executes two SQL statements, a COUNT and     *)
(* then an INSERT or a DELETE, with no transaction around them; a request  *)
(* of this model is one such handler call.  The unique index               *)
(* idx_user_follower is what the table itself enforces.  Any statement may *)
(* fail, and the INSERT and DELETE may fail after they were committed (the *)
(* reply of the COMMIT is lost).                                           *)
(***************************************************************************)
EXTENDS Naturals, FiniteSets

CONSTANTS Users, Requests

ASSUME FollowAssumption == IsFiniteSet(Requests)

VARIABLES
    edges,   \* rows of the followers table, as <<user_id, follower_id>>
    req      \* the handler calls

vars == <<edges, req>>

Pairs == Users \X Users
Ops == {"follow", "unfollow"}

Idle == [pc |-> "idle"]
Running(op, pair, pc) == [pc |-> pc, op |-> op, pair |-> pair]
Answered(op, pair, result) == [pc |-> "done", op |-> op, pair |-> pair, result |-> result]

FollowResults == {"ok", "self", "exists", "error"}
UnfollowResults == {"ok", "self", "absent", "error"}

Calls == {Idle}
    \cup [pc : {"check", "write"}, op : Ops, pair : Pairs]
    \cup [pc : {"done"}, op : {"follow"}, pair : Pairs, result : FollowResults]
    \cup [pc : {"done"}, op : {"unfollow"}, pair : Pairs, result : UnfollowResults]

TypeOK ==
    /\ edges \subseteq Pairs
    /\ req \in [Requests -> Calls]

Init ==
    /\ edges = {}
    /\ req = [r \in Requests |-> Idle]

At(r, pc) == req[r].pc = pc
Goto(r, pc) == req' = [req EXCEPT ![r].pc = pc]
Answer(r, result) ==
    req' = [req EXCEPT ![r] = Answered(req[r].op, req[r].pair, result)]

-----------------------------------------------------------------------------
(* The handler takes the follower from the token and the followee from the *)
(* body; the use case refuses a request about oneself before any query.    *)
Begin(r, op, pair) ==
    /\ At(r, "idle")
    /\ req' = [req EXCEPT ![r] = IF pair[1] = pair[2] THEN Answered(op, pair, "self")
                                                     ELSE Running(op, pair, "check")]
    /\ UNCHANGED edges

(* repo.IsFollowing, and what the use case makes of its result. *)
CheckFollow(r) ==
    /\ At(r, "check") /\ req[r].op = "follow"
    /\ IF req[r].pair \in edges THEN Answer(r, "exists") ELSE Goto(r, "write")
    /\ UNCHANGED edges

(* Mutated: the refusal of a follow, copied. *)
CheckUnfollowAsFollow(r) ==
    /\ At(r, "check") /\ req[r].op = "unfollow"
    /\ IF req[r].pair \in edges THEN Goto(r, "write") ELSE Answer(r, "exists")
    /\ UNCHANGED edges

CheckUnfollow(r) ==
    /\ At(r, "check") /\ req[r].op = "unfollow"
    /\ IF req[r].pair \in edges THEN Goto(r, "write") ELSE Answer(r, "absent")
    /\ UNCHANGED edges

(* Mutated: a table without idx_user_follower. *)
InsertWithoutIndex(r) ==
    /\ At(r, "write") /\ req[r].op = "follow"
    /\ Answer(r, "ok")
    /\ edges' = edges \cup {req[r].pair}

(* repo.Follow: the unique index refuses a row that appeared since the check. *)
Insert(r) ==
    /\ At(r, "write") /\ req[r].op = "follow"
    /\ IF req[r].pair \in edges THEN Answer(r, "exists") ELSE Answer(r, "ok")
    /\ edges' = edges \cup {req[r].pair}

(* Mutated: user_id and follower_id swapped. *)
DeleteSwapped(r) ==
    /\ At(r, "write") /\ req[r].op = "unfollow"
    /\ edges' = edges \ {<<req[r].pair[2], req[r].pair[1]>>}
    /\ Answer(r, "ok")

(* repo.Unfollow: a DELETE that matches no row is no error. *)
Delete(r) ==
    /\ At(r, "write") /\ req[r].op = "unfollow"
    /\ edges' = edges \ {req[r].pair}
    /\ Answer(r, "ok")

CheckFails(r) ==
    /\ At(r, "check")
    /\ Answer(r, "error")
    /\ UNCHANGED edges

WriteFails(r) ==
    /\ At(r, "write")
    /\ Answer(r, "error")
    /\ edges' \in {edges, IF req[r].op = "follow" THEN edges \cup {req[r].pair}
                                                 ELSE edges \ {req[r].pair}}

Step(r) ==
    \/ CheckFollow(r)
    \/ CheckUnfollow(r)
    \/ Insert(r)
    \/ Delete(r)
    \/ CheckFails(r)
    \/ WriteFails(r)

Next == \E r \in Requests :
    \/ \E op \in Ops, pair \in Pairs : Begin(r, op, pair)
    \/ Step(r)

Spec == Init /\ [][Next]_vars

-----------------------------------------------------------------------------
Told(op, pair, results) ==
    {r \in Requests : At(r, "done") /\ req[r].op = op /\ req[r].pair = pair
                                    /\ req[r].result \in results}

(* A relation is granted anew only after something could have removed it:  *)
(* the follow calls told "ok" for a pair never outnumber the unfollow      *)
(* calls that ran a DELETE by more than one.  Two handlers that both saw   *)
(* the pair absent race to the INSERT; one of them must lose.              *)
OneFollowWins ==
    \A pair \in Pairs :
        Cardinality(Told("follow", pair, {"ok"}))
            <= 1 + Cardinality(Told("unfollow", pair, {"ok", "error"}))

(* The table agrees with the answers once nothing is in flight: a pair     *)
(* whose only finished calls are one successful follow is in the table,    *)
(* and a pair no follow could have inserted is not.                        *)
AnswersMatchTable ==
    \A pair \in Pairs :
        /\ pair \in edges => Told("follow", pair, {"ok", "error"}) # {}
        /\ (/\ Told("follow", pair, {"ok"}) # {}
            /\ Told("unfollow", pair, {"ok", "error"}) = {}) => pair \in edges

-----------------------------------------------------------------------------
(* The abstract answer of a call is the one it has been given, as soon as  *)
(* its last statement has run.                                             *)
AbstractAnswer ==
    [r \in Requests |->
        IF At(r, "done")
        THEN [op |-> req[r].op, pair |-> req[r].pair, result |-> req[r].result]
        ELSE [op |-> "none"]]

Graph == INSTANCE FollowGraph WITH answer <- AbstractAnswer

(* Check-then-act over two statements still looks atomic to the clients. *)
ImplementsFollowGraph == Graph!Init /\ [][Graph!Next]_(Graph!vars)
==============================================================================
