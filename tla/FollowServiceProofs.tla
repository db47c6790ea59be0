------------------------- MODULE FollowServiceProofs -------------------------
(***************************************************************************)
(* Proofs of FollowService for any users and any finite set of calls: the  *)
(* answers agree with the table, one of several racing follows wins, and   *)
(* the handlers implement the atomic requests of FollowGraph.              *)
(***************************************************************************)
EXTENDS FollowService, FiniteSetTheorems, TLAPS

LEMMA CallTypes ==
    ASSUME TypeOK, NEW r \in Requests
    PROVE  /\ req[r] \in Calls
           /\ req[r] # Idle => req[r].op \in Ops /\ req[r].pair \in Pairs
           /\ req[r].pc \in {"check", "write"} => req[r].op \in Ops /\ req[r].pair \in Pairs
BY DEF TypeOK, Calls, Idle, Ops

(* What a call is answered with belongs to its operation.                  *)
LEMMA TypeStep == TypeOK /\ [Next]_vars => TypeOK'
<1> SUFFICES ASSUME TypeOK, [Next]_vars PROVE TypeOK'
    OBVIOUS
<1>1. ASSUME NEW r \in Requests, NEW op \in Ops, NEW pair \in Pairs, Begin(r, op, pair)
      PROVE  TypeOK'
    BY <1>1 DEF TypeOK, Begin, Answered, Running, Calls, Ops, FollowResults, UnfollowResults
<1>2. ASSUME NEW r \in Requests, CheckFollow(r) PROVE TypeOK'
    BY <1>2, CallTypes DEF TypeOK, CheckFollow, At, Goto, Answer, Answered, Calls, Idle, Ops, FollowResults
<1>3. ASSUME NEW r \in Requests, CheckUnfollow(r) PROVE TypeOK'
    BY <1>3, CallTypes DEF TypeOK, CheckUnfollow, At, Goto, Answer, Answered, Calls, Idle, Ops, UnfollowResults
<1>4. ASSUME NEW r \in Requests, Insert(r) PROVE TypeOK'
    BY <1>4, CallTypes DEF TypeOK, Insert, At, Answer, Answered, Calls, FollowResults
<1>5. ASSUME NEW r \in Requests, Delete(r) PROVE TypeOK'
    BY <1>5, CallTypes DEF TypeOK, Delete, At, Answer, Answered, Calls, UnfollowResults
<1>6. ASSUME NEW r \in Requests, CheckFails(r) PROVE TypeOK'
    BY <1>6, CallTypes DEF TypeOK, CheckFails, At, Answer, Answered, Calls, Ops, FollowResults, UnfollowResults
<1>7. ASSUME NEW r \in Requests, WriteFails(r) PROVE TypeOK'
    BY <1>7, CallTypes DEF TypeOK, WriteFails, At, Answer, Answered, Calls, Ops, FollowResults, UnfollowResults
<1>8. CASE UNCHANGED vars
    BY <1>8 DEF TypeOK, vars
<1> QED
    BY <1>1, <1>2, <1>3, <1>4, <1>5, <1>6, <1>7, <1>8 DEF Next, Step

(* Rows and calls keep their types. *)
THEOREM TypeCorrect == Spec => []TypeOK
<1>1. Init => TypeOK
    BY DEF Init, TypeOK, Calls
<1> QED
    BY <1>1, TypeStep, PTL DEF Spec

-----------------------------------------------------------------------------
(* Every step of a handler is a step of FollowGraph or changes nothing     *)
(* that it knows of.                                                       *)
LEMMA RefinedInit == Init => Graph!Init
BY DEF Init, Graph!Init, AbstractAnswer, Idle, At, Graph!NoAnswer

(* A step that answers call r for the first time.                          *)
LEMMA Tells ==
    ASSUME TypeOK, NEW r \in Requests, req[r].pc \in {"check", "write"},
           NEW result, Answer(r, result)
    PROVE  Graph!Tell(r, req[r].op, req[r].pair, result)
BY CallTypes DEF TypeOK, Answer, Answered, At, Graph!Tell, Graph!NoAnswer, AbstractAnswer

(* A call that goes on to its write has no answer to show. *)
LEMMA GoesOn ==
    ASSUME TypeOK, NEW r \in Requests, At(r, "check"), Goto(r, "write")
    PROVE  UNCHANGED AbstractAnswer
<1>1. \A q \in Requests : At(q, "done")' = At(q, "done") /\ (At(q, "done") => req'[q] = req[q])
    BY DEF TypeOK, At, Goto
<1> QED
    BY <1>1, Zenon DEF AbstractAnswer

(* A call about oneself never reaches the database, which FollowGraph's    *)
(* requests other than the refusals ask for.                               *)
NotAboutOneself ==
    \A r \in Requests : req[r].pc \in {"check", "write"} => req[r].pair[1] # req[r].pair[2]

LEMMA NotAboutOneselfStep == TypeOK /\ NotAboutOneself /\ [Next]_vars => NotAboutOneself'
<1> SUFFICES ASSUME TypeOK, NotAboutOneself, [Next]_vars PROVE NotAboutOneself'
    OBVIOUS
<1>1. ASSUME NEW r \in Requests, NEW op \in Ops, NEW pair \in Pairs, Begin(r, op, pair)
      PROVE  NotAboutOneself'
    BY <1>1 DEF TypeOK, NotAboutOneself, Begin, Answered, Running
<1>2. ASSUME NEW r \in Requests, Step(r) PROVE NotAboutOneself'
    BY <1>2, CallTypes
       DEF TypeOK, NotAboutOneself, Step, CheckFollow, CheckUnfollow, Insert, Delete, CheckFails,
           WriteFails, At, Goto, Answer, Answered, Calls, Idle
<1>3. CASE UNCHANGED vars
    BY <1>3 DEF NotAboutOneself, vars
<1> QED
    BY <1>1, <1>2, <1>3 DEF Next

LEMMA RefinedStep == TypeOK /\ NotAboutOneself /\ [Next]_vars => [Graph!Next]_(Graph!vars)
<1> SUFFICES ASSUME TypeOK, NotAboutOneself, [Next]_vars PROVE [Graph!Next]_(Graph!vars)
    OBVIOUS
<1> USE DEF Graph!Pairs, Pairs
<1>0. ASSUME NEW r \in Requests, req[r].pc \in {"check", "write"}
      PROVE  /\ req[r].op \in Ops /\ req[r].pair \in Pairs
             /\ req[r].pair[1] # req[r].pair[2]
    BY <1>0, CallTypes DEF NotAboutOneself
<1>1. ASSUME NEW r \in Requests, NEW op \in Ops, NEW pair \in Pairs, Begin(r, op, pair)
      PROVE  [Graph!Next]_(Graph!vars)
  <2>1. CASE pair[1] = pair[2]
    <3>1. Graph!Tell(r, op, pair, "self") /\ UNCHANGED edges
        BY <1>1, <2>1 DEF TypeOK, Begin, Answered, At, AbstractAnswer, Graph!Tell, Graph!NoAnswer
    <3> QED
        BY <3>1, <2>1 DEF Ops, Graph!Next, Graph!FollowRefused, Graph!UnfollowRefused
  <2>2. CASE pair[1] # pair[2]
    BY <1>1, <2>2 DEF TypeOK, Begin, Running, At, AbstractAnswer, Graph!vars
  <2> QED
    BY <2>1, <2>2
<1>2. ASSUME NEW r \in Requests, CheckFollow(r) PROVE [Graph!Next]_(Graph!vars)
  <2>1. CASE req[r].pair \in edges
    <3>1. Graph!Tell(r, "follow", req[r].pair, "exists") /\ UNCHANGED edges
        BY <1>2, <2>1, Tells DEF CheckFollow, At
    <3> QED
        BY <3>1, <2>1, <1>0, <1>2 DEF CheckFollow, At, Graph!Next, Graph!FollowRefused
  <2>2. CASE req[r].pair \notin edges
    <3>1. At(r, "check") /\ Goto(r, "write") /\ UNCHANGED edges
        BY <1>2, <2>2 DEF CheckFollow
    <3> QED
        BY <3>1, GoesOn DEF Graph!vars
  <2> QED
    BY <2>1, <2>2
<1>3. ASSUME NEW r \in Requests, CheckUnfollow(r) PROVE [Graph!Next]_(Graph!vars)
  <2>1. CASE req[r].pair \notin edges
    <3>1. Graph!Tell(r, "unfollow", req[r].pair, "absent") /\ UNCHANGED edges
        BY <1>3, <2>1, Tells DEF CheckUnfollow, At
    <3> QED
        BY <3>1, <2>1, <1>0, <1>3 DEF CheckUnfollow, At, Graph!Next, Graph!UnfollowRefused
  <2>2. CASE req[r].pair \in edges
    <3>1. At(r, "check") /\ Goto(r, "write") /\ UNCHANGED edges
        BY <1>3, <2>2 DEF CheckUnfollow
    <3> QED
        BY <3>1, GoesOn DEF Graph!vars
  <2> QED
    BY <2>1, <2>2
<1>4. ASSUME NEW r \in Requests, Insert(r) PROVE [Graph!Next]_(Graph!vars)
  <2>1. CASE req[r].pair \in edges
    <3>1. Graph!Tell(r, "follow", req[r].pair, "exists") /\ UNCHANGED edges
        BY <1>4, <2>1, Tells DEF Insert, At
    <3> QED
        BY <3>1, <2>1, <1>0, <1>4 DEF Insert, At, Graph!Next, Graph!FollowRefused
  <2>2. CASE req[r].pair \notin edges
    <3>1. Graph!Tell(r, "follow", req[r].pair, "ok") /\ edges' = edges \cup {req[r].pair}
        BY <1>4, <2>2, Tells DEF Insert, At
    <3> QED
        BY <3>1, <2>2, <1>0, <1>4 DEF Insert, At, Graph!Next, Graph!FollowOk
  <2> QED
    BY <2>1, <2>2
<1>5. ASSUME NEW r \in Requests, Delete(r) PROVE [Graph!Next]_(Graph!vars)
  <2>1. Graph!Tell(r, "unfollow", req[r].pair, "ok") /\ edges' = edges \ {req[r].pair}
      BY <1>5, Tells DEF Delete, At
  <2> QED
      BY <2>1, <1>0, <1>5 DEF Delete, At, Graph!Next, Graph!UnfollowOk
<1>6. ASSUME NEW r \in Requests, CheckFails(r) PROVE [Graph!Next]_(Graph!vars)
  <2>1. Graph!Tell(r, req[r].op, req[r].pair, "error") /\ UNCHANGED edges
      BY <1>6, Tells DEF CheckFails, At
  <2> QED
      BY <2>1, <1>0, <1>6 DEF CheckFails, At, Ops, Graph!Next, Graph!Failed
<1>7. ASSUME NEW r \in Requests, WriteFails(r) PROVE [Graph!Next]_(Graph!vars)
  <2>1. Graph!Tell(r, req[r].op, req[r].pair, "error")
      BY <1>7, Tells DEF WriteFails, At
  <2> QED
      BY <2>1, <1>0, <1>7 DEF WriteFails, At, Ops, Graph!Next, Graph!Failed
<1>8. CASE UNCHANGED vars
    BY <1>8 DEF vars, Graph!vars, AbstractAnswer, At
<1> QED
    BY <1>1, <1>2, <1>3, <1>4, <1>5, <1>6, <1>7, <1>8 DEF Next, Step

(* To its clients the service is FollowGraph: although a handler checks in *)
(* one statement and writes in another, each call takes effect at one      *)
(* moment, with the answer that fits the table at that moment.             *)
THEOREM RefinesFollowGraph == Spec => ImplementsFollowGraph
<1>1. Init => TypeOK /\ NotAboutOneself
    BY DEF Init, TypeOK, Calls, Idle, NotAboutOneself
<1>2. Init => Graph!Init
    BY RefinedInit
<1>3. TypeOK /\ NotAboutOneself /\ [Next]_vars => (TypeOK /\ NotAboutOneself)'
    BY TypeStep, NotAboutOneselfStep
<1> QED
    BY <1>1, <1>2, <1>3, RefinedStep, PTL DEF Spec, ImplementsFollowGraph

-----------------------------------------------------------------------------
(* A call's answer adds it to the calls told so, and to no others. *)
LEMMA ToldStep ==
    ASSUME TypeOK, NEW r \in Requests, req[r].pc \in {"check", "write"},
           NEW result, Answer(r, result),
           NEW op, NEW pair, NEW results
    PROVE  /\ r \notin Told(op, pair, results)
           /\ Told(op, pair, results)' =
                  IF op = req[r].op /\ pair = req[r].pair /\ result \in results
                  THEN Told(op, pair, results) \cup {r} ELSE Told(op, pair, results)
BY CallTypes DEF TypeOK, Answer, Answered, At, Told

LEMMA GrantedStep ==
    ASSUME TypeOK, NEW r \in Requests, req[r].pc \in {"check", "write"},
           NEW result, Answer(r, result), NEW pair
    PROVE  /\ r \notin Told("follow", pair, {"ok"})
           /\ Told("follow", pair, {"ok"})' =
                  IF "follow" = req[r].op /\ pair = req[r].pair /\ result = "ok"
                  THEN Told("follow", pair, {"ok"}) \cup {r} ELSE Told("follow", pair, {"ok"})
BY CallTypes DEF TypeOK, Answer, Answered, At, Told

(* A call that goes on to its write has been told nothing. *)
LEMMA ToldNothing ==
    ASSUME TypeOK, NEW r \in Requests, At(r, "check"), Goto(r, "write"),
           NEW op, NEW pair, NEW results
    PROVE  Told(op, pair, results)' = Told(op, pair, results)
BY DEF TypeOK, Goto, At, Told

(* A call that begins has been told at most that it is about oneself. *)
LEMMA ToldBegin ==
    ASSUME TypeOK, NEW r \in Requests, NEW op \in Ops, NEW pair \in Pairs, Begin(r, op, pair),
           NEW op2, NEW pair2, NEW results, "self" \notin results
    PROVE  Told(op2, pair2, results)' = Told(op2, pair2, results)
BY DEF TypeOK, Begin, At, Told, Answered, Running

LEMMA ToldFinite ==
    ASSUME NEW op, NEW pair, NEW results
    PROVE  /\ IsFiniteSet(Told(op, pair, results))
           /\ Cardinality(Told(op, pair, results)) \in Nat
BY FollowAssumption, FS_Subset, FS_CardinalityType DEF Told

-----------------------------------------------------------------------------
(* The table agrees with what has been told. *)

LEMMA MatchStep == TypeOK /\ AnswersMatchTable /\ [Next]_vars => AnswersMatchTable'
<1> SUFFICES ASSUME TypeOK, AnswersMatchTable, [Next]_vars, NEW pair \in Pairs
             PROVE  /\ pair \in edges' => Told("follow", pair, {"ok", "error"})' # {}
                    /\ (/\ Told("follow", pair, {"ok"})' # {}
                        /\ Told("unfollow", pair, {"ok", "error"})' = {}) => pair \in edges'
    BY DEF AnswersMatchTable
<1> DEFINE Added == Told("follow", pair, {"ok", "error"})
           Granted == Told("follow", pair, {"ok"})
           Removed == Told("unfollow", pair, {"ok", "error"})
<1>0. /\ pair \in edges => Added # {}
      /\ Granted # {} /\ Removed = {} => pair \in edges
    BY DEF AnswersMatchTable
<1> SUFFICES /\ pair \in edges' => Added' # {}
             /\ Granted' # {} /\ Removed' = {} => pair \in edges'
    OBVIOUS
<1>1. ASSUME UNCHANGED edges, Added' = Added, Granted' = Granted, Removed' = Removed
      PROVE  /\ pair \in edges' => Added' # {}
             /\ Granted' # {} /\ Removed' = {} => pair \in edges'
    BY <1>0, <1>1
<1>2. ASSUME NEW r \in Requests, NEW op \in Ops, NEW pair2 \in Pairs, Begin(r, op, pair2)
      PROVE  /\ pair \in edges' => Added' # {}
             /\ Granted' # {} /\ Removed' = {} => pair \in edges'
  <2>1. Added' = Added /\ Granted' = Granted /\ Removed' = Removed
      BY <1>2, ToldBegin
  <2> QED
      BY <1>1, <1>2, <2>1 DEF Begin
<1>3. ASSUME NEW r \in Requests, At(r, "check"), Goto(r, "write"), UNCHANGED edges
      PROVE  /\ pair \in edges' => Added' # {}
             /\ Granted' # {} /\ Removed' = {} => pair \in edges'
  <2>1. Added' = Added /\ Granted' = Granted /\ Removed' = Removed
      BY <1>3, ToldNothing
  <2> QED
      BY <1>1, <1>3, <2>1
<1>4. ASSUME NEW r \in Requests, req[r].pc \in {"check", "write"}, NEW result, Answer(r, result)
      PROVE  /\ Added' = IF "follow" = req[r].op /\ pair = req[r].pair /\ result \in {"ok", "error"}
                         THEN Added \cup {r} ELSE Added
             /\ Granted' = IF "follow" = req[r].op /\ pair = req[r].pair /\ result = "ok"
                           THEN Granted \cup {r} ELSE Granted
             /\ Removed' = IF "unfollow" = req[r].op /\ pair = req[r].pair /\ result \in {"ok", "error"}
                           THEN Removed \cup {r} ELSE Removed
  <2>1. Added' = IF "follow" = req[r].op /\ pair = req[r].pair /\ result \in {"ok", "error"}
                 THEN Added \cup {r} ELSE Added
      BY <1>4, ToldStep
  <2>2. Granted' = IF "follow" = req[r].op /\ pair = req[r].pair /\ result = "ok"
                   THEN Granted \cup {r} ELSE Granted
      BY <1>4, GrantedStep
  <2>3. Removed' = IF "unfollow" = req[r].op /\ pair = req[r].pair /\ result \in {"ok", "error"}
                   THEN Removed \cup {r} ELSE Removed
      BY <1>4, ToldStep
  <2> QED
      BY <2>1, <2>2, <2>3
<1> HIDE DEF Added, Granted, Removed
<1>5. ASSUME NEW r \in Requests, CheckFollow(r) \/ CheckUnfollow(r)
      PROVE  /\ pair \in edges' => Added' # {}
             /\ Granted' # {} /\ Removed' = {} => pair \in edges'
  <2>1. CASE At(r, "check") /\ Goto(r, "write") /\ UNCHANGED edges
      BY <1>3, <2>1
  <2>2. ASSUME NEW result \in {"exists", "absent"}, At(r, "check"), Answer(r, result), UNCHANGED edges
        PROVE  /\ pair \in edges' => Added' # {}
               /\ Granted' # {} /\ Removed' = {} => pair \in edges'
    <3>1. Added' = Added /\ Granted' = Granted /\ Removed' = Removed
        BY <1>4, <2>2 DEF At
    <3> QED
        BY <1>1, <2>2, <3>1
  <2> QED
      BY <1>5, <2>1, <2>2 DEF CheckFollow, CheckUnfollow
<1>6. ASSUME NEW r \in Requests, Insert(r)
      PROVE  /\ pair \in edges' => Added' # {}
             /\ Granted' # {} /\ Removed' = {} => pair \in edges'
  <2>1. /\ req[r].pc = "write" /\ req[r].op = "follow" /\ edges' = edges \cup {req[r].pair}
        /\ \/ Answer(r, "exists") /\ req[r].pair \in edges
           \/ Answer(r, "ok")
      BY <1>6 DEF Insert, At
  <2> QED
      BY <1>0, <1>4, <2>1
<1>7. ASSUME NEW r \in Requests, Delete(r)
      PROVE  /\ pair \in edges' => Added' # {}
             /\ Granted' # {} /\ Removed' = {} => pair \in edges'
    BY <1>0, <1>4, <1>7 DEF Delete, At
<1>8. ASSUME NEW r \in Requests, CheckFails(r)
      PROVE  /\ pair \in edges' => Added' # {}
             /\ Granted' # {} /\ Removed' = {} => pair \in edges'
  <2>1. req[r].pc = "check" /\ Answer(r, "error") /\ UNCHANGED edges
      BY <1>8 DEF CheckFails, At
  <2> QED
      BY <1>0, <1>4, <2>1
<1>9. ASSUME NEW r \in Requests, WriteFails(r)
      PROVE  /\ pair \in edges' => Added' # {}
             /\ Granted' # {} /\ Removed' = {} => pair \in edges'
  <2>1. req[r].pc = "write" /\ Answer(r, "error")
      BY <1>9 DEF WriteFails, At
  <2>2. CASE req[r].op = "follow"
    <3>1. edges' \in {edges, edges \cup {req[r].pair}}
        BY <1>9, <2>2 DEF WriteFails
    <3> QED
        BY <1>0, <1>4, <2>1, <2>2, <3>1
  <2>3. CASE req[r].op = "unfollow"
    <3>1. edges' \in {edges, edges \ {req[r].pair}}
        BY <1>9, <2>3 DEF WriteFails
    <3> QED
        BY <1>0, <1>4, <2>1, <2>3, <3>1
  <2> QED
      BY <2>1, <2>2, <2>3, CallTypes DEF Ops
<1>10. CASE UNCHANGED vars
  <2>1. Added' = Added /\ Granted' = Granted /\ Removed' = Removed
      BY <1>10 DEF Told, At, vars, Added, Granted, Removed
  <2> QED
      BY <1>1, <1>10, <2>1 DEF vars
<1> QED
    BY <1>2, <1>5, <1>6, <1>7, <1>8, <1>9, <1>10 DEF Next, Step

(* A pair is in the table only if a follow could have inserted it, and it  *)
(* is there if a follow was told "ok" and nothing could have removed it.   *)
THEOREM AnswersAgree == Spec => []AnswersMatchTable
<1>1. Init => TypeOK /\ AnswersMatchTable
    BY DEF Init, TypeOK, Calls, Idle, AnswersMatchTable, Told, At
<1> QED
    BY <1>1, TypeStep, MatchStep, PTL DEF Spec

-----------------------------------------------------------------------------
(* At most one more follow has been told "ok" than calls have run a        *)
(* DELETE, and if there is one more, the row is there.                     *)
GrantsInv ==
    \A pair \in Pairs :
        Cardinality(Told("follow", pair, {"ok"}))
            <= (IF pair \in edges THEN 1 ELSE 0) + Cardinality(Told("unfollow", pair, {"ok", "error"}))

LEMMA GrantsStep == TypeOK /\ GrantsInv /\ [Next]_vars => GrantsInv'
<1> SUFFICES ASSUME TypeOK, GrantsInv, [Next]_vars, NEW pair \in Pairs
             PROVE  Cardinality(Told("follow", pair, {"ok"}))'
                        <= (IF pair \in edges' THEN 1 ELSE 0)
                           + Cardinality(Told("unfollow", pair, {"ok", "error"}))'
    BY DEF GrantsInv
<1> DEFINE Granted == Told("follow", pair, {"ok"})
           Removed == Told("unfollow", pair, {"ok", "error"})
           g == Cardinality(Granted)
           d == Cardinality(Removed)
           here == IF pair \in edges THEN 1 ELSE 0
           Goal == g' <= here' + d'
<1> SUFFICES Goal
    OBVIOUS
<1>0. /\ g \in Nat /\ d \in Nat /\ g <= here + d
      /\ IsFiniteSet(Granted) /\ IsFiniteSet(Removed)
    BY ToldFinite DEF GrantsInv
(* A call that is told "ok" on a follow counts as granted, one that is     *)
(* told "ok" or "error" on an unfollow as a removal.                       *)
<1>1. ASSUME NEW r \in Requests, req[r].pc \in {"check", "write"}, NEW result, Answer(r, result)
      PROVE  /\ g' = IF "follow" = req[r].op /\ pair = req[r].pair /\ result = "ok"
                     THEN g + 1 ELSE g
             /\ d' = IF "unfollow" = req[r].op /\ pair = req[r].pair /\ result \in {"ok", "error"}
                     THEN d + 1 ELSE d
  <2>1. /\ r \notin Granted
        /\ Granted' = IF "follow" = req[r].op /\ pair = req[r].pair /\ result = "ok"
                      THEN Granted \cup {r} ELSE Granted
      BY <1>1, GrantedStep
  <2>2. /\ r \notin Removed
        /\ Removed' = IF "unfollow" = req[r].op /\ pair = req[r].pair /\ result \in {"ok", "error"}
                      THEN Removed \cup {r} ELSE Removed
      BY <1>1, ToldStep
  <2> HIDE DEF Granted, Removed
  <2>3. /\ Cardinality(Granted \cup {r}) = g + 1
        /\ Cardinality(Removed \cup {r}) = d + 1
      BY <1>0, <2>1, <2>2, FS_AddElement
  <2> QED
      BY <2>1, <2>2, <2>3
<1>2. ASSUME NEW r \in Requests, NEW op \in Ops, NEW pair2 \in Pairs, Begin(r, op, pair2)
      PROVE  Goal
  <2>1. Granted' = Granted /\ Removed' = Removed
      BY <1>2, ToldBegin
  <2> QED
      BY <1>0, <1>2, <2>1 DEF Begin
<1>3. ASSUME NEW r \in Requests, At(r, "check"), Goto(r, "write"), UNCHANGED edges
      PROVE  Goal
  <2>1. Granted' = Granted /\ Removed' = Removed
      BY <1>3, ToldNothing
  <2> QED
      BY <1>0, <1>3, <2>1
<1>4. CASE UNCHANGED vars
  <2>1. Granted' = Granted /\ Removed' = Removed
      BY <1>4 DEF Told, At, vars
  <2> QED
      BY <1>0, <1>4, <2>1 DEF vars
<1> HIDE DEF g, d
<1>5. ASSUME NEW r \in Requests, CheckFollow(r) \/ CheckUnfollow(r) PROVE Goal
  <2>1. CASE At(r, "check") /\ Goto(r, "write") /\ UNCHANGED edges
      BY <1>3, <2>1
  <2>2. ASSUME NEW result \in {"exists", "absent"}, At(r, "check"), Answer(r, result), UNCHANGED edges
        PROVE  Goal
      BY <1>0, <1>1, <2>2 DEF At
  <2> QED
      BY <1>5, <2>1, <2>2 DEF CheckFollow, CheckUnfollow
<1>6. ASSUME NEW r \in Requests, Insert(r) PROVE Goal
  <2>1. /\ req[r].pc = "write" /\ req[r].op = "follow" /\ edges' = edges \cup {req[r].pair}
        /\ \/ Answer(r, "exists") /\ req[r].pair \in edges
           \/ Answer(r, "ok") /\ req[r].pair \notin edges
      BY <1>6 DEF Insert, At
  <2> QED
      BY <1>0, <1>1, <2>1
<1>7. ASSUME NEW r \in Requests, Delete(r) PROVE Goal
  <2>1. /\ req[r].pc = "write" /\ req[r].op = "unfollow" /\ edges' = edges \ {req[r].pair}
        /\ Answer(r, "ok")
      BY <1>7 DEF Delete, At
  <2> QED
      BY <1>0, <1>1, <2>1
<1>8. ASSUME NEW r \in Requests, CheckFails(r) PROVE Goal
  <2>1. req[r].pc = "check" /\ Answer(r, "error") /\ UNCHANGED edges
      BY <1>8 DEF CheckFails, At
  <2> QED
      BY <1>0, <1>1, <2>1
<1>9. ASSUME NEW r \in Requests, WriteFails(r) PROVE Goal
  <2>1. req[r].pc = "write" /\ Answer(r, "error")
      BY <1>9 DEF WriteFails, At
  <2>2. CASE req[r].op = "follow"
    <3>1. edges' \in {edges, edges \cup {req[r].pair}}
        BY <1>9, <2>2 DEF WriteFails
    <3> QED
        BY <1>0, <1>1, <2>1, <2>2, <3>1
  <2>3. CASE req[r].op = "unfollow"
    <3>1. edges' \in {edges, edges \ {req[r].pair}}
        BY <1>9, <2>3 DEF WriteFails
    <3> QED
        BY <1>0, <1>1, <2>1, <2>3, <3>1
  <2> QED
      BY <2>1, <2>2, <2>3, CallTypes DEF Ops
<1> QED
    BY <1>2, <1>4, <1>5, <1>6, <1>7, <1>8, <1>9 DEF Next, Step

(* Of follows that race for one pair a single one is told "ok": no more    *)
(* than one, and one more for every call that may have removed the pair.   *)
THEOREM OneFollowIsGranted == Spec => []OneFollowWins
<1>1. Init => TypeOK /\ GrantsInv
  <2> SUFFICES ASSUME Init PROVE TypeOK /\ GrantsInv
      OBVIOUS
  <2>1. TypeOK
      BY DEF Init, TypeOK, Calls
  <2>2. \A op, pair, results : Told(op, pair, results) = {}
      BY DEF Init, Told, At, Idle
  <2> QED
      BY <2>1, <2>2, FS_EmptySet DEF GrantsInv
<1>2. TypeOK /\ GrantsInv /\ [Next]_vars => (TypeOK /\ GrantsInv)'
    BY TypeStep, GrantsStep
<1>3. GrantsInv => OneFollowWins
  <2> SUFFICES ASSUME GrantsInv, NEW pair \in Pairs
               PROVE  Cardinality(Told("follow", pair, {"ok"}))
                          <= 1 + Cardinality(Told("unfollow", pair, {"ok", "error"}))
      BY DEF OneFollowWins
  <2> QED
      BY ToldFinite DEF GrantsInv
<1> QED
    BY <1>1, <1>2, <1>3, PTL DEF Spec
=============================================================================
