---------------------------- MODULE TimelineZSet -----------------------------
(***************************************************************************)
(* The Redis sorted set behind timeline:<user>, and the commands the       *)
(* services send to it.  A timeline is a function from posts to scores (a  *)
(* Unix time in seconds); score 0 stands for "not a member".  Members with *)
(* equal scores are ordered by their text, which is given by TextRank:     *)
(* "10" comes before "9".                                                  *)
(***************************************************************************)
EXTENDS Naturals, FiniteSets

CONSTANTS
    Posts,         \* post ids
    TextRank,      \* position of each post id in the order of the decimal texts
    MaxTimeline    \* entries the trim keeps (1000 in the code)

ASSUME ZSetAssumption ==
    /\ IsFiniteSet(Posts)
    /\ TextRank \in [Posts -> Nat]
    /\ \A p, q \in Posts : TextRank[p] = TextRank[q] => p = q
    /\ MaxTimeline \in Nat \ {0}

Timelines == [Posts -> Nat]

NoTimeline == [p \in Posts |-> 0]

Members(tl) == {p \in Posts : tl[p] # 0}

(* p comes before q in the order of the sorted set. *)
Before(tl, p, q) ==
    \/ tl[p] < tl[q]
    \/ tl[p] = tl[q] /\ TextRank[p] < TextRank[q]

(* ZADD, which overwrites the score of a member. *)
ZAdd(tl, p, score) == [tl EXCEPT ![p] = score]

(* ZREM, which ignores what is not a member. *)
ZRem(tl, p) == [tl EXCEPT ![p] = 0]

Above(tl, p) == {q \in Members(tl) : Before(tl, p, q)}

(* Mutated: ZREMRANGEBYRANK 0 -(MaxTimeline + 2). *)
TrimOneLess(tl) ==
    [p \in Posts |-> IF Cardinality(Above(tl, p)) <= MaxTimeline THEN tl[p] ELSE 0]

(* ZREMRANGEBYRANK 0 -(MaxTimeline + 1): the highest MaxTimeline stay. *)
Trim(tl) ==
    [p \in Posts |-> IF Cardinality(Above(tl, p)) < MaxTimeline THEN tl[p] ELSE 0]
==============================================================================
