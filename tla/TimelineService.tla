--------------------------- MODULE TimelineService ---------------------------
(***************************************************************************)
(* timeline-service: GET /timeline.  The handler reads whom the caller     *)
(* follows, and then, in a second query, the newest live posts of those    *)
(* who are active.  follow-service's GET /feed runs the same two queries.  *)
(* The rows are not ordered here: a result is any Limit of the eligible    *)
(* posts, or all of them.                                                  *)
(***************************************************************************)
EXTENDS Naturals, FiniteSets

CONSTANTS
    Users,      \* the callers
    Authors,    \* the users who post
    Posts,      \* post ids
    Reads,      \* calls of the handler
    Limit       \* the limit parameter (200 by default)

VARIABLES
    status,     \* status column of the users table
    posts,      \* rows of the posts table
    followers,  \* followers[a]: the follower_ids of a's rows
    feed        \* the handler calls

IdleRead == [pc |-> "idle", user |-> 0, following |-> {}, result |-> {}]
ReadStates ==
    [pc : {"idle", "following", "posts", "done", "failed"}, user : Users \cup {0},
     following : SUBSET Authors, result : SUBSET Posts]

(* Mutated: without posts.deleted_at IS NULL. *)
EligibleDeleted(p, following) ==
    /\ posts[p].author \in following
    /\ status[posts[p].author] = "active"

(* The WHERE clause, evaluated in one statement over posts JOIN users. *)
Eligible(p, following) ==
    /\ posts[p].author \in following
    /\ status[posts[p].author] = "active"
    /\ ~posts[p].deleted

Page(S) ==
    IF Cardinality(S) <= Limit THEN {S} ELSE {T \in SUBSET S : Cardinality(T) = Limit}

AtRead(r, label) == feed[r].pc = label

BeginRead(r, u) ==
    /\ AtRead(r, "idle")
    /\ feed' = [feed EXCEPT ![r].pc = "following", ![r].user = u]
    /\ UNCHANGED <<status, posts, followers>>

(* uc.GetFollowing; whoever follows nobody is answered at once. *)
GetFollowing(r) ==
    /\ AtRead(r, "following")
    /\ LET following == {a \in Authors : feed[r].user \in followers[a]} IN
        feed' = [feed EXCEPT ![r].pc = IF following = {} THEN "done" ELSE "posts",
                             ![r].following = following]
    /\ UNCHANGED <<status, posts, followers>>

QueryPosts(r) ==
    /\ AtRead(r, "posts")
    /\ \E page \in Page({p \in Posts : Eligible(p, feed[r].following)}) :
        feed' = [feed EXCEPT ![r].pc = "done", ![r].result = page]
    /\ UNCHANGED <<status, posts, followers>>

ReadFails(r) ==
    /\ feed[r].pc \in {"following", "posts"}
    /\ feed' = [feed EXCEPT ![r].pc = "failed"]
    /\ UNCHANGED <<status, posts, followers>>

ReadNext(r) ==
    \/ \E u \in Users : BeginRead(r, u)
    \/ GetFollowing(r)
    \/ QueryPosts(r)
    \/ ReadFails(r)
==============================================================================
