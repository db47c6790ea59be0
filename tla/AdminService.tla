---------------------------- MODULE AdminService -----------------------------
(***************************************************************************)
(* admin-service: PATCH /admin/users/:id and DELETE /admin/posts/:id.      *)
(* Deleting a post soft-deletes its row, reads the author's followers once *)
(* and then removes the id from one timeline after the other, in two       *)
(* stores and without a transaction.                                       *)
(*                                                                         *)
(* The fan-out worker, the users who follow and unfollow, and a second     *)
(* administrator act meanwhile.                                            *)
(***************************************************************************)
EXTENDS TimelineZSet, Sequences

CONSTANTS
    Users,       \* user ids, the possible followers
    Authors,     \* user ids, the possible authors
    Tasks        \* calls of the handlers

VARIABLES
    status,      \* status column of the users table
    posts,       \* rows of the posts table
    followers,   \* followers[a]: the follower_ids of a's rows
    timelines,   \* timelines[u]: the sorted set of user u
    ttl,         \* ttl[u]: the key of u's timeline has an expiry
    task,        \* the handler calls
    spared       \* history: spared[t]: users whose ZREM failed in task t

Statuses == {"active", "deactivated", "restricted"}

NoRow == [author |-> 0, deleted |-> FALSE]
Rows == [author : Authors, deleted : BOOLEAN] \cup {NoRow}
Live(p) == posts[p] # NoRow /\ ~posts[p].deleted

Idle == [pc |-> "idle", post |-> 0, author |-> 0, listed |-> {}, todo |-> {}, reply |-> 0]
Steps == {"idle", "softDelete", "list", "zrem", "author", "done", "gone"}
TaskStates ==
    [pc : Steps, post : Posts \cup {0}, author : Authors \cup {0},
     listed : SUBSET Users, todo : SUBSET Users, reply : {0, 200, 204, 400, 500}]

At(t, label) == task[t].pc = label
Goto(t, label) == task' = [task EXCEPT ![t].pc = label]
Reply(t, code) == task' = [task EXCEPT ![t].pc = "done", ![t].reply = code]

-----------------------------------------------------------------------------
(* PATCH: one UPDATE, of whatever row has the id. *)
PatchUser(t, a, s) ==
    /\ At(t, "idle")
    /\ \/ /\ s \in Statuses
          /\ status' = [status EXCEPT ![a] = s]
          /\ Reply(t, 200)
       \/ /\ s \notin Statuses
          /\ Reply(t, 400)
          /\ UNCHANGED status
       \/ /\ s \in Statuses
          /\ status' \in {status, [status EXCEPT ![a] = s]}
          /\ Reply(t, 500)
    /\ UNCHANGED <<posts, followers, timelines, ttl, spared>>

(* DELETE: repo.GetPostByID finds live rows only. *)
GetPost(t, p) ==
    /\ At(t, "idle")
    /\ \/ /\ Live(p)
          /\ task' = [task EXCEPT ![t].pc = "softDelete", ![t].post = p,
                                  ![t].author = posts[p].author]
       \/ task' = [task EXCEPT ![t].pc = "done", ![t].post = p, ![t].reply = 500]
    /\ UNCHANGED <<status, posts, followers, timelines, ttl, spared>>

(* Mutated: the row is deleted for good. *)
EraseRow(p) == posts' = [posts EXCEPT ![p] = NoRow]

(* repo.DeletePost: no error if another call has deleted the row meanwhile. *)
Erase(p) == posts' = [posts EXCEPT ![p].deleted = TRUE]

SoftDelete(t) ==
    /\ At(t, "softDelete")
    /\ \/ Erase(task[t].post) /\ Goto(t, "list")
       \/ (Erase(task[t].post) \/ UNCHANGED posts) /\ Reply(t, 500)
    /\ UNCHANGED <<status, followers, timelines, ttl, spared>>

(* Mutated: the users the author follows, user_id and follower_id swapped. *)
ListFollowing(t) ==
    /\ At(t, "list")
    /\ LET rows == {u \in Authors : task[t].author \in followers[u]} IN
            task' = [task EXCEPT ![t].pc = IF rows = {} THEN "author" ELSE "zrem",
                                 ![t].listed = rows, ![t].todo = rows]
    /\ UNCHANGED <<status, posts, followers, timelines, ttl, spared>>

(* repo.ListFollowerIDs: an error leaves every timeline as it is. *)
ListFollowers(t) ==
    /\ At(t, "list")
    /\ \/ LET rows == followers[task[t].author] IN
            task' = [task EXCEPT ![t].pc = IF rows = {} THEN "author" ELSE "zrem",
                                 ![t].listed = rows, ![t].todo = rows]
       \/ Reply(t, 500)
    /\ UNCHANGED <<status, posts, followers, timelines, ttl, spared>>

(* ZREM; a sorted set that becomes empty is deleted, expiry and all. *)
Remove(u, p) ==
    /\ timelines' = [timelines EXCEPT ![u] = ZRem(@, p)]
    /\ ttl' = [ttl EXCEPT ![u] = @ /\ timelines'[u] # NoTimeline]

(* One ZREM per follower, whose errors are ignored ... *)
ZRemFollower(t) ==
    /\ At(t, "zrem")
    /\ \E u \in task[t].todo :
        /\ \/ /\ Remove(u, task[t].post)
              /\ UNCHANGED spared
           \/ /\ spared' = [spared EXCEPT ![t] = @ \cup {u}]
              /\ UNCHANGED <<timelines, ttl>>
        /\ task' = [task EXCEPT ![t].todo = @ \ {u},
                                ![t].pc = IF task[t].todo = {u} THEN "author" ELSE "zrem"]
    /\ UNCHANGED <<status, posts, followers>>

(* ... and one for the author, whose error is the call's. *)
ZRemAuthor(t) ==
    /\ At(t, "author")
    /\ \/ /\ Remove(task[t].author, task[t].post)
          /\ Reply(t, 204)
       \/ Reply(t, 500) /\ UNCHANGED <<timelines, ttl>>
    /\ UNCHANGED <<status, posts, followers, spared>>

(* The process dies under the call. *)
TaskLost(t) ==
    /\ task[t].pc \in {"softDelete", "list", "zrem", "author"}
    /\ Goto(t, "gone")
    /\ UNCHANGED <<status, posts, followers, timelines, ttl, spared>>

-----------------------------------------------------------------------------
Step(t) ==
    \/ SoftDelete(t)
    \/ ListFollowers(t)
    \/ ZRemFollower(t)
    \/ ZRemAuthor(t)

TaskNext(t) ==
    \/ \E a \in Authors, s \in Statuses \cup {"banned"} : PatchUser(t, a, s)
    \/ \E p \in Posts : GetPost(t, p)
    \/ Step(t)
    \/ TaskLost(t)
==============================================================================
