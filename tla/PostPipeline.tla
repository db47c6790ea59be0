----------------------------- MODULE PostPipeline ----------------------------
(***************************************************************************)
(* The services a post passes through, on their shared stores: the tables  *)
(* users, posts and followers in MySQL, and post_created_stream and the    *)
(* timelines in Redis.                                                     *)
(*                                                                         *)
(*   PostService      inserts the row and appends the event                *)
(*   FanoutWorker     reads the event and writes the followers' timelines  *)
(*   AdminService     changes statuses, deletes posts from both stores     *)
(*   TimelineService  answers reads                                        *)
(*                                                                         *)
(* Every step is a step of one service; the others' own state is unchanged.*)
(* Follows and unfollows are the atomic ones of FanoutWorker's             *)
(* environment, which is what FollowService implements.                    *)
(***************************************************************************)
EXTENDS Naturals, Sequences, FiniteSets

CONSTANTS
    Users, Authors, Posts, TextRank, MaxTimeline,
    Workers, BatchSize, ReadCount, Requests, Tasks, Reads, Limit,
    MaxEntries, MaxTime, MaxChanges, MaxFaults

(* Ids start at 1, authors may follow each other, the limit of a read is   *)
(* positive (the handler replaces any other by 200), and so are the sizes  *)
(* of the worker's pages and reads.                                        *)
ASSUME PipelineAssumption ==
    /\ 0 \notin Users /\ 0 \notin Posts
    /\ Authors \subseteq Users
    /\ Limit \in Nat \ {0}
    /\ IsFiniteSet(Users) /\ BatchSize \in Nat \ {0} /\ ReadCount \in Nat \ {0}

VARIABLES
    status, posts, followers,                       \* MySQL
    stream, groupUp, delivered, pending,            \* Redis: stream and group
    timelines, ttl,                                 \* Redis: timelines
    call, couldPost,                                \* post-service
    main, pc, inbox, job, seen, hit,                \* fanout-worker
    task, spared,                                   \* admin-service
    feed,                                           \* timeline-service
    now, changes, faults,                           \* bounds
    window,   \* history: window[r]: what has been true at some time of read r
    calm      \* history: deletions begun when their post was fully fanned out

Post == INSTANCE PostService
Worker == INSTANCE FanoutWorker
Admin == INSTANCE AdminService
Timeline == INSTANCE TimelineService

postState == <<call, couldPost>>
workerState == <<groupUp, delivered, pending, main, pc, inbox, job, seen, hit, now,
                 changes, faults>>
adminState == <<task, spared>>

vars == <<status, posts, followers, stream, timelines, ttl, postState, workerState, adminState,
          feed, window, calm>>

EmptyWindow == [live |-> {}, active |-> {}, followed |-> {}]

Init ==
    /\ Post!Init
    /\ Worker!Init
    /\ task = [t \in Tasks |-> Admin!Idle]
    /\ spared = [t \in Tasks |-> {}]
    /\ feed = [r \in Reads |-> Timeline!IdleRead]
    /\ window = [r \in Reads |-> EmptyWindow]
    /\ calm = {}

-----------------------------------------------------------------------------
(* No event of the post is on its way, in the stream or in a worker. *)
FannedOut(p) ==
    /\ \A r \in Requests : ~(call[r].pc = "publish" /\ call[r].post = p)
    /\ \A i \in 1 .. Len(stream) :
         stream[i].post = p => /\ i <= delivered
                               /\ \A w \in Workers : i \notin Worker!Held(w)

(* What a read could have seen so far, the present moment included. *)
Observe ==
    window' = [r \in Reads |->
        IF feed'[r].pc \in {"idle", "done", "failed"}
        THEN window[r]
        ELSE [live |-> window[r].live
                         \cup {p \in Posts : Post!Saved(p)' /\ ~posts'[p].deleted},
              active |-> window[r].active \cup {a \in Authors : status'[a] = "active"},
              followed |-> window[r].followed
                         \cup {a \in Authors : feed'[r].user \in followers'[a]}]]

PostStep ==
    /\ \E r \in Requests : Post!CallNext(r)
    /\ UNCHANGED <<followers, timelines, ttl, workerState, adminState, feed, calm>>
    /\ Observe

WorkerStep ==
    /\ \/ \E w \in Workers : Worker!WorkerNext(w)
       \/ \E u \in Users : Worker!TimelineExpires(u)
       \/ Worker!Tick
    /\ UNCHANGED <<status, posts, postState, adminState, feed, calm>>
    /\ Observe

FollowStep ==
    /\ \E a \in Authors, u \in Users : Worker!Follow(a, u) \/ Worker!Unfollow(a, u)
    /\ UNCHANGED <<status, posts, postState, adminState, feed, calm>>
    /\ Observe

AdminStep ==
    /\ \E t \in Tasks :
        /\ Admin!TaskNext(t)
        /\ calm' = IF task'[t].pc = "softDelete" /\ FannedOut(task'[t].post)
                   THEN calm \cup {t} ELSE calm
    /\ Post!NoteStatus
    /\ UNCHANGED <<stream, call, workerState, feed>>
    /\ Observe

ReadStep ==
    /\ \E r \in Reads : Timeline!ReadNext(r)
    /\ UNCHANGED <<stream, timelines, ttl, postState, workerState, adminState, calm>>
    /\ Observe

Next ==
    \/ PostStep
    \/ WorkerStep
    \/ FollowStep
    \/ AdminStep
    \/ ReadStep

(* Only the worker is asked to make progress: HTTP clients may stop.       *)
Fairness == \A w \in Workers : WF_vars(Worker!Consume(w) /\ WorkerStep)

Spec == Init /\ [][Next]_vars /\ Fairness

-----------------------------------------------------------------------------
TypeOK ==
    /\ Post!TypeOK
    /\ Worker!TypeOK
    /\ task \in [Tasks -> Admin!TaskStates]
    /\ spared \in [Tasks -> SUBSET Users]
    /\ feed \in [Reads -> Timeline!ReadStates]
    /\ calm \subseteq Tasks

(* A read returns only posts that were live, of authors who were active and*)
(* whom the reader followed, at some time while the read ran: what was     *)
(* deleted, deactivated or unfollowed before a read began is never in it,  *)
(* whatever state the timelines in Redis are in.                           *)
ReadsAreCurrent ==
    \A r \in Reads :
        /\ feed[r].result \subseteq window[r].live
        /\ \A p \in feed[r].result :
             posts[p].author \in window[r].active \cap window[r].followed

(* No timeline names a post without a row, and none a post whose event     *)
(* never was in the stream: the worker invents nothing.                    *)
TimelinesHoldPublishedPosts ==
    \A u \in Users, p \in Posts :
        timelines[u][p] # 0 =>
            Post!Saved(p) /\ Post!InStream(Post!Event(p, posts[p].author))

(* A deletion that is answered 204, was begun after the fan-out of its     *)
(* post had ended, and met no Redis error, leaves the post in no timeline, *)
(* provided nobody followed or unfollowed the author.                      *)
CalmDeletionIsComplete ==
    \A t \in Tasks :
        t \in calm /\ task[t].reply = 204 /\ spared[t] = {} /\ changes = 0
        => \A u \in Users : timelines[u][task[t].post] = 0

(* What PostService promises by itself, here beside the other services.    *)
EventsHaveRows == Post!EventsHaveRows
SuccessMeansPublished == Post!SuccessMeansPublished
BlockedThroughoutSavesNothing == Post!BlockedThroughoutSavesNothing

(* In this composition each service still sees only what its own module    *)
(* assumes of the others, so what is shown of PostService and FanoutWorker *)
(* alone holds here: every step of the system is one of theirs, or leaves  *)
(* their variables as they are.                                            *)
ImplementsPostService == Post!Init /\ [][Post!Next]_(Post!vars)
ImplementsFanoutWorker == Worker!Init /\ [][Worker!Next]_(Worker!vars)

(* RUNBOOK.md: deletion "removes its ID from follower timeline Redis ZSET  *)
(* keys".  After a 204 without Redis errors, and once the fan-out has      *)
(* ended, no follower's timeline holds the post.                           *)
DeletionRemovesFromTimelines ==
    \A t \in Tasks :
        task[t].reply = 204 /\ spared[t] = {} /\ FannedOut(task[t].post)
        => \A u \in followers[task[t].author] : timelines[u][task[t].post] = 0

(* A post that was answered 200 reaches the timeline of everybody who      *)
(* follows its author, if a worker stays up and nothing fails.             *)
PostedReachesFollowers ==
    (/\ \E w \in Workers : Worker!StaysUp(w)
     /\ [](faults = 0 /\ changes = 0))
    => \A r \in Requests, p \in Posts, a \in Authors : \A u \in Users \ {a} :
         <>(call[r].reply = 200 /\ call[r].post = p /\ call[r].author = a /\ u \in followers[a])
         => <>(timelines[u][p] # 0)
==============================================================================
