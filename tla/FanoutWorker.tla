----------------------------- MODULE FanoutWorker ----------------------------
(***************************************************************************)
(* fanout-worker: the processes that consume post_created_stream through   *)
(* the consumer group fanout_group and write each post to the timelines of *)
(* the author's followers.                                                 *)
(*                                                                         *)
(* A worker process has two threads of control that matter: the consumer   *)
(* loop (stream/consumer.go, which runs ProcessPostCreated inline) and     *)
(* main, which on a signal closes the database and then Redis and exits    *)
(* without waiting for the loop.  Every SQL statement and every Redis      *)
(* command is one step, so other processes, and the people who follow and  *)
(* unfollow the author, act between any two of them.                       *)
(***************************************************************************)
EXTENDS TimelineZSet, Sequences

CONSTANTS
    Users,         \* user ids: naturals, the order of idx_user_follower
    Authors,       \* the users who post
    Workers,       \* worker processes
    BatchSize,     \* followers per page (100 in the code)
    ReadCount,     \* entries per XREADGROUP (10 in the code)
    MaxEntries,    \* bound: entries added to the stream
    MaxTime,       \* bound: seconds that pass
    MaxChanges,    \* bound: follows and unfollows
    MaxFaults      \* bound: failed calls, crashes and shutdown signals

ASSUME FanoutAssumption ==
    /\ Users \subseteq Nat /\ IsFiniteSet(Users) /\ IsFiniteSet(Workers)
    /\ BatchSize \in Nat \ {0}
    /\ ReadCount \in Nat \ {0}
    /\ MaxEntries \in Nat /\ MaxTime \in Nat \ {0}
    /\ MaxChanges \in Nat /\ MaxFaults \in Nat

VARIABLES
    \* MySQL
    followers,  \* followers[a]: the follower_ids of a's rows
    \* Redis
    stream,     \* entries of post_created_stream, in order
    groupUp,    \* the consumer group exists
    delivered,  \* its last delivered entry, as a position in the stream
    pending,    \* its pending entries list (PEL)
    timelines,  \* timelines[u]: the sorted set of user u
    ttl,        \* ttl[u]: the key of u's timeline has an expiry
    \* the worker processes
    main,       \* main[w]: how far the process has come in shutting down
    pc,         \* pc[w]: where its consumer goroutine is
    inbox,      \* inbox[w]: entries of the last read not yet dealt with
    job,        \* job[w]: local state of ProcessPostCreated
    \* bounds and history
    now, changes, faults,
    seen,       \* seen[w]: whom the current job had to reach, and has reached
    hit         \* entries whose handling met a failure

mysql == <<followers>>
group == <<groupUp, delivered, pending>>
cache == <<timelines, ttl>>
worker == <<main, pc, inbox, job>>
bounds == <<now, changes, faults>>
vars == <<followers, stream, group, cache, worker, bounds, seen, hit>>

Malformed == [post |-> 0, author |-> 0]
Entries == [post : Posts, author : Authors] \cup {Malformed}

Phases == {"down", "up", "signalled", "dbClosed", "redisClosed"}
MainStates == [phase : Phases, cancelled : BOOLEAN]
Writing == {"zadd", "trim", "expire", "reply"}
Idle == {"off", "loop", "read"}
PCs == Idle \cup {"entry", "page", "ack"} \cup Writing
Inboxes == [next : Nat, last : Nat]
Jobs == [pages : Nat, page : Nat, batch : SUBSET Users, todo : SUBSET Users, stamp : Nat]
Views == [owed : SUBSET Users, stayed : SUBSET Users, reached : SUBSET Users]

Held(w) == inbox[w].next .. inbox[w].last
Current(w) == inbox[w].next
Author(w) == stream[Current(w)].author
Post(w) == stream[Current(w)].post

NoInbox == [next |-> 1, last |-> 0]
NoJob == [pages |-> 0, page |-> 0, batch |-> {}, todo |-> {}, stamp |-> 0]
NoView == [owed |-> {}, stayed |-> {}, reached |-> {}]

Init ==
    /\ followers \in [Authors -> SUBSET Users]
    /\ \A a \in Authors : a \notin followers[a]
    /\ stream = <<>>
    /\ groupUp = FALSE /\ delivered = 0 /\ pending = {}
    /\ timelines = [u \in Users |-> NoTimeline]
    /\ ttl = [u \in Users |-> FALSE]
    /\ main = [w \in Workers |-> [phase |-> "down", cancelled |-> FALSE]]
    /\ pc = [w \in Workers |-> "off"]
    /\ inbox = [w \in Workers |-> NoInbox]
    /\ job = [w \in Workers |-> NoJob]
    /\ now = 1 /\ changes = 0 /\ faults = 0
    /\ seen = [w \in Workers |-> NoView]
    /\ hit = {}

-----------------------------------------------------------------------------
(* Paging over the follower rows.  The query names no ORDER BY; InnoDB     *)
(* answers it from the covering index (user_id, follower_id), so the rows  *)
(* come in the order of follower_id.                                       *)
Rank(rows, u) == Cardinality({v \in rows : v < u})

PageOf(rows, offset, limit) ==
    {u \in rows : offset <= Rank(rows, u) /\ Rank(rows, u) < offset + limit}

(* Mutated: the division truncates. *)
PageCountTruncated(n) == n \div BatchSize

PageCount(n) == (n + BatchSize - 1) \div BatchSize

(* The next of a set of followers, in whatever order the rows came. *)
First(S) == CHOOSE u \in S : TRUE

(* A call to a closed database or a closed Redis client fails. *)
DbOpen(w) == main[w].phase \in {"up", "signalled"}
RedisOpen(w) == main[w].phase \in {"up", "signalled", "dbClosed"}

At(w, label) == pc[w] = label
Goto(w, label) == pc' = [pc EXCEPT ![w] = label]

Fault == faults < MaxFaults /\ faults' = faults + 1
NoFault == UNCHANGED faults

(* The consumer goes on to the next message of its inbox, or reads again. *)
NextEntry(w) ==
    /\ inbox' = [inbox EXCEPT ![w].next = @ + 1]
    /\ Goto(w, IF inbox[w].next < inbox[w].last THEN "entry" ELSE "loop")
    /\ job' = [job EXCEPT ![w] = NoJob]
    /\ seen' = [seen EXCEPT ![w] = NoView]

-----------------------------------------------------------------------------
(* Mutated: the group begins at the end of the stream ("$"). *)
StartAtEnd(w) ==
    /\ main[w].phase = "down"
    /\ main' = [main EXCEPT ![w] = [phase |-> "up", cancelled |-> FALSE]]
    /\ Goto(w, "loop")
    /\ groupUp' = TRUE
    /\ delivered' = IF groupUp THEN delivered ELSE Len(stream)
    /\ UNCHANGED <<mysql, stream, pending, cache, inbox, job, bounds, seen, hit>>

(* main connects and starts the consumer goroutine, which creates the group *)
(* at the beginning of the stream unless it exists (BUSYGROUP).  Its        *)
(* consumer name is new, so it owns none of the pending entries.            *)
Start(w) ==
    /\ main[w].phase = "down"
    /\ main' = [main EXCEPT ![w] = [phase |-> "up", cancelled |-> FALSE]]
    /\ Goto(w, "loop")
    /\ groupUp' = TRUE
    /\ delivered' = IF groupUp THEN delivered ELSE 0
    /\ UNCHANGED <<mysql, stream, pending, cache, inbox, job, bounds, seen, hit>>

(* Mutated: a read that does not move the cursor of the group. *)
DeliverAgain(last) ==
    /\ delivered < last
    /\ delivered' = delivered
    /\ pending' = pending \cup (delivered + 1 .. last)

(* XREADGROUP ... ">": entries never delivered to anyone in the group.  The *)
(* reply may be lost after the server has moved the group's cursor; the    *)
(* loop then logs the error and reads on.                                  *)
Deliver(last) ==
    /\ delivered < last
    /\ delivered' = last
    /\ pending' = pending \cup (delivered + 1 .. last)

ReadLimit ==
    IF Len(stream) - delivered < ReadCount THEN Len(stream) ELSE delivered + ReadCount

(* The top of the loop ends it when the context is cancelled, and otherwise *)
(* sends a read that blocks until there is something to deliver.           *)
Loop(w) ==
    /\ At(w, "loop")
    /\ Goto(w, IF main[w].cancelled THEN "off" ELSE "read")
    /\ UNCHANGED <<mysql, stream, group, cache, main, inbox, job, bounds, seen, hit>>

(* Mutated: a read that waits for ReadCount entries. *)
ReadFull(w) ==
    /\ At(w, "read") /\ RedisOpen(w)
    /\ Len(stream) - delivered >= ReadCount
    /\ Deliver(ReadLimit)
    /\ inbox' = [inbox EXCEPT ![w] = [next |-> delivered + 1, last |-> ReadLimit]]
    /\ Goto(w, "entry")
    /\ UNCHANGED <<mysql, stream, groupUp, cache, main, job, bounds, seen, hit>>

(* Once it is sent, cancelling the context does not call the read back.    *)
Read(w) ==
    /\ At(w, "read") /\ RedisOpen(w)
    /\ Deliver(ReadLimit)
    /\ inbox' = [inbox EXCEPT ![w] = [next |-> delivered + 1, last |-> ReadLimit]]
    /\ Goto(w, "entry")
    /\ UNCHANGED <<mysql, stream, groupUp, cache, main, job, bounds, seen, hit>>

ReadReplyLost(w) ==
    /\ At(w, "read") /\ RedisOpen(w)
    /\ Deliver(ReadLimit)
    /\ hit' = hit \cup (delivered + 1 .. ReadLimit)
    /\ Fault
    /\ Goto(w, "loop")
    /\ UNCHANGED <<mysql, stream, groupUp, cache, main, inbox, job, now, changes, seen>>

(* The read fails at once on a closed client or a cancelled context.       *)
ReadFails(w) ==
    /\ At(w, "read") /\ (main[w].cancelled \/ ~RedisOpen(w))
    /\ Goto(w, "loop")
    /\ UNCHANGED <<mysql, stream, group, cache, main, inbox, job, bounds, seen, hit>>

(* Mutated: the malformed entry is skipped without XACK. *)
SkipUnacknowledged(w) ==
    /\ At(w, "entry") /\ stream[Current(w)] = Malformed
    /\ NoFault /\ UNCHANGED <<pending, hit>>
    /\ NextEntry(w)
    /\ UNCHANGED <<mysql, stream, groupUp, delivered, cache, main, now, changes>>

(* An entry without valid ids is acknowledged and dropped; a failure of    *)
(* that XACK goes unnoticed.                                               *)
SkipMalformed(w) ==
    /\ At(w, "entry") /\ stream[Current(w)] = Malformed
    /\ \/ RedisOpen(w) /\ NoFault /\ pending' = pending \ {Current(w)} /\ UNCHANGED hit
       \/ /\ IF RedisOpen(w) THEN Fault ELSE NoFault
          /\ hit' = hit \cup {Current(w)}
          /\ UNCHANGED pending
    /\ NextEntry(w)
    /\ UNCHANGED <<mysql, stream, groupUp, delivered, cache, main, now, changes>>

-----------------------------------------------------------------------------
(* ProcessPostCreated: the number of pages is fixed by one count ...       *)
Count(w) ==
    /\ At(w, "entry") /\ stream[Current(w)] # Malformed /\ DbOpen(w)
    /\ LET rows == followers[Author(w)] IN
        /\ job' = [job EXCEPT ![w] = [NoJob EXCEPT !.pages = PageCount(Cardinality(rows))]]
        /\ seen' = [seen EXCEPT ![w] = [owed |-> rows, stayed |-> rows, reached |-> {}]]
        /\ Goto(w, IF rows = {} THEN "ack" ELSE "page")
    /\ UNCHANGED <<mysql, stream, group, cache, main, inbox, bounds, hit>>

NextPage(w) ==
    LET k == job[w].page + 1 IN
    /\ job' = [job EXCEPT ![w].page = k, ![w].batch = {}, ![w].todo = {}]
    /\ Goto(w, IF k < job[w].pages THEN "page" ELSE "ack")

(* Mutated: the page takes user_id, the author, from the rows instead of    *)
(* follower_id.                                                            *)
FetchPageOfAuthor(w) ==
    /\ At(w, "page") /\ DbOpen(w)
    /\ LET k == job[w].page
           rows == PageOf(followers[Author(w)], k * BatchSize, BatchSize)
           ids == {Author(w)}
       IN  IF rows = {}
           THEN NextPage(w)
           ELSE /\ job' = [job EXCEPT ![w].batch = ids, ![w].todo = ids, ![w].stamp = now]
                /\ Goto(w, "zadd")
    /\ UNCHANGED <<mysql, stream, group, cache, main, inbox, bounds, seen, hit>>

(* ... and each page is read by a query of its own, at a fixed offset.     *)
(* AddPostToTimelines takes the score from the clock once per page.        *)
FetchPage(w) ==
    /\ At(w, "page") /\ DbOpen(w)
    /\ LET k == job[w].page
           rows == PageOf(followers[Author(w)], k * BatchSize, BatchSize)
       IN  IF rows = {}
           THEN NextPage(w)
           ELSE /\ job' = [job EXCEPT ![w].batch = rows, ![w].todo = rows, ![w].stamp = now]
                /\ Goto(w, "zadd")
    /\ UNCHANGED <<mysql, stream, group, cache, main, inbox, bounds, seen, hit>>

(* The pipeline: three commands per follower, executed in order but with   *)
(* the commands of other clients between them.                             *)
ZAddNext(w) ==
    /\ At(w, "zadd") /\ RedisOpen(w)
    /\ LET u == First(job[w].todo) IN
        /\ timelines' = [timelines EXCEPT ![u] = ZAdd(@, Post(w), job[w].stamp)]
        /\ seen' = [seen EXCEPT ![w].reached = @ \cup {u}]
    /\ Goto(w, "trim")
    /\ UNCHANGED <<mysql, stream, group, ttl, main, inbox, job, bounds, hit>>

TrimNext(w) ==
    /\ At(w, "trim") /\ RedisOpen(w)
    /\ LET u == First(job[w].todo) IN timelines' = [timelines EXCEPT ![u] = Trim(@)]
    /\ Goto(w, "expire")
    /\ UNCHANGED <<mysql, stream, group, ttl, main, inbox, job, bounds, seen, hit>>

(* Mutated: the pipeline sets no expiry. *)
ExpireForgotten(w) ==
    /\ At(w, "expire") /\ RedisOpen(w)
    /\ LET u == First(job[w].todo)
           rest == job[w].todo \ {u}
       IN  /\ job' = [job EXCEPT ![w].todo = rest]
           /\ Goto(w, IF rest = {} THEN "reply" ELSE "zadd")
    /\ UNCHANGED <<mysql, stream, group, cache, main, inbox, bounds, seen, hit>>

(* EXPIRE does nothing on a key that does not exist. *)
ExpireNext(w) ==
    /\ At(w, "expire") /\ RedisOpen(w)
    /\ LET u == First(job[w].todo)
           rest == job[w].todo \ {u}
       IN  /\ ttl' = [ttl EXCEPT ![u] = timelines[u] # NoTimeline]
           /\ job' = [job EXCEPT ![w].todo = rest]
           /\ Goto(w, IF rest = {} THEN "reply" ELSE "zadd")
    /\ UNCHANGED <<mysql, stream, group, timelines, main, inbox, bounds, seen, hit>>

(* The replies have come: the job goes on to its next page. *)
PageDone(w) ==
    /\ At(w, "reply") /\ RedisOpen(w)
    /\ NextPage(w)
    /\ UNCHANGED <<mysql, stream, group, cache, main, inbox, bounds, seen, hit>>

(* The connection breaks under the pipeline: the server has executed a      *)
(* prefix of it, and the client sends all of it again (MaxRetries).         *)
PipelineRetried(w) ==
    /\ pc[w] \in Writing /\ RedisOpen(w)
    /\ Fault
    /\ job' = [job EXCEPT ![w].todo = job[w].batch]
    /\ Goto(w, "zadd")
    /\ UNCHANGED <<mysql, stream, group, cache, main, inbox, now, changes, seen, hit>>

(* A query or the pipeline fails: ProcessPostCreated returns the error, the *)
(* consumer logs it and goes on without acknowledging the entry.            *)
GiveUp(w) ==
    /\ \/ At(w, "entry") /\ stream[Current(w)] # Malformed
       \/ pc[w] \in {"page"} \cup Writing
    /\ IF \/ pc[w] \in {"entry", "page"} /\ ~DbOpen(w)
          \/ pc[w] \in Writing /\ ~RedisOpen(w)
       THEN NoFault
       ELSE Fault
    /\ hit' = hit \cup {Current(w)}
    /\ NextEntry(w)
    /\ UNCHANGED <<mysql, stream, group, cache, main, now, changes>>

(* The entry is acknowledged with the context of the loop, which a signal  *)
(* may have cancelled; a failed XACK is only logged.                       *)
Ack(w) ==
    /\ At(w, "ack") /\ RedisOpen(w) /\ ~main[w].cancelled
    /\ pending' = pending \ {Current(w)}
    /\ NextEntry(w)
    /\ UNCHANGED <<mysql, stream, groupUp, delivered, cache, main, bounds, hit>>

AckFails(w) ==
    /\ At(w, "ack")
    /\ IF RedisOpen(w) /\ ~main[w].cancelled THEN Fault ELSE NoFault
    /\ hit' = hit \cup {Current(w)}
    /\ NextEntry(w)
    /\ UNCHANGED <<mysql, stream, group, cache, main, now, changes>>

-----------------------------------------------------------------------------
(* SIGTERM reaches two channels: the consumer's helper goroutine cancels   *)
(* the context, main closes the connections and returns.  Neither waits    *)
(* for the other, or for the loop.                                         *)
Signal(w) ==
    /\ main[w].phase = "up"
    /\ main' = [main EXCEPT ![w].phase = "signalled"]
    /\ Fault
    /\ UNCHANGED <<mysql, stream, group, cache, pc, inbox, job, now, changes, seen, hit>>

CancelContext(w) ==
    /\ main[w].phase \notin {"down", "up"} /\ ~main[w].cancelled
    /\ main' = [main EXCEPT ![w].cancelled = TRUE]
    /\ UNCHANGED <<mysql, stream, group, cache, pc, inbox, job, bounds, seen, hit>>

Close(w, from, to) ==
    /\ main[w].phase = from
    /\ main' = [main EXCEPT ![w].phase = to]
    /\ UNCHANGED <<mysql, stream, group, cache, pc, inbox, job, bounds, seen, hit>>

CloseDB(w) == Close(w, "signalled", "dbClosed")
CloseRedis(w) == Close(w, "dbClosed", "redisClosed")

(* The process is gone, with all that its consumer had not dealt with.     *)
Die(w) ==
    /\ main' = [main EXCEPT ![w] = [phase |-> "down", cancelled |-> FALSE]]
    /\ Goto(w, "off")
    /\ inbox' = [inbox EXCEPT ![w] = NoInbox]
    /\ job' = [job EXCEPT ![w] = NoJob]
    /\ seen' = [seen EXCEPT ![w] = NoView]
    /\ hit' = hit \cup Held(w)
    /\ UNCHANGED <<mysql, stream, group, cache, now, changes>>

Exit(w) == main[w].phase = "redisClosed" /\ Die(w) /\ NoFault

Crash(w) == main[w].phase # "down" /\ Die(w) /\ Fault

-----------------------------------------------------------------------------
(* What the rest of the system does meanwhile.                             *)
Publish ==
    /\ Len(stream) < MaxEntries
    /\ \E e \in Entries : stream' = Append(stream, e)
    /\ UNCHANGED <<mysql, group, cache, worker, bounds, seen, hit>>

(* Of the users who followed the author when a job counted them, `stayed`  *)
(* are those who have followed ever since, and `owed` those of them whose  *)
(* place in the paging order has not moved either.                         *)
Watching(a, u) ==
    [w \in Workers |->
        IF Held(w) # {} /\ Author(w) = a
        THEN [seen[w] EXCEPT !.owed = {v \in @ : v < u}, !.stayed = @ \ {u}]
        ELSE seen[w]]

Follow(a, u) ==
    /\ changes < MaxChanges /\ changes' = changes + 1
    /\ u # a /\ u \notin followers[a]
    /\ followers' = [followers EXCEPT ![a] = @ \cup {u}]
    /\ seen' = Watching(a, u)
    /\ UNCHANGED <<stream, group, cache, worker, now, faults, hit>>

Unfollow(a, u) ==
    /\ changes < MaxChanges /\ changes' = changes + 1
    /\ u \in followers[a]
    /\ followers' = [followers EXCEPT ![a] = @ \ {u}]
    /\ seen' = Watching(a, u)
    /\ UNCHANGED <<stream, group, cache, worker, now, faults, hit>>

TimelineExpires(u) ==
    /\ ttl[u]
    /\ timelines' = [timelines EXCEPT ![u] = NoTimeline]
    /\ ttl' = [ttl EXCEPT ![u] = FALSE]
    /\ UNCHANGED <<mysql, stream, group, worker, bounds, seen, hit>>

(* The admin service removes a deleted post, whether it is there or not;   *)
(* an empty key is no key, and has no expiry.                              *)
Delist(u, p) ==
    /\ timelines' = [timelines EXCEPT ![u] = ZRem(@, p)]
    /\ ttl' = [ttl EXCEPT ![u] = @ /\ timelines'[u] # NoTimeline]
    /\ UNCHANGED <<mysql, stream, group, worker, bounds, seen, hit>>

Tick ==
    /\ now < MaxTime
    /\ now' = now + 1
    /\ UNCHANGED <<mysql, stream, group, cache, worker, changes, faults, seen, hit>>

-----------------------------------------------------------------------------
(* Steps of a running process that need no failure. *)
Consume(w) ==
    \/ Loop(w)
    \/ Read(w)
    \/ ReadFails(w)
    \/ SkipMalformed(w)
    \/ Count(w)
    \/ FetchPage(w)
    \/ ZAddNext(w)
    \/ TrimNext(w)
    \/ ExpireNext(w)
    \/ PageDone(w)
    \/ GiveUp(w)
    \/ Ack(w)
    \/ AckFails(w)

Shutdown(w) ==
    \/ CancelContext(w)
    \/ CloseDB(w)
    \/ CloseRedis(w)
    \/ Exit(w)

WorkerNext(w) ==
    \/ Start(w)
    \/ Consume(w)
    \/ ReadReplyLost(w)
    \/ PipelineRetried(w)
    \/ Signal(w)
    \/ Shutdown(w)
    \/ Crash(w)

Environment ==
    \/ Publish
    \/ \E a \in Authors, u \in Users : Follow(a, u) \/ Unfollow(a, u)
    \/ \E u \in Users : TimelineExpires(u)
    \/ \E u \in Users, p \in Posts : Delist(u, p)
    \/ Tick

Next == (\E w \in Workers : WorkerNext(w)) \/ Environment

(* The Go scheduler lets both threads of a process that is up make         *)
(* progress; nothing restarts a process that is down.                      *)
Fairness == \A w \in Workers : WF_vars(Consume(w)) /\ WF_vars(Shutdown(w))

Spec == Init /\ [][Next]_vars /\ Fairness

-----------------------------------------------------------------------------
TypeOK ==
    /\ followers \in [Authors -> SUBSET Users]
    /\ stream \in Seq(Entries)
    /\ groupUp \in BOOLEAN /\ delivered \in Nat /\ pending \in SUBSET Nat
    /\ timelines \in [Users -> Timelines]
    /\ ttl \in [Users -> BOOLEAN]
    /\ main \in [Workers -> MainStates]
    /\ pc \in [Workers -> PCs]
    /\ inbox \in [Workers -> Inboxes]
    /\ job \in [Workers -> Jobs]
    /\ now \in Nat /\ changes \in Nat /\ faults \in Nat
    /\ seen \in [Workers -> Views]
    /\ hit \in SUBSET Nat

(* Competing consumers never share work: an entry is in the hands of at    *)
(* most one worker, and while it is, the group has delivered it and it is  *)
(* pending.  A restarted worker, whose consumer name is new, must not meet *)
(* an entry again that another one is working on.                          *)
OneHolder ==
    \A w \in Workers :
        /\ Held(w) \subseteq pending
        /\ Held(w) \subseteq 1 .. delivered
        /\ \A v \in Workers : v # w => Held(v) \cap Held(w) = {}

(* An entry nobody holds and that is still pending.  Since no consumer     *)
(* reads or claims pending entries it will never be handled again.         *)
Stranded == pending \ UNION {Held(w) : w \in Workers}

(* Entries are lost only by failures of their own handling: an error, a    *)
(* crash or a shutdown never strands an entry it did not touch, and an     *)
(* entry nothing went wrong with is acknowledged when its worker leaves it.*)
StrandedWereHit == Stranded \subseteq hit

(* An acknowledged entry has been fanned out: every user who followed the  *)
(* author from the count on, and whose place in the paging order stood     *)
(* still, has had the post written to the timeline - across pages, empty   *)
(* pages, retried pipelines and concurrent follows and unfollows.          *)
AckMeansReached ==
    [][\A w \in Workers :
         At(w, "ack") /\ Current(w) \in pending /\ Current(w) \notin pending'
         => seen[w].owed \subseteq seen[w].reached]_vars

(* A timeline never outgrows its limit by more than the workers that are   *)
(* between their ZADD and their trim of it, and those that failed there.   *)
TimelineBounded ==
    \A u \in Users :
        Cardinality(Members(timelines[u]))
            <= MaxTimeline + faults
               + Cardinality({w \in Workers : At(w, "trim") /\ First(job[w].todo) = u})

(* A timeline that exists is going to expire, unless a worker is still     *)
(* busy with it or failed before its EXPIRE.                               *)
ExpiryArmed ==
    \A u \in Users :
        timelines[u] # NoTimeline /\ ~ttl[u] /\ faults = 0
        => \E w \in Workers : pc[w] \in {"trim", "expire"} /\ First(job[w].todo) = u

(* post-service/README.md: the worker "distributes the wisper to all       *)
(* followers' timelines".  What is acknowledged has reached everybody who  *)
(* followed the author from the count to the acknowledgement.              *)
AckReachesAllFollowers ==
    [][\A w \in Workers :
         At(w, "ack") /\ Current(w) \in pending /\ Current(w) \notin pending'
         => seen[w].stayed \subseteq seen[w].reached]_vars

StaysUp(w) == <>[](main[w].phase = "up")

Settled(i) == i <= delivered /\ (i \notin pending \/ i \in Stranded)

(* While one worker stays up, every entry is dealt with or stranded: no    *)
(* entry waits for ever in the stream or in a worker's hands.              *)
EntriesSettle ==
    (\E w \in Workers : StaysUp(w)) =>
        \A i \in 1 .. MaxEntries : i <= Len(stream) ~> Settled(i)
==============================================================================
