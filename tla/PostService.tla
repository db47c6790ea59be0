----------------------------- MODULE PostService -----------------------------
(***************************************************************************)
(* post-service: POST /posts.  A handler validates the body, reads the     *)
(* author's status, inserts the row and appends an event to                *)
(* post_created_stream: three calls to two stores, without a transaction.  *)
(* The status is changed meanwhile by the admin service.                   *)
(***************************************************************************)
EXTENDS Naturals, Sequences, FiniteSets

CONSTANTS
    Authors,     \* user ids
    Posts,       \* post ids the table can still assign
    Requests,    \* calls of the handler
    MaxEntries   \* bound: entries added to the stream

VARIABLES
    status,      \* status column of the users table
    posts,       \* rows of the posts table
    stream,      \* entries of post_created_stream
    call,        \* the handler calls
    couldPost    \* history: calls whose author could post at some time since they began

vars == <<status, posts, stream, call, couldPost>>

Statuses == {"active", "deactivated", "restricted"}
Blocked == {"deactivated", "restricted"}

NoRow == [author |-> 0, deleted |-> FALSE]
Rows == [author : Authors, deleted : BOOLEAN] \cup {NoRow}
Saved(p) == posts[p] # NoRow

Event(p, a) == [post |-> p, author |-> a]
Events == [post : Posts, author : Authors]
InStream(e) == \E i \in 1 .. Len(stream) : stream[i] = e

Idle == [pc |-> "idle", author |-> 0, post |-> 0, reply |-> 0]
Calls ==
    [pc : {"idle", "check", "save", "publish", "done", "gone"},
     author : Authors \cup {0}, post : Posts \cup {0}, reply : {0, 200, 400, 403, 500}]

Init ==
    /\ status \in [Authors -> Statuses]
    /\ posts = [p \in Posts |-> NoRow]
    /\ stream = <<>>
    /\ call = [r \in Requests |-> Idle]
    /\ couldPost = {}

At(r, label) == call[r].pc = label
Goto(r, label) == call' = [call EXCEPT ![r].pc = label]
Reply(r, code) == call' = [call EXCEPT ![r].pc = "done", ![r].reply = code]

-----------------------------------------------------------------------------
(* The handler: a blank or over-long content is refused before any query.  *)
Submit(r, a, acceptable) ==
    /\ At(r, "idle")
    /\ call' = [call EXCEPT ![r] =
                  [Idle EXCEPT !.author = a,
                               !.pc = IF acceptable THEN "check" ELSE "done",
                               !.reply = IF acceptable THEN 0 ELSE 400]]
    /\ couldPost' = IF status[a] \in Blocked THEN couldPost ELSE couldPost \cup {r}
    /\ UNCHANGED <<status, posts, stream>>

(* Mutated: only deactivated users are refused. *)
CheckDeactivated(r) ==
    /\ At(r, "check")
    /\ IF status[call[r].author] = "deactivated" THEN Reply(r, 403) ELSE Goto(r, "save")
    /\ UNCHANGED <<status, posts, stream, couldPost>>

(* Create: SELECT id, status ... *)
CheckStatus(r) ==
    /\ At(r, "check")
    /\ IF status[call[r].author] \in Blocked THEN Reply(r, 403) ELSE Goto(r, "save")
    /\ UNCHANGED <<status, posts, stream, couldPost>>

(* ... INSERT, which assigns an id no row has had ... *)
Insert(r, p) ==
    /\ ~Saved(p)
    /\ posts' = [posts EXCEPT ![p] = [author |-> call[r].author, deleted |-> FALSE]]

(* Mutated: the call goes on although the row was not inserted. *)
SaveForgotten(r) ==
    /\ At(r, "save")
    /\ \E p \in Posts : call' = [call EXCEPT ![r].pc = "publish", ![r].post = p]
    /\ UNCHANGED <<status, posts, stream, couldPost>>

Save(r) ==
    /\ At(r, "save")
    /\ \E p \in Posts :
        /\ Insert(r, p)
        /\ call' = [call EXCEPT ![r].pc = "publish", ![r].post = p]
    /\ UNCHANGED <<status, stream, couldPost>>

(* Mutated: the two ids of the event are swapped. *)
AppendSwapped(r) ==
    /\ Len(stream) < MaxEntries
    /\ stream' = Append(stream, Event(call[r].author, call[r].post))

(* ... and XADD.  The client sends a command again when its reply is lost  *)
(* (MaxRetries), so one call may append its event more than once.          *)
Append1(r) ==
    /\ Len(stream) < MaxEntries
    /\ stream' = Append(stream, Event(call[r].post, call[r].author))

Publish(r) ==
    /\ At(r, "publish")
    /\ Append1(r)
    /\ Reply(r, 200)
    /\ UNCHANGED <<status, posts, couldPost>>

PublishReplyLost(r) ==
    /\ At(r, "publish")
    /\ Append1(r)
    /\ UNCHANGED <<status, posts, call, couldPost>>

(* A failed query or command ends the call with 500, and nothing that was  *)
(* done before is undone; a failed INSERT may have been committed.         *)
CheckFails(r) ==
    /\ At(r, "check")
    /\ Reply(r, 500)
    /\ UNCHANGED <<status, posts, stream, couldPost>>

SaveFails(r) ==
    /\ At(r, "save")
    /\ \/ UNCHANGED posts
       \/ \E p \in Posts : Insert(r, p)
    /\ Reply(r, 500)
    /\ UNCHANGED <<status, stream, couldPost>>

(* Mutated: the error of XADD is only logged. *)
PublishFailsQuietly(r) ==
    /\ At(r, "publish")
    /\ Reply(r, 200)
    /\ UNCHANGED <<status, posts, stream, couldPost>>

PublishFails(r) ==
    /\ At(r, "publish")
    /\ Reply(r, 500)
    /\ UNCHANGED <<status, posts, stream, couldPost>>

(* The process dies under the call. *)
CallLost(r) ==
    /\ call[r].pc \in {"check", "save", "publish"}
    /\ Goto(r, "gone")
    /\ UNCHANGED <<status, posts, stream, couldPost>>

NoteStatus ==
    couldPost' = couldPost \cup {r \in Requests : /\ call[r].pc \in {"check", "save"}
                                                 /\ status'[call[r].author] \notin Blocked}

(* PATCH /admin/users: the admin service overwrites the status. *)
SetStatus(a, s) ==
    /\ status[a] # s
    /\ status' = [status EXCEPT ![a] = s]
    /\ NoteStatus
    /\ UNCHANGED <<posts, stream, call>>

(* DELETE /admin/posts: the admin service soft-deletes a row. *)
SoftDelete(p) ==
    /\ Saved(p)
    /\ posts' = [posts EXCEPT ![p].deleted = TRUE]
    /\ UNCHANGED <<status, stream, call, couldPost>>

Step(r) ==
    \/ CheckStatus(r)
    \/ Save(r)
    \/ Publish(r)
    \/ PublishReplyLost(r)
    \/ CheckFails(r)
    \/ SaveFails(r)
    \/ PublishFails(r)
    \/ CallLost(r)

CallNext(r) ==
    \/ \E a \in Authors, acceptable \in BOOLEAN : Submit(r, a, acceptable)
    \/ Step(r)

Next ==
    \/ \E r \in Requests : CallNext(r)
    \/ \E a \in Authors, s \in Statuses : SetStatus(a, s)
    \/ \E p \in Posts : SoftDelete(p)

Spec == Init /\ [][Next]_vars

-----------------------------------------------------------------------------
TypeOK ==
    /\ status \in [Authors -> Statuses]
    /\ posts \in [Posts -> Rows]
    /\ stream \in Seq(Events)
    /\ call \in [Requests -> Calls]
    /\ couldPost \subseteq Requests

(* The worker that reads an event finds its row: no event of a post, or of *)
(* an author, that the table does not hold, however calls are interleaved. *)
EventsHaveRows ==
    \A i \in 1 .. Len(stream) :
        posts[stream[i].post] # NoRow /\ posts[stream[i].post].author = stream[i].author

(* A post that never got its event is known to somebody: its call is still *)
(* on the way to XADD, or has not been answered with success.              *)
(* Equivalently, 200 means stored and published.                           *)
SuccessMeansPublished ==
    \A r \in Requests :
        call[r].reply = 200 =>
            /\ call[r].post # 0
            /\ Saved(call[r].post)
            /\ InStream(Event(call[r].post, call[r].author))

(* A call during the whole of which its author was blocked saves nothing,  *)
(* so blocking a user stops every post that is begun afterwards.           *)
BlockedThroughoutSavesNothing ==
    [][\A p \in Posts :
         posts[p] = NoRow /\ posts'[p] # NoRow =>
             \E r \in couldPost : At(r, "save") /\ ~At(r, "save")'
                                  /\ call[r].author = posts'[p].author]_vars
==============================================================================
