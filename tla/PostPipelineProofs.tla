------------------------- MODULE PostPipelineProofs --------------------------
(***************************************************************************)
(* Proofs about the path of a post through the services, for any users,    *)
(* authors, posts, workers and calls: the composition still implements     *)
(* PostService and FanoutWorker, so that events have rows, success means   *)
(* published, and a blocked author saves nothing; reads are current;       *)
(* timelines hold published posts only; and a deletion that meets no       *)
(* fan-out, no Redis error and no change of followers is complete.         *)
(***************************************************************************)
EXTENDS PostPipeline, FiniteSetTheorems, TLAPS

-----------------------------------------------------------------------------
(* What a call of post-service holds.                                      *)
CallInv(r) ==
    /\ call[r].pc \in {"check", "save", "publish"} => call[r].author \in Authors
    /\ call[r].pc # "done" => call[r].reply = 0
    /\ call[r].pc = "publish" => /\ call[r].post \in Posts /\ Post!Saved(call[r].post)
                                 /\ posts[call[r].post].author = call[r].author
    /\ call[r].pc = "check" /\ status[call[r].author] \notin Post!Blocked => r \in couldPost
    /\ call[r].pc = "save" => r \in couldPost
    /\ call[r].reply = 200 => /\ call[r].post \in Posts /\ Post!Saved(call[r].post)
                              /\ Post!InStream(Post!Event(call[r].post, call[r].author))

PostInv == Post!TypeOK /\ Post!EventsHaveRows /\ \A r \in Requests : CallInv(r)

(* A row is never lost and never given to another author, and the stream   *)
(* only grows.                                                             *)
Kept ==
    /\ \A p \in Posts : Post!Saved(p) => posts'[p] # Post!NoRow /\ posts'[p].author = posts[p].author
    /\ \A e : Post!InStream(e) => Post!InStream(e)'

LEMMA RowFields ==
    ASSUME Post!TypeOK, NEW p \in Posts
    PROVE  Post!Saved(p) <=> posts[p].author \in Authors
BY PipelineAssumption DEF Post!TypeOK, Post!Saved, Post!Rows, Post!NoRow

LEMMA AppendGrows ==
    ASSUME Post!TypeOK, NEW e \in Post!Events, stream' = Append(stream, e)
    PROVE  /\ stream' \in Seq(Post!Events) /\ Len(stream') = Len(stream) + 1
           /\ stream'[Len(stream) + 1] = e
           /\ \A i \in 1 .. Len(stream) : stream'[i] = stream[i]
BY DEF Post!TypeOK

-----------------------------------------------------------------------------
(* A call that moves and one that is answered.                             *)
LEMMA MoveStep ==
    ASSUME Post!TypeOK, NEW r \in Requests,
           NEW label \in {"idle", "check", "save", "publish", "done", "gone"}, Post!Goto(r, label)
    PROVE  /\ call' \in [Requests -> Post!Calls]
           /\ call'[r].pc = label /\ call'[r].author = call[r].author
           /\ call'[r].post = call[r].post /\ call'[r].reply = call[r].reply
           /\ \A q \in Requests : q # r => call'[q] = call[q]
<1> DEFINE k == [call[r] EXCEPT !.pc = label]
<1>1. call \in [Requests -> Post!Calls] /\ call[r] \in Post!Calls
    BY DEF Post!TypeOK
<1>2. call' = [call EXCEPT ![r] = k]
    BY <1>1 DEF Post!Goto
<1>3. /\ k \in Post!Calls /\ k.pc = label /\ k.author = call[r].author
      /\ k.post = call[r].post /\ k.reply = call[r].reply
    BY <1>1 DEF Post!Calls
<1> HIDE DEF k
<1> QED
    BY <1>1, <1>2, <1>3

Codes == {0, 200, 400, 403, 500}

LEMMA ReplyStep ==
    ASSUME Post!TypeOK, NEW r \in Requests, NEW code \in Codes, Post!Reply(r, code)
    PROVE  /\ call' \in [Requests -> Post!Calls]
           /\ call'[r].pc = "done" /\ call'[r].reply = code
           /\ call'[r].author = call[r].author /\ call'[r].post = call[r].post
           /\ \A q \in Requests : q # r => call'[q] = call[q]
<1> DEFINE mid == [call[r] EXCEPT !.pc = "done"]
           k == [mid EXCEPT !.reply = code]
<1>1. call \in [Requests -> Post!Calls] /\ call[r] \in Post!Calls
    BY DEF Post!TypeOK
<1>2. call' = [call EXCEPT ![r] = k]
    BY <1>1 DEF Post!Reply
<1>3. /\ mid \in Post!Calls /\ mid.pc = "done" /\ mid.author = call[r].author
      /\ mid.post = call[r].post
    BY <1>1 DEF Post!Calls
<1> HIDE DEF mid
<1>4. /\ k \in Post!Calls /\ k.pc = "done" /\ k.reply = code /\ k.author = mid.author
      /\ k.post = mid.post
    BY <1>3 DEF Post!Calls, Codes
<1> HIDE DEF k
<1> QED
    BY <1>1, <1>2, <1>3, <1>4

-----------------------------------------------------------------------------
(* A call that does not move while rows stay and its author's status is    *)
(* watched.                                                                *)
Watched(q) ==
    /\ q \in couldPost => q \in couldPost'
    /\ call[q].pc = "check" /\ status'[call[q].author] \notin Post!Blocked => q \in couldPost'

LEMMA CallKept ==
    ASSUME NEW q \in Requests, CallInv(q), Kept, call'[q] = call[q], Watched(q)
    PROVE  CallInv(q)'
BY DEF CallInv, Kept, Watched, Post!Saved

(* What every step of a call has to show: types, rows, events, and its own *)
(* call.                                                                   *)
LEMMA OneCallMoves ==
    ASSUME PostInv, Post!TypeOK', Kept, Post!EventsHaveRows', NEW r \in Requests, CallInv(r)',
           \A q \in Requests : q # r => call'[q] = call[q] /\ Watched(q)
    PROVE  PostInv'
<1> SUFFICES ASSUME NEW q \in Requests, q # r PROVE CallInv(q)'
    BY DEF PostInv
<1> QED
    BY CallKept DEF PostInv

LEMMA EventsKept ==
    ASSUME PostInv, Kept, UNCHANGED stream
    PROVE  Post!EventsHaveRows'
<1> SUFFICES ASSUME NEW i \in 1 .. Len(stream)
             PROVE  /\ posts'[stream[i].post] # Post!NoRow
                    /\ posts'[stream[i].post].author = stream[i].author
    BY DEF Post!EventsHaveRows
<1>0. stream[i] \in Post!Events
    BY DEF PostInv, Post!TypeOK
<1>1. stream[i].post \in Posts
    BY <1>0 DEF Post!Events
<1>2. posts[stream[i].post] # Post!NoRow /\ posts[stream[i].post].author = stream[i].author
    BY DEF PostInv, Post!EventsHaveRows
<1> QED
    BY <1>1, <1>2 DEF Kept, Post!Saved

(* A step that touches neither rows nor stream nor statuses.               *)
LEMMA QuietStep ==
    ASSUME PostInv, NEW r \in Requests, UNCHANGED <<status, posts, stream>>,
           call' \in [Requests -> Post!Calls], CallInv(r)',
           couldPost' \in {couldPost, couldPost \cup {r}},
           \A q \in Requests : q # r => call'[q] = call[q]
    PROVE  PostInv'
<1>1. Kept
    BY DEF Kept, Post!Saved, Post!InStream
<1>2. Post!TypeOK'
    BY DEF PostInv, Post!TypeOK
<1>3. \A q \in Requests : q # r => call'[q] = call[q] /\ Watched(q)
    BY DEF Watched, PostInv, CallInv
<1> QED
    BY <1>1, <1>2, <1>3, EventsKept, OneCallMoves

(* An answer other than success.                                           *)
LEMMA RefusalKeeps ==
    ASSUME PostInv, NEW r \in Requests, NEW code \in Codes, code # 200, Post!Reply(r, code),
           UNCHANGED <<status, posts, stream, couldPost>>
    PROVE  PostInv'
<1>1. /\ call' \in [Requests -> Post!Calls] /\ call'[r].pc = "done" /\ call'[r].reply = code
      /\ \A q \in Requests : q # r => call'[q] = call[q]
    BY ReplyStep DEF PostInv
<1>2. CallInv(r)'
    BY <1>1 DEF CallInv
<1> QED
    BY <1>1, <1>2, QuietStep

LEMMA SubmitKeeps ==
    ASSUME PostInv, NEW r \in Requests, NEW a \in Authors, NEW ok \in BOOLEAN, Post!Submit(r, a, ok)
    PROVE  PostInv'
<1> DEFINE pc1 == IF ok THEN "check" ELSE "done"
           code == IF ok THEN 0 ELSE 400
           k1 == [Post!Idle EXCEPT !.author = a]
           k2 == [k1 EXCEPT !.pc = pc1]
           k == [k2 EXCEPT !.reply = code]
<1>1. call \in [Requests -> Post!Calls]
    BY DEF PostInv, Post!TypeOK
<1>2. call' = [call EXCEPT ![r] = k]
    BY DEF Post!Submit
<1>7. Post!Idle \in Post!Calls
    BY DEF Post!Idle, Post!Calls
<1>8. k1 \in Post!Calls /\ k1.author = a
    BY <1>7 DEF Post!Calls
<1> HIDE DEF k1
<1>9. k2 \in Post!Calls /\ k2.author = a /\ k2.pc = pc1
    BY <1>8 DEF Post!Calls
<1> HIDE DEF k2
<1>3. k \in Post!Calls /\ k.author = a /\ k.pc = pc1 /\ k.reply = code
    BY <1>9 DEF Post!Calls
<1> HIDE DEF k
<1>4. /\ call'[r] = k /\ call' \in [Requests -> Post!Calls]
      /\ \A q \in Requests : q # r => call'[q] = call[q]
    BY <1>1, <1>2, <1>3
<1>5. CallInv(r)'
  <2>1. status[a] \notin Post!Blocked => r \in couldPost'
      BY DEF Post!Submit
  <2>2. UNCHANGED status
      BY DEF Post!Submit
  <2> QED
      BY <1>3, <1>4, <2>1, <2>2 DEF CallInv
<1>6. couldPost' \in {couldPost, couldPost \cup {r}} /\ UNCHANGED <<status, posts, stream>>
    BY DEF Post!Submit
<1> QED
    BY <1>4, <1>5, <1>6, QuietStep

LEMMA CheckStatusKeeps == ASSUME PostInv, NEW r \in Requests, Post!CheckStatus(r) PROVE PostInv'
<1>1. UNCHANGED <<status, posts, stream, couldPost>> /\ call[r].pc = "check" /\ CallInv(r)
    BY DEF Post!CheckStatus, Post!At, PostInv
<1>2. CASE status[call[r].author] \in Post!Blocked
    BY <1>1, <1>2, RefusalKeeps DEF Post!CheckStatus, Codes
<1>3. CASE status[call[r].author] \notin Post!Blocked
  <2>1. /\ call' \in [Requests -> Post!Calls] /\ call'[r].pc = "save"
        /\ call'[r].author = call[r].author /\ call'[r].reply = call[r].reply
        /\ \A q \in Requests : q # r => call'[q] = call[q]
      BY <1>3, MoveStep DEF Post!CheckStatus, PostInv
  <2>2. CallInv(r)'
      BY <1>1, <1>3, <2>1 DEF CallInv
  <2> QED
      BY <1>1, <2>1, <2>2, QuietStep
<1> QED
    BY <1>2, <1>3

LEMMA FailureKeeps ==
    ASSUME PostInv, NEW r \in Requests, Post!CheckFails(r) \/ Post!PublishFails(r)
    PROVE  PostInv'
BY RefusalKeeps DEF Post!CheckFails, Post!PublishFails, Codes

LEMMA CallLostKeeps == ASSUME PostInv, NEW r \in Requests, Post!CallLost(r) PROVE PostInv'
<1>1. /\ call' \in [Requests -> Post!Calls] /\ call'[r].pc = "gone"
      /\ call'[r].reply = call[r].reply
      /\ \A q \in Requests : q # r => call'[q] = call[q]
    BY MoveStep DEF Post!CallLost, PostInv
<1>2. UNCHANGED <<status, posts, stream, couldPost>> /\ call[r].pc # "done" /\ CallInv(r)
    BY DEF Post!CallLost, PostInv
<1>3. CallInv(r)'
    BY <1>1, <1>2 DEF CallInv
<1> QED
    BY <1>1, <1>2, <1>3, QuietStep

-----------------------------------------------------------------------------
(* INSERT and DELETE change one row.                                       *)
LEMMA InsertStep ==
    ASSUME PostInv, NEW r \in Requests, call[r].author \in Authors, NEW p \in Posts, Post!Insert(r, p),
           UNCHANGED stream
    PROVE  /\ posts' \in [Posts -> Post!Rows] /\ Kept /\ Post!EventsHaveRows'
           /\ posts'[p] # Post!NoRow /\ posts'[p].author = call[r].author
           /\ ~Post!Saved(p) /\ \A o \in Posts : o # p => posts'[o] = posts[o]
<1> DEFINE row == [author |-> call[r].author, deleted |-> FALSE]
<1>1. posts \in [Posts -> Post!Rows]
    BY DEF PostInv, Post!TypeOK
<1>2. posts' = [posts EXCEPT ![p] = row] /\ ~Post!Saved(p)
    BY DEF Post!Insert
<1>3. row \in Post!Rows /\ row # Post!NoRow /\ row.author = call[r].author
    BY PipelineAssumption DEF Post!Rows, Post!NoRow
<1> HIDE DEF row
<1>4. /\ posts' \in [Posts -> Post!Rows] /\ posts'[p] = row
      /\ \A o \in Posts : o # p => posts'[o] = posts[o]
    BY <1>1, <1>2, <1>3
<1>5. Kept
    BY <1>2, <1>4 DEF Kept, Post!Saved, Post!InStream
<1> QED
    BY <1>2, <1>3, <1>4, <1>5, EventsKept

LEMMA SaveKeeps == ASSUME PostInv, NEW r \in Requests, Post!Save(r) PROVE PostInv'
<1> PICK p \in Posts :
        Post!Insert(r, p) /\ call' = [call EXCEPT ![r].pc = "publish", ![r].post = p]
    BY DEF Post!Save
<1> DEFINE k1 == [call[r] EXCEPT !.pc = "publish"]
           k == [k1 EXCEPT !.post = p]
<1>1. /\ call \in [Requests -> Post!Calls] /\ call[r] \in Post!Calls /\ CallInv(r)
      /\ call[r].pc = "save" /\ UNCHANGED <<status, stream, couldPost>>
    BY DEF PostInv, Post!TypeOK, Post!Save, Post!At
<1>2. call' = [call EXCEPT ![r] = k]
    BY <1>1
<1>3. /\ k1 \in Post!Calls /\ k1.pc = "publish" /\ k1.author = call[r].author
      /\ k1.reply = call[r].reply
    BY <1>1 DEF Post!Calls
<1> HIDE DEF k1
<1>4. /\ k \in Post!Calls /\ k.pc = "publish" /\ k.author = call[r].author
      /\ k.reply = call[r].reply /\ k.post = p
    BY <1>3 DEF Post!Calls
<1> HIDE DEF k
<1>5. /\ call'[r] = k /\ call' \in [Requests -> Post!Calls]
      /\ \A q \in Requests : q # r => call'[q] = call[q]
    BY <1>1, <1>2, <1>4
<1>6. call[r].author \in Authors /\ call[r].reply = 0
    BY <1>1 DEF CallInv
<1>7. /\ posts' \in [Posts -> Post!Rows] /\ Kept /\ Post!EventsHaveRows'
      /\ posts'[p] # Post!NoRow /\ posts'[p].author = call[r].author
    BY <1>1, <1>6, InsertStep
<1>8. CallInv(r)'
    BY <1>4, <1>5, <1>6, <1>7 DEF CallInv, Post!Saved
<1>9. Post!TypeOK'
    BY <1>1, <1>5, <1>7 DEF PostInv, Post!TypeOK
<1>10. \A q \in Requests : q # r => call'[q] = call[q] /\ Watched(q)
    BY <1>1, <1>5 DEF Watched, PostInv, CallInv
<1> QED
    BY <1>7, <1>8, <1>9, <1>10, OneCallMoves

LEMMA SaveFailsKeeps == ASSUME PostInv, NEW r \in Requests, Post!SaveFails(r) PROVE PostInv'
<1>1. /\ CallInv(r) /\ call[r].pc = "save" /\ Post!Reply(r, 500)
      /\ UNCHANGED <<status, stream, couldPost>>
    BY DEF PostInv, Post!SaveFails, Post!At
<1>2. CASE UNCHANGED posts
    BY <1>1, <1>2, RefusalKeeps DEF Codes
<1>3. ASSUME NEW p \in Posts, Post!Insert(r, p) PROVE PostInv'
  <2>1. posts' \in [Posts -> Post!Rows] /\ Kept /\ Post!EventsHaveRows'
      BY <1>1, <1>3, InsertStep DEF CallInv
  <2>2. /\ call' \in [Requests -> Post!Calls] /\ call'[r].pc = "done" /\ call'[r].reply = 500
        /\ \A q \in Requests : q # r => call'[q] = call[q]
      BY <1>1, ReplyStep DEF PostInv, Codes
  <2>3. CallInv(r)'
      BY <2>2 DEF CallInv
  <2>4. Post!TypeOK'
      BY <1>1, <2>1, <2>2 DEF PostInv, Post!TypeOK
  <2>5. \A q \in Requests : q # r => call'[q] = call[q] /\ Watched(q)
      BY <1>1, <2>2 DEF Watched, PostInv, CallInv
  <2> QED
      BY <2>1, <2>3, <2>4, <2>5, OneCallMoves
<1> QED
    BY <1>2, <1>3 DEF Post!SaveFails

(* XADD: the event of a call that has its row.                             *)
LEMMA AppendStep ==
    ASSUME PostInv, NEW r \in Requests, call[r].pc = "publish", Post!Append1(r), UNCHANGED posts
    PROVE  /\ stream' \in Seq(Post!Events) /\ Kept /\ Post!EventsHaveRows'
           /\ \E i \in 1 .. Len(stream') : stream'[i] = Post!Event(call[r].post, call[r].author)
<1> DEFINE e == Post!Event(call[r].post, call[r].author)
<1>1. /\ call[r].author \in Authors /\ call[r].post \in Posts
      /\ posts[call[r].post] # Post!NoRow /\ posts[call[r].post].author = call[r].author
    BY DEF PostInv, CallInv, Post!Saved
<1>2. e \in Post!Events /\ e.post = call[r].post /\ e.author = call[r].author
    BY <1>1 DEF Post!Event, Post!Events
<1>3. stream' = Append(stream, e)
    BY DEF Post!Append1
<1>4. Post!TypeOK /\ Len(stream) \in Nat
    BY DEF PostInv, Post!TypeOK
<1> HIDE DEF e
<1>5. /\ stream' \in Seq(Post!Events) /\ Len(stream') = Len(stream) + 1
      /\ stream'[Len(stream) + 1] = e
      /\ \A i \in 1 .. Len(stream) : stream'[i] = stream[i]
    BY <1>2, <1>3, <1>4, AppendGrows
<1>6. \E i \in 1 .. Len(stream') : stream'[i] = e
    BY <1>4, <1>5
<1>9. ASSUME NEW d, Post!InStream(d) PROVE Post!InStream(d)'
    BY <1>4, <1>5, <1>9 DEF Post!InStream
<1>7. Kept
    BY <1>9 DEF Kept, Post!Saved
<1>8. Post!EventsHaveRows'
  <2> SUFFICES ASSUME NEW i \in 1 .. Len(stream')
               PROVE  /\ posts[stream'[i].post] # Post!NoRow
                      /\ posts[stream'[i].post].author = stream'[i].author
      BY DEF Post!EventsHaveRows
  <2>1. CASE i = Len(stream) + 1
      BY <1>1, <1>2, <1>5, <2>1
  <2>2. CASE i \in 1 .. Len(stream)
      BY <1>5, <2>2 DEF PostInv, Post!EventsHaveRows
  <2> QED
      BY <1>4, <1>5, <2>1, <2>2
<1> QED
    BY <1>5, <1>6, <1>7, <1>8 DEF e

LEMMA PublishKeeps ==
    ASSUME PostInv, NEW r \in Requests, Post!Publish(r) \/ Post!PublishReplyLost(r)
    PROVE  PostInv'
<1>1. /\ CallInv(r) /\ call[r].pc = "publish" /\ Post!Append1(r) /\ Post!TypeOK
      /\ UNCHANGED <<status, posts, couldPost>>
    BY DEF PostInv, Post!Publish, Post!PublishReplyLost, Post!At
<1>2. /\ stream' \in Seq(Post!Events) /\ Kept /\ Post!EventsHaveRows'
      /\ \E i \in 1 .. Len(stream') : stream'[i] = Post!Event(call[r].post, call[r].author)
    BY <1>1, AppendStep
<1>3. CASE Post!Reply(r, 200)
  <2>1. /\ call' \in [Requests -> Post!Calls] /\ call'[r].pc = "done" /\ call'[r].reply = 200
        /\ call'[r].author = call[r].author /\ call'[r].post = call[r].post
        /\ \A q \in Requests : q # r => call'[q] = call[q]
      BY <1>1, <1>3, ReplyStep DEF Codes
  <2>2. call[r].post \in Posts /\ posts'[call[r].post] # Post!NoRow
      BY <1>1 DEF CallInv, Post!Saved
  <2>3. \E i \in 1 .. Len(stream') : stream'[i] = Post!Event(call'[r].post, call'[r].author)
      BY <1>2, <2>1
  <2>4. CallInv(r)'
      BY <2>1, <2>2, <2>3 DEF CallInv, Post!Saved, Post!Event, Post!InStream
  <2>5. Post!TypeOK'
      BY <1>1, <1>2, <2>1 DEF Post!TypeOK
  <2>6. \A q \in Requests : q # r => call'[q] = call[q] /\ Watched(q)
      BY <1>1, <2>1 DEF Watched, PostInv, CallInv
  <2> QED
      BY <1>2, <2>4, <2>5, <2>6, OneCallMoves
<1>4. CASE UNCHANGED call
  <2>1. Post!TypeOK'
      BY <1>1, <1>2, <1>4 DEF Post!TypeOK
  <2>2. \A q \in Requests : call'[q] = call[q] /\ Watched(q)
      BY <1>1, <1>4 DEF Watched, PostInv, CallInv
  <2>3. CallInv(r)'
      BY <1>1, <1>2, <2>2, CallKept
  <2> QED
      BY <1>2, <2>1, <2>2, <2>3, OneCallMoves
<1> QED
    BY <1>3, <1>4 DEF Post!Publish, Post!PublishReplyLost

(* What the admin service does to the tables.                              *)
LEMMA EnvironmentKeeps ==
    ASSUME PostInv, UNCHANGED <<stream, call>>, Kept, Post!TypeOK', \A q \in Requests : Watched(q)
    PROVE  PostInv'
<1>1. Post!EventsHaveRows'
    BY EventsKept
<1>2. ASSUME NEW q \in Requests PROVE CallInv(q)'
    BY CallKept DEF PostInv
<1> QED
    BY <1>1, <1>2 DEF PostInv

LEMMA SetStatusKeeps ==
    ASSUME PostInv, NEW a \in Authors, NEW s \in Post!Statuses, Post!SetStatus(a, s)
    PROVE  PostInv'
<1>1. /\ UNCHANGED <<posts, stream, call>> /\ Post!NoteStatus /\ status' = [status EXCEPT ![a] = s]
      /\ Post!TypeOK
    BY DEF Post!SetStatus, PostInv
<1>2. Kept
    BY <1>1 DEF Kept, Post!Saved, Post!InStream
<1>3. status' \in [Authors -> Post!Statuses] /\ couldPost' \subseteq Requests
    BY <1>1 DEF Post!TypeOK, Post!NoteStatus
<1>4. Post!TypeOK'
    BY <1>1, <1>3 DEF Post!TypeOK
<1>5. \A q \in Requests : Watched(q)
    BY <1>1 DEF Watched, Post!NoteStatus
<1> QED
    BY <1>1, <1>2, <1>4, <1>5, EnvironmentKeeps

LEMMA SoftDeleteKeeps == ASSUME PostInv, NEW p \in Posts, Post!SoftDelete(p) PROVE PostInv'
<1> DEFINE row == [posts[p] EXCEPT !.deleted = TRUE]
<1>1. /\ UNCHANGED <<status, stream, call, couldPost>> /\ posts[p] # Post!NoRow /\ Post!TypeOK
      /\ posts \in [Posts -> Post!Rows]
    BY DEF Post!SoftDelete, Post!Saved, PostInv, Post!TypeOK
<1>2. posts' = [posts EXCEPT ![p] = row]
    BY <1>1 DEF Post!SoftDelete
<1>3. posts[p] \in [author : Authors, deleted : BOOLEAN]
    BY <1>1 DEF Post!Rows
<1>4. row \in Post!Rows /\ row.author = posts[p].author /\ row.author \in Authors
    BY <1>3 DEF Post!Rows
<1>5. row # Post!NoRow
    BY <1>4, PipelineAssumption DEF Post!NoRow
<1> HIDE DEF row
<1>6. /\ posts' \in [Posts -> Post!Rows] /\ posts'[p] = row
      /\ \A o \in Posts : o # p => posts'[o] = posts[o]
    BY <1>1, <1>2, <1>4
<1>7. Kept
    BY <1>1, <1>4, <1>5, <1>6 DEF Kept, Post!Saved, Post!InStream
<1>8. Post!TypeOK'
    BY <1>1, <1>6 DEF Post!TypeOK
<1>9. \A q \in Requests : Watched(q)
    BY <1>1 DEF Watched, PostInv, CallInv
<1> QED
    BY <1>1, <1>7, <1>8, <1>9, EnvironmentKeeps

LEMMA PostStepKeeps == ASSUME PostInv, [Post!Next]_(Post!vars) PROVE PostInv'
<1>1. ASSUME NEW r \in Requests, Post!CallNext(r) PROVE PostInv'
    BY <1>1, SubmitKeeps, CheckStatusKeeps, SaveKeeps, PublishKeeps, FailureKeeps, SaveFailsKeeps,
       CallLostKeeps DEF Post!CallNext, Post!Step
<1>2. ASSUME NEW a \in Authors, NEW s \in Post!Statuses, Post!SetStatus(a, s) PROVE PostInv'
    BY <1>2, SetStatusKeeps
<1>3. ASSUME NEW p \in Posts, Post!SoftDelete(p) PROVE PostInv'
    BY <1>3, SoftDeleteKeeps
<1>4. CASE UNCHANGED Post!vars
  <2>1. UNCHANGED <<status, posts, stream, call, couldPost>>
      BY <1>4 DEF Post!vars
  <2>2. Kept /\ Post!TypeOK'
      BY <2>1 DEF Kept, Post!Saved, Post!InStream, PostInv, Post!TypeOK
  <2>3. \A q \in Requests : Watched(q)
      BY <2>1 DEF Watched, PostInv, CallInv
  <2> QED
      BY <2>1, <2>2, <2>3, EnvironmentKeeps
<1> QED
    BY <1>1, <1>2, <1>3, <1>4 DEF Post!Next

-----------------------------------------------------------------------------
(* What a call of the admin service holds: a deletion is of a post that has*)
(* its row, and of the author this row names.                              *)
Deleting == {"softDelete", "list", "zrem", "author"}

TaskInv ==
    /\ task \in [Tasks -> Admin!TaskStates]
    /\ spared \in [Tasks -> SUBSET Users]
    /\ followers \in [Authors -> SUBSET Users]
    /\ \A t \in Tasks :
        /\ task[t].pc = "idle" => task[t].reply = 0
        /\ task[t].pc = "author" => task[t].todo = {}
        /\ task[t].pc \in Deleting =>
             /\ task[t].post \in Posts /\ task[t].author \in Authors
             /\ Post!Saved(task[t].post) /\ posts[task[t].post].author = task[t].author

(* The worker only reads the stream.                                       *)
LEMMA WorkerReadsStream ==
    ASSUME NEW w \in Workers, Worker!WorkerNext(w)
    PROVE  UNCHANGED <<stream, followers>>
<1>1. CASE Worker!Start(w) \/ Worker!Signal(w) \/ Worker!Crash(w) \/ Worker!Shutdown(w)
    BY <1>1 DEF Worker!Start, Worker!Signal, Worker!Crash, Worker!Shutdown, Worker!CancelContext,
                Worker!CloseDB, Worker!CloseRedis, Worker!Close, Worker!Exit, Worker!Die, Worker!mysql
<1>2. CASE Worker!ReadReplyLost(w) \/ Worker!PipelineRetried(w)
    BY <1>2 DEF Worker!ReadReplyLost, Worker!PipelineRetried, Worker!mysql
<1>3. CASE Worker!Consume(w)
  <2>1. CASE Worker!Loop(w) \/ Worker!Read(w) \/ Worker!ReadFails(w) \/ Worker!SkipMalformed(w)
      BY <2>1 DEF Worker!Loop, Worker!Read, Worker!ReadFails, Worker!SkipMalformed, Worker!mysql
  <2>2. CASE Worker!Count(w) \/ Worker!FetchPage(w) \/ Worker!ZAddNext(w) \/ Worker!TrimNext(w)
      BY <2>2 DEF Worker!Count, Worker!FetchPage, Worker!ZAddNext, Worker!TrimNext, Worker!mysql
  <2>3. CASE Worker!ExpireNext(w) \/ Worker!PageDone(w) \/ Worker!GiveUp(w) \/ Worker!Ack(w)
             \/ Worker!AckFails(w)
      BY <2>3 DEF Worker!ExpireNext, Worker!PageDone, Worker!GiveUp, Worker!Ack, Worker!AckFails,
                  Worker!mysql
  <2> QED
      BY <1>3, <2>1, <2>2, <2>3 DEF Worker!Consume
<1> QED
    BY <1>1, <1>2, <1>3 DEF Worker!WorkerNext

LEMMA WorkerStepKeeps == ASSUME WorkerStep PROVE UNCHANGED <<stream, followers>>
BY WorkerReadsStream DEF WorkerStep, Worker!TimelineExpires, Worker!Tick, Worker!mysql

LEMMA FollowStepKeeps == ASSUME FollowStep PROVE UNCHANGED stream
BY DEF FollowStep, Worker!Follow, Worker!Unfollow

(* Which rows a step of the admin service changes.                         *)
LEMMA AdminRows ==
    ASSUME TaskInv, NEW t \in Tasks, Admin!TaskNext(t)
    PROVE  /\ UNCHANGED followers
           /\ \/ UNCHANGED <<status, posts>>
              \/ \E a \in Authors, s \in Post!Statuses :
                    status' = [status EXCEPT ![a] = s] /\ UNCHANGED posts
              \/ \E p \in Posts : /\ Post!Saved(p) /\ posts' = [posts EXCEPT ![p].deleted = TRUE]
                                 /\ UNCHANGED status
<1>1. ASSUME NEW a \in Authors, NEW s \in Admin!Statuses \cup {"banned"}, Admin!PatchUser(t, a, s)
      PROVE  /\ UNCHANGED <<followers, posts>>
             /\ \/ UNCHANGED status
                \/ s \in Post!Statuses /\ status' = [status EXCEPT ![a] = s]
    BY <1>1 DEF Admin!PatchUser, Admin!Statuses, Post!Statuses
<1>2. ASSUME NEW p \in Posts, Admin!GetPost(t, p) PROVE UNCHANGED <<followers, status, posts>>
    BY <1>2 DEF Admin!GetPost
<1>3. CASE Admin!SoftDelete(t)
  <2>1. task[t].post \in Posts /\ Post!Saved(task[t].post) /\ UNCHANGED <<followers, status>>
      BY <1>3 DEF TaskInv, Deleting, Admin!SoftDelete, Admin!At
  <2>2. UNCHANGED posts \/ posts' = [posts EXCEPT ![task[t].post].deleted = TRUE]
      BY <1>3 DEF Admin!SoftDelete, Admin!Erase
  <2> QED
      BY <2>1, <2>2
<1>4. CASE Admin!ListFollowers(t) \/ Admin!ZRemFollower(t) \/ Admin!ZRemAuthor(t) \/ Admin!TaskLost(t)
    BY <1>4 DEF Admin!ListFollowers, Admin!ZRemFollower, Admin!ZRemAuthor, Admin!TaskLost
<1> QED
    BY <1>1, <1>2, <1>3, <1>4 DEF Admin!TaskNext, Admin!Step

(* While no status changes there is nothing new to note.                   *)
LEMMA NothingToNote ==
    ASSUME PostInv, UNCHANGED <<status, call>>, Post!NoteStatus
    PROVE  UNCHANGED couldPost
<1> SUFFICES ASSUME NEW r \in Requests, call[r].pc \in {"check", "save"},
                    status[call[r].author] \notin Post!Blocked
             PROVE  r \in couldPost
    BY DEF Post!NoteStatus
<1> QED
    BY DEF PostInv, CallInv

LEMMA AdminStepRefines == ASSUME PostInv, TaskInv, AdminStep PROVE [Post!Next]_(Post!vars)
<1> PICK t \in Tasks : Admin!TaskNext(t)
    BY DEF AdminStep
<1>1. UNCHANGED <<stream, call>> /\ Post!NoteStatus
    BY DEF AdminStep
<1>2. CASE UNCHANGED <<status, posts>>
    BY <1>1, <1>2, NothingToNote DEF Post!vars
<1>3. ASSUME NEW a \in Authors, NEW s \in Post!Statuses,
             status' = [status EXCEPT ![a] = s], UNCHANGED posts
      PROVE  [Post!Next]_(Post!vars)
  <2>1. CASE status[a] = s
    <3>1. UNCHANGED status
        BY <1>3, <2>1 DEF PostInv, Post!TypeOK
    <3> QED
        BY <1>1, <1>3, <3>1, NothingToNote DEF Post!vars
  <2>2. CASE status[a] # s
    <3>1. Post!SetStatus(a, s)
        BY <1>1, <1>3, <2>2 DEF Post!SetStatus
    <3> QED
        BY <3>1 DEF Post!Next
  <2> QED
      BY <2>1, <2>2
<1>4. ASSUME NEW p \in Posts, Post!Saved(p), posts' = [posts EXCEPT ![p].deleted = TRUE],
             UNCHANGED status
      PROVE  [Post!Next]_(Post!vars)
  <2>1. UNCHANGED couldPost
      BY <1>1, <1>4, NothingToNote
  <2>2. Post!SoftDelete(p)
      BY <1>1, <1>4, <2>1 DEF Post!SoftDelete
  <2> QED
      BY <2>2 DEF Post!Next
<1> QED
    BY <1>2, <1>3, <1>4, AdminRows

LEMMA ReadStepKeeps ==
    ASSUME ReadStep
    PROVE  UNCHANGED <<status, posts, followers, stream, call, couldPost, task, spared>>
BY DEF ReadStep, Timeline!ReadNext, Timeline!BeginRead, Timeline!GetFollowing, Timeline!QueryPosts,
       Timeline!ReadFails, postState, adminState

(* Every step of the composition is a step of PostService or leaves its    *)
(* state alone.                                                            *)
LEMMA RefinedStep == ASSUME PostInv, TaskInv, [Next]_vars PROVE [Post!Next]_(Post!vars)
<1>1. CASE PostStep
    BY <1>1 DEF PostStep, Post!Next
<1>2. CASE WorkerStep
    BY <1>2, WorkerStepKeeps DEF WorkerStep, postState, Post!vars
<1>3. CASE FollowStep
    BY <1>3, FollowStepKeeps DEF FollowStep, postState, Post!vars
<1>4. CASE AdminStep
    BY <1>4, AdminStepRefines
<1>5. CASE ReadStep
    BY <1>5, ReadStepKeeps DEF Post!vars
<1>6. CASE UNCHANGED vars
    BY <1>6 DEF vars, postState, Post!vars
<1> QED
    BY <1>1, <1>2, <1>3, <1>4, <1>5, <1>6 DEF Next

-----------------------------------------------------------------------------
(* A call that moves leaves the others as they are.  It ends,              *)
Ends(t, k) ==
    /\ k.pc \in {"done", "gone"}
    /\ task[t].pc # "idle" => k.post = task[t].post
    /\ k.reply = 204 => \/ task[t].reply = 204
                        \/ task[t].pc = "author" /\ Admin!Remove(task[t].author, task[t].post)

(* opens a deletion of a post that has its row,                            *)
Opens(t, k) ==
    /\ task[t].pc = "idle" /\ k.pc = "softDelete" /\ k.reply = task[t].reply
    /\ k.post \in Posts /\ Post!Saved(k.post)
    /\ k.author \in Authors /\ k.author = posts[k.post].author

(* or proceeds with it: it has listed the followers, or has taken the post *)
(* out of one more timeline, unless it spared it.                          *)
Proceeds(t, k) ==
    /\ task[t].pc \in Deleting /\ k.pc \in {"list", "zrem", "author"}
    /\ k.post = task[t].post /\ k.author = task[t].author /\ k.reply = task[t].reply
    /\ k.pc = "author" => k.todo = {}
    /\ k.pc # "list" =>
         \/ task[t].pc = "list" /\ k.todo = followers[task[t].author]
         \/ /\ task[t].pc = "zrem"
            /\ \E u \in Users :
                 /\ k.todo = task[t].todo \ {u}
                 /\ Admin!Remove(u, task[t].post) \/ u \in spared'[t]

TaskMovesTo(t, k) ==
    /\ k \in Admin!TaskStates /\ task' = [task EXCEPT ![t] = k]
    /\ Ends(t, k) \/ Opens(t, k) \/ Proceeds(t, k)

LEMMA AdminMoves ==
    ASSUME PostInv, TaskInv, NEW t \in Tasks, Admin!TaskNext(t)
    PROVE  \E k : TaskMovesTo(t, k)
<1> DEFINE row == task[t]
<1>1. task \in [Tasks -> Admin!TaskStates] /\ row \in Admin!TaskStates
    BY DEF TaskInv
<1>2. ASSUME NEW code \in {200, 204, 400, 500}, Admin!Reply(t, code),
             code = 204 => row.pc = "author" /\ Admin!Remove(row.author, row.post)
      PROVE  \E k : TaskMovesTo(t, k)
  <2> DEFINE k1 == [row EXCEPT !.pc = "done"]
             k == [k1 EXCEPT !.reply = code]
  <2>5. task' = [task EXCEPT ![t].pc = "done", ![t].reply = code]
      BY <1>2 DEF Admin!Reply
  <2>6. t \in DOMAIN task
      BY <1>1
  <2>1. task' = [task EXCEPT ![t] = k]
      BY <2>5, <2>6, ZenonT(60)
  <2>2. k1 \in Admin!TaskStates /\ k1.pc = "done" /\ k1.post = row.post
      BY <1>1 DEF Admin!TaskStates, Admin!Steps
  <2> HIDE DEF k1
  <2>3. k \in Admin!TaskStates /\ k.pc = "done" /\ k.post = row.post /\ k.reply = code
      BY <2>2 DEF Admin!TaskStates
  <2> HIDE DEF k
  <2>4. Ends(t, k)
      BY <1>2, <2>3 DEF Ends
  <2> QED
      BY <2>1, <2>3, <2>4 DEF TaskMovesTo
<1>3. ASSUME NEW label \in {"list", "gone"}, Admin!Goto(t, label), row.pc \in Deleting
      PROVE  \E k : TaskMovesTo(t, k)
  <2> DEFINE k == [row EXCEPT !.pc = label]
  <2>1. task' = [task EXCEPT ![t] = k]
      BY <1>1, <1>3 DEF Admin!Goto
  <2>2. /\ k \in Admin!TaskStates /\ k.pc = label /\ k.author = row.author
        /\ k.post = row.post /\ k.reply = row.reply
      BY <1>1 DEF Admin!TaskStates, Admin!Steps
  <2> HIDE DEF k
  <2>3. Ends(t, k) \/ Proceeds(t, k)
      BY <1>3, <2>2 DEF Ends, Proceeds
  <2> QED
      BY <2>1, <2>2, <2>3 DEF TaskMovesTo
<1>4. CASE \E a \in Authors, s \in Admin!Statuses \cup {"banned"} : Admin!PatchUser(t, a, s)
    BY <1>2, <1>4 DEF Admin!PatchUser
<1>5. ASSUME NEW p \in Posts, Admin!GetPost(t, p)
      PROVE  \E k : TaskMovesTo(t, k)
  <2>0. row.pc = "idle" /\ row.reply = 0
      BY <1>5 DEF Admin!GetPost, Admin!At, TaskInv
  <2>1. ASSUME Admin!Live(p), task' = [task EXCEPT ![t].pc = "softDelete", ![t].post = p,
                                                   ![t].author = posts[p].author]
        PROVE  \E k : TaskMovesTo(t, k)
    <3> DEFINE k1 == [row EXCEPT !.pc = "softDelete"]
               k2 == [k1 EXCEPT !.post = p]
               k == [k2 EXCEPT !.author = posts[p].author]
    <3>1. Post!Saved(p) /\ posts[p].author \in Authors
        BY <2>1, RowFields DEF Admin!Live, Admin!NoRow, Post!Saved, Post!NoRow, PostInv
    <3>2. task' = [task EXCEPT ![t] = k]
        BY <1>1, <2>1
    <3>3. k1 \in Admin!TaskStates /\ k1.pc = "softDelete" /\ k1.reply = row.reply
        BY <1>1 DEF Admin!TaskStates, Admin!Steps
    <3> HIDE DEF k1
    <3>4. k2 \in Admin!TaskStates /\ k2.pc = "softDelete" /\ k2.post = p /\ k2.reply = row.reply
        BY <3>3 DEF Admin!TaskStates
    <3> HIDE DEF k2
    <3>5. /\ k \in Admin!TaskStates /\ k.pc = "softDelete" /\ k.post = p
          /\ k.author = posts[p].author /\ k.reply = row.reply
        BY <3>1, <3>4 DEF Admin!TaskStates
    <3> HIDE DEF k
    <3>6. Opens(t, k)
        BY <2>0, <3>1, <3>5 DEF Opens
    <3> QED
        BY <3>2, <3>5, <3>6 DEF TaskMovesTo
  <2>2. ASSUME task' = [task EXCEPT ![t].pc = "done", ![t].post = p, ![t].reply = 500]
        PROVE  \E k : TaskMovesTo(t, k)
    <3> DEFINE k1 == [row EXCEPT !.pc = "done"]
               k2 == [k1 EXCEPT !.post = p]
               k == [k2 EXCEPT !.reply = 500]
    <3>1. t \in DOMAIN task
        BY <1>1
    <3>2. task' = [task EXCEPT ![t] = k]
        BY <2>2, <3>1, ZenonT(60)
    <3>3. k1 \in Admin!TaskStates /\ k1.pc = "done"
        BY <1>1 DEF Admin!TaskStates, Admin!Steps
    <3> HIDE DEF k1
    <3>4. k2 \in Admin!TaskStates /\ k2.pc = "done"
        BY <3>3 DEF Admin!TaskStates
    <3> HIDE DEF k2
    <3>5. k \in Admin!TaskStates /\ k.pc = "done" /\ k.reply = 500
        BY <3>4 DEF Admin!TaskStates
    <3> HIDE DEF k
    <3>6. Ends(t, k)
        BY <2>0, <3>5 DEF Ends
    <3> QED
        BY <3>2, <3>5, <3>6 DEF TaskMovesTo
  <2> QED
      BY <1>5, <2>1, <2>2 DEF Admin!GetPost
<1>6. CASE Admin!SoftDelete(t)
  <2>1. row.pc \in Deleting /\ (Admin!Goto(t, "list") \/ Admin!Reply(t, 500))
      BY <1>6 DEF Deleting, Admin!SoftDelete, Admin!At
  <2> QED
      BY <1>2, <1>3, <2>1
<1>7. CASE Admin!ListFollowers(t)
  <2> DEFINE rows == followers[row.author]
             label == IF rows = {} THEN "author" ELSE "zrem"
             k1 == [row EXCEPT !.pc = label]
             k2 == [k1 EXCEPT !.listed = rows]
             k == [k2 EXCEPT !.todo = rows]
  <2>1. CASE Admin!Reply(t, 500)
      BY <1>2, <2>1
  <2>2. CASE task' = [task EXCEPT ![t].pc = label, ![t].listed = rows, ![t].todo = rows]
    <3>1. row.pc = "list" /\ row.author \in Authors /\ row.pc \in Deleting
        BY <1>7 DEF TaskInv, Deleting, Admin!ListFollowers, Admin!At
    <3>2. rows \subseteq Users
        BY <3>1 DEF TaskInv
    <3>3. task' = [task EXCEPT ![t] = k]
        BY <1>1, <2>2
    <3>8. (label = "author" => rows = {}) /\ label \in {"author", "zrem"}
        OBVIOUS
    <3> HIDE DEF rows
    <3>4. /\ k1 \in Admin!TaskStates /\ k1.pc = label /\ k1.post = row.post
          /\ k1.author = row.author /\ k1.reply = row.reply
        BY <1>1 DEF Admin!TaskStates, Admin!Steps
    <3> HIDE DEF k1
    <3>5. /\ k2 \in Admin!TaskStates /\ k2.pc = label /\ k2.post = row.post
          /\ k2.author = row.author /\ k2.reply = row.reply
        BY <3>2, <3>4 DEF Admin!TaskStates
    <3> HIDE DEF k2
    <3>6. /\ k \in Admin!TaskStates /\ k.pc = label /\ k.post = row.post
          /\ k.author = row.author /\ k.reply = row.reply /\ k.todo = rows
        BY <3>2, <3>5 DEF Admin!TaskStates
    <3> HIDE DEF k, label
    <3>7. Proceeds(t, k)
        BY <3>1, <3>6, <3>8 DEF Proceeds, rows
    <3> QED
        BY <3>3, <3>6, <3>7 DEF TaskMovesTo
  <2> QED
      BY <1>7, <2>1, <2>2 DEF Admin!ListFollowers
<1>8. CASE Admin!ZRemFollower(t)
  <2> PICK u \in row.todo :
        /\ task' = [task EXCEPT ![t].todo = @ \ {u},
                                ![t].pc = IF task[t].todo = {u} THEN "author" ELSE "zrem"]
        /\ Admin!Remove(u, row.post) \/ spared' = [spared EXCEPT ![t] = @ \cup {u}]
      BY <1>8 DEF Admin!ZRemFollower
  <2> DEFINE label == IF row.todo = {u} THEN "author" ELSE "zrem"
             k1 == [row EXCEPT !.todo = row.todo \ {u}]
             k == [k1 EXCEPT !.pc = label]
  <2>1. task' = [task EXCEPT ![t] = k]
      BY <1>1
  <2>2. /\ k1 \in Admin!TaskStates /\ k1.post = row.post /\ k1.author = row.author
        /\ k1.todo = row.todo \ {u} /\ k1.reply = row.reply
      BY <1>1 DEF Admin!TaskStates
  <2>6. (label = "author" => row.todo \ {u} = {}) /\ label \in {"author", "zrem"}
      OBVIOUS
  <2> HIDE DEF k1, label
  <2>3. /\ k \in Admin!TaskStates /\ k.pc = label /\ k.post = row.post /\ k.author = row.author
        /\ k.todo = row.todo \ {u} /\ k.reply = row.reply
      BY <2>2, <2>6 DEF Admin!TaskStates, Admin!Steps
  <2> HIDE DEF k
  <2>4. row.pc = "zrem" /\ row.pc \in Deleting /\ u \in Users
      BY <1>1, <1>8 DEF Deleting, Admin!ZRemFollower, Admin!At, Admin!TaskStates
  <2>7. Admin!Remove(u, row.post) \/ u \in spared'[t]
      BY DEF TaskInv
  <2>5. Proceeds(t, k)
      BY <2>3, <2>4, <2>6, <2>7 DEF Proceeds
  <2> QED
      BY <2>1, <2>3, <2>5 DEF TaskMovesTo
<1>9. CASE Admin!ZRemAuthor(t)
    BY <1>2, <1>9 DEF Admin!ZRemAuthor, Admin!At
<1>10. CASE Admin!TaskLost(t)
  <2>1. Admin!Goto(t, "gone") /\ row.pc \in Deleting
      BY <1>10 DEF Admin!TaskLost, Deleting
  <2> QED
      BY <1>3, <2>1
<1> QED
    BY <1>4, <1>5, <1>6, <1>7, <1>8, <1>9, <1>10 DEF Admin!TaskNext, Admin!Step

(* What is spared stays spared.                                            *)
SparedGrows ==
    /\ spared' \in [Tasks -> SUBSET Users]
    /\ \A v \in Tasks : spared[v] \subseteq spared'[v]

LEMMA AdminSpares == ASSUME TaskInv, NEW t \in Tasks, Admin!TaskNext(t) PROVE SparedGrows
<1>1. spared \in [Tasks -> SUBSET Users] /\ task[t] \in Admin!TaskStates
    BY DEF TaskInv
<1>2. CASE UNCHANGED spared
    BY <1>1, <1>2 DEF SparedGrows
<1>3. CASE Admin!ZRemFollower(t)
  <2>1. PICK u \in task[t].todo :
          UNCHANGED spared \/ spared' = [spared EXCEPT ![t] = @ \cup {u}]
      BY <1>3 DEF Admin!ZRemFollower
  <2>2. u \in Users
      BY <1>1 DEF Admin!TaskStates
  <2> QED
      BY <1>1, <1>2, <2>1, <2>2 DEF SparedGrows
<1>4. CASE ~Admin!ZRemFollower(t)
    BY <1>2, <1>4 DEF Admin!TaskNext, Admin!Step, Admin!PatchUser, Admin!GetPost,
                      Admin!SoftDelete, Admin!ListFollowers, Admin!ZRemAuthor, Admin!TaskLost
<1> QED
    BY <1>3, <1>4

(* A row that is there stays, with its author.                             *)
RowsStay ==
    \A p \in Posts :
        Post!Saved(p) => posts'[p] # Post!NoRow /\ posts'[p].author = posts[p].author

LEMMA PostStepRows == ASSUME PostInv, [Post!Next]_(Post!vars) PROVE RowsStay
<1>1. posts \in [Posts -> Post!Rows]
    BY DEF PostInv, Post!TypeOK
<1>2. CASE UNCHANGED posts
    BY <1>2 DEF RowsStay, Post!Saved
<1>3. ASSUME NEW r \in Requests, NEW p \in Posts, Post!Insert(r, p) PROVE RowsStay
    BY <1>1, <1>3 DEF Post!Insert, RowsStay, Post!Saved
<1>4. ASSUME NEW p \in Posts, Post!SoftDelete(p) PROVE RowsStay
  <2> DEFINE row == [posts[p] EXCEPT !.deleted = TRUE]
  <2>1. posts[p].author \in Authors /\ posts[p] \in Post!Rows /\ posts[p] # Post!NoRow
      BY <1>1, <1>4, RowFields DEF Post!SoftDelete, Post!Saved, PostInv
  <2>2. posts' = [posts EXCEPT ![p] = row]
      BY <1>1, <1>4 DEF Post!SoftDelete
  <2>3. posts[p] \in [author : Authors, deleted : BOOLEAN]
      BY <2>1 DEF Post!Rows
  <2>4. row.author = posts[p].author
      BY <2>3
  <2>5. row # Post!NoRow
      BY <2>1, <2>4, PipelineAssumption DEF Post!NoRow
  <2> HIDE DEF row
  <2> QED
      BY <1>1, <2>2, <2>4, <2>5 DEF RowsStay, Post!Saved
<1>5. ASSUME NEW r \in Requests, Post!CallNext(r) PROVE RowsStay
  <2>1. CASE Post!Save(r)
      BY <1>3, <2>1 DEF Post!Save
  <2>2. CASE Post!SaveFails(r)
      BY <1>2, <1>3, <2>2 DEF Post!SaveFails
  <2>3. CASE ~Post!Save(r) /\ ~Post!SaveFails(r)
      BY <1>2, <1>5, <2>3 DEF Post!CallNext, Post!Step, Post!Submit, Post!CheckStatus, Post!Publish,
             Post!PublishReplyLost, Post!CheckFails, Post!PublishFails, Post!CallLost
  <2> QED
      BY <2>1, <2>2, <2>3
<1> QED
    BY <1>2, <1>4, <1>5 DEF Post!Next, Post!SetStatus, Post!vars

LEMMA TaskStepKeeps == ASSUME PostInv, TaskInv, [Next]_vars PROVE TaskInv'
<1>1. RowsStay
    BY RefinedStep, PostStepRows
<1>2. ASSUME UNCHANGED <<task, spared>>, followers' \in [Authors -> SUBSET Users] PROVE TaskInv'
    BY <1>1, <1>2 DEF TaskInv, RowsStay, Post!Saved
<1>3. followers \in [Authors -> SUBSET Users]
    BY DEF TaskInv
<1>4. CASE PostStep \/ WorkerStep \/ ReadStep
    BY <1>2, <1>3, <1>4, WorkerStepKeeps, ReadStepKeeps DEF PostStep, WorkerStep, adminState
<1>5. CASE FollowStep
  <2>1. PICK a \in Authors, u \in Users : Worker!Follow(a, u) \/ Worker!Unfollow(a, u)
      BY <1>5 DEF FollowStep
  <2>2. followers' \in [Authors -> SUBSET Users]
      BY <1>3, <2>1 DEF Worker!Follow, Worker!Unfollow
  <2> QED
      BY <1>2, <1>5, <2>2 DEF FollowStep, adminState
<1>6. CASE AdminStep
  <2>1. PICK t \in Tasks : Admin!TaskNext(t)
      BY <1>6 DEF AdminStep
  <2>2. PICK k : TaskMovesTo(t, k)
      BY <2>1, AdminMoves
  <2>3. UNCHANGED followers /\ task \in [Tasks -> Admin!TaskStates]
      BY <2>1, AdminRows DEF TaskInv
  <2>4. /\ task' \in [Tasks -> Admin!TaskStates] /\ task'[t] = k
        /\ \A v \in Tasks : v # t => task'[v] = task[v]
      BY <2>2, <2>3 DEF TaskMovesTo
  <2>5. ASSUME NEW v \in Tasks
        PROVE  /\ task'[v].pc = "idle" => task'[v].reply = 0
               /\ task'[v].pc = "author" => task'[v].todo = {}
               /\ task'[v].pc \in Deleting =>
                    /\ task'[v].post \in Posts /\ task'[v].author \in Authors
                    /\ posts'[task'[v].post] # Post!NoRow
                    /\ posts'[task'[v].post].author = task'[v].author
    <3>1. ASSUME v = t, k.pc \in Deleting
          PROVE  /\ k.post \in Posts /\ k.author \in Authors /\ Post!Saved(k.post)
                 /\ posts[k.post].author = k.author
        BY <2>2, <3>1 DEF TaskMovesTo, TaskInv, Ends, Opens, Proceeds, Deleting
    <3>2. ASSUME v = t
          PROVE  (k.pc = "author" => k.todo = {}) /\ k.pc # "idle"
        BY <2>2, <3>2 DEF TaskMovesTo, Ends, Opens, Proceeds
    <3>3. CASE v = t
        BY <1>1, <2>4, <3>1, <3>2, <3>3 DEF RowsStay
    <3>4. CASE v # t
        BY <1>1, <2>4, <3>4 DEF TaskInv, RowsStay
    <3> QED
        BY <3>3, <3>4
  <2>6. spared' \in [Tasks -> SUBSET Users]
      BY <2>1, AdminSpares DEF SparedGrows
  <2> QED
      BY <1>3, <2>3, <2>4, <2>5, <2>6 DEF TaskInv, Post!Saved
<1>7. CASE UNCHANGED vars
    BY <1>2, <1>3, <1>7 DEF vars, adminState
<1> QED
    BY <1>4, <1>5, <1>6, <1>7 DEF Next

-----------------------------------------------------------------------------
Inv == PostInv /\ TaskInv

LEMMA InitInv == Init => Inv
<1> SUFFICES ASSUME Init PROVE Inv
    OBVIOUS
<1>1. /\ Post!Init /\ followers \in [Authors -> SUBSET Users]
      /\ task = [t \in Tasks |-> Admin!Idle] /\ spared = [t \in Tasks |-> {}]
    BY DEF Init, Worker!Init
<1>2. Post!TypeOK
    BY <1>1 DEF Post!Init, Post!TypeOK, Post!Rows, Post!Calls, Post!Idle
<1>3. Post!EventsHaveRows
    BY <1>1 DEF Post!Init, Post!EventsHaveRows
<1>4. ASSUME NEW r \in Requests PROVE CallInv(r)
    BY <1>1 DEF Post!Init, Post!Idle, CallInv
<1>5. TaskInv
    BY <1>1 DEF TaskInv, Deleting, Admin!Idle, Admin!TaskStates, Admin!Steps
<1> QED
    BY <1>2, <1>3, <1>4, <1>5 DEF Inv, PostInv

LEMMA StepInv == Inv /\ [Next]_vars => Inv'
BY RefinedStep, PostStepKeeps, TaskStepKeeps DEF Inv

LEMMA InvAlways == Spec => []Inv
BY InitInv, StepInv, PTL DEF Spec

(* Beside the other services on the shared stores post-service still       *)
(* behaves as its own specification says: what the admin service does to   *)
(* statuses and rows is what PostService lets its environment do, and      *)
(* nobody else touches its state.                                          *)
THEOREM RefinesPostService == Spec => ImplementsPostService
<1>1. Init => Post!Init
    BY DEF Init
<1>2. Inv /\ [Next]_vars => [Post!Next]_(Post!vars)
    BY RefinedStep DEF Inv
<1> QED
    BY <1>1, <1>2, InvAlways, PTL DEF Spec, ImplementsPostService

-----------------------------------------------------------------------------
(* Post-service does to the stream what the worker lets its environment do.*)
LEMMA CallAppends ==
    ASSUME PostInv, NEW r \in Requests, Post!CallNext(r)
    PROVE  \/ UNCHANGED stream
           \/ /\ Len(stream) < MaxEntries
              /\ \E e \in Worker!Entries : stream' = Append(stream, e)
<1>1. CASE Post!Publish(r) \/ Post!PublishReplyLost(r)
  <2> DEFINE e == Post!Event(call[r].post, call[r].author)
  <2>1. call[r].pc = "publish" /\ Post!Append1(r)
      BY <1>1 DEF Post!Publish, Post!PublishReplyLost, Post!At
  <2>2. call[r].author \in Authors /\ call[r].post \in Posts
      BY <2>1 DEF PostInv, CallInv
  <2>3. e \in Worker!Entries
      BY <2>2 DEF Post!Event, Worker!Entries
  <2> QED
      BY <2>1, <2>3 DEF Post!Append1
<1>2. CASE ~Post!Publish(r) /\ ~Post!PublishReplyLost(r)
    BY <1>2 DEF Post!CallNext, Post!Step, Post!Submit, Post!CheckStatus, Post!Save, Post!CheckFails,
                Post!SaveFails, Post!PublishFails, Post!CallLost
<1> QED
    BY <1>1, <1>2

LEMMA PostStepWorker == ASSUME PostInv, PostStep PROVE [Worker!Next]_(Worker!vars)
<1> USE DEF Worker!vars, Worker!mysql, Worker!group, Worker!cache, Worker!worker, Worker!bounds
<1>1. UNCHANGED <<followers, timelines, ttl, groupUp, delivered, pending, main, pc, inbox, job, seen,
                  hit, now, changes, faults>>
    BY DEF PostStep, workerState
<1>2. CASE UNCHANGED stream
    BY <1>1, <1>2
<1>3. CASE Len(stream) < MaxEntries /\ \E e \in Worker!Entries : stream' = Append(stream, e)
  <2>1. Worker!Publish
      BY <1>1, <1>3 DEF Worker!Publish
  <2> QED
      BY <2>1 DEF Worker!Next, Worker!Environment
<1> QED
    BY <1>2, <1>3, CallAppends DEF PostStep

(* A step of the admin service removes at most one post from one timeline. *)
LEMMA AdminRemoves ==
    ASSUME TaskInv, NEW t \in Tasks, Admin!TaskNext(t)
    PROVE  \/ UNCHANGED <<timelines, ttl>>
           \/ \E u \in Users, p \in Posts : Admin!Remove(u, p)
<1>1. task[t] \in Admin!TaskStates
      /\ (task[t].pc \in Deleting => task[t].post \in Posts /\ task[t].author \in Authors)
    BY DEF TaskInv
<1>2. CASE Admin!ZRemFollower(t)
  <2>1. task[t].pc = "zrem"
      BY <1>2 DEF Admin!ZRemFollower, Admin!At
  <2>2. task[t].post \in Posts /\ task[t].todo \subseteq Users
      BY <1>1, <2>1 DEF Deleting, Admin!TaskStates
  <2> QED
      BY <1>2, <2>2 DEF Admin!ZRemFollower
<1>3. CASE Admin!ZRemAuthor(t)
  <2>1. task[t].pc = "author"
      BY <1>3 DEF Admin!ZRemAuthor, Admin!At
  <2>2. task[t].post \in Posts /\ task[t].author \in Users
      BY <1>1, <2>1, PipelineAssumption DEF Deleting
  <2> QED
      BY <1>3, <2>2 DEF Admin!ZRemAuthor
<1>4. CASE ~Admin!ZRemFollower(t) /\ ~Admin!ZRemAuthor(t)
    BY <1>4 DEF Admin!TaskNext, Admin!Step, Admin!PatchUser, Admin!GetPost, Admin!SoftDelete,
                Admin!ListFollowers, Admin!TaskLost
<1> QED
    BY <1>2, <1>3, <1>4

LEMMA AdminStepWorker == ASSUME TaskInv, AdminStep PROVE [Worker!Next]_(Worker!vars)
<1> USE DEF Worker!vars, Worker!mysql, Worker!group, Worker!cache, Worker!worker, Worker!bounds
<1>1. PICK t \in Tasks : Admin!TaskNext(t)
    BY DEF AdminStep
<1>2. UNCHANGED <<followers, stream, groupUp, delivered, pending, main, pc, inbox, job, seen, hit,
                  now, changes, faults>>
    BY <1>1, AdminRows DEF AdminStep, workerState
<1>3. CASE UNCHANGED <<timelines, ttl>>
    BY <1>2, <1>3
<1>4. ASSUME NEW u \in Users, NEW p \in Posts, Admin!Remove(u, p)
      PROVE  [Worker!Next]_(Worker!vars)
  <2>1. /\ timelines' = [timelines EXCEPT ![u] = Worker!ZRem(@, p)]
        /\ ttl' = [ttl EXCEPT ![u] = @ /\ timelines'[u] # Worker!NoTimeline]
      BY <1>4, Zenon DEF Admin!Remove, Admin!ZRem, Admin!NoTimeline, Worker!ZRem, Worker!NoTimeline
  <2>2. Worker!Delist(u, p)
      BY <1>2, <2>1 DEF Worker!Delist
  <2> QED
      BY <2>2 DEF Worker!Next, Worker!Environment
<1> QED
    BY <1>1, <1>3, <1>4, AdminRemoves

(* Every step of the composition is a step of FanoutWorker, a worker's or  *)
(* one of its environment, or leaves its state alone.                      *)
LEMMA RefinedWorkerStep == ASSUME PostInv, TaskInv, [Next]_vars PROVE [Worker!Next]_(Worker!vars)
<1>1. CASE PostStep
    BY <1>1, PostStepWorker
<1>2. CASE WorkerStep
    BY <1>2 DEF WorkerStep, Worker!Next, Worker!Environment
<1>3. CASE FollowStep
    BY <1>3 DEF FollowStep, Worker!Next, Worker!Environment
<1>4. CASE AdminStep
    BY <1>4, AdminStepWorker
<1>5. CASE ReadStep \/ UNCHANGED vars
  <2>1. UNCHANGED followers
      BY <1>5, ReadStepKeeps DEF vars
  <2>2. UNCHANGED <<stream, timelines, ttl, workerState>>
      BY <1>5 DEF ReadStep, vars
  <2> QED
      BY <2>1, <2>2 DEF workerState, Worker!vars, Worker!mysql, Worker!group, Worker!cache,
                        Worker!worker, Worker!bounds
<1> QED
    BY <1>1, <1>2, <1>3, <1>4, <1>5 DEF Next

(* So do the workers as their own specification says: post-service only    *)
(* appends well-formed entries, the admin service only takes posts out of  *)
(* timelines as the worker's environment may, and nobody else touches what *)
(* the workers use.                                                        *)
THEOREM RefinesFanoutWorker == Spec => ImplementsFanoutWorker
<1>1. Init => Worker!Init
    BY DEF Init
<1>2. Inv /\ [Next]_vars => [Worker!Next]_(Worker!vars)
    BY RefinedWorkerStep DEF Inv
<1> QED
    BY <1>1, <1>2, InvAlways, PTL DEF Spec, ImplementsFanoutWorker

-----------------------------------------------------------------------------
(* Every entry of the stream names a row of posts and its author.          *)
THEOREM EventsNameRows == Spec => []EventsHaveRows
<1>1. Inv => EventsHaveRows
    BY DEF Inv, PostInv, EventsHaveRows
<1> QED
    BY <1>1, InvAlways, PTL

(* A call that was answered 200 has its row and its entry in the stream.   *)
THEOREM SuccessIsPublished == Spec => []SuccessMeansPublished
<1>1. Inv => SuccessMeansPublished
    BY PipelineAssumption DEF Inv, PostInv, CallInv, SuccessMeansPublished, Post!SuccessMeansPublished
<1> QED
    BY <1>1, InvAlways, PTL

(* Only a call at its INSERT adds a row, the row of its author.            *)
LEMMA NewRowStep ==
    ASSUME PostInv, [Post!Next]_(Post!vars), NEW p \in Posts, posts[p] = Post!NoRow, posts'[p] # Post!NoRow
    PROVE  \E r \in couldPost : /\ Post!At(r, "save") /\ call'[r].pc # "save"
                               /\ call[r].author = posts'[p].author
<1>1. posts \in [Posts -> Post!Rows]
    BY DEF PostInv, Post!TypeOK
<1>2. ASSUME NEW r \in Requests, NEW o \in Posts, Post!Insert(r, o), Post!At(r, "save"), call'[r].pc # "save"
      PROVE  \E q \in couldPost : /\ Post!At(q, "save") /\ call'[q].pc # "save"
                                 /\ call[q].author = posts'[p].author
  <2> DEFINE row == [author |-> call[r].author, deleted |-> FALSE]
  <2>1. posts' = [posts EXCEPT ![o] = row] /\ row.author = call[r].author
      BY <1>2 DEF Post!Insert
  <2> HIDE DEF row
  <2>2. o = p
      BY <1>1, <2>1
  <2>3. posts'[p].author = call[r].author
      BY <1>1, <2>1, <2>2
  <2>4. r \in couldPost
      BY <1>2 DEF Post!At, PostInv, CallInv
  <2> QED
      BY <1>2, <2>3, <2>4
<1>3. ASSUME NEW r \in Requests, Post!Save(r)
      PROVE  \E o \in Posts : Post!Insert(r, o) /\ Post!At(r, "save") /\ call'[r].pc # "save"
  <2>1. call \in [Requests -> Post!Calls]
      BY DEF PostInv, Post!TypeOK
  <2>2. PICK o \in Posts :
            Post!Insert(r, o) /\ call' = [call EXCEPT ![r].pc = "publish", ![r].post = o]
      BY <1>3 DEF Post!Save
  <2> DEFINE k1 == [call[r] EXCEPT !.pc = "publish"]
             k == [k1 EXCEPT !.post = o]
  <2>3. call' = [call EXCEPT ![r] = k]
      BY <2>1, <2>2
  <2>4. call[r] \in Post!Calls
      BY <2>1
  <2>5. k1 \in Post!Calls /\ k1.pc = "publish"
      BY <2>4 DEF Post!Calls
  <2> HIDE DEF k1
  <2>6. k.pc = "publish"
      BY <2>5 DEF Post!Calls
  <2> HIDE DEF k
  <2>7. call'[r].pc = "publish"
      BY <2>1, <2>3, <2>6
  <2> QED
      BY <1>3, <2>2, <2>7 DEF Post!Save
<1>4. ASSUME NEW r \in Requests, Post!SaveFails(r)
      PROVE  \E o \in Posts : Post!Insert(r, o) /\ Post!At(r, "save") /\ call'[r].pc # "save"
  <2>1. call'[r].pc = "done"
      BY <1>4, ReplyStep DEF Post!SaveFails, PostInv, Codes
  <2> QED
      BY <1>4, <2>1 DEF Post!SaveFails
<1>5. ASSUME NEW o \in Posts, Post!SoftDelete(o) PROVE FALSE
    BY <1>1, <1>5 DEF Post!SoftDelete, Post!Saved
<1>6. ASSUME NEW r \in Requests, Post!CallNext(r), ~Post!Save(r), ~Post!SaveFails(r) PROVE FALSE
    BY <1>6 DEF Post!CallNext, Post!Step, Post!Submit, Post!CheckStatus, Post!Publish,
             Post!PublishReplyLost, Post!CheckFails, Post!PublishFails, Post!CallLost
<1>7. UNCHANGED posts => FALSE
    OBVIOUS
<1>8. \E r \in Requests : Post!Save(r) \/ Post!SaveFails(r)
    BY <1>5, <1>6, <1>7 DEF Post!Next, Post!SetStatus, Post!vars
<1> QED
    BY <1>2, <1>3, <1>4, <1>8

(* Also beside the other services, an author who is blocked for the whole  *)
(* of a call gets nothing stored by it.                                    *)
THEOREM BlockedSavesNothing == Spec => BlockedThroughoutSavesNothing
<1>1. ASSUME Inv, [Next]_vars, NEW p \in Posts, posts[p] = Post!NoRow, posts'[p] # Post!NoRow
      PROVE  \E r \in couldPost : /\ Post!At(r, "save") /\ ~Post!At(r, "save")'
                                 /\ call[r].author = posts'[p].author
    BY <1>1, RefinedStep, NewRowStep DEF Inv, Post!At
<1>2. Inv /\ [Next]_vars =>
        [\A p \in Posts :
           posts[p] = Post!NoRow /\ posts'[p] # Post!NoRow =>
             \E r \in couldPost : Post!At(r, "save") /\ ~Post!At(r, "save")'
                                  /\ call[r].author = posts'[p].author]_(Post!vars)
    BY <1>1
<1> QED
    BY <1>2, InvAlways, PTL DEF Spec, BlockedThroughoutSavesNothing, Post!BlockedThroughoutSavesNothing

-----------------------------------------------------------------------------
(* What the history of a read has noted: all that holds while it runs.     *)
NowLive == {p \in Posts : Post!Saved(p) /\ ~posts[p].deleted}
NowActive == {a \in Authors : status[a] = "active"}
NowFollowed(u) == {a \in Authors : u \in followers[a]}

ReadInv(r) ==
    /\ feed[r].pc \in {"following", "posts"} =>
         /\ NowLive \subseteq window[r].live
         /\ NowActive \subseteq window[r].active
         /\ NowFollowed(feed[r].user) \subseteq window[r].followed
    /\ feed[r].pc = "posts" => feed[r].following \subseteq window[r].followed
    /\ \A p \in feed[r].result :
         /\ p \in Posts /\ Post!Saved(p) /\ p \in window[r].live
         /\ posts[p].author \in window[r].active /\ posts[p].author \in window[r].followed

ReadsInv ==
    /\ feed \in [Reads -> Timeline!ReadStates]
    /\ \A r \in Reads : ReadInv(r)

(* A history covers the new state while its read runs, and only grows.     *)
LEMMA ObserveStep ==
    ASSUME Observe, NEW r \in Reads
    PROVE  /\ window[r].live \subseteq window'[r].live
           /\ window[r].active \subseteq window'[r].active
           /\ window[r].followed \subseteq window'[r].followed
           /\ feed'[r].pc \in {"following", "posts"} =>
                /\ NowLive' \subseteq window'[r].live
                /\ NowActive' \subseteq window'[r].active
                /\ {a \in Authors : feed'[r].user \in followers'[a]} \subseteq window'[r].followed
<1>1. CASE feed'[r].pc \in {"idle", "done", "failed"}
  <2>1. window'[r] = window[r]
      BY <1>1 DEF Observe
  <2> QED
      BY <1>1, <2>1
<1>2. CASE feed'[r].pc \notin {"idle", "done", "failed"}
  <2>1. /\ window'[r].live = window[r].live \cup {p \in Posts : Post!Saved(p)' /\ ~posts'[p].deleted}
        /\ window'[r].active = window[r].active \cup {a \in Authors : status'[a] = "active"}
        /\ window'[r].followed = window[r].followed
                                   \cup {a \in Authors : feed'[r].user \in followers'[a]}
      BY <1>2 DEF Observe
  <2>2. /\ NowLive' = {p \in Posts : Post!Saved(p)' /\ ~posts'[p].deleted}
        /\ NowActive' = {a \in Authors : status'[a] = "active"}
      BY DEF NowLive, NowActive
  <2> QED
      BY <2>1, <2>2
<1> QED
    BY <1>1, <1>2

(* A read that does not move.                                              *)
LEMMA ReadKept ==
    ASSUME NEW r \in Reads, ReadInv(r), RowsStay, Observe, feed'[r] = feed[r]
    PROVE  ReadInv(r)'
<1>1. /\ feed'[r].pc \in {"following", "posts"} =>
            /\ NowLive' \subseteq window'[r].live
            /\ NowActive' \subseteq window'[r].active
            /\ NowFollowed(feed[r].user)' \subseteq window'[r].followed
    BY ObserveStep DEF NowFollowed
<1>2. feed'[r].pc = "posts" => feed'[r].following \subseteq window'[r].followed
    BY ObserveStep DEF ReadInv
<1>3. ASSUME NEW p \in feed'[r].result
      PROVE  /\ p \in Posts /\ posts'[p] # Post!NoRow /\ p \in window'[r].live
             /\ posts'[p].author \in window'[r].active /\ posts'[p].author \in window'[r].followed
    BY <1>3, ObserveStep DEF ReadInv, RowsStay, Post!Saved
<1> QED
    BY <1>1, <1>2, <1>3 DEF ReadInv, Post!Saved, NowFollowed

(* A read that moves keeps its result or takes one that was eligible.      *)
Ripe(r, p) ==
    /\ p \in Posts /\ Post!Saved(p) /\ p \in window[r].live
    /\ posts[p].author \in window[r].active /\ posts[p].author \in window[r].followed

LEMMA ReadMoves ==
    ASSUME ReadsInv, RowsStay, Observe, NEW r \in Reads, NEW k \in Timeline!ReadStates,
           feed' = [feed EXCEPT ![r] = k],
           k.pc = "posts" => k.following \subseteq NowFollowed(feed[r].user)
                             /\ UNCHANGED followers /\ k.user = feed[r].user,
           \A p \in k.result : Ripe(r, p)
    PROVE  ReadsInv'
<1>1. /\ feed' \in [Reads -> Timeline!ReadStates] /\ feed'[r] = k
      /\ \A q \in Reads : q # r => feed'[q] = feed[q]
    BY DEF ReadsInv
<1>2. ASSUME NEW q \in Reads, q # r PROVE ReadInv(q)'
    BY <1>1, <1>2, ReadKept DEF ReadsInv
<1>3. k.pc \in {"following", "posts"} =>
            /\ NowLive' \subseteq window'[r].live
            /\ NowActive' \subseteq window'[r].active
            /\ {a \in Authors : k.user \in followers'[a]} \subseteq window'[r].followed
    BY <1>1, ObserveStep
<1>4. k.pc = "posts" => k.following \subseteq window'[r].followed
    BY <1>3 DEF NowFollowed
<1>5. ASSUME NEW p \in k.result
      PROVE  /\ p \in Posts /\ posts'[p] # Post!NoRow /\ p \in window'[r].live
             /\ posts'[p].author \in window'[r].active /\ posts'[p].author \in window'[r].followed
    BY <1>5, ObserveStep DEF Ripe, RowsStay, Post!Saved
<1>6. ReadInv(r)'
    BY <1>1, <1>3, <1>4, <1>5 DEF ReadInv, NowFollowed, Post!Saved
<1> QED
    BY <1>1, <1>2, <1>6 DEF ReadsInv

LEMMA ReadStepInv == ASSUME PostInv, ReadsInv, RowsStay, ReadStep PROVE ReadsInv'
<1> PICK r \in Reads : Timeline!ReadNext(r)
    BY DEF ReadStep
<1> DEFINE row == feed[r]
<1>1. /\ feed \in [Reads -> Timeline!ReadStates] /\ row \in Timeline!ReadStates /\ Observe
      /\ UNCHANGED <<status, posts, followers>> /\ ReadInv(r)
    BY ReadStepKeeps DEF ReadsInv, ReadStep
<1>2. \A p \in row.result : Ripe(r, p)
    BY <1>1 DEF ReadInv, Ripe
<1>3. ASSUME NEW u \in Users, Timeline!BeginRead(r, u) PROVE ReadsInv'
  <2> DEFINE k1 == [row EXCEPT !.pc = "following"]
             k == [k1 EXCEPT !.user = u]
  <2>1. feed' = [feed EXCEPT ![r] = k]
      BY <1>1, <1>3 DEF Timeline!BeginRead
  <2>2. k1 \in Timeline!ReadStates /\ k1.pc = "following" /\ k1.result = row.result
      BY <1>1 DEF Timeline!ReadStates
  <2> HIDE DEF k1
  <2>3. k \in Timeline!ReadStates /\ k.pc = "following" /\ k.result = row.result
      BY <2>2 DEF Timeline!ReadStates
  <2> HIDE DEF k
  <2> QED
      BY <1>1, <1>2, <2>1, <2>3, ReadMoves
<1>4. CASE Timeline!GetFollowing(r)
  <2> DEFINE names == {a \in Authors : row.user \in followers[a]}
             label == IF names = {} THEN "done" ELSE "posts"
             k1 == [row EXCEPT !.pc = label]
             k == [k1 EXCEPT !.following = names]
  <2>1. feed' = [feed EXCEPT ![r] = k]
      BY <1>1, <1>4 DEF Timeline!GetFollowing
  <2>2. names = NowFollowed(row.user) /\ names \subseteq Authors
      BY DEF NowFollowed
  <2> HIDE DEF names
  <2>3. k1 \in Timeline!ReadStates /\ k1.result = row.result /\ k1.user = row.user
      BY <1>1 DEF Timeline!ReadStates
  <2> HIDE DEF k1
  <2>4. k \in Timeline!ReadStates /\ k.result = row.result /\ k.user = row.user /\ k.following = names
      BY <2>2, <2>3 DEF Timeline!ReadStates
  <2> HIDE DEF k
  <2> QED
      BY <1>1, <1>2, <2>1, <2>2, <2>4, ReadMoves
<1>5. CASE Timeline!QueryPosts(r)
  <2> DEFINE eligible == {p \in Posts : Timeline!Eligible(p, row.following)}
  <2> PICK page \in Timeline!Page(eligible) :
        feed' = [feed EXCEPT ![r].pc = "done", ![r].result = page]
      BY <1>5 DEF Timeline!QueryPosts
  <2> DEFINE k1 == [row EXCEPT !.pc = "done"]
             k == [k1 EXCEPT !.result = page]
  <2>1. page \subseteq eligible
      BY DEF Timeline!Page
  <2>2. feed' = [feed EXCEPT ![r] = k]
      BY <1>1
  <2>3. k1 \in Timeline!ReadStates /\ k1.pc = "done"
      BY <1>1 DEF Timeline!ReadStates
  <2> HIDE DEF k1
  <2>4. k \in Timeline!ReadStates /\ k.pc = "done" /\ k.result = page
      BY <2>1, <2>3 DEF Timeline!ReadStates
  <2> HIDE DEF k
  <2>5. ASSUME NEW p \in page PROVE Ripe(r, p)
    <3>1. /\ p \in Posts /\ posts[p].author \in row.following
          /\ status[posts[p].author] = "active" /\ ~posts[p].deleted
        BY <2>1, <2>5 DEF Timeline!Eligible
    <3>2. row.following \subseteq Authors
        BY <1>1 DEF Timeline!ReadStates
    <3>3. Post!Saved(p) /\ posts[p].author \in Authors
        BY <3>1, <3>2, RowFields DEF PostInv
    <3>4. p \in NowLive /\ posts[p].author \in NowActive
        BY <3>1, <3>3 DEF NowLive, NowActive
    <3>5. row.pc = "posts"
        BY <1>5 DEF Timeline!QueryPosts, Timeline!AtRead
    <3>6. /\ NowLive \subseteq window[r].live /\ NowActive \subseteq window[r].active
          /\ row.following \subseteq window[r].followed
        BY <1>1, <3>5 DEF ReadInv
    <3> QED
        BY <3>1, <3>3, <3>4, <3>6 DEF Ripe
  <2> QED
      BY <1>1, <2>2, <2>4, <2>5, ReadMoves
<1>6. CASE Timeline!ReadFails(r)
  <2> DEFINE k == [row EXCEPT !.pc = "failed"]
  <2>1. feed' = [feed EXCEPT ![r] = k]
      BY <1>1, <1>6 DEF Timeline!ReadFails
  <2>2. k \in Timeline!ReadStates /\ k.pc = "failed" /\ k.result = row.result
      BY <1>1 DEF Timeline!ReadStates
  <2> HIDE DEF k
  <2> QED
      BY <1>1, <1>2, <2>1, <2>2, ReadMoves
<1> QED
    BY <1>3, <1>4, <1>5, <1>6 DEF Timeline!ReadNext

LEMMA ReadsStepInv == Inv /\ ReadsInv /\ [Next]_vars => ReadsInv'
<1> SUFFICES ASSUME Inv, ReadsInv, [Next]_vars PROVE ReadsInv'
    OBVIOUS
<1>1. RowsStay
    BY RefinedStep, PostStepRows DEF Inv
<1>2. CASE PostStep \/ WorkerStep \/ FollowStep \/ AdminStep
  <2>1. Observe /\ UNCHANGED feed
      BY <1>2 DEF PostStep, WorkerStep, FollowStep, AdminStep
  <2> QED
      BY <1>1, <2>1, ReadKept DEF ReadsInv
<1>3. CASE ReadStep
    BY <1>1, <1>3, ReadStepInv DEF Inv
<1>4. CASE UNCHANGED vars
    BY <1>4 DEF vars, ReadsInv, ReadInv, NowLive, NowActive, NowFollowed, Post!Saved
<1> QED
    BY <1>2, <1>3, <1>4 DEF Next

LEMMA ReadsInvInit == Init => ReadsInv
BY DEF Init, ReadsInv, ReadInv, Timeline!IdleRead, Timeline!ReadStates

(* A read never returns a post that was deleted, whose author was not      *)
(* active, or whom the reader did not follow, for as long as it ran.       *)
THEOREM ReadsOnlyCurrent == Spec => []ReadsAreCurrent
<1>1. ReadsInv => ReadsAreCurrent
    BY DEF ReadsInv, ReadInv, ReadsAreCurrent
<1>2. Spec => []ReadsInv
    BY ReadsInvInit, ReadsStepInv, InvAlways, PTL DEF Spec
<1> QED
    BY <1>1, <1>2, PTL

-----------------------------------------------------------------------------
(* What the workers have in their hands: entries of the stream, and users  *)
(* who follow their author as long as nobody follows or unfollows.         *)
HandsTypeOK ==
    /\ now \in Nat /\ changes \in Nat /\ delivered \in Nat /\ groupUp \in BOOLEAN
    /\ pc \in [Workers -> Worker!PCs]
    /\ inbox \in [Workers -> Worker!Inboxes]
    /\ job \in [Workers -> Worker!Jobs]
    /\ timelines \in [Users -> Worker!Timelines]

(* The commands a pipeline sends for one follower. *)
PerFollower == {"zadd", "trim", "expire"}

InHand(w) ==
    /\ inbox[w].next >= 1 /\ inbox[w].last <= delivered
    /\ pc[w] # "off" => groupUp
    /\ pc[w] \notin Worker!Idle => inbox[w].next <= inbox[w].last
    /\ pc[w] \in PerFollower => job[w].todo # {}
    /\ pc[w] \in Worker!Writing => job[w].batch # {}
    /\ changes = 0 /\ pc[w] \in Worker!Writing =>
         job[w].batch \cup job[w].todo \subseteq followers[Worker!Author(w)]

HandsInv ==
    /\ HandsTypeOK
    /\ delivered <= Len(stream) /\ (~groupUp => delivered = 0)
    /\ \A w \in Workers : InHand(w)

(* A worker goes on: it keeps what it has, puts the first entry away, dies,*)
(* or takes entries never delivered before.                                *)
GoesOn(w, label, box, k) ==
    /\ label \in Worker!PCs /\ box \in Worker!Inboxes /\ k \in Worker!Jobs
    /\ pc' = [pc EXCEPT ![w] = label]
    /\ inbox' = [inbox EXCEPT ![w] = box]
    /\ job' = [job EXCEPT ![w] = k]
    /\ delivered' \in delivered .. Len(stream)
    /\ box.next >= 1 /\ box.last <= delivered'
    /\ \A i \in box.next .. box.last : i \in Worker!Held(w) \/ i > delivered
    /\ label \notin Worker!Idle => box.next <= box.last
    /\ label \in PerFollower => k.todo # {}
    /\ label \in Worker!Writing => k.batch # {}
    /\ label \in Worker!Writing /\ changes = 0 =>
         k.batch \cup k.todo \subseteq followers[stream[box.next].author]

(* The group is there from the first start of a worker on.                 *)
GroupStays(w) ==
    /\ groupUp' \in BOOLEAN /\ (groupUp => groupUp')
    /\ pc[w] = "off" => groupUp' \/ UNCHANGED <<pc, delivered>>

LEMMA HandTypes ==
    ASSUME HandsInv, NEW w \in Workers
    PROVE  /\ pc[w] \in Worker!PCs /\ inbox[w] \in Worker!Inboxes /\ job[w] \in Worker!Jobs
           /\ inbox[w].next \in Nat \ {0} /\ inbox[w].last \in Nat
           /\ delivered \in Nat /\ inbox[w].last <= delivered /\ InHand(w)
           /\ delivered <= Len(stream)
BY DEF HandsInv, HandsTypeOK, InHand, Worker!Inboxes

(* Its place only, or what main does beside it. *)
LEMMA StandsStill ==
    ASSUME HandsInv, NEW w \in Workers, UNCHANGED <<pc, inbox, job, delivered>>,
           Len(stream) \in Nat
    PROVE  \E label, box, k : GoesOn(w, label, box, k)
<1>1. pc' = [pc EXCEPT ![w] = pc[w]] /\ inbox' = [inbox EXCEPT ![w] = inbox[w]]
      /\ job' = [job EXCEPT ![w] = job[w]]
    BY DEF HandsInv, HandsTypeOK
<1>2. /\ delivered' \in delivered .. Len(stream) /\ delivered' = delivered
      /\ \A i \in inbox[w].next .. inbox[w].last : i \in Worker!Held(w)
    BY HandTypes DEF Worker!Held
<1>3. GoesOn(w, pc[w], inbox[w], job[w])
    BY <1>1, <1>2, HandTypes DEF GoesOn, InHand, Worker!Author, Worker!Current
<1> QED
    BY <1>3

(* To a place where nothing is in hand. *)
LEMMA GoesIdle ==
    ASSUME HandsInv, NEW w \in Workers, NEW label \in Worker!Idle, UNCHANGED <<inbox, job>>,
           pc' = [pc EXCEPT ![w] = label], delivered' \in delivered .. Len(stream),
           Len(stream) \in Nat
    PROVE  \E l, box, k : GoesOn(w, l, box, k)
<1>1. inbox' = [inbox EXCEPT ![w] = inbox[w]] /\ job' = [job EXCEPT ![w] = job[w]]
    BY DEF HandsInv, HandsTypeOK
<1>2. inbox[w].last <= delivered' /\ label \in Worker!PCs /\ label \notin Worker!Writing
      /\ label \notin PerFollower
    BY HandTypes DEF Worker!PCs, Worker!Idle, Worker!Writing, PerFollower
<1>3. \A i \in inbox[w].next .. inbox[w].last : i \in Worker!Held(w)
    BY DEF Worker!Held
<1>4. GoesOn(w, label, inbox[w], job[w])
    BY <1>1, <1>2, <1>3, HandTypes DEF GoesOn, InHand
<1> QED
    BY <1>4

(* To another place with the same entry in hand. *)
LEMMA GoesBusy ==
    ASSUME HandsInv, NEW w \in Workers, NEW label \in Worker!PCs \ Worker!Idle,
           pc[w] \notin Worker!Idle, NEW k \in Worker!Jobs, job' = [job EXCEPT ![w] = k],
           UNCHANGED <<inbox, delivered>>, pc' = [pc EXCEPT ![w] = label],
           Len(stream) \in Nat,
           label \in PerFollower => k.todo # {},
           label \in Worker!Writing => k.batch # {},
           label \in Worker!Writing /\ changes = 0 =>
             k.batch \cup k.todo \subseteq followers[Worker!Author(w)]
    PROVE  \E l, box, j : GoesOn(w, l, box, j)
<1>1. inbox' = [inbox EXCEPT ![w] = inbox[w]]
    BY DEF HandsInv, HandsTypeOK
<1>2. /\ delivered' \in delivered .. Len(stream) /\ delivered' = delivered
      /\ \A i \in inbox[w].next .. inbox[w].last : i \in Worker!Held(w)
      /\ inbox[w].next <= inbox[w].last /\ inbox[w].next >= 1 /\ inbox[w].last <= delivered
      /\ inbox[w] \in Worker!Inboxes
    BY HandTypes DEF Worker!Held, InHand
<1>3. label \in Worker!Writing /\ changes = 0 =>
        k.batch \cup k.todo \subseteq followers[stream[inbox[w].next].author]
    BY DEF Worker!Author, Worker!Current
<1>4. label \in Worker!PCs /\ label \notin Worker!Idle
    OBVIOUS
<1>5. GoesOn(w, label, inbox[w], k)
    BY <1>1, <1>2, <1>3, <1>4 DEF GoesOn
<1> QED
    BY <1>5

LEMMA NoJobType == Worker!NoJob \in Worker!Jobs /\ Worker!NoInbox \in Worker!Inboxes
BY DEF Worker!NoJob, Worker!Jobs, Worker!NoInbox, Worker!Inboxes

(* To the next entry of the inbox, or to the next read. *)
LEMMA GoesToNext ==
    ASSUME HandsInv, NEW w \in Workers, Worker!NextEntry(w), pc[w] \notin Worker!Idle,
           UNCHANGED delivered, Len(stream) \in Nat
    PROVE  \E label, box, k : GoesOn(w, label, box, k)
<1> DEFINE box == [inbox[w] EXCEPT !.next = inbox[w].next + 1]
           label == IF inbox[w].next < inbox[w].last THEN "entry" ELSE "loop"
<1>1. /\ inbox' = [inbox EXCEPT ![w] = box] /\ pc' = [pc EXCEPT ![w] = label]
      /\ job' = [job EXCEPT ![w] = Worker!NoJob]
    BY DEF Worker!NextEntry, Worker!Goto, HandsInv, HandsTypeOK
<1>2. box \in Worker!Inboxes /\ box.next = inbox[w].next + 1 /\ box.last = inbox[w].last
    BY HandTypes DEF Worker!Inboxes
<1>3. label \in Worker!PCs /\ label \notin Worker!Writing /\ label \notin PerFollower
      /\ (label \notin Worker!Idle => inbox[w].next < inbox[w].last)
    BY DEF Worker!PCs, Worker!Idle, Worker!Writing, PerFollower
<1> HIDE DEF box, label
<1>4. /\ delivered' \in delivered .. Len(stream) /\ delivered' = delivered
      /\ \A i \in box.next .. box.last : i \in Worker!Held(w)
      /\ box.next >= 1 /\ box.last <= delivered
      /\ label \notin Worker!Idle => box.next <= box.last
    BY <1>2, <1>3, HandTypes DEF Worker!Held
<1>5. GoesOn(w, label, box, Worker!NoJob)
    BY <1>1, <1>2, <1>3, <1>4, NoJobType DEF GoesOn
<1> QED
    BY <1>5

LEMMA ReadTakes ==
    ASSUME HandsInv, Len(stream) \in Nat, Worker!Deliver(Worker!ReadLimit)
    PROVE  /\ Worker!ReadLimit \in Nat /\ delivered + 1 <= Worker!ReadLimit
           /\ delivered' = Worker!ReadLimit /\ delivered' \in delivered .. Len(stream)
BY PipelineAssumption DEF HandsInv, HandsTypeOK, Worker!Deliver, Worker!ReadLimit

LEMMA ReadGoesOn ==
    ASSUME HandsInv, NEW w \in Workers, Worker!Read(w), Len(stream) \in Nat
    PROVE  \E label, box, k : GoesOn(w, label, box, k)
<1> DEFINE box == [next |-> delivered + 1, last |-> Worker!ReadLimit]
<1>1. /\ Worker!ReadLimit \in Nat /\ delivered + 1 <= Worker!ReadLimit
      /\ delivered' = Worker!ReadLimit /\ delivered' \in delivered .. Len(stream)
    BY ReadTakes DEF Worker!Read
<1>2. /\ inbox' = [inbox EXCEPT ![w] = box] /\ pc' = [pc EXCEPT ![w] = "entry"]
      /\ job' = [job EXCEPT ![w] = job[w]]
    BY DEF Worker!Read, Worker!Goto, HandsInv, HandsTypeOK
<1>3. /\ box \in Worker!Inboxes /\ box.next = delivered + 1 /\ box.last = Worker!ReadLimit
    BY <1>1, HandTypes DEF Worker!Inboxes
<1>4. "entry" \in Worker!PCs /\ "entry" \notin Worker!Writing /\ "entry" \notin PerFollower
    BY DEF Worker!PCs, Worker!Writing, PerFollower
<1> HIDE DEF box
<1>5. /\ \A i \in box.next .. box.last : i > delivered
      /\ box.next >= 1 /\ box.last <= delivered' /\ box.next <= box.last
    BY <1>1, <1>3, HandTypes
<1>6. GoesOn(w, "entry", box, job[w])
    BY <1>1, <1>2, <1>3, <1>4, <1>5, HandTypes DEF GoesOn
<1> QED
    BY <1>6

LEMMA DieGoesOn ==
    ASSUME HandsInv, NEW w \in Workers, Worker!Die(w), Len(stream) \in Nat
    PROVE  \E label, box, k : GoesOn(w, label, box, k)
<1>1. /\ inbox' = [inbox EXCEPT ![w] = Worker!NoInbox] /\ pc' = [pc EXCEPT ![w] = "off"]
      /\ job' = [job EXCEPT ![w] = Worker!NoJob] /\ delivered' = delivered
    BY DEF Worker!Die, Worker!Goto, Worker!group
<1>2. "off" \in Worker!PCs /\ "off" \in Worker!Idle /\ "off" \notin Worker!Writing
      /\ "off" \notin PerFollower
    BY DEF Worker!PCs, Worker!Writing, PerFollower, Worker!Idle
<1>3. Worker!NoInbox.next = 1 /\ Worker!NoInbox.last = 0 /\ 1 .. 0 = {}
    BY DEF Worker!NoInbox
<1>4. delivered' \in delivered .. Len(stream) /\ delivered \in Nat
    BY <1>1, HandTypes
<1>5. GoesOn(w, "off", Worker!NoInbox, Worker!NoJob)
    BY <1>1, <1>2, <1>3, <1>4, NoJobType DEF GoesOn
<1> QED
    BY <1>5

LEMMA JobFields ==
    ASSUME HandsInv, NEW w \in Workers
    PROVE  /\ job[w].pages \in Nat /\ job[w].page \in Nat /\ job[w].stamp \in Nat
           /\ job[w].batch \subseteq Users /\ job[w].todo \subseteq Users
BY HandTypes DEF Worker!Jobs

LEMMA PagesAreCounted == \A n \in Nat : Worker!PageCount(n) \in Nat
<1> SUFFICES ASSUME NEW n \in Nat PROVE (n + BatchSize - 1) \div BatchSize \in Nat
    BY DEF Worker!PageCount
<1>1. BatchSize \in Nat /\ BatchSize > 0
    BY PipelineAssumption
<1> HIDE DEF Worker!PageCount
<1>2. n + BatchSize - 1 \in Nat
    BY <1>1
<1>3. \A m, d \in Nat : d > 0 => m \div d \in Nat
    OBVIOUS
<1> QED
    BY <1>1, <1>2, <1>3

LEMMA CountGoesOn ==
    ASSUME HandsInv, TaskInv, NEW w \in Workers, Worker!Count(w), Len(stream) \in Nat,
           Worker!Author(w) \in Authors
    PROVE  \E label, box, k : GoesOn(w, label, box, k)
<1> DEFINE rows == followers[Worker!Author(w)]
           n == Worker!PageCount(Worker!Cardinality(rows))
           k == [Worker!NoJob EXCEPT !.pages = n]
           label == IF rows = {} THEN "ack" ELSE "page"
<1>1. rows \subseteq Users
    BY DEF TaskInv
<1>2. n \in Nat
  <2>1. IsFiniteSet(rows)
      BY <1>1, PipelineAssumption, FS_Subset
  <2>2. Worker!Cardinality(rows) \in Nat
      BY <2>1, FS_CardinalityType DEF Cardinality, Worker!Cardinality
  <2> QED
      BY <2>2, PagesAreCounted
<1>3. k \in Worker!Jobs
    BY <1>2 DEF Worker!NoJob, Worker!Jobs
<1>4. /\ job' = [job EXCEPT ![w] = k] /\ pc' = [pc EXCEPT ![w] = label]
      /\ pc[w] = "entry" /\ UNCHANGED <<inbox, delivered>>
  <2>1. job' = [job EXCEPT ![w] = k]
      BY Zenon DEF Worker!Count
  <2> QED
      BY <2>1 DEF Worker!Count, Worker!Goto, Worker!At, Worker!group
<1>5. /\ label \in Worker!PCs \ Worker!Idle /\ label \notin Worker!Writing /\ label \notin PerFollower
      /\ "entry" \notin Worker!Idle
    BY DEF Worker!PCs, Worker!Writing, PerFollower, Worker!Idle
<1> HIDE DEF k, label
<1> QED
    BY <1>3, <1>4, <1>5, GoesBusy

LEMMA NextPageGoesOn ==
    ASSUME HandsInv, NEW w \in Workers, Worker!NextPage(w), pc[w] \notin Worker!Idle,
           UNCHANGED <<inbox, delivered>>, Len(stream) \in Nat
    PROVE  \E label, box, k : GoesOn(w, label, box, k)
<1> DEFINE k1 == [job[w] EXCEPT !.page = job[w].page + 1]
           k2 == [k1 EXCEPT !.batch = {}]
           k3 == [k2 EXCEPT !.todo = {}]
           label == IF job[w].page + 1 < job[w].pages THEN "page" ELSE "ack"
<1>1. job' = [job EXCEPT ![w] = k3] /\ pc' = [pc EXCEPT ![w] = label]
    BY DEF Worker!NextPage, Worker!Goto, HandsInv, HandsTypeOK
<1>2. k1 \in Worker!Jobs
    BY HandTypes, JobFields DEF Worker!Jobs
<1> HIDE DEF k1
<1>3. k2 \in Worker!Jobs
    BY <1>2 DEF Worker!Jobs
<1> HIDE DEF k2
<1>4. k3 \in Worker!Jobs
    BY <1>3 DEF Worker!Jobs
<1>5. label \in Worker!PCs \ Worker!Idle /\ label \notin Worker!Writing /\ label \notin PerFollower
    BY DEF Worker!PCs, Worker!Writing, PerFollower, Worker!Idle
<1> HIDE DEF k3, label
<1> QED
    BY <1>1, <1>4, <1>5, GoesBusy

LEMMA FetchPageGoesOn ==
    ASSUME HandsInv, TaskInv, NEW w \in Workers, Worker!FetchPage(w), Len(stream) \in Nat,
           Worker!Author(w) \in Authors
    PROVE  \E label, box, k : GoesOn(w, label, box, k)
<1> DEFINE rows == Worker!PageOf(followers[Worker!Author(w)], job[w].page * BatchSize, BatchSize)
<1>1. rows \subseteq followers[Worker!Author(w)] /\ rows \subseteq Users
    BY DEF TaskInv, Worker!PageOf
<1>2. pc[w] = "page" /\ pc[w] \notin Worker!Idle /\ UNCHANGED <<inbox, delivered>>
    BY DEF Worker!FetchPage, Worker!At, Worker!group, Worker!Idle
<1>3. \/ Worker!NextPage(w)
      \/ /\ rows # {} /\ pc' = [pc EXCEPT ![w] = "zadd"]
         /\ job' = [job EXCEPT ![w].batch = rows, ![w].todo = rows, ![w].stamp = now]
    BY DEF Worker!FetchPage, Worker!Goto
<1> HIDE DEF rows
<1>4. CASE Worker!NextPage(w)
    BY <1>2, <1>4, NextPageGoesOn
<1>5. ASSUME rows # {}, pc' = [pc EXCEPT ![w] = "zadd"],
             job' = [job EXCEPT ![w].batch = rows, ![w].todo = rows, ![w].stamp = now]
      PROVE  \E label, box, k : GoesOn(w, label, box, k)
  <2> DEFINE k1 == [job[w] EXCEPT !.batch = rows]
             k2 == [k1 EXCEPT !.todo = rows]
             k3 == [k2 EXCEPT !.stamp = now]
  <2>1. job' = [job EXCEPT ![w] = k3]
      BY <1>5 DEF HandsInv, HandsTypeOK
  <2>2. k1 \in Worker!Jobs /\ k1.batch = rows
      BY <1>1, HandTypes DEF Worker!Jobs
  <2> HIDE DEF k1
  <2>3. k2 \in Worker!Jobs /\ k2.batch = rows /\ k2.todo = rows
      BY <1>1, <2>2 DEF Worker!Jobs
  <2> HIDE DEF k2
  <2>4. k3 \in Worker!Jobs /\ k3.batch = rows /\ k3.todo = rows
      BY <2>3 DEF Worker!Jobs, HandsInv, HandsTypeOK
  <2>5. "zadd" \in Worker!PCs \ Worker!Idle
      BY DEF Worker!PCs, Worker!Writing, Worker!Idle
  <2> HIDE DEF k3
  <2> QED
      BY <1>1, <1>2, <1>5, <2>1, <2>4, <2>5, GoesBusy
<1> QED
    BY <1>3, <1>4, <1>5

(* A command of the pipeline. *)
LEMMA WritingFacts ==
    ASSUME HandsInv, NEW w \in Workers, pc[w] \in Worker!Writing
    PROVE  /\ pc[w] \notin Worker!Idle /\ job[w].batch # {}
           /\ pc[w] \in PerFollower => job[w].todo # {}
           /\ changes = 0 => job[w].batch \cup job[w].todo \subseteq followers[Worker!Author(w)]
           /\ job' = job => job' = [job EXCEPT ![w] = job[w]]
<1>1. pc[w] \notin Worker!Idle
    BY DEF Worker!Writing, Worker!Idle
<1>2. job' = job => job' = [job EXCEPT ![w] = job[w]]
    BY DEF HandsInv, HandsTypeOK
<1> QED
    BY <1>1, <1>2, HandTypes DEF InHand

LEMMA ZAddGoesOn ==
    ASSUME HandsInv, NEW w \in Workers, Worker!ZAddNext(w) \/ Worker!TrimNext(w),
           Len(stream) \in Nat
    PROVE  \E label, box, k : GoesOn(w, label, box, k)
<1>1. PICK label \in {"trim", "expire"} :
        /\ pc' = [pc EXCEPT ![w] = label] /\ pc[w] \in PerFollower
        /\ UNCHANGED <<inbox, delivered, job>>
    BY DEF Worker!ZAddNext, Worker!TrimNext, Worker!Goto, Worker!At, Worker!group, PerFollower
<1>2. /\ pc[w] \in Worker!Writing /\ label \in Worker!PCs \ Worker!Idle
      /\ job[w] \in Worker!Jobs
    BY <1>1, HandTypes DEF Worker!PCs, Worker!Writing, PerFollower, Worker!Idle
<1> QED
    BY <1>1, <1>2, WritingFacts, GoesBusy

LEMMA ExpireGoesOn ==
    ASSUME HandsInv, NEW w \in Workers, Worker!ExpireNext(w), Len(stream) \in Nat
    PROVE  \E label, box, k : GoesOn(w, label, box, k)
<1> DEFINE rest == job[w].todo \ {Worker!First(job[w].todo)}
           k == [job[w] EXCEPT !.todo = rest]
           label == IF rest = {} THEN "reply" ELSE "zadd"
<1>1. /\ pc' = [pc EXCEPT ![w] = label] /\ pc[w] = "expire"
      /\ job' = [job EXCEPT ![w] = k] /\ UNCHANGED <<inbox, delivered>>
    BY DEF Worker!ExpireNext, Worker!Goto, Worker!At, Worker!group, HandsInv, HandsTypeOK
<1>2. rest \subseteq job[w].todo /\ rest \subseteq Users
    BY JobFields
<1>3. (label \in PerFollower => rest # {}) /\ label \in Worker!PCs \ Worker!Idle
    BY DEF Worker!PCs, Worker!Writing, PerFollower, Worker!Idle
<1> HIDE DEF rest, label
<1>4. k \in Worker!Jobs /\ k.todo = rest /\ k.batch = job[w].batch
    BY <1>2, HandTypes DEF Worker!Jobs
<1> HIDE DEF k
<1>5. pc[w] \in Worker!Writing
    BY <1>1 DEF Worker!Writing
<1>6. pc[w] \notin Worker!Idle /\ k.batch # {}
      /\ (changes = 0 => k.batch \cup k.todo \subseteq followers[Worker!Author(w)])
    BY <1>2, <1>4, <1>5, WritingFacts
<1> QED
    BY <1>1, <1>3, <1>4, <1>6, GoesBusy

LEMMA RetryGoesOn ==
    ASSUME HandsInv, NEW w \in Workers, Worker!PipelineRetried(w), Len(stream) \in Nat
    PROVE  \E label, box, k : GoesOn(w, label, box, k)
<1> DEFINE k == [job[w] EXCEPT !.todo = job[w].batch]
<1>1. /\ pc' = [pc EXCEPT ![w] = "zadd"] /\ pc[w] \in Worker!Writing
      /\ job' = [job EXCEPT ![w] = k] /\ UNCHANGED <<inbox, delivered>>
    BY DEF Worker!PipelineRetried, Worker!Goto, Worker!group, HandsInv, HandsTypeOK
<1>2. k \in Worker!Jobs /\ k.todo = job[w].batch /\ k.batch = job[w].batch
    BY HandTypes, JobFields DEF Worker!Jobs
<1> HIDE DEF k
<1>3. "zadd" \in Worker!PCs \ Worker!Idle
    BY DEF Worker!PCs, Worker!Writing, Worker!Idle
<1>4. pc[w] \notin Worker!Idle /\ k.batch # {} /\ k.todo # {}
      /\ (changes = 0 => k.batch \cup k.todo \subseteq followers[Worker!Author(w)])
    BY <1>1, <1>2, WritingFacts
<1> QED
    BY <1>1, <1>2, <1>3, <1>4, GoesBusy

(* The steps of a worker that has something in hand. *)
LEMMA BusyGoesOn ==
    ASSUME HandsInv, NEW w \in Workers, Len(stream) \in Nat,
           Worker!SkipMalformed(w) \/ Worker!GiveUp(w) \/ Worker!Ack(w) \/ Worker!AckFails(w)
             \/ Worker!PageDone(w)
    PROVE  \E label, box, k : GoesOn(w, label, box, k)
<1>1. pc[w] \in {"entry", "page", "ack"} \cup Worker!Writing /\ UNCHANGED delivered
    BY DEF Worker!SkipMalformed, Worker!GiveUp, Worker!Ack, Worker!AckFails, Worker!PageDone,
           Worker!At, Worker!group, Worker!Writing
<1>2. pc[w] \notin Worker!Idle
    BY <1>1 DEF Worker!Writing, Worker!Idle
<1>3. Worker!NextEntry(w) \/ (Worker!NextPage(w) /\ UNCHANGED inbox)
    BY DEF Worker!SkipMalformed, Worker!GiveUp, Worker!Ack, Worker!AckFails, Worker!PageDone
<1> QED
    BY <1>1, <1>2, <1>3, GoesToNext, NextPageGoesOn

(* Those of a worker that has nothing. *)
LEMMA IdleGoesOn ==
    ASSUME HandsInv, NEW w \in Workers, Len(stream) \in Nat,
           Worker!Start(w) \/ Worker!Loop(w) \/ Worker!ReadFails(w) \/ Worker!ReadReplyLost(w)
    PROVE  \E label, box, k : GoesOn(w, label, box, k)
<1>1. PICK label \in {"off", "loop", "read"} : pc' = [pc EXCEPT ![w] = label]
    BY DEF Worker!Start, Worker!Loop, Worker!ReadFails, Worker!ReadReplyLost, Worker!Goto
<1>2. UNCHANGED <<inbox, job>> /\ label \in Worker!Idle
    BY DEF Worker!Start, Worker!Loop, Worker!ReadFails, Worker!ReadReplyLost, Worker!Idle
<1>3. delivered' \in delivered .. Len(stream)
  <2>1. CASE Worker!ReadReplyLost(w)
      BY <2>1, ReadTakes DEF Worker!ReadReplyLost
  <2>2. CASE ~Worker!ReadReplyLost(w)
      BY <2>2, HandTypes DEF HandsInv, Worker!Start, Worker!Loop, Worker!ReadFails, Worker!group
  <2> QED
      BY <2>1, <2>2
<1> QED
    BY <1>1, <1>2, <1>3, GoesIdle

LEMMA MainGoesOn ==
    ASSUME HandsInv, NEW w \in Workers, Len(stream) \in Nat,
           Worker!Signal(w) \/ Worker!Shutdown(w) \/ Worker!Crash(w)
    PROVE  \E label, box, k : GoesOn(w, label, box, k)
<1>1. CASE Worker!Die(w)
    BY <1>1, DieGoesOn
<1>2. CASE ~Worker!Die(w)
  <2>1. UNCHANGED <<pc, inbox, job, delivered>>
      BY <1>2 DEF Worker!Signal, Worker!Shutdown, Worker!Crash, Worker!CancelContext,
                  Worker!CloseDB, Worker!CloseRedis, Worker!Close, Worker!Exit, Worker!group
  <2> QED
      BY <2>1, StandsStill
<1> QED
    BY <1>1, <1>2

LEMMA BusyAuthor ==
    ASSUME PostInv, HandsInv, NEW w \in Workers, pc[w] \notin Worker!Idle
    PROVE  /\ Worker!Current(w) \in 1 .. Len(stream) /\ Worker!Current(w) \in Worker!Held(w)
           /\ Worker!Author(w) \in Authors /\ Worker!Post(w) \in Posts
           /\ Worker!Current(w) <= delivered
<1>1. stream \in Seq(Post!Events) /\ Len(stream) \in Nat
    BY DEF PostInv, Post!TypeOK
<1>2. /\ inbox[w].next >= 1 /\ inbox[w].next <= inbox[w].last /\ inbox[w].last <= delivered
      /\ inbox[w].next \in Nat /\ inbox[w].last \in Nat /\ delivered \in Nat
      /\ delivered <= Len(stream)
    BY HandTypes DEF InHand
<1>3. /\ Worker!Current(w) \in 1 .. Len(stream) /\ Worker!Current(w) \in Worker!Held(w)
      /\ Worker!Current(w) <= delivered
    BY <1>1, <1>2 DEF Worker!Current, Worker!Held
<1>4. stream[Worker!Current(w)] \in Post!Events
    BY <1>1, <1>3
<1> QED
    BY <1>3, <1>4 DEF Worker!Author, Worker!Post, Post!Events

LEMMA WorkerGoesOn ==
    ASSUME PostInv, TaskInv, HandsInv, NEW w \in Workers, Worker!WorkerNext(w)
    PROVE  \E label, box, k : GoesOn(w, label, box, k)
<1>1. Len(stream) \in Nat
    BY DEF PostInv, Post!TypeOK
<1>2. CASE Worker!Count(w) \/ Worker!FetchPage(w)
  <2>1. pc[w] \notin Worker!Idle
      BY <1>2 DEF Worker!Count, Worker!FetchPage, Worker!At, Worker!Idle
  <2> QED
      BY <1>1, <1>2, <2>1, BusyAuthor, CountGoesOn, FetchPageGoesOn
<1>3. CASE Worker!Read(w) \/ Worker!ZAddNext(w) \/ Worker!TrimNext(w) \/ Worker!ExpireNext(w)
    BY <1>1, <1>3, ReadGoesOn, ZAddGoesOn, ExpireGoesOn
<1>4. CASE Worker!PipelineRetried(w)
    BY <1>1, <1>4, RetryGoesOn
<1> QED
    BY <1>1, <1>2, <1>3, <1>4, BusyGoesOn, IdleGoesOn, MainGoesOn
       DEF Worker!WorkerNext, Worker!Consume

LEMMA WorkerKeepsGroup ==
    ASSUME HandsInv, NEW w \in Workers, Worker!WorkerNext(w)
    PROVE  GroupStays(w)
<1>1. groupUp \in BOOLEAN /\ pc \in [Workers -> Worker!PCs]
    BY DEF HandsInv, HandsTypeOK
<1>2. CASE Worker!Start(w)
    BY <1>2 DEF Worker!Start, GroupStays
<1>3. CASE Worker!Signal(w) \/ Worker!Shutdown(w) \/ Worker!Crash(w)
  <2>1. UNCHANGED <<groupUp, delivered>> /\ (UNCHANGED pc \/ pc' = [pc EXCEPT ![w] = "off"])
      BY <1>3 DEF Worker!Signal, Worker!Shutdown, Worker!Crash, Worker!CancelContext,
                  Worker!CloseDB, Worker!CloseRedis, Worker!Close, Worker!Exit, Worker!Die,
                  Worker!Goto, Worker!group
  <2> QED
      BY <1>1, <2>1 DEF GroupStays
<1>4. CASE Worker!ReadReplyLost(w) \/ Worker!PipelineRetried(w)
  <2>1. UNCHANGED groupUp /\ pc[w] # "off"
      BY <1>4 DEF Worker!ReadReplyLost, Worker!PipelineRetried, Worker!At, Worker!Writing,
                  Worker!group
  <2> QED
      BY <1>1, <2>1 DEF GroupStays
<1>5. CASE Worker!Consume(w)
  <2>1. CASE Worker!Loop(w) \/ Worker!Read(w) \/ Worker!ReadFails(w) \/ Worker!SkipMalformed(w)
             \/ Worker!Count(w) \/ Worker!FetchPage(w) \/ Worker!ZAddNext(w)
      BY <1>1, <2>1 DEF Worker!Loop, Worker!Read, Worker!ReadFails, Worker!SkipMalformed,
             Worker!Count, Worker!FetchPage, Worker!ZAddNext, Worker!At, Worker!group, GroupStays
  <2>2. CASE Worker!TrimNext(w) \/ Worker!ExpireNext(w) \/ Worker!PageDone(w) \/ Worker!GiveUp(w)
             \/ Worker!Ack(w) \/ Worker!AckFails(w)
      BY <1>1, <2>2 DEF Worker!TrimNext, Worker!ExpireNext, Worker!PageDone, Worker!GiveUp,
             Worker!Ack, Worker!AckFails, Worker!At, Worker!group, Worker!Writing, GroupStays
  <2> QED
      BY <1>5, <2>1, <2>2 DEF Worker!Consume
<1> QED
    BY <1>2, <1>3, <1>4, <1>5 DEF Worker!WorkerNext

-----------------------------------------------------------------------------
(* What a step does to the timelines: the worker's ZADD is the only one    *)
(* that puts anything into them.                                           *)
Adds(w, u, p) ==
    /\ pc[w] = "zadd" /\ u = Worker!First(job[w].todo) /\ p = Worker!Post(w)

OnlyAdds ==
    /\ timelines' \in [Users -> Worker!Timelines]
    /\ \A u \in Users, p \in Posts :
         timelines'[u][p] # 0 => timelines[u][p] # 0 \/ \E w \in Workers : Adds(w, u, p)

LEMMA NothingAdded ==
    ASSUME HandsInv, UNCHANGED timelines
    PROVE  OnlyAdds
BY DEF HandsInv, HandsTypeOK, OnlyAdds

LEMMA OneChanges ==
    ASSUME HandsInv, NEW u \in Users, NEW tl \in Worker!Timelines,
           timelines' = [timelines EXCEPT ![u] = tl],
           \A p \in Posts : tl[p] # 0 => timelines[u][p] # 0 \/ \E w \in Workers : Adds(w, u, p)
    PROVE  OnlyAdds
<1>1. timelines \in [Users -> Worker!Timelines]
    BY DEF HandsInv, HandsTypeOK
<1> QED
    BY <1>1 DEF OnlyAdds

LEMMA TrimShrinks ==
    ASSUME NEW tl \in Worker!Timelines
    PROVE  /\ Worker!Trim(tl) \in Worker!Timelines
           /\ \A p \in Posts : Worker!Trim(tl)[p] # 0 => tl[p] # 0
BY DEF Worker!Trim, Worker!Timelines

LEMMA ZAddWrites ==
    ASSUME PostInv, HandsInv, NEW w \in Workers, Worker!ZAddNext(w)
    PROVE  OnlyAdds
<1> DEFINE u == Worker!First(job[w].todo)
           p == Worker!Post(w)
           old == timelines[u]
           tl == [old EXCEPT ![p] = job[w].stamp]
<1>1. pc[w] = "zadd" /\ pc[w] \notin Worker!Idle /\ pc[w] \in Worker!Writing
    BY DEF Worker!ZAddNext, Worker!At, Worker!Idle, Worker!Writing
<1>2. job[w].todo # {} /\ job[w].todo \subseteq Users /\ job[w].stamp \in Nat
    BY <1>1, WritingFacts, JobFields DEF PerFollower
<1>3. u \in Users /\ p \in Posts
    BY <1>1, <1>2, BusyAuthor DEF Worker!First
<1>4. timelines' = [timelines EXCEPT ![u] = tl]
    BY DEF Worker!ZAddNext, Worker!ZAdd
<1>5. Adds(w, u, p)
    BY <1>1 DEF Adds
<1>6. old \in Worker!Timelines
    BY <1>3 DEF HandsInv, HandsTypeOK
<1> HIDE DEF u, p, old
<1>7. /\ tl \in Worker!Timelines
      /\ \A q \in Posts : tl[q] # 0 => old[q] # 0 \/ q = p
    BY <1>2, <1>3, <1>6 DEF Worker!Timelines
<1> HIDE DEF tl
<1>8. \A q \in Posts : tl[q] # 0 => old[q] # 0 \/ \E v \in Workers : Adds(v, u, q)
    BY <1>5, <1>7
<1> QED
    BY <1>3, <1>4, <1>7, <1>8, OneChanges DEF old

LEMMA TrimWrites ==
    ASSUME HandsInv, NEW w \in Workers, Worker!TrimNext(w)
    PROVE  OnlyAdds
<1> DEFINE u == Worker!First(job[w].todo)
<1>1. pc[w] = "trim" /\ pc[w] \in Worker!Writing
    BY DEF Worker!TrimNext, Worker!At, Worker!Writing
<1>2. job[w].todo # {} /\ job[w].todo \subseteq Users
    BY <1>1, WritingFacts, JobFields DEF PerFollower
<1>3. u \in Users
    BY <1>2 DEF Worker!First
<1>4. timelines' = [timelines EXCEPT ![u] = Worker!Trim(timelines[u])]
    BY DEF Worker!TrimNext
<1> HIDE DEF u
<1>5. timelines[u] \in Worker!Timelines
    BY <1>3 DEF HandsInv, HandsTypeOK
<1> QED
    BY <1>3, <1>4, <1>5, TrimShrinks, OneChanges

LEMMA WorkerWrites ==
    ASSUME PostInv, HandsInv, NEW w \in Workers, Worker!WorkerNext(w)
    PROVE  OnlyAdds /\ UNCHANGED <<now, changes>>
<1>1. CASE Worker!Start(w) \/ Worker!Signal(w) \/ Worker!Crash(w) \/ Worker!Shutdown(w)
           \/ Worker!ReadReplyLost(w) \/ Worker!PipelineRetried(w)
  <2>1. UNCHANGED <<timelines, now, changes>>
      BY <1>1 DEF Worker!Start, Worker!Signal, Worker!Crash, Worker!Shutdown,
           Worker!CancelContext, Worker!CloseDB, Worker!CloseRedis, Worker!Close, Worker!Exit,
           Worker!Die, Worker!ReadReplyLost, Worker!PipelineRetried, Worker!cache, Worker!bounds
  <2> QED
      BY <2>1, NothingAdded
<1>2. CASE Worker!ZAddNext(w) \/ Worker!TrimNext(w)
  <2>1. UNCHANGED <<now, changes>>
      BY <1>2 DEF Worker!ZAddNext, Worker!TrimNext, Worker!bounds
  <2> QED
      BY <1>2, <2>1, ZAddWrites, TrimWrites
<1>3. CASE Worker!Consume(w) /\ ~Worker!ZAddNext(w) /\ ~Worker!TrimNext(w)
  <2>1. CASE Worker!Loop(w) \/ Worker!Read(w) \/ Worker!ReadFails(w) \/ Worker!SkipMalformed(w)
             \/ Worker!Count(w) \/ Worker!FetchPage(w)
    <3>1. UNCHANGED <<timelines, now, changes>>
        BY <2>1 DEF Worker!Loop, Worker!Read, Worker!ReadFails, Worker!SkipMalformed,
             Worker!Count, Worker!FetchPage, Worker!cache, Worker!bounds
    <3> QED
        BY <3>1, NothingAdded
  <2>2. CASE Worker!ExpireNext(w) \/ Worker!PageDone(w) \/ Worker!GiveUp(w)
             \/ Worker!Ack(w) \/ Worker!AckFails(w)
    <3>1. UNCHANGED <<timelines, now, changes>>
        BY <2>2 DEF Worker!ExpireNext, Worker!PageDone, Worker!GiveUp, Worker!Ack,
             Worker!AckFails, Worker!cache, Worker!bounds
    <3> QED
        BY <3>1, NothingAdded
  <2> QED
      BY <1>3, <2>1, <2>2 DEF Worker!Consume
<1> QED
    BY <1>1, <1>2, <1>3 DEF Worker!WorkerNext

(* What the environment of the worker takes out of them. *)
LEMMA EmptyWrites ==
    ASSUME HandsInv, NEW u \in Users, Worker!TimelineExpires(u)
    PROVE  OnlyAdds
<1>1. Worker!NoTimeline \in Worker!Timelines /\ \A p \in Posts : Worker!NoTimeline[p] = 0
    BY DEF Worker!NoTimeline, Worker!Timelines
<1>2. timelines' = [timelines EXCEPT ![u] = Worker!NoTimeline]
    BY DEF Worker!TimelineExpires
<1> QED
    BY <1>1, <1>2, OneChanges

LEMMA RemoveWrites ==
    ASSUME HandsInv, NEW u \in Users, NEW p \in Posts, Admin!Remove(u, p)
    PROVE  /\ OnlyAdds /\ timelines'[u][p] = 0
           /\ \A v \in Users, q \in Posts : timelines'[v][q] # 0 => timelines[v][q] # 0
<1> DEFINE old == timelines[u]
           tl == [old EXCEPT ![p] = 0]
<1>1. timelines' = [timelines EXCEPT ![u] = tl]
    BY DEF Admin!Remove, Admin!ZRem
<1>2. old \in Worker!Timelines /\ timelines \in [Users -> Worker!Timelines]
    BY DEF HandsInv, HandsTypeOK
<1> HIDE DEF old
<1>3. tl \in Worker!Timelines /\ tl[p] = 0 /\ \A q \in Posts : tl[q] # 0 => old[q] # 0
    BY <1>2 DEF Worker!Timelines
<1> HIDE DEF tl
<1>4. OnlyAdds
    BY <1>1, <1>3, OneChanges DEF old
<1> QED
    BY <1>1, <1>2, <1>3, <1>4 DEF old

(* The stream only grows, at its end. *)
Grows ==
    /\ Len(stream) \in Nat /\ Len(stream') \in Nat /\ Len(stream) <= Len(stream')
    /\ \A i \in 1 .. Len(stream) : stream'[i] = stream[i]

LEMMA StreamGrows == ASSUME Inv, [Next]_vars PROVE Grows
<1>0. Len(stream) \in Nat /\ Post!TypeOK
    BY DEF Inv, PostInv, Post!TypeOK
<1>1. CASE UNCHANGED stream
    BY <1>0, <1>1 DEF Grows
<1>2. CASE PostStep
  <2>1. PICK r \in Requests : Post!CallNext(r)
      BY <1>2 DEF PostStep
  <2>2. CASE Post!Publish(r) \/ Post!PublishReplyLost(r)
    <3> DEFINE e == Post!Event(call[r].post, call[r].author)
    <3>1. call[r].pc = "publish" /\ Post!Append1(r)
        BY <2>2 DEF Post!Publish, Post!PublishReplyLost, Post!At
    <3>2. call[r].author \in Authors /\ call[r].post \in Posts
        BY <3>1 DEF Inv, PostInv, CallInv
    <3>3. e \in Post!Events /\ stream' = Append(stream, e)
        BY <3>1, <3>2 DEF Post!Event, Post!Events, Post!Append1
    <3> HIDE DEF e
    <3> QED
        BY <1>0, <3>3, AppendGrows DEF Grows
  <2>3. CASE ~Post!Publish(r) /\ ~Post!PublishReplyLost(r)
      BY <1>1, <2>1, <2>3 DEF Post!CallNext, Post!Step, Post!Submit, Post!CheckStatus, Post!Save,
                Post!CheckFails, Post!SaveFails, Post!PublishFails, Post!CallLost
  <2> QED
      BY <2>2, <2>3
<1>3. CASE ~PostStep
    BY <1>1, <1>3, WorkerStepKeeps, FollowStepKeeps, ReadStepKeeps DEF Next, AdminStep, vars
<1> QED
    BY <1>2, <1>3

(* Steps of the others. *)
LEMMA HandsKept ==
    ASSUME PostInv, HandsInv, Grows, UNCHANGED <<groupUp, delivered, pc, inbox, job>>,
           now' \in Nat, changes' \in Nat, timelines' \in [Users -> Worker!Timelines],
           changes' = 0 => changes = 0 /\ UNCHANGED followers
    PROVE  HandsInv'
<1>1. HandsTypeOK'
    BY DEF HandsInv, HandsTypeOK
<1>2. delivered <= Len(stream') /\ (~groupUp => delivered = 0)
    BY HandTypes DEF HandsInv, HandsTypeOK, Grows
<1>3. ASSUME NEW w \in Workers PROVE InHand(w)'
  <2>1. InHand(w)
      BY DEF HandsInv
  <2>2. ASSUME changes' = 0, pc[w] \in Worker!Writing
        PROVE  job[w].batch \cup job[w].todo \subseteq followers'[stream'[inbox[w].next].author]
    <3>1. pc[w] \notin Worker!Idle
        BY <2>2 DEF Worker!Writing, Worker!Idle
    <3>2. stream'[inbox[w].next] = stream[inbox[w].next]
        BY <3>1, BusyAuthor DEF Grows, Worker!Current
    <3> QED
        BY <2>1, <2>2, <3>2 DEF InHand, Worker!Author, Worker!Current
  <2> QED
      BY <2>1, <2>2 DEF InHand, Worker!Author, Worker!Current
<1> QED
    BY <1>1, <1>2, <1>3 DEF HandsInv

(* Its own. *)
LEMMA HandsMove ==
    ASSUME PostInv, TaskInv, HandsInv, NEW w \in Workers, Worker!WorkerNext(w)
    PROVE  HandsInv'
<1> PICK label, box, k : GoesOn(w, label, box, k)
    BY WorkerGoesOn
<1>1. UNCHANGED <<stream, followers, now, changes>> /\ timelines' \in [Users -> Worker!Timelines]
    BY WorkerReadsStream, WorkerWrites DEF OnlyAdds
<1>2. GroupStays(w)
    BY WorkerKeepsGroup
<1>3. /\ pc \in [Workers -> Worker!PCs] /\ inbox \in [Workers -> Worker!Inboxes]
      /\ job \in [Workers -> Worker!Jobs] /\ delivered \in Nat
      /\ Len(stream) \in Nat
    BY DEF HandsInv, HandsTypeOK, PostInv, Post!TypeOK
<1>4. /\ pc' \in [Workers -> Worker!PCs] /\ inbox' \in [Workers -> Worker!Inboxes]
      /\ job' \in [Workers -> Worker!Jobs]
      /\ pc'[w] = label /\ inbox'[w] = box /\ job'[w] = k
      /\ \A v \in Workers :
           v # w => pc'[v] = pc[v] /\ inbox'[v] = inbox[v] /\ job'[v] = job[v]
    BY <1>3 DEF GoesOn
<1>5. delivered' \in Nat /\ delivered <= delivered' /\ delivered' <= Len(stream)
    BY <1>3 DEF GoesOn
<1>6. HandsTypeOK'
    BY <1>1, <1>2, <1>4, <1>5 DEF HandsInv, HandsTypeOK, GroupStays
<1>7. ~groupUp' => delivered' = 0
  <2> SUFFICES ASSUME ~groupUp' PROVE delivered' = 0
      OBVIOUS
  <2>1. ~groupUp /\ pc[w] = "off" /\ delivered = 0
      BY <1>2, HandTypes DEF GroupStays, InHand, HandsInv
  <2> QED
      BY <1>2, <2>1 DEF GroupStays
<1>8. pc'[w] # "off" => groupUp'
    BY <1>2, HandTypes DEF GroupStays, InHand
<1>9. InHand(w)'
    BY <1>1, <1>4, <1>8 DEF InHand, GoesOn, Worker!Author, Worker!Current
<1>10. ASSUME NEW v \in Workers, v # w PROVE InHand(v)'
  <2>1. InHand(v) /\ inbox[v].last \in Nat /\ (pc[v] # "off" => groupUp')
      BY <1>2, HandTypes DEF InHand, GroupStays
  <2>2. inbox[v].last <= delivered'
      BY <1>3, <1>5, <2>1 DEF InHand
  <2> QED
      BY <1>1, <1>4, <1>10, <2>1, <2>2 DEF InHand, Worker!Author, Worker!Current
<1> QED
    BY <1>1, <1>5, <1>6, <1>7, <1>9, <1>10 DEF HandsInv

(* Who does what to the timelines and the counts. *)
LEMMA ChangesCount ==
    ASSUME Inv, HandsInv, [Next]_vars
    PROVE  /\ OnlyAdds /\ now' \in Nat /\ changes' \in Nat
           /\ changes' = 0 => changes = 0 /\ UNCHANGED followers
<1>1. now \in Nat /\ changes \in Nat
    BY DEF HandsInv, HandsTypeOK
<1>2. CASE UNCHANGED <<timelines, now, changes, followers>>
    BY <1>1, <1>2, NothingAdded
<1>3. CASE WorkerStep
  <2>1. ASSUME NEW w \in Workers, Worker!WorkerNext(w)
        PROVE  OnlyAdds /\ UNCHANGED <<now, changes, followers>>
      BY <2>1, WorkerReadsStream, WorkerWrites DEF Inv
  <2>2. ASSUME NEW u \in Users, Worker!TimelineExpires(u)
        PROVE  OnlyAdds /\ UNCHANGED <<now, changes, followers>>
      BY <2>2, EmptyWrites DEF Worker!TimelineExpires, Worker!bounds, Worker!mysql
  <2>3. CASE Worker!Tick
    <3>1. UNCHANGED <<timelines, changes, followers>> /\ now' = now + 1
        BY <2>3 DEF Worker!Tick, Worker!cache, Worker!mysql
    <3> QED
        BY <1>1, <3>1, NothingAdded
  <2> QED
      BY <1>1, <1>3, <2>1, <2>2, <2>3 DEF WorkerStep
<1>4. CASE FollowStep
  <2>1. changes' = changes + 1 /\ UNCHANGED <<timelines, now>>
      BY <1>4 DEF FollowStep, Worker!Follow, Worker!Unfollow, Worker!cache
  <2> QED
      BY <1>1, <2>1, NothingAdded
<1>5. CASE AdminStep
  <2>1. PICK t \in Tasks : Admin!TaskNext(t)
      BY <1>5 DEF AdminStep
  <2>2. UNCHANGED <<now, changes, followers>>
      BY <1>5, <2>1, AdminRows DEF AdminStep, workerState, Inv
  <2>3. OnlyAdds
      BY <2>1, AdminRemoves, RemoveWrites, NothingAdded DEF Inv
  <2> QED
      BY <1>1, <2>2, <2>3
<1>6. CASE PostStep \/ ReadStep \/ UNCHANGED vars
    BY <1>2, <1>6, ReadStepKeeps DEF PostStep, ReadStep, vars, workerState
<1> QED
    BY <1>3, <1>4, <1>5, <1>6 DEF Next

LEMMA HandsStep == ASSUME Inv, HandsInv, [Next]_vars PROVE HandsInv'
<1>1. /\ OnlyAdds /\ now' \in Nat /\ changes' \in Nat
      /\ changes' = 0 => changes = 0 /\ UNCHANGED followers
    BY ChangesCount
<1>2. ASSUME NEW w \in Workers, Worker!WorkerNext(w) PROVE HandsInv'
    BY <1>2, HandsMove DEF Inv
<1>3. CASE UNCHANGED <<groupUp, delivered, pc, inbox, job>>
    BY <1>1, <1>3, StreamGrows, HandsKept DEF OnlyAdds, Inv
<1>4. CASE WorkerStep
    BY <1>2, <1>3, <1>4 DEF WorkerStep, Worker!TimelineExpires, Worker!Tick, Worker!group,
                            Worker!worker
<1>5. CASE ~WorkerStep
    BY <1>3, <1>5 DEF Next, PostStep, FollowStep, Worker!Follow, Worker!Unfollow, AdminStep,
                      ReadStep, vars, workerState, Worker!group, Worker!worker
<1> QED
    BY <1>4, <1>5

LEMMA HandsInit == Init => HandsInv
<1> SUFFICES ASSUME Init PROVE HandsInv
    OBVIOUS
<1>1. /\ stream = <<>> /\ groupUp = FALSE /\ delivered = 0 /\ now = 1 /\ changes = 0
      /\ timelines = [u \in Users |-> Worker!NoTimeline]
      /\ pc = [w \in Workers |-> "off"]
      /\ inbox = [w \in Workers |-> Worker!NoInbox]
      /\ job = [w \in Workers |-> Worker!NoJob]
    BY DEF Init, Worker!Init
<1>2. /\ Worker!NoTimeline \in Worker!Timelines /\ Worker!NoInbox \in Worker!Inboxes
      /\ Worker!NoJob \in Worker!Jobs
    BY NoJobType DEF Worker!NoTimeline, Worker!Timelines
<1>3. "off" \in Worker!PCs /\ "off" \in Worker!Idle /\ "off" \notin PerFollower
      /\ "off" \notin Worker!Writing
    BY DEF Worker!PCs, Worker!Idle, PerFollower, Worker!Writing
<1>4. Worker!NoInbox.next = 1 /\ Worker!NoInbox.last = 0
    BY DEF Worker!NoInbox
<1>5. HandsTypeOK
    BY <1>1, <1>2, <1>3 DEF HandsTypeOK
<1>6. ASSUME NEW w \in Workers PROVE InHand(w)
    BY <1>1, <1>3, <1>4 DEF InHand
<1> QED
    BY <1>1, <1>5, <1>6 DEF HandsInv

LEMMA HandsAlways == Spec => []HandsInv
<1>1. Inv /\ HandsInv /\ [Next]_vars => HandsInv'
    BY HandsStep
<1> QED
    BY <1>1, HandsInit, InvAlways, PTL DEF Spec

-----------------------------------------------------------------------------
(* What a worker adds is the post of an event, and events have rows. *)
LEMMA AddedHasRow ==
    ASSUME Inv, HandsInv, NEW w \in Workers, NEW u \in Users, NEW p \in Posts, Adds(w, u, p)
    PROVE  /\ Post!Saved(p) /\ Post!InStream(Post!Event(p, posts[p].author))
           /\ Worker!Author(w) = posts[p].author
           /\ Worker!Current(w) \in 1 .. Len(stream) /\ Worker!Current(w) \in Worker!Held(w)
           /\ stream[Worker!Current(w)].post = p
<1> DEFINE i == Worker!Current(w)
<1>1. pc[w] \notin Worker!Idle
    BY DEF Adds, Worker!Idle
<1>2. i \in 1 .. Len(stream) /\ i \in Worker!Held(w)
    BY <1>1, BusyAuthor DEF Inv
<1>3. stream[i].post = p /\ stream[i].author = Worker!Author(w)
    BY DEF Adds, Worker!Post, Worker!Author
<1> HIDE DEF i
<1>4. stream[i] \in Post!Events
    BY <1>2 DEF Inv, PostInv, Post!TypeOK
<1>5. posts[p] # Post!NoRow /\ posts[p].author = stream[i].author
    BY <1>2, <1>3 DEF Inv, PostInv, Post!EventsHaveRows
<1>6. stream[i] = Post!Event(p, posts[p].author)
    BY <1>3, <1>4, <1>5 DEF Post!Event, Post!Events
<1> QED
    BY <1>2, <1>3, <1>5, <1>6 DEF Post!Saved, Post!InStream, i

LEMMA StaysPublished ==
    ASSUME RowsStay, Grows, NEW p \in Posts, Post!Saved(p),
           Post!InStream(Post!Event(p, posts[p].author))
    PROVE  /\ posts'[p] # Post!NoRow
           /\ \E i \in 1 .. Len(stream') : stream'[i] = Post!Event(p, posts'[p].author)
<1>1. posts'[p] # Post!NoRow /\ posts'[p].author = posts[p].author
    BY DEF RowsStay
<1>2. PICK i \in 1 .. Len(stream) : stream[i] = Post!Event(p, posts[p].author)
    BY DEF Post!InStream
<1>3. i \in 1 .. Len(stream') /\ stream'[i] = stream[i]
    BY DEF Grows
<1> QED
    BY <1>1, <1>2, <1>3

LEMMA NamedStep ==
    ASSUME Inv, HandsInv, TimelinesHoldPublishedPosts, [Next]_vars
    PROVE  TimelinesHoldPublishedPosts'
<1> SUFFICES ASSUME NEW u \in Users, NEW p \in Posts, timelines'[u][p] # 0
             PROVE  /\ posts'[p] # Post!NoRow
                    /\ \E i \in 1 .. Len(stream') : stream'[i] = Post!Event(p, posts'[p].author)
    BY DEF TimelinesHoldPublishedPosts, Post!Saved, Post!InStream, Post!Event
<1>1. RowsStay /\ Grows /\ OnlyAdds
    BY RefinedStep, PostStepRows, StreamGrows, ChangesCount DEF Inv
<1>2. Post!Saved(p) /\ Post!InStream(Post!Event(p, posts[p].author))
  <2>1. CASE timelines[u][p] # 0
      BY <2>1 DEF TimelinesHoldPublishedPosts
  <2>2. CASE timelines[u][p] = 0
      BY <1>1, <2>2, AddedHasRow DEF OnlyAdds
  <2> QED
      BY <2>1, <2>2
<1> QED
    BY <1>1, <1>2, StaysPublished

LEMMA EmptyAtFirst ==
    ASSUME Init, NEW u \in Users, NEW p \in Posts
    PROVE  timelines[u][p] = 0
BY DEF Init, Worker!Init, Worker!NoTimeline

(* A post in any timeline has its row, and an event that names its author. *)
THEOREM TimelinesNamePublishedPosts == Spec => []TimelinesHoldPublishedPosts
<1>1. Init => TimelinesHoldPublishedPosts
    BY EmptyAtFirst DEF TimelinesHoldPublishedPosts
<1>2. Inv /\ HandsInv /\ TimelinesHoldPublishedPosts /\ [Next]_vars
        => TimelinesHoldPublishedPosts'
    BY NamedStep
<1> QED
    BY <1>1, <1>2, InvAlways, HandsAlways, PTL DEF Spec

-----------------------------------------------------------------------------
(* While nobody follows or unfollows, a post is only in timelines of users *)
(* who follow its author.                                                  *)
FollowersOnly ==
    changes = 0 =>
        \A u \in Users, p \in Posts :
            timelines[u][p] # 0 => u \in followers[posts[p].author]

LEMMA FollowersOnlyStep ==
    ASSUME Inv, HandsInv, TimelinesHoldPublishedPosts, FollowersOnly, [Next]_vars
    PROVE  FollowersOnly'
<1> SUFFICES ASSUME changes' = 0, NEW u \in Users, NEW p \in Posts, timelines'[u][p] # 0
             PROVE  u \in followers'[posts'[p].author]
    BY DEF FollowersOnly
<1>1. RowsStay /\ OnlyAdds /\ changes = 0 /\ UNCHANGED followers
    BY RefinedStep, PostStepRows, ChangesCount DEF Inv
<1>2. CASE timelines[u][p] # 0
  <2>1. Post!Saved(p) /\ u \in followers[posts[p].author]
      BY <1>1, <1>2 DEF TimelinesHoldPublishedPosts, FollowersOnly
  <2> QED
      BY <1>1, <2>1 DEF RowsStay
<1>3. CASE timelines[u][p] = 0
  <2>1. PICK w \in Workers : Adds(w, u, p)
      BY <1>1, <1>3 DEF OnlyAdds
  <2>2. Post!Saved(p) /\ Worker!Author(w) = posts[p].author
      BY <2>1, AddedHasRow
  <2>3. pc[w] \in Worker!Writing /\ pc[w] \in PerFollower
      BY <2>1 DEF Adds, Worker!Writing, PerFollower
  <2>4. job[w].todo # {} /\ job[w].todo \subseteq followers[Worker!Author(w)]
      BY <1>1, <2>3, WritingFacts
  <2>5. u \in job[w].todo
      BY <2>1, <2>4 DEF Adds, Worker!First
  <2> QED
      BY <1>1, <2>2, <2>4, <2>5 DEF RowsStay
<1> QED
    BY <1>2, <1>3

LEMMA FollowersAlways == Spec => []FollowersOnly
<1>1. Init => FollowersOnly
    BY EmptyAtFirst DEF FollowersOnly
<1>2. Inv /\ HandsInv /\ TimelinesHoldPublishedPosts /\ FollowersOnly /\ [Next]_vars
        => FollowersOnly'
    BY FollowersOnlyStep
<1> QED
    BY <1>1, <1>2, InvAlways, HandsAlways, TimelinesNamePublishedPosts, PTL DEF Spec

-----------------------------------------------------------------------------
(* A post that has been fanned out stays so: only the call that inserted   *)
(* its row publishes it.                                                   *)
LEMMA SaveAfter ==
    ASSUME PostInv, NEW r \in Requests, Post!Save(r)
    PROVE  /\ call'[r].post \in Posts /\ ~Post!Saved(call'[r].post)
           /\ \A q \in Requests : q # r => call'[q] = call[q]
<1> PICK p \in Posts :
        Post!Insert(r, p) /\ call' = [call EXCEPT ![r].pc = "publish", ![r].post = p]
    BY DEF Post!Save
<1> DEFINE k1 == [call[r] EXCEPT !.pc = "publish"]
           k == [k1 EXCEPT !.post = p]
<1>1. call \in [Requests -> Post!Calls] /\ call[r] \in Post!Calls
    BY DEF PostInv, Post!TypeOK
<1>2. call' = [call EXCEPT ![r] = k] /\ ~Post!Saved(p)
    BY <1>1 DEF Post!Insert
<1>3. k1 \in Post!Calls
    BY <1>1 DEF Post!Calls
<1> HIDE DEF k1
<1>4. k.post = p
    BY <1>3 DEF Post!Calls
<1> HIDE DEF k
<1> QED
    BY <1>1, <1>2, <1>4

LEMMA SubmitAfter ==
    ASSUME PostInv, NEW r \in Requests, NEW a \in Authors, NEW ok \in BOOLEAN,
           Post!Submit(r, a, ok)
    PROVE  /\ call'[r].pc # "publish"
           /\ \A q \in Requests : q # r => call'[q] = call[q]
<1> DEFINE pc1 == IF ok THEN "check" ELSE "done"
           k1 == [Post!Idle EXCEPT !.author = a]
           k2 == [k1 EXCEPT !.pc = pc1]
           k == [k2 EXCEPT !.reply = IF ok THEN 0 ELSE 400]
<1>1. call \in [Requests -> Post!Calls]
    BY DEF PostInv, Post!TypeOK
<1>2. call' = [call EXCEPT ![r] = k]
    BY DEF Post!Submit
<1>3. k1 \in Post!Calls
    BY DEF Post!Idle, Post!Calls
<1> HIDE DEF k1
<1>4. k2 \in Post!Calls /\ k2.pc = pc1
    BY <1>3 DEF Post!Calls
<1> HIDE DEF k2
<1>5. k.pc = pc1
    BY <1>4 DEF Post!Calls
<1> HIDE DEF k
<1> QED
    BY <1>1, <1>2, <1>5

LEMMA CallAfter ==
    ASSUME PostInv, NEW r \in Requests, Post!CallNext(r), NEW q \in Requests
    PROVE  \/ call'[q] = call[q]
           \/ call'[q].pc # "publish"
           \/ call'[q].post \in Posts /\ ~Post!Saved(call'[q].post)
<1>1. ASSUME NEW a \in Authors, NEW ok \in BOOLEAN, Post!Submit(r, a, ok)
      PROVE  call'[q] = call[q] \/ call'[q].pc # "publish"
    BY <1>1, SubmitAfter
<1>2. CASE Post!Save(r)
    BY <1>2, SaveAfter
<1>3. ASSUME NEW code \in Codes, Post!Reply(r, code)
      PROVE  call'[q] = call[q] \/ call'[q].pc # "publish"
    BY <1>3, ReplyStep DEF PostInv
<1>4. ASSUME NEW label \in {"save", "gone"}, Post!Goto(r, label)
      PROVE  call'[q] = call[q] \/ call'[q].pc # "publish"
    BY <1>4, MoveStep DEF PostInv
<1>5. CASE Post!PublishReplyLost(r)
    BY <1>5 DEF Post!PublishReplyLost
<1>6. CASE Post!CheckStatus(r) \/ Post!Publish(r) \/ Post!CheckFails(r) \/ Post!SaveFails(r)
           \/ Post!PublishFails(r) \/ Post!CallLost(r)
    BY <1>3, <1>4, <1>6 DEF Post!CheckStatus, Post!Publish, Post!CheckFails, Post!SaveFails,
                            Post!PublishFails, Post!CallLost, Codes
<1> QED
    BY <1>1, <1>2, <1>5, <1>6 DEF Post!CallNext, Post!Step

LEMMA NoNewEvent ==
    ASSUME PostInv, NEW r \in Requests, Post!CallNext(r), NEW p \in Posts, FannedOut(p),
           NEW i \in 1 .. Len(stream'), stream'[i].post = p
    PROVE  i \in 1 .. Len(stream)
<1>0. Len(stream) \in Nat /\ Post!TypeOK
    BY DEF PostInv, Post!TypeOK
<1>1. CASE Post!Publish(r) \/ Post!PublishReplyLost(r)
  <2> DEFINE e == Post!Event(call[r].post, call[r].author)
  <2>1. call[r].pc = "publish" /\ Post!Append1(r)
      BY <1>1 DEF Post!Publish, Post!PublishReplyLost, Post!At
  <2>2. call[r].author \in Authors /\ call[r].post \in Posts /\ call[r].post # p
      BY <2>1 DEF PostInv, CallInv, FannedOut
  <2>3. e \in Post!Events /\ stream' = Append(stream, e) /\ e.post # p
      BY <2>1, <2>2 DEF Post!Event, Post!Events, Post!Append1
  <2> HIDE DEF e
  <2>4. Len(stream') = Len(stream) + 1 /\ stream'[Len(stream) + 1].post # p
      BY <1>0, <2>3, AppendGrows
  <2> QED
      BY <1>0, <2>4
<1>2. CASE ~Post!Publish(r) /\ ~Post!PublishReplyLost(r)
    BY <1>2 DEF Post!CallNext, Post!Step, Post!Submit, Post!CheckStatus, Post!Save,
                Post!CheckFails, Post!SaveFails, Post!PublishFails, Post!CallLost
<1> QED
    BY <1>1, <1>2

(* No worker takes up again what the group has delivered. *)
LEMMA NotTakenAgain ==
    ASSUME Inv, HandsInv, [Next]_vars, NEW i \in 1 .. delivered,
           \A w \in Workers : i \notin Worker!Held(w)
    PROVE  i <= delivered' /\ \A w \in Workers : i \notin inbox'[w].next .. inbox'[w].last
<1>0. delivered \in Nat /\ Len(stream) \in Nat /\ inbox \in [Workers -> Worker!Inboxes]
    BY DEF HandsInv, HandsTypeOK, Inv, PostInv, Post!TypeOK
<1>1. CASE UNCHANGED <<inbox, delivered>>
    BY <1>0, <1>1 DEF Worker!Held
<1>2. ASSUME NEW w \in Workers, Worker!WorkerNext(w)
      PROVE  i <= delivered' /\ \A v \in Workers : i \notin inbox'[v].next .. inbox'[v].last
  <2> PICK label, box, k : GoesOn(w, label, box, k)
      BY <1>2, WorkerGoesOn DEF Inv
  <2>1. delivered' \in Nat /\ delivered <= delivered' /\ box \in Worker!Inboxes
      BY <1>0 DEF GoesOn
  <2>2. i \notin box.next .. box.last
      BY <1>0 DEF GoesOn
  <2>3. inbox' = [inbox EXCEPT ![w] = box]
      BY DEF GoesOn
  <2>4. i <= delivered'
      BY <1>0, <2>1
  <2>5. ASSUME NEW v \in Workers PROVE i \notin inbox'[v].next .. inbox'[v].last
      BY <1>0, <2>2, <2>3 DEF Worker!Held
  <2> QED
      BY <2>4, <2>5
<1>3. CASE WorkerStep
    BY <1>1, <1>2, <1>3 DEF WorkerStep, Worker!TimelineExpires, Worker!Tick, Worker!group,
                            Worker!worker
<1>4. CASE ~WorkerStep
    BY <1>1, <1>4 DEF Next, PostStep, FollowStep, Worker!Follow, Worker!Unfollow, AdminStep,
                      ReadStep, vars, workerState, Worker!group, Worker!worker
<1> QED
    BY <1>3, <1>4

LEMMA FannedOutStays ==
    ASSUME Inv, HandsInv, [Next]_vars, NEW p \in Posts, Post!Saved(p), FannedOut(p)
    PROVE  FannedOut(p)'
<1>1. ASSUME NEW r \in Requests, call'[r].pc = "publish" PROVE call'[r].post # p
  <2>1. CASE call'[r] = call[r]
      BY <1>1, <2>1 DEF FannedOut
  <2>2. CASE call'[r] # call[r]
    <3>1. PostStep
        BY <2>2, ReadStepKeeps DEF Next, WorkerStep, FollowStep, AdminStep, vars, postState
    <3> QED
        BY <1>1, <2>2, <3>1, CallAfter DEF PostStep, Inv
  <2> QED
      BY <2>1, <2>2
<1>2. ASSUME NEW i \in 1 .. Len(stream'), stream'[i].post = p
      PROVE  i <= delivered' /\ \A w \in Workers : i \notin inbox'[w].next .. inbox'[w].last
  <2>1. i \in 1 .. Len(stream)
    <3>1. CASE PostStep
        BY <1>2, <3>1, NoNewEvent DEF PostStep, Inv
    <3>2. CASE ~PostStep
        BY <3>2, WorkerStepKeeps, FollowStepKeeps, ReadStepKeeps DEF Next, AdminStep, vars
    <3> QED
        BY <3>1, <3>2
  <2>2. stream[i].post = p /\ delivered \in Nat
      BY <1>2, <2>1, StreamGrows DEF Grows, HandsInv, HandsTypeOK
  <2>3. i \in 1 .. delivered /\ \A w \in Workers : i \notin Worker!Held(w)
      BY <2>1, <2>2 DEF FannedOut
  <2> QED
      BY <2>3, NotTakenAgain
<1> QED
    BY <1>1, <1>2 DEF FannedOut, Worker!Held

-----------------------------------------------------------------------------
(* The timelines a deletion has still to go through, and what is known of  *)
(* one that was begun when its post had been fanned out.                   *)
Remains(t, u) ==
    /\ task[t].reply # 204
    /\ task[t].pc \in {"zrem", "author"} => u \in task[t].todo \cup {task[t].author}

CalmOf(t) ==
    /\ task[t].pc # "idle" /\ task[t].post \in Posts
    /\ Post!Saved(task[t].post) /\ FannedOut(task[t].post)
    /\ spared[t] = {} /\ changes = 0 =>
         \A u \in Users : timelines[u][task[t].post] # 0 => Remains(t, u)

CalmInv == calm \subseteq Tasks /\ \A t \in calm : CalmOf(t)

LEMMA NothingComesBack ==
    ASSUME Inv, HandsInv, [Next]_vars, NEW p \in Posts, FannedOut(p), NEW u \in Users,
           timelines'[u][p] # 0
    PROVE  timelines[u][p] # 0
<1>1. ASSUME NEW w \in Workers, Adds(w, u, p) PROVE FALSE
    BY <1>1, AddedHasRow DEF FannedOut
<1> QED
    BY <1>1, ChangesCount DEF OnlyAdds

(* What a step leaves of it, the place of its call aside. *)
LEMMA CalmStays ==
    ASSUME Inv, HandsInv, [Next]_vars, SparedGrows, NEW t \in Tasks, CalmOf(t),
           task'[t].post = task[t].post, task'[t].pc # "idle",
           ASSUME spared'[t] = {}, changes = 0, NEW u \in Users,
                  timelines'[u][task[t].post] # 0, timelines[u][task[t].post] # 0, Remains(t, u)
           PROVE  Remains(t, u)'
    PROVE  CalmOf(t)'
<1> DEFINE p == task[t].post
<1>1. p \in Posts /\ Post!Saved(p) /\ FannedOut(p)
    BY DEF CalmOf
<1>2. posts'[p] # Post!NoRow
    BY <1>1, RefinedStep, PostStepRows DEF RowsStay, Inv
<1>3. FannedOut(task[t].post)'
  <2>1. \A q \in Posts : Post!Saved(q) /\ FannedOut(q) => FannedOut(q)'
      BY FannedOutStays
  <2> QED
      BY <1>1, <2>1 DEF FannedOut
<1>4. ASSUME spared'[t] = {}, changes' = 0, NEW u \in Users, timelines'[u][p] # 0
      PROVE  Remains(t, u)'
  <2>1. spared[t] = {} /\ changes = 0
      BY <1>4, ChangesCount DEF SparedGrows
  <2>2. timelines[u][p] # 0
      BY <1>1, <1>4, NothingComesBack
  <2>3. Remains(t, u)
      BY <2>1, <2>2 DEF CalmOf
  <2> QED
      BY <1>4, <2>1, <2>2, <2>3
<1> QED
    BY <1>1, <1>2, <1>3, <1>4 DEF CalmOf, Post!Saved

LEMMA CalmKept ==
    ASSUME Inv, HandsInv, [Next]_vars, SparedGrows, NEW t \in Tasks, CalmOf(t), task'[t] = task[t]
    PROVE  CalmOf(t)'
<1>1. task'[t].post = task[t].post /\ task'[t].pc # "idle"
    BY DEF CalmOf
<1>2. \A u : Remains(t, u) => Remains(t, u)'
    BY DEF Remains
<1> QED
    BY <1>1, <1>2, CalmStays

(* Its own steps. *)
LEMMA CalmMoves ==
    ASSUME Inv, HandsInv, FollowersOnly, [Next]_vars, SparedGrows, NEW t \in Tasks, CalmOf(t),
           NEW k, TaskMovesTo(t, k)
    PROVE  CalmOf(t)'
<1>1. task \in [Tasks -> Admin!TaskStates] /\ task'[t] = k
    BY DEF TaskMovesTo, Inv, TaskInv
<1>2. task[t].pc # "idle" /\ task[t].post \in Posts
    BY DEF CalmOf
<1>3. Ends(t, k) \/ Proceeds(t, k)
    BY <1>2 DEF TaskMovesTo, Opens
<1>4. task'[t].post = task[t].post /\ task'[t].pc # "idle"
    BY <1>1, <1>2, <1>3 DEF Ends, Proceeds
<1>5. ASSUME spared'[t] = {}, changes = 0, NEW u \in Users,
             timelines'[u][task[t].post] # 0, timelines[u][task[t].post] # 0, Remains(t, u)
      PROVE  k.reply # 204 /\ (k.pc \in {"zrem", "author"} => u \in k.todo \cup {k.author})
  <2>1. CASE Ends(t, k)
    <3>1. ASSUME task[t].pc = "author", Admin!Remove(task[t].author, task[t].post) PROVE FALSE
      <4>1. u = task[t].author
          BY <1>5, <3>1 DEF Remains, Inv, TaskInv
      <4> QED
          BY <1>2, <1>5, <3>1, <4>1, RemoveWrites
    <3> QED
        BY <1>5, <2>1, <3>1 DEF Ends, Remains
  <2>2. CASE Proceeds(t, k)
    <3>1. k.reply # 204 /\ k.author = task[t].author
        BY <1>5, <2>2 DEF Proceeds, Remains
    <3>2. ASSUME task[t].pc = "list", k.todo = followers[task[t].author] PROVE u \in k.todo
      <4>1. posts[task[t].post].author = task[t].author
          BY <3>2 DEF Inv, TaskInv, Deleting
      <4> QED
          BY <1>2, <1>5, <3>2, <4>1 DEF FollowersOnly
    <3>3. ASSUME task[t].pc = "zrem", NEW v \in Users, k.todo = task[t].todo \ {v},
                 Admin!Remove(v, task[t].post) \/ v \in spared'[t]
          PROVE  u \in k.todo \cup {k.author}
      <4>1. u \in task[t].todo \cup {task[t].author}
          BY <1>5, <3>3 DEF Remains
      <4>2. Admin!Remove(v, task[t].post)
          BY <1>5, <3>3
      <4>3. u # v
          BY <1>2, <1>5, <4>2, RemoveWrites
      <4> QED
          BY <3>1, <3>3, <4>1, <4>3
    <3> QED
        BY <2>2, <3>1, <3>2, <3>3 DEF Proceeds
  <2> QED
      BY <1>3, <2>1, <2>2
<1>6. ASSUME spared'[t] = {}, changes = 0, NEW u \in Users,
             timelines'[u][task[t].post] # 0, timelines[u][task[t].post] # 0, Remains(t, u)
      PROVE  Remains(t, u)'
    BY <1>1, <1>5, <1>6 DEF Remains
<1> QED
    BY <1>4, <1>6, CalmStays

(* A deletion that begins. *)
LEMMA CalmBegins ==
    ASSUME Inv, HandsInv, [Next]_vars, NEW t \in Tasks, NEW k, TaskMovesTo(t, k),
           k.pc = "softDelete", FannedOut(k.post)
    PROVE  CalmOf(t)'
<1>1. task \in [Tasks -> Admin!TaskStates] /\ task'[t] = k
    BY DEF TaskMovesTo, Inv, TaskInv
<1>2. Opens(t, k)
    BY DEF TaskMovesTo, Ends, Proceeds
<1>3. k.post \in Posts /\ Post!Saved(k.post) /\ k.reply = 0
    BY <1>2 DEF Opens, Inv, TaskInv
<1>4. posts'[k.post] # Post!NoRow
    BY <1>3, RefinedStep, PostStepRows DEF RowsStay, Inv
<1>5. FannedOut(task[t].post)'
  <2>1. \A q \in Posts : Post!Saved(q) /\ FannedOut(q) => FannedOut(q)'
      BY FannedOutStays
  <2> QED
      BY <1>1, <1>3, <2>1 DEF FannedOut
<1> QED
    BY <1>1, <1>3, <1>4, <1>5 DEF CalmOf, Post!Saved, Remains

LEMMA CalmStep == ASSUME Inv, HandsInv, FollowersOnly, CalmInv, [Next]_vars PROVE CalmInv'
<1>1. CASE AdminStep
  <2>1. PICK t \in Tasks :
          /\ Admin!TaskNext(t)
          /\ calm' = IF task'[t].pc = "softDelete" /\ FannedOut(task'[t].post)
                     THEN calm \cup {t} ELSE calm
      BY <1>1 DEF AdminStep
  <2>2. PICK k : TaskMovesTo(t, k)
      BY <2>1, AdminMoves DEF Inv
  <2>3. SparedGrows
      BY <2>1, AdminSpares DEF Inv
  <2>4. task'[t] = k /\ \A v \in Tasks : v # t => task'[v] = task[v]
      BY <2>2 DEF TaskMovesTo, Inv, TaskInv
  <2>5. ASSUME NEW v \in calm' PROVE v \in Tasks /\ CalmOf(v)'
    <3>1. CASE v \in calm /\ v # t
        BY <2>3, <2>4, <3>1, CalmKept DEF CalmInv
    <3>2. CASE v \in calm /\ v = t
        BY <2>2, <2>3, <3>2, CalmMoves DEF CalmInv
    <3>3. CASE v \notin calm
        BY <2>1, <2>2, <2>4, <2>5, <3>3, CalmBegins
    <3> QED
        BY <3>1, <3>2, <3>3
  <2> QED
      BY <2>5 DEF CalmInv
<1>2. CASE ~AdminStep
  <2>1. UNCHANGED <<task, spared, calm>>
      BY <1>2, ReadStepKeeps DEF Next, PostStep, WorkerStep, FollowStep, ReadStep, vars, adminState
  <2>2. SparedGrows
      BY <2>1 DEF SparedGrows, Inv, TaskInv
  <2> QED
      BY <2>1, <2>2, CalmKept DEF CalmInv
<1> QED
    BY <1>1, <1>2

(* A deletion that was begun when the fan-out of its post had ended, and   *)
(* is answered 204 without a Redis error, has taken the post out of every  *)
(* timeline, unless somebody followed or unfollowed meanwhile.             *)
THEOREM CalmDeletionsComplete == Spec => []CalmDeletionIsComplete
<1>1. Init => CalmInv
    BY DEF Init, CalmInv
<1>2. Inv /\ HandsInv /\ FollowersOnly /\ CalmInv /\ [Next]_vars => CalmInv'
    BY CalmStep
<1>3. CalmInv => CalmDeletionIsComplete
    BY DEF CalmInv, CalmOf, CalmDeletionIsComplete, Remains
<1> QED
    BY <1>1, <1>2, <1>3, InvAlways, HandsAlways, FollowersAlways, PTL DEF Spec
-----------------------------------------------------------------------------
(* The types of the rest of the worker's state: what the other proofs do   *)
(* not need.                                                               *)
RestTypeOK ==
    /\ pending \in SUBSET Nat /\ hit \in SUBSET Nat /\ faults \in Nat
    /\ ttl \in [Users -> BOOLEAN]
    /\ main \in [Workers -> Worker!MainStates]
    /\ seen \in [Workers -> Worker!Views]

LEMMA EntriesAreNumbers ==
    ASSUME HandsInv, Len(stream) \in Nat, NEW w \in Workers
    PROVE  /\ Worker!Held(w) \subseteq Nat /\ Worker!Current(w) \in Nat
           /\ Worker!ReadLimit \in Nat /\ delivered + 1 .. Worker!ReadLimit \subseteq Nat
<1>1. Worker!Held(w) \subseteq Nat /\ Worker!Current(w) \in Nat /\ delivered \in Nat
    BY HandTypes DEF Worker!Held, Worker!Current
<1>2. Worker!ReadLimit \in Nat
    BY <1>1, PipelineAssumption DEF Worker!ReadLimit
<1> QED
    BY <1>1, <1>2

LEMMA ViewTypes ==
    /\ Worker!NoView \in Worker!Views
    /\ \A S \in SUBSET Users : [owed |-> S, stayed |-> S, reached |-> {}] \in Worker!Views
BY DEF Worker!NoView, Worker!Views

LEMMA SeenType ==
    ASSUME Inv, HandsInv, RestTypeOK, NEW w \in Workers, Worker!WorkerNext(w)
    PROVE  seen' \in [Workers -> Worker!Views]
<1>1. seen \in [Workers -> Worker!Views] /\ seen[w] \in Worker!Views
    BY DEF RestTypeOK
<1>2. CASE UNCHANGED seen \/ seen' = [seen EXCEPT ![w] = Worker!NoView]
    BY <1>1, <1>2, ViewTypes
<1>3. CASE Worker!Count(w)
  <2>1. pc[w] \notin Worker!Idle
      BY <1>3 DEF Worker!Count, Worker!At, Worker!Idle
  <2>2. followers[Worker!Author(w)] \subseteq Users
      BY <2>1, BusyAuthor DEF Inv, TaskInv
  <2> QED
      BY <1>1, <1>3, <2>2, ViewTypes DEF Worker!Count
<1>4. CASE Worker!ZAddNext(w)
  <2> DEFINE u == Worker!First(job[w].todo)
             v == [seen[w] EXCEPT !.reached = seen[w].reached \cup {u}]
  <2>1. pc[w] = "zadd" /\ pc[w] \in Worker!Writing /\ pc[w] \in PerFollower
      BY <1>4 DEF Worker!ZAddNext, Worker!At, Worker!Writing, PerFollower
  <2>2. u \in Users
      BY <2>1, WritingFacts, JobFields DEF Worker!First
  <2>3. seen' = [seen EXCEPT ![w] = v]
      BY <1>1, <1>4 DEF Worker!ZAddNext
  <2> HIDE DEF u
  <2>4. v \in Worker!Views
      BY <1>1, <2>2 DEF Worker!Views
  <2> QED
      BY <1>1, <2>3, <2>4
<1>5. CASE Worker!Consume(w) /\ ~Worker!Count(w) /\ ~Worker!ZAddNext(w)
  <2>1. CASE Worker!Loop(w) \/ Worker!Read(w) \/ Worker!ReadFails(w) \/ Worker!SkipMalformed(w)
             \/ Worker!FetchPage(w) \/ Worker!TrimNext(w)
      BY <1>2, <2>1 DEF Worker!Loop, Worker!Read, Worker!ReadFails, Worker!SkipMalformed,
                        Worker!NextEntry, Worker!FetchPage, Worker!TrimNext
  <2>2. CASE Worker!ExpireNext(w) \/ Worker!PageDone(w) \/ Worker!GiveUp(w) \/ Worker!Ack(w)
             \/ Worker!AckFails(w)
      BY <1>2, <2>2 DEF Worker!ExpireNext, Worker!PageDone, Worker!GiveUp, Worker!Ack,
                        Worker!AckFails, Worker!NextEntry
  <2> QED
      BY <1>5, <2>1, <2>2 DEF Worker!Consume
<1>6. CASE ~Worker!Consume(w)
    BY <1>2, <1>6 DEF Worker!WorkerNext, Worker!Start, Worker!ReadReplyLost, Worker!PipelineRetried,
           Worker!Signal, Worker!Shutdown, Worker!Crash, Worker!CancelContext, Worker!CloseDB,
           Worker!CloseRedis, Worker!Close, Worker!Exit, Worker!Die
<1> QED
    BY <1>3, <1>4, <1>5, <1>6

LEMMA MainType ==
    ASSUME RestTypeOK, NEW w \in Workers, Worker!WorkerNext(w)
    PROVE  main' \in [Workers -> Worker!MainStates]
<1>1. main \in [Workers -> Worker!MainStates] /\ main[w] \in Worker!MainStates
    BY DEF RestTypeOK
<1>2. CASE UNCHANGED main
    BY <1>1, <1>2
<1>3. CASE Worker!Start(w) \/ Worker!Die(w)
  <2>1. PICK phase \in Worker!Phases :
          main' = [main EXCEPT ![w] = [phase |-> phase, cancelled |-> FALSE]]
      BY <1>3 DEF Worker!Start, Worker!Die, Worker!Phases
  <2>2. [phase |-> phase, cancelled |-> FALSE] \in Worker!MainStates
      BY DEF Worker!MainStates
  <2> QED
      BY <1>1, <2>1, <2>2
<1>4. ASSUME NEW phase \in Worker!Phases, main' = [main EXCEPT ![w].phase = phase]
      PROVE  main' \in [Workers -> Worker!MainStates]
  <2> DEFINE m == [main[w] EXCEPT !.phase = phase]
  <2>1. m \in Worker!MainStates /\ main' = [main EXCEPT ![w] = m]
      BY <1>1, <1>4 DEF Worker!MainStates
  <2> QED
      BY <1>1, <2>1
<1>5. CASE Worker!Signal(w) \/ Worker!CloseDB(w) \/ Worker!CloseRedis(w)
    BY <1>4, <1>5 DEF Worker!Signal, Worker!CloseDB, Worker!CloseRedis, Worker!Close, Worker!Phases
<1>6. CASE Worker!CancelContext(w)
  <2> DEFINE m == [main[w] EXCEPT !.cancelled = TRUE]
  <2>1. m \in Worker!MainStates /\ main' = [main EXCEPT ![w] = m]
      BY <1>1, <1>6 DEF Worker!MainStates, Worker!CancelContext
  <2> QED
      BY <1>1, <2>1
<1>7. CASE Worker!Consume(w)
  <2>1. CASE Worker!Loop(w) \/ Worker!Read(w) \/ Worker!ReadFails(w) \/ Worker!SkipMalformed(w)
             \/ Worker!Count(w) \/ Worker!FetchPage(w) \/ Worker!ZAddNext(w)
      BY <1>2, <2>1 DEF Worker!Loop, Worker!Read, Worker!ReadFails, Worker!SkipMalformed,
             Worker!Count, Worker!FetchPage, Worker!ZAddNext
  <2>2. CASE Worker!TrimNext(w) \/ Worker!ExpireNext(w) \/ Worker!PageDone(w) \/ Worker!GiveUp(w)
             \/ Worker!Ack(w) \/ Worker!AckFails(w)
      BY <1>2, <2>2 DEF Worker!TrimNext, Worker!ExpireNext, Worker!PageDone, Worker!GiveUp,
             Worker!Ack, Worker!AckFails
  <2> QED
      BY <1>7, <2>1, <2>2 DEF Worker!Consume
<1>8. CASE Worker!ReadReplyLost(w) \/ Worker!PipelineRetried(w)
    BY <1>2, <1>8 DEF Worker!ReadReplyLost, Worker!PipelineRetried
<1> QED
    BY <1>3, <1>5, <1>6, <1>7, <1>8 DEF Worker!WorkerNext, Worker!Shutdown, Worker!Crash, Worker!Exit

LEMMA SetsType ==
    ASSUME Inv, HandsInv, RestTypeOK, NEW w \in Workers, Worker!WorkerNext(w)
    PROVE  /\ pending' \in SUBSET Nat /\ hit' \in SUBSET Nat /\ faults' \in Nat
           /\ ttl' \in [Users -> BOOLEAN]
<1> DEFINE fresh == delivered + 1 .. Worker!ReadLimit
<1>0. Len(stream) \in Nat
    BY DEF Inv, PostInv, Post!TypeOK
<1>1. /\ Worker!Held(w) \subseteq Nat /\ Worker!Current(w) \in Nat
      /\ fresh \subseteq Nat
      /\ pending \in SUBSET Nat /\ hit \in SUBSET Nat /\ faults \in Nat
      /\ ttl \in [Users -> BOOLEAN]
    BY <1>0, EntriesAreNumbers DEF RestTypeOK
<1> HIDE DEF fresh
<1> USE DEF Worker!Fault, Worker!NoFault, Worker!group, Worker!cache, Worker!bounds
<1>2. CASE Worker!Start(w) \/ Worker!Signal(w) \/ Worker!Crash(w) \/ Worker!Shutdown(w)
           \/ Worker!ReadReplyLost(w) \/ Worker!PipelineRetried(w)
  <2>1. CASE Worker!PipelineRetried(w) \/ Worker!Start(w) \/ Worker!Signal(w)
      BY <1>1, <2>1 DEF Worker!PipelineRetried, Worker!Start, Worker!Signal
  <2>3. CASE Worker!ReadReplyLost(w)
    <3>1. pending' = pending \cup fresh /\ hit' = hit \cup fresh
        BY <2>3 DEF Worker!ReadReplyLost, Worker!Deliver, fresh
    <3>2. faults' = faults + 1 /\ ttl' = ttl
        BY <2>3 DEF Worker!ReadReplyLost
    <3> QED
        BY <1>1, <3>1, <3>2
  <2>2. CASE Worker!Crash(w) \/ Worker!Shutdown(w)
      BY <1>1, <2>2 DEF Worker!Crash, Worker!Shutdown, Worker!CancelContext, Worker!CloseDB,
                        Worker!CloseRedis, Worker!Close, Worker!Exit, Worker!Die
  <2> QED
      BY <1>2, <2>1, <2>2, <2>3
<1>3. CASE Worker!Consume(w)
  <2>1. CASE Worker!Loop(w) \/ Worker!ReadFails(w)
      BY <1>1, <2>1 DEF Worker!Loop, Worker!ReadFails
  <2>5. CASE Worker!Read(w)
    <3>1. pending' = pending \cup fresh /\ UNCHANGED <<hit, faults, ttl>>
        BY <2>5 DEF Worker!Read, Worker!Deliver, fresh
    <3> QED
        BY <1>1, <3>1
  <2>6. CASE Worker!SkipMalformed(w)
    <3>1. /\ pending' \in {pending, pending \ {Worker!Current(w)}}
          /\ hit' \in {hit, hit \cup {Worker!Current(w)}}
          /\ faults' \in {faults, faults + 1} /\ ttl' = ttl
        BY <2>6 DEF Worker!SkipMalformed
    <3> QED
        BY <1>1, <3>1
  <2>2. CASE Worker!Count(w) \/ Worker!FetchPage(w) \/ Worker!ZAddNext(w) \/ Worker!TrimNext(w)
             \/ Worker!PageDone(w)
      BY <1>1, <2>2 DEF Worker!Count, Worker!FetchPage, Worker!ZAddNext, Worker!TrimNext,
                        Worker!PageDone
  <2>3. CASE Worker!GiveUp(w) \/ Worker!Ack(w) \/ Worker!AckFails(w)
    <3>1. /\ pending' \in {pending, pending \ {Worker!Current(w)}}
          /\ hit' \in {hit, hit \cup {Worker!Current(w)}}
          /\ faults' \in {faults, faults + 1} /\ ttl' = ttl
        BY <2>3 DEF Worker!GiveUp, Worker!Ack, Worker!AckFails
    <3> QED
        BY <1>1, <3>1
  <2>4. CASE Worker!ExpireNext(w)
    <3> DEFINE u == Worker!First(job[w].todo)
               b == timelines[u] # Worker!NoTimeline
    <3>1. ttl' = [ttl EXCEPT ![u] = b] /\ UNCHANGED <<pending, hit, faults>>
        BY <2>4, Zenon DEF Worker!ExpireNext
    <3>2. b \in BOOLEAN
        OBVIOUS
    <3> HIDE DEF u, b
    <3> QED
        BY <1>1, <3>1, <3>2
  <2> QED
      BY <1>3, <2>1, <2>2, <2>3, <2>4, <2>5, <2>6 DEF Worker!Consume
<1> QED
    BY <1>2, <1>3 DEF Worker!WorkerNext

LEMMA WatchingType ==
    ASSUME RestTypeOK, NEW a \in Authors, NEW u \in Users
    PROVE  Worker!Watching(a, u) \in [Workers -> Worker!Views]
<1> SUFFICES ASSUME NEW w \in Workers
             PROVE  [seen[w] EXCEPT !.owed = {v \in @ : v < u}, !.stayed = @ \ {u}]
                      \in Worker!Views
    BY DEF Worker!Watching, RestTypeOK
<1> DEFINE s == seen[w]
           v1 == [s EXCEPT !.owed = {v \in s.owed : v < u}]
           v2 == [v1 EXCEPT !.stayed = v1.stayed \ {u}]
<1>1. s \in Worker!Views
    BY DEF RestTypeOK
<1> HIDE DEF s
<1>2. v1 \in Worker!Views
    BY <1>1 DEF Worker!Views
<1>3. v1.stayed = s.stayed
    BY <1>1 DEF Worker!Views
<1> HIDE DEF v1
<1>4. v2 \in Worker!Views
    BY <1>2 DEF Worker!Views
<1> QED
    BY <1>3, <1>4 DEF s, v1, v2

LEMMA RestStep == ASSUME Inv, HandsInv, RestTypeOK, [Next]_vars PROVE RestTypeOK'
<1> USE DEF RestTypeOK
<1>1. CASE UNCHANGED <<pending, hit, faults, main, seen>> /\ ttl' \in [Users -> BOOLEAN]
    BY <1>1
<1>2. CASE WorkerStep
  <2>1. ASSUME NEW w \in Workers, Worker!WorkerNext(w) PROVE RestTypeOK'
      BY <2>1, SeenType, MainType, SetsType
  <2>2. ASSUME NEW u \in Users, Worker!TimelineExpires(u) PROVE RestTypeOK'
      BY <1>1, <2>2 DEF Worker!TimelineExpires, Worker!group, Worker!worker, Worker!bounds
  <2>3. CASE Worker!Tick
      BY <1>1, <2>3 DEF Worker!Tick, Worker!group, Worker!worker, Worker!cache
  <2> QED
      BY <1>2, <2>1, <2>2, <2>3 DEF WorkerStep
<1>3. CASE FollowStep
  <2>1. PICK a \in Authors, u \in Users : Worker!Follow(a, u) \/ Worker!Unfollow(a, u)
      BY <1>3 DEF FollowStep
  <2>2. seen' \in [Workers -> Worker!Views]
      BY <2>1, WatchingType DEF Worker!Follow, Worker!Unfollow
  <2> QED
      BY <2>1, <2>2 DEF Worker!Follow, Worker!Unfollow, Worker!group, Worker!worker, Worker!cache
<1>4. CASE AdminStep
  <2>1. PICK t \in Tasks : Admin!TaskNext(t)
      BY <1>4 DEF AdminStep
  <2>2. ASSUME NEW u \in Users, NEW p \in Posts, Admin!Remove(u, p)
        PROVE  ttl' \in [Users -> BOOLEAN]
    <3> DEFINE b == ttl[u] /\ timelines'[u] # Admin!NoTimeline
    <3>1. ttl' = [ttl EXCEPT ![u] = b]
        BY <2>2, Zenon DEF Admin!Remove
    <3>2. b \in BOOLEAN
        OBVIOUS
    <3> HIDE DEF b
    <3> QED
        BY <3>1, <3>2
  <2>3. ttl' \in [Users -> BOOLEAN]
      BY <2>1, <2>2, AdminRemoves DEF Inv
  <2> QED
      BY <1>1, <1>4, <2>3 DEF AdminStep, workerState
<1>5. CASE PostStep \/ ReadStep \/ UNCHANGED vars
    BY <1>1, <1>5 DEF PostStep, ReadStep, vars, workerState
<1> QED
    BY <1>2, <1>3, <1>4, <1>5 DEF Next

LEMMA RestInit == Init => RestTypeOK
<1> SUFFICES ASSUME Init PROVE RestTypeOK
    OBVIOUS
<1>1. /\ pending = {} /\ hit = {} /\ faults = 0
      /\ ttl = [u \in Users |-> FALSE]
      /\ main = [w \in Workers |-> [phase |-> "down", cancelled |-> FALSE]]
      /\ seen = [w \in Workers |-> Worker!NoView]
    BY DEF Init, Worker!Init
<1>2. [phase |-> "down", cancelled |-> FALSE] \in Worker!MainStates
    BY DEF Worker!MainStates, Worker!Phases
<1> QED
    BY <1>1, <1>2, ViewTypes DEF RestTypeOK

(* An event is a well-formed entry. *)
LEMMA StreamType ==
    ASSUME stream \in Seq(Post!Events)
    PROVE  stream \in Seq(Worker!Entries)
<1>1. Post!Events \subseteq Worker!Entries
    BY DEF Post!Events, Worker!Entries
<1> QED
    BY <1>1

(* Every variable of the composition keeps its type, for any users, posts, *)
(* workers and calls.                                                      *)
THEOREM TypeCorrect == Spec => []TypeOK
<1>1. Inv /\ HandsInv /\ RestTypeOK /\ ReadsInv /\ CalmInv => TypeOK
  <2> SUFFICES ASSUME Inv, HandsInv, RestTypeOK, ReadsInv, CalmInv PROVE TypeOK
      OBVIOUS
  <2>1. Post!TypeOK /\ stream \in Seq(Worker!Entries)
      BY StreamType DEF Inv, PostInv, Post!TypeOK
  <2>2. Worker!TypeOK
      BY <2>1 DEF Worker!TypeOK, HandsInv, HandsTypeOK, RestTypeOK, Inv, TaskInv
  <2> QED
      BY <2>1, <2>2 DEF TypeOK, Inv, TaskInv, ReadsInv, CalmInv
<1>2. Inv /\ HandsInv /\ RestTypeOK /\ [Next]_vars => RestTypeOK'
    BY RestStep
<1>3. Init => CalmInv
    BY DEF Init, CalmInv
<1>4. Inv /\ HandsInv /\ FollowersOnly /\ CalmInv /\ [Next]_vars => CalmInv'
    BY CalmStep
<1> QED
    BY <1>1, <1>2, <1>3, <1>4, RestInit, InvAlways, HandsAlways, FollowersAlways, ReadsInvInit,
       ReadsStepInv, PTL DEF Spec
=============================================================================
