-------------------------- MODULE FanoutWorkerProofs --------------------------
(***************************************************************************)
(* Safety of the fan-out worker for every number of workers, users, posts  *)
(* and entries, and every page size.                                       *)
(***************************************************************************)
EXTENDS FanoutWorker, FiniteSetTheorems, TLAPS

Busy == {"page", "ack"} \cup Writing

(* What the place a worker has reached says of its local state. *)
ShapeOf(w) ==
    /\ pc[w] \in Idle => inbox[w].next > inbox[w].last
    /\ pc[w] \notin Idle => inbox[w].next <= inbox[w].last
    /\ inbox[w].next >= 1 /\ inbox[w].last <= delivered
    /\ pc[w] \in Busy => stream[Current(w)] # Malformed
    /\ pc[w] \in {"zadd", "trim", "expire"} => job[w].todo # {}
    /\ pc[w] \in Writing => job[w].batch # {}
    /\ main[w].phase = "down" => pc[w] = "off"
    /\ pc[w] # "off" => groupUp

Shape ==
    /\ delivered <= Len(stream)
    /\ ~groupUp => delivered = 0
    /\ \A w \in Workers : ShapeOf(w)

TypeInv == TypeOK /\ Shape

LEMMA FirstInSet ==
    ASSUME NEW S, S # {}
    PROVE  First(S) \in S
BY DEF First

LEMMA TrimType ==
    ASSUME NEW tl \in Timelines
    PROVE  Trim(tl) \in Timelines
BY DEF Trim, Timelines

LEMMA PageCountType ==
    ASSUME NEW n \in Nat
    PROVE  PageCount(n) \in Nat /\ n <= PageCount(n) * BatchSize
<1>1. BatchSize \in Nat \ {0}
    BY FanoutAssumption
<1>2. QED
    BY <1>1 DEF PageCount

LEMMA RowsFinite ==
    ASSUME NEW S \in SUBSET Users
    PROVE  IsFiniteSet(S) /\ Cardinality(S) \in Nat
BY FanoutAssumption, FS_Subset, FS_CardinalityType

(* The entry a busy worker is on exists, and names a post and an author. *)
LEMMA CurrentEntry ==
    ASSUME TypeInv, NEW w \in Workers, pc[w] \notin Idle
    PROVE  /\ Current(w) \in 1 .. Len(stream)
           /\ Current(w) \in Held(w)
           /\ stream[Current(w)] \in Entries
           /\ stream[Current(w)] # Malformed => Post(w) \in Posts /\ Author(w) \in Authors
<1>1. inbox[w] \in Inboxes /\ delivered \in Nat /\ stream \in Seq(Entries) /\ ShapeOf(w)
      /\ delivered <= Len(stream)
    BY DEF TypeInv, TypeOK, Shape
<1>2. Current(w) \in 1 .. Len(stream) /\ Current(w) \in Held(w)
    BY <1>1 DEF ShapeOf, Inboxes, Current, Held
<1>3. stream[Current(w)] \in Entries
    BY <1>1, <1>2
<1>4. QED
    BY <1>2, <1>3 DEF Entries, Post, Author

LEMMA InitTypeInv == Init => TypeInv
<1> SUFFICES ASSUME Init PROVE TypeInv
    OBVIOUS
<1>1. timelines \in [Users -> Timelines]
    BY DEF Init, NoTimeline, Timelines
<1>2. main \in [Workers -> MainStates] /\ pc \in [Workers -> PCs]
    BY DEF Init, MainStates, Phases, PCs, Idle, Writing
<1>3. inbox \in [Workers -> Inboxes] /\ job \in [Workers -> Jobs]
    BY DEF Init, Inboxes, NoInbox, Jobs, NoJob
<1>4. seen \in [Workers -> Views]
    BY DEF Init, Views, NoView
<1>5. groupUp \in BOOLEAN /\ ttl \in [Users -> BOOLEAN]
    BY Zenon DEF Init
<1>6. TypeOK
    BY <1>1, <1>2, <1>3, <1>4, <1>5 DEF Init, TypeOK
<1>7. Shape
    BY DEF Init, Shape, ShapeOf, NoInbox, Busy, Idle, Writing
<1>8. QED
    BY <1>6, <1>7 DEF TypeInv

(* The local state of a process that a step leaves alone keeps its shape.  *)
LEMMA ShapeKept ==
    ASSUME TypeInv, NEW v \in Workers,
           pc'[v] = pc[v], inbox'[v] = inbox[v], job'[v] = job[v], main'[v] = main[v],
           delivered' \in Nat, delivered <= delivered', groupUp => groupUp',
           \A i \in 1 .. delivered : stream'[i] = stream[i]
    PROVE  ShapeOf(v)'
<1>1. ShapeOf(v) /\ inbox[v] \in Inboxes /\ delivered \in Nat
    BY DEF TypeInv, TypeOK, Shape
<1>2. pc[v] \notin Idle => stream'[Current(v)] = stream[Current(v)]
    BY <1>1 DEF ShapeOf, Current, Inboxes
<1>3. Busy \cap Idle = {}
    BY DEF Busy, Idle, Writing
<1>4. QED
    BY <1>1, <1>2, <1>3 DEF ShapeOf, Current, Inboxes

(* Going on to the next entry, or back to the loop. *)
LEMMA NextEntryShape ==
    ASSUME TypeInv, NEW w \in Workers, pc[w] \notin Idle, NextEntry(w),
           UNCHANGED <<main, stream, groupUp, delivered>>
    PROVE  /\ pc' \in [Workers -> PCs]
           /\ inbox' \in [Workers -> Inboxes]
           /\ job' \in [Workers -> Jobs]
           /\ seen' \in [Workers -> Views]
           /\ Shape'
<1> USE DEF NextEntry, Goto
<1>1. pc' \in [Workers -> PCs]
    BY DEF TypeInv, TypeOK, PCs, Idle
<1>2. inbox' \in [Workers -> Inboxes]
    BY DEF TypeInv, TypeOK, Inboxes
<1>3. job' \in [Workers -> Jobs]
    BY DEF TypeInv, TypeOK, Jobs, NoJob
<1>4. seen' \in [Workers -> Views]
    BY DEF TypeInv, TypeOK, Views, NoView
<1>5. ASSUME NEW v \in Workers PROVE ShapeOf(v)'
    <2>1. inbox[w] \in Inboxes /\ pc[w] \in PCs /\ ShapeOf(w) /\ ShapeOf(v) /\ delivered \in Nat
        BY DEF TypeInv, TypeOK, Shape
    <2>2. CASE v = w
        <3>1. inbox'[w].next = inbox[w].next + 1 /\ inbox'[w].last = inbox[w].last
            BY <2>1 DEF TypeInv, TypeOK, Inboxes
        <3>2. pc'[w] = IF inbox[w].next < inbox[w].last THEN "entry" ELSE "loop"
            BY DEF TypeInv, TypeOK
        <3>3. QED
            BY <2>1, <2>2, <3>1, <3>2 DEF ShapeOf, Inboxes, Busy, Idle, Writing
    <2>3. CASE v # w
        BY <2>1, <2>3, ShapeKept DEF TypeInv, TypeOK
    <2>4. QED
        BY <2>2, <2>3
<1>6. Shape'
    BY <1>5 DEF TypeInv, Shape
<1>7. QED
    BY <1>1, <1>2, <1>3, <1>4, <1>6

(* Going on to the next page. *)
LEMMA NextPageType ==
    ASSUME TypeInv, NEW w \in Workers, NextPage(w)
    PROVE  /\ pc' \in [Workers -> PCs]
           /\ job' \in [Workers -> Jobs]
<1> USE DEF NextPage, Goto
<1>1. pc' \in [Workers -> PCs]
    BY DEF TypeInv, TypeOK, PCs
<1>2. \A j \in Jobs, k \in Nat, S \in SUBSET Users :
          [j EXCEPT !.page = k, !.batch = S, !.todo = S] \in Jobs
    BY DEF Jobs
<1>3. job' = [job EXCEPT ![w] = [job[w] EXCEPT !.page = job[w].page + 1, !.batch = {}, !.todo = {}]]
    BY DEF TypeInv, TypeOK, Jobs
<1>4. job \in [Workers -> Jobs] /\ job[w].page + 1 \in Nat
    BY DEF TypeInv, TypeOK, Jobs
<1>5. [job[w] EXCEPT !.page = job[w].page + 1, !.batch = {}, !.todo = {}] \in Jobs
    <2>1. {} \in SUBSET Users /\ job[w] \in Jobs
        BY <1>4
    <2>2. QED
        BY <1>2, <1>4, <2>1
<1>6. QED
    BY <1>1, <1>3, <1>4, <1>5

LEMMA LoopTypeInv ==
    ASSUME TypeInv, NEW w \in Workers, Loop(w)
    PROVE  TypeInv'
<1> USE DEF Loop, mysql, group, cache, worker, bounds, At, Goto
<1>1. pc' \in [Workers -> PCs]
    BY DEF TypeInv, TypeOK, PCs, Idle, Writing
<1>2. TypeOK'
    BY <1>1 DEF TypeInv, TypeOK
<1>3. ASSUME NEW v \in Workers PROVE ShapeOf(v)'
    <2>1. CASE v = w
        BY <2>1 DEF TypeInv, TypeOK, Shape, ShapeOf, Current, PCs, Idle, Writing, Busy
    <2>2. CASE v # w
        BY <2>2, ShapeKept DEF TypeInv, TypeOK
    <2>3. QED
        BY <2>1, <2>2
<1>4. QED
    BY <1>2, <1>3 DEF TypeInv, Shape

LEMMA ReadFailsTypeInv ==
    ASSUME TypeInv, NEW w \in Workers, ReadFails(w)
    PROVE  TypeInv'
<1> USE DEF ReadFails, mysql, group, cache, worker, bounds, At, Goto
<1>1. pc' \in [Workers -> PCs]
    BY DEF TypeInv, TypeOK, PCs, Idle, Writing
<1>2. TypeOK'
    BY <1>1 DEF TypeInv, TypeOK
<1>3. ASSUME NEW v \in Workers PROVE ShapeOf(v)'
    <2>1. CASE v = w
        BY <2>1 DEF TypeInv, TypeOK, Shape, ShapeOf, Current, PCs, Idle, Writing, Busy
    <2>2. CASE v # w
        BY <2>2, ShapeKept DEF TypeInv, TypeOK
    <2>3. QED
        BY <2>1, <2>2
<1>4. QED
    BY <1>2, <1>3 DEF TypeInv, Shape

LEMMA StartTypeInv ==
    ASSUME TypeInv, NEW w \in Workers, Start(w)
    PROVE  TypeInv'
<1> USE DEF Start, mysql, group, cache, worker, bounds, At, Goto
<1>1. delivered' \in Nat /\ delivered' = delivered /\ inbox' = inbox /\ job' = job /\ stream' = stream
    BY DEF TypeInv, TypeOK, Shape
<1>2. pc' \in [Workers -> PCs]
    BY DEF TypeInv, TypeOK, PCs, Idle, Writing
<1>3. main' \in [Workers -> MainStates]
    BY DEF TypeInv, TypeOK, MainStates, Phases
<1>4. TypeOK'
    BY <1>2, <1>3 DEF TypeInv, TypeOK
<1>5. ASSUME NEW v \in Workers PROVE ShapeOf(v)'
    <2>1. CASE v = w
        BY <2>1, <1>1 DEF TypeInv, TypeOK, Shape, ShapeOf, Current, PCs, Idle, Writing, Busy
    <2>2. CASE v # w
        BY <2>2, <1>1, ShapeKept DEF TypeInv, TypeOK
    <2>3. QED
        BY <2>1, <2>2
<1>6. QED
    BY <1>4, <1>5, <1>1 DEF TypeInv, Shape

LEMMA CancelContextTypeInv ==
    ASSUME TypeInv, NEW w \in Workers, CancelContext(w)
    PROVE  TypeInv'
<1> USE DEF CancelContext, mysql, group, cache, worker, bounds
<1>1. main' \in [Workers -> MainStates]
    BY DEF TypeInv, TypeOK, MainStates
<1>2. TypeOK'
    BY <1>1 DEF TypeInv, TypeOK
<1>3. ASSUME NEW v \in Workers PROVE ShapeOf(v)'
    <2>1. CASE v = w
        BY <2>1 DEF TypeInv, TypeOK, Shape, ShapeOf, Current, MainStates
    <2>2. CASE v # w
        BY <2>2, ShapeKept DEF TypeInv, TypeOK
    <2>3. QED
        BY <2>1, <2>2
<1>4. QED
    BY <1>2, <1>3 DEF TypeInv, Shape

LEMMA SignalTypeInv ==
    ASSUME TypeInv, NEW w \in Workers, Signal(w)
    PROVE  TypeInv'
<1> USE DEF Signal, mysql, group, cache, worker, bounds, Fault
<1>1. main' \in [Workers -> MainStates]
    BY DEF TypeInv, TypeOK, MainStates, Phases
<1>2. TypeOK'
    BY <1>1 DEF TypeInv, TypeOK
<1>3. ASSUME NEW v \in Workers PROVE ShapeOf(v)'
    <2>1. CASE v = w
        BY <2>1 DEF TypeInv, TypeOK, Shape, ShapeOf, Current, MainStates
    <2>2. CASE v # w
        BY <2>2, ShapeKept DEF TypeInv, TypeOK
    <2>3. QED
        BY <2>1, <2>2
<1>4. QED
    BY <1>2, <1>3 DEF TypeInv, Shape

LEMMA PageDoneTypeInv ==
    ASSUME TypeInv, NEW w \in Workers, PageDone(w)
    PROVE  TypeInv'
<1> USE DEF PageDone, mysql, group, cache, worker, bounds, At, Goto
<1>1. pc' \in [Workers -> PCs]
    BY NextPageType
<1>2. job' \in [Workers -> Jobs]
    BY NextPageType
<1>3. TypeOK'
    BY <1>1, <1>2 DEF TypeInv, TypeOK
<1>4. ASSUME NEW v \in Workers PROVE ShapeOf(v)'
    <2>1. CASE v = w
        BY <2>1 DEF TypeInv, TypeOK, Shape, ShapeOf, Current, PCs, Idle, Writing, Busy, NextPage, Jobs
    <2>2. CASE v # w
        BY <2>2, ShapeKept DEF TypeInv, TypeOK, NextPage
    <2>3. QED
        BY <2>1, <2>2
<1>5. QED
    BY <1>3, <1>4 DEF TypeInv, Shape

LEMMA ZAddNextTypeInv ==
    ASSUME TypeInv, NEW w \in Workers, ZAddNext(w)
    PROVE  TypeInv'
<1> USE DEF ZAddNext, mysql, group, cache, worker, bounds, At, Goto
<1>1. job[w].todo # {} /\ job[w].todo \subseteq Users /\ First(job[w].todo) \in job[w].todo
    BY FirstInSet DEF TypeInv, TypeOK, Shape, ShapeOf, Jobs
<1>2. Post(w) \in Posts
    BY CurrentEntry DEF TypeInv, Shape, ShapeOf, Idle, Busy, Writing
<1>3. pc' \in [Workers -> PCs]
    BY DEF TypeInv, TypeOK, PCs, Idle, Writing
<1>4. timelines' \in [Users -> Timelines]
    BY <1>1, <1>2 DEF TypeInv, TypeOK, ZAdd, Timelines, Jobs
<1>5. seen' \in [Workers -> Views]
    BY <1>1 DEF TypeInv, TypeOK, Views
<1>6. TypeOK'
    BY <1>3, <1>4, <1>5 DEF TypeInv, TypeOK
<1>7. ASSUME NEW v \in Workers PROVE ShapeOf(v)'
    <2>1. CASE v = w
        BY <2>1, <1>1, <1>2 DEF TypeInv, TypeOK, Shape, ShapeOf, Current, PCs, Idle, Writing, Busy
    <2>2. CASE v # w
        BY <2>2, <1>1, <1>2, ShapeKept DEF TypeInv, TypeOK
    <2>3. QED
        BY <2>1, <2>2
<1>8. QED
    BY <1>6, <1>7, <1>1, <1>2 DEF TypeInv, Shape

LEMMA TrimNextTypeInv ==
    ASSUME TypeInv, NEW w \in Workers, TrimNext(w)
    PROVE  TypeInv'
<1> USE DEF TrimNext, mysql, group, cache, worker, bounds, At, Goto
<1>1. job[w].todo # {} /\ job[w].todo \subseteq Users /\ First(job[w].todo) \in job[w].todo
    BY FirstInSet DEF TypeInv, TypeOK, Shape, ShapeOf, Jobs
<1>2. pc' \in [Workers -> PCs]
    BY DEF TypeInv, TypeOK, PCs, Idle, Writing
<1>3. timelines' \in [Users -> Timelines]
    BY <1>1, TrimType DEF TypeInv, TypeOK
<1>4. TypeOK'
    BY <1>2, <1>3 DEF TypeInv, TypeOK
<1>5. ASSUME NEW v \in Workers PROVE ShapeOf(v)'
    <2>1. CASE v = w
        BY <2>1, <1>1 DEF TypeInv, TypeOK, Shape, ShapeOf, Current, PCs, Idle, Writing, Busy
    <2>2. CASE v # w
        BY <2>2, <1>1, ShapeKept DEF TypeInv, TypeOK
    <2>3. QED
        BY <2>1, <2>2
<1>6. QED
    BY <1>4, <1>5, <1>1 DEF TypeInv, Shape

LEMMA ExpireNextTypeInv ==
    ASSUME TypeInv, NEW w \in Workers, ExpireNext(w)
    PROVE  TypeInv'
<1> USE DEF ExpireNext, mysql, group, cache, worker, bounds, At, Goto
<1>1. job[w].todo # {} /\ job[w].todo \subseteq Users /\ First(job[w].todo) \in job[w].todo
    BY FirstInSet DEF TypeInv, TypeOK, Shape, ShapeOf, Jobs
<1>2. pc' \in [Workers -> PCs]
    BY DEF TypeInv, TypeOK, PCs, Idle, Writing
<1>3. ttl' \in [Users -> BOOLEAN]
    BY <1>1 DEF TypeInv, TypeOK
<1>4. job' \in [Workers -> Jobs]
    BY <1>1 DEF TypeInv, TypeOK, Jobs
<1>5. TypeOK'
    BY <1>2, <1>3, <1>4 DEF TypeInv, TypeOK
<1>6. ASSUME NEW v \in Workers PROVE ShapeOf(v)'
    <2>1. CASE v = w
        BY <2>1, <1>1 DEF TypeInv, TypeOK, Shape, ShapeOf, Current, PCs, Idle, Writing, Busy, Jobs
    <2>2. CASE v # w
        BY <2>2, <1>1, ShapeKept DEF TypeInv, TypeOK
    <2>3. QED
        BY <2>1, <2>2
<1>7. QED
    BY <1>5, <1>6, <1>1 DEF TypeInv, Shape

LEMMA CountTypeInv ==
    ASSUME TypeInv, NEW w \in Workers, Count(w)
    PROVE  TypeInv'
<1> USE DEF Count, mysql, group, cache, worker, bounds, At, Goto
<1>1. followers[Author(w)] \subseteq Users
    BY CurrentEntry DEF TypeInv, TypeOK, Shape, ShapeOf, Idle, Busy
<1>2. pc' \in [Workers -> PCs]
    BY DEF TypeInv, TypeOK, PCs, Idle, Writing
<1>3. job' \in [Workers -> Jobs]
    BY <1>1, PageCountType, RowsFinite DEF TypeInv, TypeOK, Jobs, NoJob
<1>4. seen' \in [Workers -> Views]
    BY <1>1 DEF TypeInv, TypeOK, Views
<1>5. TypeOK'
    BY <1>2, <1>3, <1>4 DEF TypeInv, TypeOK
<1>6. ASSUME NEW v \in Workers PROVE ShapeOf(v)'
    <2>1. CASE v = w
        BY <2>1, <1>1 DEF TypeInv, TypeOK, Shape, ShapeOf, Current, PCs, Idle, Writing, Busy
    <2>2. CASE v # w
        BY <2>2, <1>1, ShapeKept DEF TypeInv, TypeOK
    <2>3. QED
        BY <2>1, <2>2
<1>7. QED
    BY <1>5, <1>6, <1>1 DEF TypeInv, Shape

LEMMA PipelineRetriedTypeInv ==
    ASSUME TypeInv, NEW w \in Workers, PipelineRetried(w)
    PROVE  TypeInv'
<1> USE DEF PipelineRetried, mysql, group, cache, worker, bounds, At, Goto, Fault
<1>1. pc' \in [Workers -> PCs]
    BY DEF TypeInv, TypeOK, PCs, Idle, Writing
<1>2. job' \in [Workers -> Jobs]
    BY DEF TypeInv, TypeOK, Jobs
<1>3. TypeOK'
    BY <1>1, <1>2 DEF TypeInv, TypeOK
<1>4. ASSUME NEW v \in Workers PROVE ShapeOf(v)'
    <2>1. CASE v = w
        BY <2>1 DEF TypeInv, TypeOK, Shape, ShapeOf, Current, PCs, Idle, Writing, Busy, Jobs
    <2>2. CASE v # w
        BY <2>2, ShapeKept DEF TypeInv, TypeOK
    <2>3. QED
        BY <2>1, <2>2
<1>5. QED
    BY <1>3, <1>4 DEF TypeInv, Shape

LEMMA ReadTypeInv ==
    ASSUME TypeInv, NEW w \in Workers, Read(w)
    PROVE  TypeInv'
<1> USE DEF Read, mysql, group, cache, worker, bounds, At, Goto, Deliver
<1>1. groupUp
    BY DEF TypeInv, Shape, ShapeOf
<1>2. delivered \in Nat /\ delivered < Len(stream)
    BY FanoutAssumption DEF TypeInv, TypeOK, Shape, ReadLimit
<1>3. ReadLimit \in Nat /\ delivered < ReadLimit /\ ReadLimit <= Len(stream)
    BY <1>2, FanoutAssumption DEF TypeInv, TypeOK, Shape, ReadLimit
<1>4. pc' \in [Workers -> PCs]
    BY DEF TypeInv, TypeOK, PCs, Idle, Writing
<1>5. inbox' \in [Workers -> Inboxes]
    BY <1>2, <1>3 DEF TypeInv, TypeOK, Inboxes
<1>6. delivered' \in Nat /\ pending' \in SUBSET Nat
    BY <1>2, <1>3 DEF TypeInv, TypeOK
<1>7. TypeOK'
    BY <1>4, <1>5, <1>6 DEF TypeInv, TypeOK
<1>8. ASSUME NEW v \in Workers PROVE ShapeOf(v)'
    <2>1. CASE v = w
        BY <2>1, <1>1, <1>2, <1>3 DEF TypeInv, TypeOK, Shape, ShapeOf, Current, PCs, Idle, Writing, Busy
    <2>2. CASE v # w
        BY <2>2, <1>1, <1>2, <1>3, ShapeKept DEF TypeInv, TypeOK
    <2>3. QED
        BY <2>1, <2>2
<1>9. QED
    BY <1>7, <1>8, <1>1, <1>2, <1>3 DEF TypeInv, Shape

LEMMA ReadReplyLostTypeInv ==
    ASSUME TypeInv, NEW w \in Workers, ReadReplyLost(w)
    PROVE  TypeInv'
<1> USE DEF ReadReplyLost, mysql, group, cache, worker, bounds, At, Goto, Deliver, Fault
<1>1. groupUp
    BY DEF TypeInv, Shape, ShapeOf
<1>2. delivered \in Nat /\ delivered < Len(stream)
    BY FanoutAssumption DEF TypeInv, TypeOK, Shape, ReadLimit
<1>3. ReadLimit \in Nat /\ delivered < ReadLimit /\ ReadLimit <= Len(stream)
    BY <1>2, FanoutAssumption DEF TypeInv, TypeOK, Shape, ReadLimit
<1>4. pc' \in [Workers -> PCs]
    BY DEF TypeInv, TypeOK, PCs, Idle, Writing
<1>5. delivered' \in Nat /\ pending' \in SUBSET Nat /\ hit' \in SUBSET Nat
    BY <1>2, <1>3 DEF TypeInv, TypeOK
<1>6. TypeOK'
    BY <1>4, <1>5 DEF TypeInv, TypeOK
<1>7. ASSUME NEW v \in Workers PROVE ShapeOf(v)'
    <2>1. CASE v = w
        BY <2>1, <1>1, <1>2, <1>3 DEF TypeInv, TypeOK, Shape, ShapeOf, Current, PCs, Idle, Writing, Busy, Inboxes
    <2>2. CASE v # w
        BY <2>2, <1>1, <1>2, <1>3, ShapeKept DEF TypeInv, TypeOK
    <2>3. QED
        BY <2>1, <2>2
<1>8. QED
    BY <1>6, <1>7, <1>1, <1>2, <1>3 DEF TypeInv, Shape

LEMMA SkipMalformedTypeInv ==
    ASSUME TypeInv, NEW w \in Workers, SkipMalformed(w)
    PROVE  TypeInv'
<1>1. pc[w] \notin Idle /\ NextEntry(w)
    BY DEF SkipMalformed, Idle, At, Writing
<1>2. /\ UNCHANGED <<main, stream, groupUp, delivered, followers, timelines, ttl, now, changes>>
      /\ hit' \in {hit, hit \cup {Current(w)}}
      /\ pending' \in {pending, pending \ {Current(w)}}
      /\ faults' \in {faults, faults + 1}
    BY DEF SkipMalformed, mysql, group, cache, bounds, Fault, NoFault
<1>3. Current(w) \in Nat
    BY DEF TypeInv, TypeOK, Inboxes, Current
<1>4. pending' \in SUBSET Nat /\ hit' \in SUBSET Nat /\ faults' \in Nat
    BY <1>2, <1>3 DEF TypeInv, TypeOK
<1>5. /\ pc' \in [Workers -> PCs] /\ inbox' \in [Workers -> Inboxes]
      /\ job' \in [Workers -> Jobs] /\ seen' \in [Workers -> Views]
      /\ Shape'
    BY <1>1, <1>2, NextEntryShape
<1>6. TypeOK'
    BY <1>2, <1>4, <1>5 DEF TypeInv, TypeOK
<1>7. QED
    BY <1>5, <1>6 DEF TypeInv

LEMMA GiveUpTypeInv ==
    ASSUME TypeInv, NEW w \in Workers, GiveUp(w)
    PROVE  TypeInv'
<1>1. pc[w] \notin Idle /\ NextEntry(w)
    BY DEF GiveUp, Idle, At, Writing
<1>2. /\ UNCHANGED <<main, stream, groupUp, delivered, followers, timelines, ttl, now, changes>>
      /\ hit' \in {hit, hit \cup {Current(w)}}
      /\ pending' \in {pending, pending \ {Current(w)}}
      /\ faults' \in {faults, faults + 1}
    BY DEF GiveUp, mysql, group, cache, bounds, Fault, NoFault
<1>3. Current(w) \in Nat
    BY DEF TypeInv, TypeOK, Inboxes, Current
<1>4. pending' \in SUBSET Nat /\ hit' \in SUBSET Nat /\ faults' \in Nat
    BY <1>2, <1>3 DEF TypeInv, TypeOK
<1>5. /\ pc' \in [Workers -> PCs] /\ inbox' \in [Workers -> Inboxes]
      /\ job' \in [Workers -> Jobs] /\ seen' \in [Workers -> Views]
      /\ Shape'
    BY <1>1, <1>2, NextEntryShape
<1>6. TypeOK'
    BY <1>2, <1>4, <1>5 DEF TypeInv, TypeOK
<1>7. QED
    BY <1>5, <1>6 DEF TypeInv

LEMMA AckTypeInv ==
    ASSUME TypeInv, NEW w \in Workers, Ack(w)
    PROVE  TypeInv'
<1>1. pc[w] \notin Idle /\ NextEntry(w)
    BY DEF Ack, Idle, At, Writing
<1>2. /\ UNCHANGED <<main, stream, groupUp, delivered, followers, timelines, ttl, now, changes>>
      /\ hit' \in {hit, hit \cup {Current(w)}}
      /\ pending' \in {pending, pending \ {Current(w)}}
      /\ faults' \in {faults, faults + 1}
    BY DEF Ack, mysql, group, cache, bounds
<1>3. Current(w) \in Nat
    BY DEF TypeInv, TypeOK, Inboxes, Current
<1>4. pending' \in SUBSET Nat /\ hit' \in SUBSET Nat /\ faults' \in Nat
    BY <1>2, <1>3 DEF TypeInv, TypeOK
<1>5. /\ pc' \in [Workers -> PCs] /\ inbox' \in [Workers -> Inboxes]
      /\ job' \in [Workers -> Jobs] /\ seen' \in [Workers -> Views]
      /\ Shape'
    BY <1>1, <1>2, NextEntryShape
<1>6. TypeOK'
    BY <1>2, <1>4, <1>5 DEF TypeInv, TypeOK
<1>7. QED
    BY <1>5, <1>6 DEF TypeInv

LEMMA AckFailsTypeInv ==
    ASSUME TypeInv, NEW w \in Workers, AckFails(w)
    PROVE  TypeInv'
<1>1. pc[w] \notin Idle /\ NextEntry(w)
    BY DEF AckFails, Idle, At, Writing
<1>2. /\ UNCHANGED <<main, stream, groupUp, delivered, followers, timelines, ttl, now, changes>>
      /\ hit' \in {hit, hit \cup {Current(w)}}
      /\ pending' \in {pending, pending \ {Current(w)}}
      /\ faults' \in {faults, faults + 1}
    BY DEF AckFails, mysql, group, cache, bounds, Fault, NoFault
<1>3. Current(w) \in Nat
    BY DEF TypeInv, TypeOK, Inboxes, Current
<1>4. pending' \in SUBSET Nat /\ hit' \in SUBSET Nat /\ faults' \in Nat
    BY <1>2, <1>3 DEF TypeInv, TypeOK
<1>5. /\ pc' \in [Workers -> PCs] /\ inbox' \in [Workers -> Inboxes]
      /\ job' \in [Workers -> Jobs] /\ seen' \in [Workers -> Views]
      /\ Shape'
    BY <1>1, <1>2, NextEntryShape
<1>6. TypeOK'
    BY <1>2, <1>4, <1>5 DEF TypeInv, TypeOK
<1>7. QED
    BY <1>5, <1>6 DEF TypeInv

LEMMA FetchPageTypeInv ==
    ASSUME TypeInv, NEW w \in Workers, FetchPage(w)
    PROVE  TypeInv'
<1> DEFINE rows == PageOf(followers[Author(w)], job[w].page * BatchSize, BatchSize)
<1> USE DEF mysql, group, cache, bounds
<1>1. At(w, "page") /\ UNCHANGED <<mysql, stream, group, cache, main, inbox, bounds, seen, hit>>
    BY DEF FetchPage
<1>2. rows \subseteq Users
    <2>1. Author(w) \in Authors
        BY <1>1, CurrentEntry DEF TypeInv, Shape, ShapeOf, Idle, Busy, At
    <2>2. QED
        BY <2>1 DEF TypeInv, TypeOK, PageOf
<1>3. CASE rows = {}
    <2>1. NextPage(w)
        BY <1>3 DEF FetchPage
    <2>2. TypeOK'
        BY <1>1, <2>1, NextPageType DEF TypeInv, TypeOK
    <2>3. ASSUME NEW v \in Workers PROVE ShapeOf(v)'
        <3>1. CASE v = w
            BY <1>1, <2>1, <3>1 DEF NextPage, At, Goto, TypeInv, TypeOK, Shape, ShapeOf, Current,
                                    Idle, Busy, Writing
        <3>2. CASE v # w
            BY <1>1, <2>1, <3>2, ShapeKept DEF NextPage, Goto, TypeInv, TypeOK
        <3>3. QED
            BY <3>1, <3>2
    <2>4. QED
        BY <1>1, <2>2, <2>3 DEF TypeInv, Shape
<1>4. CASE rows # {}
    <2>1. /\ job' = [job EXCEPT ![w].batch = rows, ![w].todo = rows, ![w].stamp = now]
          /\ Goto(w, "zadd")
        BY <1>4 DEF FetchPage
    <2> HIDE DEF rows
    <2>2. pc' \in [Workers -> PCs]
        BY <2>1 DEF TypeInv, TypeOK, PCs, Writing, Goto
    <2>3. \A j \in Jobs : [j EXCEPT !.batch = rows, !.todo = rows, !.stamp = now] \in Jobs
        BY <1>2 DEF Jobs, TypeInv, TypeOK
    <2>4. job' \in [Workers -> Jobs]
        BY <2>1, <2>3 DEF TypeInv, TypeOK
    <2>5. TypeOK'
        BY <1>1, <2>2, <2>4 DEF TypeInv, TypeOK
    <2>6. ASSUME NEW v \in Workers PROVE ShapeOf(v)'
        <3>1. CASE v = w
            <4>1. job'[w].batch = rows /\ job'[w].todo = rows /\ pc'[w] = "zadd"
                BY <2>1 DEF Goto, TypeInv, TypeOK, Jobs
            <4>2. QED
                BY <1>1, <1>4, <3>1, <4>1 DEF At, TypeInv, Shape, ShapeOf, Current,
                                              Idle, Busy, Writing
        <3>2. CASE v # w
            BY <1>1, <2>1, <3>2, ShapeKept DEF Goto, TypeInv, TypeOK
        <3>3. QED
            BY <3>1, <3>2
    <2>7. QED
        BY <1>1, <2>5, <2>6 DEF TypeInv, Shape
<1>5. QED
    BY <1>3, <1>4

LEMMA CloseTypeInv ==
    ASSUME TypeInv, NEW w \in Workers, NEW to \in Phases \ {"down"},
           main[w].phase # "down", Close(w, main[w].phase, to)
    PROVE  TypeInv'
<1> USE DEF Close, mysql, group, cache, bounds
<1>1. main' \in [Workers -> MainStates]
    BY DEF TypeInv, TypeOK, MainStates, Phases
<1>2. TypeOK'
    BY <1>1 DEF TypeInv, TypeOK
<1>3. ASSUME NEW v \in Workers PROVE ShapeOf(v)'
    <2>1. CASE v = w
        BY <2>1 DEF TypeInv, TypeOK, Shape, ShapeOf, Current, MainStates
    <2>2. CASE v # w
        BY <2>2, ShapeKept DEF TypeInv, TypeOK
    <2>3. QED
        BY <2>1, <2>2
<1>4. QED
    BY <1>2, <1>3 DEF TypeInv, Shape

LEMMA DieTypeInv ==
    ASSUME TypeInv, NEW w \in Workers, Die(w), faults' \in Nat
    PROVE  TypeInv'
<1> USE DEF Die, Goto, mysql, group, cache
<1>1. main' \in [Workers -> MainStates] /\ pc' \in [Workers -> PCs]
    BY DEF TypeInv, TypeOK, MainStates, Phases, PCs, Idle
<1>2. inbox' \in [Workers -> Inboxes] /\ job' \in [Workers -> Jobs] /\ seen' \in [Workers -> Views]
    BY DEF TypeInv, TypeOK, Inboxes, NoInbox, Jobs, NoJob, Views, NoView
<1>3. hit' \in SUBSET Nat
    <2>1. Held(w) \subseteq Nat
        BY DEF TypeInv, TypeOK, Held, Inboxes
    <2>2. QED
        BY <2>1 DEF TypeInv, TypeOK
<1>4. TypeOK'
    BY <1>1, <1>2, <1>3 DEF TypeInv, TypeOK
<1>5. ASSUME NEW v \in Workers PROVE ShapeOf(v)'
    <2>1. CASE v = w
        BY <2>1 DEF TypeInv, TypeOK, Shape, ShapeOf, NoInbox, Idle, Busy, Writing
    <2>2. CASE v # w
        BY <2>2, ShapeKept DEF TypeInv, TypeOK
    <2>3. QED
        BY <2>1, <2>2
<1>6. QED
    BY <1>4, <1>5 DEF TypeInv, Shape

LEMMA EnvironmentTypeInv ==
    ASSUME TypeInv, Environment
    PROVE  TypeInv'
<1> USE DEF mysql, group, cache, worker, bounds
<1>1. CASE Publish
    <2>1. PICK e \in Entries : stream' = Append(stream, e)
        BY <1>1 DEF Publish
    <2>2. /\ stream' \in Seq(Entries) /\ Len(stream') = Len(stream) + 1
          /\ \A i \in 1 .. Len(stream) : stream'[i] = stream[i]
        BY <2>1 DEF TypeInv, TypeOK
    <2>3. TypeOK'
        BY <1>1, <2>2 DEF Publish, TypeInv, TypeOK
    <2>4. \A v \in Workers : ShapeOf(v)'
        BY <1>1, <2>2, ShapeKept DEF Publish, TypeInv, TypeOK, Shape
    <2>5. QED
        BY <1>1, <2>2, <2>3, <2>4 DEF Publish, TypeInv, TypeOK, Shape
<1>2. ASSUME NEW a \in Authors, NEW u \in Users, Follow(a, u) \/ Unfollow(a, u) PROVE TypeInv'
    <2>1. Watching(a, u) \in [Workers -> Views]
        BY DEF TypeInv, TypeOK, Watching, Views
    <2>2. followers' \in [Authors -> SUBSET Users] /\ changes' \in Nat
        BY <1>2 DEF Follow, Unfollow, TypeInv, TypeOK
    <2>3. TypeOK'
        BY <1>2, <2>1, <2>2 DEF Follow, Unfollow, TypeInv, TypeOK
    <2>4. \A v \in Workers : ShapeOf(v)'
        BY <1>2, ShapeKept DEF Follow, Unfollow, TypeInv, TypeOK
    <2>5. QED
        BY <1>2, <2>3, <2>4 DEF Follow, Unfollow, TypeInv, Shape
<1>3. ASSUME NEW u \in Users, TimelineExpires(u) PROVE TypeInv'
    <2>1. timelines' \in [Users -> Timelines] /\ ttl' \in [Users -> BOOLEAN]
        BY <1>3 DEF TimelineExpires, TypeInv, TypeOK, NoTimeline, Timelines
    <2>2. TypeOK'
        BY <1>3, <2>1 DEF TimelineExpires, TypeInv, TypeOK
    <2>3. \A v \in Workers : ShapeOf(v)'
        BY <1>3, ShapeKept DEF TimelineExpires, TypeInv, TypeOK
    <2>4. QED
        BY <1>3, <2>2, <2>3 DEF TimelineExpires, TypeInv, Shape
<1>4. ASSUME NEW u \in Users, NEW p \in Posts, Delist(u, p) PROVE TypeInv'
    <2>1. timelines' \in [Users -> Timelines] /\ ttl' \in [Users -> BOOLEAN]
        BY <1>4 DEF Delist, TypeInv, TypeOK, ZRem, Timelines
    <2>2. TypeOK'
        BY <1>4, <2>1 DEF Delist, TypeInv, TypeOK
    <2>3. \A v \in Workers : ShapeOf(v)'
        BY <1>4, ShapeKept DEF Delist, TypeInv, TypeOK
    <2>4. QED
        BY <1>4, <2>2, <2>3 DEF Delist, TypeInv, Shape
<1>5. CASE Tick
    <2>1. TypeOK'
        BY <1>5 DEF Tick, TypeInv, TypeOK
    <2>2. \A v \in Workers : ShapeOf(v)'
        BY <1>5, ShapeKept DEF Tick, TypeInv, TypeOK
    <2>3. QED
        BY <1>5, <2>1, <2>2 DEF Tick, TypeInv, Shape
<1>6. QED
    BY <1>1, <1>2, <1>3, <1>4, <1>5 DEF Environment

LEMMA StutterTypeInv ==
    ASSUME TypeInv, UNCHANGED vars
    PROVE  TypeInv'
<1> USE DEF vars, mysql, group, cache, worker, bounds
<1>1. TypeOK'
    BY DEF TypeInv, TypeOK
<1>2. \A v \in Workers : ShapeOf(v)'
    BY ShapeKept DEF TypeInv, TypeOK
<1>3. QED
    BY <1>1, <1>2 DEF TypeInv, Shape

LEMMA WorkerTypeInv ==
    ASSUME TypeInv, NEW w \in Workers, WorkerNext(w)
    PROVE  TypeInv'
<1>1. CASE Consume(w)
    BY <1>1, LoopTypeInv, ReadTypeInv, ReadFailsTypeInv, SkipMalformedTypeInv, CountTypeInv,
       FetchPageTypeInv, ZAddNextTypeInv, TrimNextTypeInv, ExpireNextTypeInv, PageDoneTypeInv,
       GiveUpTypeInv, AckTypeInv, AckFailsTypeInv DEF Consume
<1>2. CASE CloseDB(w) \/ CloseRedis(w)
    <2>1. main[w].phase # "down"
        BY <1>2 DEF CloseDB, CloseRedis, Close
    <2>2. \E to \in Phases \ {"down"} : Close(w, main[w].phase, to)
        BY <1>2 DEF CloseDB, CloseRedis, Close, Phases
    <2>3. QED
        BY <2>1, <2>2, CloseTypeInv
<1>3. CASE Exit(w) \/ Crash(w)
    <2>1. Die(w) /\ faults' \in Nat
        BY <1>3 DEF Exit, Crash, Fault, NoFault, TypeInv, TypeOK
    <2>2. QED
        BY <2>1, DieTypeInv
<1>4. QED
    BY <1>1, <1>2, <1>3, StartTypeInv, ReadReplyLostTypeInv, PipelineRetriedTypeInv, SignalTypeInv,
       CancelContextTypeInv DEF WorkerNext, Shutdown

LEMMA NextTypeInv == TypeInv /\ [Next]_vars => TypeInv'
BY WorkerTypeInv, EnvironmentTypeInv, StutterTypeInv DEF Next

LEMMA InvariantTypeInv == Spec => []TypeInv
<1>1. QED
    BY InitTypeInv, NextTypeInv, PTL DEF Spec

(* Every variable keeps its type, whatever the number of workers, the page *)
(* size and the interleaving of the workers with the users' follows.       *)
THEOREM TypeCorrect == Spec => []TypeOK
<1>1. TypeInv => TypeOK
    BY DEF TypeInv
<1>2. QED
    BY <1>1, InvariantTypeInv, PTL

-----------------------------------------------------------------------------
(* Who holds which entry.  The invariant is the conjunction of the two      *)
(* properties with the types and the shape of the local states, which say  *)
(* that a worker that is reading holds nothing.                            *)
HoldInv == TypeInv /\ OneHolder /\ StrandedWereHit

LEMMA HeldRange ==
    ASSUME TypeInv, NEW w \in Workers
    PROVE  Held(w) \subseteq Nat /\ (pc[w] \in Idle => Held(w) = {})
BY DEF TypeInv, TypeOK, Shape, ShapeOf, Held, Inboxes

(* Steps that touch neither an inbox nor the group. *)
LEMMA HoldersKept ==
    ASSUME HoldInv, inbox' = inbox, pending' = pending, delivered' = delivered, hit \subseteq hit'
    PROVE  OneHolder' /\ StrandedWereHit'
<1>1. \A w \in Workers : Held(w)' = Held(w)
    BY DEF Held
<1>2. OneHolder'
    BY <1>1 DEF HoldInv, OneHolder
<1>3. Stranded' = Stranded
    BY <1>1 DEF Stranded
<1>4. QED
    BY <1>2, <1>3 DEF HoldInv, StrandedWereHit

(* A worker leaves an entry: it is acknowledged, or it was hit. *)
LEMMA HoldersLeave ==
    ASSUME HoldInv, NEW w \in Workers, pc[w] \notin Idle,
           inbox' = [inbox EXCEPT ![w].next = @ + 1], delivered' = delivered,
           \/ pending' = pending \ {Current(w)} /\ hit' = hit
           \/ pending' = pending /\ hit' = hit \cup {Current(w)}
    PROVE  OneHolder' /\ StrandedWereHit'
<1>1. inbox \in [Workers -> Inboxes] /\ inbox[w] \in Inboxes
    BY DEF HoldInv, TypeInv, TypeOK
<1>2. Current(w) \in Held(w)
    BY CurrentEntry DEF HoldInv
<1>3. Held(w)' = Held(w) \ {Current(w)}
    <2>1. inbox'[w].next = inbox[w].next + 1 /\ inbox'[w].last = inbox[w].last
        BY <1>1 DEF Inboxes
    <2>2. QED
        BY <1>1, <2>1 DEF Held, Current, Inboxes
<1>4. \A v \in Workers \ {w} : Held(v)' = Held(v) /\ Current(w) \notin Held(v)
    BY <1>1, <1>2 DEF Held, HoldInv, OneHolder
<1>5. OneHolder'
    <2> SUFFICES ASSUME NEW v \in Workers
                 PROVE  /\ Held(v)' \subseteq pending'
                        /\ Held(v)' \subseteq (1 .. delivered)'
                        /\ \A u \in Workers : u # v => Held(u)' \cap Held(v)' = {}
        BY DEF OneHolder
    <2>1. Held(v)' \subseteq Held(v) /\ Current(w) \notin Held(v)'
        BY <1>3, <1>4
    <2>2. \A u \in Workers : Held(u)' \subseteq Held(u)
        BY <1>3, <1>4
    <2>3. QED
        BY <2>1, <2>2 DEF HoldInv, OneHolder
<1>6. StrandedWereHit'
    <2>1. pending' \subseteq pending
        OBVIOUS
    <2>2. Stranded' \subseteq Stranded \cup {Current(w)}
        BY <1>3, <1>4, <2>1 DEF Stranded
    <2>3. Stranded \subseteq hit
        BY DEF HoldInv, StrandedWereHit
    <2>4. Stranded' \subseteq pending'
        BY DEF Stranded
    <2>5. CASE pending' = pending \ {Current(w)} /\ hit' = hit
        BY <2>2, <2>3, <2>4, <2>5 DEF StrandedWereHit
    <2>6. CASE pending' = pending /\ hit' = hit \cup {Current(w)}
        BY <2>2, <2>3, <2>6 DEF StrandedWereHit
    <2>7. QED
        BY <2>5, <2>6
<1>7. QED
    BY <1>5, <1>6

(* The group hands out entries that nobody had before. *)
LEMMA HoldersRead ==
    ASSUME HoldInv, NEW w \in Workers, pc[w] \in Idle, Deliver(ReadLimit), ReadLimit \in Nat,
           \/ inbox' = [inbox EXCEPT ![w] = [next |-> delivered + 1, last |-> ReadLimit]] /\ hit' = hit
           \/ inbox' = inbox /\ hit' = hit \cup (delivered + 1 .. ReadLimit)
    PROVE  OneHolder' /\ StrandedWereHit'
<1> DEFINE new == delivered + 1 .. ReadLimit
<1>1. /\ delivered \in Nat /\ delivered < ReadLimit
      /\ delivered' = ReadLimit /\ pending' = pending \cup new
    BY DEF Deliver, HoldInv, TypeInv, TypeOK
<1>2. /\ new \subseteq 1 .. ReadLimit /\ 1 .. delivered \subseteq 1 .. ReadLimit
      /\ new \cap (1 .. delivered) = {}
    BY <1>1
<1>3. Held(w) = {}
    BY HeldRange DEF HoldInv
<1>4. \A v \in Workers \ {w} : Held(v)' = Held(v)
    BY DEF Held, HoldInv, TypeInv, TypeOK
<1>5. \/ Held(w)' = new /\ hit' = hit
      \/ Held(w)' = {} /\ hit' = hit \cup new
    <2>1. CASE inbox' = inbox /\ hit' = hit \cup new
        BY <1>3, <2>1 DEF Held
    <2>2. CASE inbox' = [inbox EXCEPT ![w] = [next |-> delivered + 1, last |-> ReadLimit]] /\ hit' = hit
        <3>1. inbox'[w] = [next |-> delivered + 1, last |-> ReadLimit]
            BY <2>2 DEF HoldInv, TypeInv, TypeOK
        <3>2. inbox'[w].next = delivered + 1 /\ inbox'[w].last = ReadLimit
            BY <3>1
        <3>3. Held(w)' = new
            BY <3>2 DEF Held
        <3>4. QED
            BY <2>2, <3>3
    <2>3. QED
        BY <2>1, <2>2
<1> HIDE DEF new
<1>6. OneHolder'
    <2> SUFFICES ASSUME NEW v \in Workers
                 PROVE  /\ Held(v)' \subseteq pending'
                        /\ Held(v)' \subseteq 1 .. delivered'
                        /\ \A u \in Workers : u # v => Held(u)' \cap Held(v)' = {}
        BY DEF OneHolder
    <2>1. \A u \in Workers : Held(u) \subseteq pending /\ Held(u) \subseteq 1 .. delivered
        BY DEF HoldInv, OneHolder
    <2>2. Held(w)' \subseteq new
        BY <1>5
    <2>3. CASE v = w
        BY <1>1, <1>2, <1>4, <2>1, <2>2, <2>3
    <2>4. CASE v # w
        <3>1. Held(v)' = Held(v)
            BY <1>4, <2>4
        <3>2. \A u \in Workers \ {w} : u # v => Held(u)' \cap Held(v)' = {}
            BY <1>4, <3>1 DEF HoldInv, OneHolder
        <3>3. Held(w)' \cap Held(v)' = {}
            BY <1>2, <2>1, <2>2, <3>1
        <3>4. QED
            BY <1>1, <1>2, <2>1, <3>1, <3>2, <3>3
    <2>5. QED
        BY <2>3, <2>4
<1>7. StrandedWereHit'
    <2>1. pending \subseteq hit \cup UNION {Held(v) : v \in Workers \ {w}}
        BY <1>3 DEF HoldInv, StrandedWereHit, Stranded
    <2>2. pending' \subseteq hit' \cup UNION {Held(v)' : v \in Workers}
        <3> SUFFICES ASSUME NEW i \in pending', i \notin hit'
                     PROVE  \E v \in Workers : i \in Held(v)'
            OBVIOUS
        <3>1. CASE i \in new
            BY <1>5, <3>1
        <3>2. CASE i \in pending
            <4>1. PICK v \in Workers \ {w} : i \in Held(v)
                BY <1>5, <2>1, <3>2
            <4>2. QED
                BY <1>4, <4>1
        <3>3. QED
            BY <1>1, <3>1, <3>2
    <2>3. QED
        BY <2>2 DEF StrandedWereHit, Stranded
<1>8. QED
    BY <1>6, <1>7

(* A process dies with what it held. *)
LEMMA HoldersDie ==
    ASSUME HoldInv, NEW w \in Workers, Die(w)
    PROVE  OneHolder' /\ StrandedWereHit'
<1>1. /\ inbox' = [inbox EXCEPT ![w] = NoInbox] /\ hit' = hit \cup Held(w)
      /\ pending' = pending /\ delivered' = delivered
    BY DEF Die, group
<1>2. Held(w)' = {}
    BY <1>1 DEF Held, NoInbox, HoldInv, TypeInv, TypeOK
<1>3. \A v \in Workers \ {w} : Held(v)' = Held(v)
    BY <1>1 DEF Held, HoldInv, TypeInv, TypeOK
<1>4. OneHolder'
    <2>1. \A v \in Workers : Held(v)' \subseteq Held(v)
        BY <1>2, <1>3
    <2>2. QED
        BY <1>1, <2>1 DEF HoldInv, OneHolder
<1>5. Stranded' \subseteq Stranded \cup Held(w)
    BY <1>1, <1>3 DEF Stranded
<1>6. QED
    BY <1>1, <1>4, <1>5 DEF HoldInv, StrandedWereHit

LEMMA NextHoldInv == HoldInv /\ [Next]_vars => HoldInv'
<1> SUFFICES ASSUME HoldInv, [Next]_vars PROVE OneHolder' /\ StrandedWereHit'
    BY NextTypeInv DEF HoldInv
<1> USE DEF mysql, group, cache, worker, bounds
<1>1. ASSUME NEW w \in Workers, WorkerNext(w) PROVE OneHolder' /\ StrandedWereHit'
    <2>1. CASE Start(w)
        BY <2>1, HoldersKept DEF Start, HoldInv, TypeInv, Shape
    <2>2. CASE Loop(w) \/ ReadFails(w)
        BY <2>2, HoldersKept DEF Loop, ReadFails
    <2>3. CASE Read(w) \/ ReadReplyLost(w)
        <3>1. ReadLimit \in Nat
            BY FanoutAssumption DEF ReadLimit, HoldInv, TypeInv, TypeOK
        <3>2. pc[w] \in Idle
            BY <2>3 DEF Read, ReadReplyLost, At, Idle
        <3>3. QED
            BY <2>3, <3>1, <3>2, HoldersRead DEF Read, ReadReplyLost
    <2>4. CASE SkipMalformed(w) \/ GiveUp(w) \/ Ack(w) \/ AckFails(w)
        <3>1. pc[w] \notin Idle
            BY <2>4 DEF SkipMalformed, GiveUp, Ack, AckFails, At, Idle, Writing
        <3>2. inbox' = [inbox EXCEPT ![w].next = @ + 1] /\ delivered' = delivered
            BY <2>4 DEF SkipMalformed, GiveUp, Ack, AckFails, NextEntry
        <3>3. \/ pending' = pending \ {Current(w)} /\ hit' = hit
              \/ pending' = pending /\ hit' = hit \cup {Current(w)}
            BY <2>4 DEF SkipMalformed, GiveUp, Ack, AckFails
        <3>4. QED
            BY <3>1, <3>2, <3>3, HoldersLeave
    <2>5. CASE Count(w) \/ FetchPage(w) \/ PageDone(w)
        BY <2>5, HoldersKept DEF Count, FetchPage, PageDone
    <2>6. CASE ZAddNext(w) \/ TrimNext(w) \/ ExpireNext(w)
        BY <2>6, HoldersKept DEF ZAddNext, TrimNext, ExpireNext
    <2>7. CASE PipelineRetried(w) \/ Signal(w) \/ CancelContext(w)
        BY <2>7, HoldersKept DEF PipelineRetried, Signal, CancelContext
    <2>8. CASE CloseDB(w) \/ CloseRedis(w)
        BY <2>8, HoldersKept DEF CloseDB, CloseRedis, Close
    <2>9. CASE Exit(w) \/ Crash(w)
        BY <2>9, HoldersDie DEF Exit, Crash
    <2>10. QED
        BY <1>1, <2>1, <2>2, <2>3, <2>4, <2>5, <2>6, <2>7, <2>8, <2>9
        DEF WorkerNext, Consume, Shutdown
<1>2. CASE Environment
    BY <1>2, HoldersKept DEF Environment, Publish, Follow, Unfollow, TimelineExpires, Delist, Tick
<1>3. CASE UNCHANGED vars
    BY <1>3, HoldersKept DEF vars
<1>4. QED
    BY <1>1, <1>2, <1>3 DEF Next

LEMMA InvariantHoldInv == Spec => []HoldInv
<1>1. Init => HoldInv
    <2> SUFFICES ASSUME Init PROVE HoldInv
        OBVIOUS
    <2>1. \A w \in Workers : Held(w) = {}
        BY DEF Init, Held, NoInbox
    <2>2. OneHolder /\ StrandedWereHit
        BY <2>1 DEF Init, OneHolder, StrandedWereHit, Stranded
    <2>3. QED
        BY <2>2, InitTypeInv DEF HoldInv
<1>2. QED
    BY <1>1, NextHoldInv, PTL DEF Spec

(* No two workers ever hold the same entry, and what a worker holds is     *)
(* delivered and pending: through crashes, restarts and lost replies.      *)
THEOREM NoSharedEntry == Spec => []OneHolder
<1>1. HoldInv => OneHolder
    BY DEF HoldInv
<1>2. QED
    BY <1>1, InvariantHoldInv, PTL

(* Every entry that stays pending with nobody to handle it met a failure   *)
(* while it was being read or handled.                                     *)
THEOREM OnlyHitEntriesStrand == Spec => []StrandedWereHit
<1>1. HoldInv => StrandedWereHit
    BY DEF HoldInv
<1>2. QED
    BY <1>1, InvariantHoldInv, PTL

-----------------------------------------------------------------------------
(* What the pages behind a worker have covered.  A follower whose rank in   *)
(* the paging order is below the end of the last page has been reached, or *)
(* is still to be written in the current page; at the end of the last page *)
(* that is everybody who is owed the post.                                 *)
Owed(w, end) == {u \in seen[w].owed : Rank(followers[Author(w)], u) < end}

PageStart(w) == job[w].page * BatchSize

CoverageOf(w) ==
    /\ pc[w] \in Busy => seen[w].owed \subseteq followers[Author(w)]
    /\ pc[w] \in {"page"} \cup Writing =>
         \A u \in seen[w].owed : Rank(followers[Author(w)], u) < job[w].pages * BatchSize
    /\ pc[w] = "page" => Owed(w, PageStart(w)) \subseteq seen[w].reached
    /\ pc[w] \in Writing =>
         /\ Owed(w, PageStart(w) + BatchSize) \subseteq seen[w].reached \cup job[w].todo
         /\ job[w].todo \subseteq job[w].batch
    /\ pc[w] \in {"trim", "expire"} => First(job[w].todo) \in seen[w].reached
    /\ pc[w] = "reply" => job[w].todo = {}
    /\ pc[w] = "ack" => seen[w].owed \subseteq seen[w].reached

Coverage == \A w \in Workers : CoverageOf(w)

CoverageInv == TypeInv /\ Coverage

LEMMA RankType ==
    ASSUME NEW rows \in SUBSET Users, NEW u
    PROVE  Rank(rows, u) \in Nat
<1>1. {v \in rows : v < u} \in SUBSET Users
    OBVIOUS
<1>2. QED
    BY <1>1, RowsFinite DEF Rank

LEMMA RankBelowCount ==
    ASSUME NEW rows \in SUBSET Users, NEW u \in rows
    PROVE  Rank(rows, u) < Cardinality(rows)
<1> DEFINE below == {v \in rows : v < u}
<1>1. IsFiniteSet(rows) /\ below \subseteq rows
    BY RowsFinite
<1>2. u \in Nat
    BY FanoutAssumption
<1>3. below # rows
    BY <1>2
<1>4. Cardinality(below) < Cardinality(rows)
    <2>1. below \in SUBSET rows /\ below \in SUBSET Users
        BY <1>1
    <2> HIDE DEF below
    <2>2. Cardinality(below) \in Nat /\ Cardinality(rows) \in Nat
        BY <2>1, RowsFinite
    <2>3. Cardinality(below) <= Cardinality(rows) /\ Cardinality(below) # Cardinality(rows)
        BY <1>1, <1>3, <2>1, FS_Subset
    <2>4. QED
        BY <2>2, <2>3
<1>5. QED
    BY <1>4 DEF Rank

(* A change of the rows from u on does not move what is ranked below u. *)
LEMMA RankBelowChange ==
    ASSUME NEW rows \in SUBSET Users, NEW u \in Users, NEW v \in Users, v < u
    PROVE  Rank(rows \cup {u}, v) = Rank(rows, v) /\ Rank(rows \ {u}, v) = Rank(rows, v)
<1>1. u \in Nat /\ v \in Nat
    BY FanoutAssumption
<1>2. {x \in rows \cup {u} : x < v} = {x \in rows : x < v}
    BY <1>1
<1>3. {x \in rows \ {u} : x < v} = {x \in rows : x < v}
    BY <1>1
<1>4. QED
    BY <1>2, <1>3 DEF Rank

LEMMA NextPageStart ==
    ASSUME NEW k \in Nat
    PROVE  k * BatchSize \in Nat /\ (k + 1) * BatchSize = k * BatchSize + BatchSize
BY FanoutAssumption

LEMMA LastPageEnd ==
    ASSUME NEW k \in Nat, NEW n \in Nat, n <= k
    PROVE  n * BatchSize \in Nat /\ n * BatchSize <= k * BatchSize
<1>1. BatchSize \in Nat
    BY FanoutAssumption
<1>2. PICK d \in Nat : k = n + d
    <2>1. k - n \in Nat /\ k = n + (k - n)
        OBVIOUS
    <2>2. QED
        BY <2>1
<1>3. k * BatchSize = n * BatchSize + d * BatchSize
    BY <1>1, <1>2
<1>4. n * BatchSize \in Nat /\ d * BatchSize \in Nat
    BY <1>1
<1>5. QED
    BY <1>1, <1>3, <1>4

LEMMA AuthorKept ==
    ASSUME TypeInv, NEW v \in Workers, pc[v] \notin Idle, inbox'[v] = inbox[v],
           \A i \in 1 .. Len(stream) : stream'[i] = stream[i]
    PROVE  Author(v)' = Author(v)
<1>1. Current(v) \in 1 .. Len(stream) /\ Current(v)' = Current(v)
    BY CurrentEntry DEF Current
<1>2. QED
    BY <1>1 DEF Author

LEMMA CoverageKept ==
    ASSUME TypeInv, NEW v \in Workers, CoverageOf(v), followers' = followers,
           pc'[v] = pc[v], inbox'[v] = inbox[v], job'[v] = job[v], seen'[v] = seen[v],
           \A i \in 1 .. Len(stream) : stream'[i] = stream[i]
    PROVE  CoverageOf(v)'
<1>1. CASE pc[v] \in Busy
    <2>1. Author(v)' = Author(v)
        BY <1>1, AuthorKept DEF Busy, Idle, Writing
    <2>2. QED
        BY <2>1 DEF CoverageOf, Owed, PageStart
<1>2. CASE pc[v] \notin Busy
    BY <1>2 DEF CoverageOf, Busy, Writing
<1>3. QED
    BY <1>1, <1>2

(* The page is done with, and the next one begins where it ended. *)
LEMMA CoverageNextPage ==
    ASSUME CoverageInv, NEW w \in Workers, pc[w] \in {"page"} \cup Writing, NextPage(w),
           Owed(w, PageStart(w) + BatchSize) \subseteq seen[w].reached,
           UNCHANGED <<followers, stream, inbox, seen>>
    PROVE  CoverageOf(w)'
<1> DEFINE k == job[w].page
           n == job[w].pages
<1>1. /\ job[w] \in Jobs /\ k \in Nat /\ n \in Nat /\ seen[w] \in Views
      /\ Author(w)' = Author(w) /\ followers[Author(w)] \in SUBSET Users
    <2>1. Author(w)' = Author(w)
        BY AuthorKept DEF CoverageInv, Idle, Writing
    <2>2. Author(w) \in Authors
        BY CurrentEntry DEF CoverageInv, TypeInv, Shape, ShapeOf, Idle, Writing, Busy
    <2>3. QED
        BY <2>1, <2>2 DEF CoverageInv, TypeInv, TypeOK, Jobs
<1>2. /\ job'[w].page = k + 1 /\ job'[w].pages = n
      /\ pc'[w] = IF k + 1 < n THEN "page" ELSE "ack"
    BY <1>1 DEF NextPage, Goto, CoverageInv, TypeInv, TypeOK, Jobs
<1>3. \A u \in seen[w].owed : Rank(followers[Author(w)], u) < n * BatchSize
    BY DEF CoverageInv, Coverage, CoverageOf
<1>4. seen[w].owed \subseteq followers[Author(w)]
    BY DEF CoverageInv, Coverage, CoverageOf, Busy
<1>5. Owed(w, (k + 1) * BatchSize) \subseteq seen[w].reached
    BY <1>1, NextPageStart DEF PageStart
<1>6. CASE k + 1 < n
    <2>1. pc'[w] = "page"
        BY <1>2, <1>6
    <2>2. Owed(w, PageStart(w))' = Owed(w, (k + 1) * BatchSize)
        BY <1>1, <1>2 DEF Owed, PageStart
    <2>3. QED
        BY <1>1, <1>2, <1>3, <1>4, <1>5, <2>1, <2>2 DEF CoverageOf, Writing
<1>7. CASE ~(k + 1 < n)
    <2>1. pc'[w] = "ack"
        BY <1>2, <1>7
    <2>2. n * BatchSize \in Nat /\ (k + 1) * BatchSize \in Nat
          /\ n * BatchSize <= (k + 1) * BatchSize
        BY <1>1, <1>7, LastPageEnd, NextPageStart, FanoutAssumption
    <2>3. \A u \in seen[w].owed : Rank(followers[Author(w)], u) < (k + 1) * BatchSize
        BY <1>1, <1>3, <2>2, RankType
    <2>4. seen[w].owed \subseteq seen[w].reached
        BY <1>5, <2>3 DEF Owed
    <2>5. QED
        BY <1>1, <1>4, <2>1, <2>4 DEF CoverageOf, Writing
<1>8. QED
    BY <1>6, <1>7

(* What a busy worker is at, and for whom. *)
LEMMA BusyFacts ==
    ASSUME TypeInv, NEW w \in Workers, pc[w] \in Busy
    PROVE  /\ Author(w) \in Authors
           /\ followers[Author(w)] \in SUBSET Users
           /\ job[w] \in Jobs /\ seen[w] \in Views
<1>1. Author(w) \in Authors
    BY CurrentEntry DEF TypeInv, Shape, ShapeOf, Idle, Writing, Busy
<1>2. QED
    BY <1>1 DEF TypeInv, TypeOK

(* The first page starts with everybody still owed the post. *)
LEMMA CountCoverage ==
    ASSUME CoverageInv, NEW w \in Workers, Count(w)
    PROVE  CoverageOf(w)'
<1> DEFINE rows == followers[Author(w)]
<1>1. Author(w) \in Authors /\ rows \in SUBSET Users /\ Author(w)' = Author(w)
    <2>1. Author(w) \in Authors
        BY CurrentEntry DEF Count, At, Idle, CoverageInv
    <2>2. Author(w)' = Author(w)
        BY AuthorKept DEF Count, At, Idle, CoverageInv
    <2>3. QED
        BY <2>1, <2>2 DEF CoverageInv, TypeInv, TypeOK
<1>2. /\ followers' = followers
      /\ seen'[w] = [owed |-> rows, stayed |-> rows, reached |-> {}]
      /\ job'[w] = [NoJob EXCEPT !.pages = PageCount(Cardinality(rows))]
      /\ pc'[w] = IF rows = {} THEN "ack" ELSE "page"
    BY DEF Count, Goto, mysql, CoverageInv, TypeInv, TypeOK
<1>3. /\ seen'[w].owed = rows
      /\ job'[w].page = 0 /\ job'[w].pages = PageCount(Cardinality(rows))
    BY <1>2 DEF NoJob
<1>4. \A u \in rows : Rank(rows, u) < PageCount(Cardinality(rows)) * BatchSize
    <2> SUFFICES ASSUME NEW u \in rows
                 PROVE  Rank(rows, u) < PageCount(Cardinality(rows)) * BatchSize
        OBVIOUS
    <2>1. Rank(rows, u) \in Nat /\ Rank(rows, u) < Cardinality(rows)
        BY <1>1, RankType, RankBelowCount
    <2>2. Cardinality(rows) \in Nat
        BY <1>1, RowsFinite
    <2>3. /\ PageCount(Cardinality(rows)) * BatchSize \in Nat
          /\ Cardinality(rows) <= PageCount(Cardinality(rows)) * BatchSize
        BY <2>2, PageCountType, NextPageStart
    <2>4. QED
        BY <2>1, <2>2, <2>3
<1>5. Owed(w, PageStart(w))' = {}
    <2>1. PageStart(w)' = 0
        BY <1>3, FanoutAssumption DEF PageStart
    <2>2. \A u \in rows : ~(Rank(rows, u) < 0)
        BY <1>1, RankType
    <2>3. QED
        BY <1>1, <1>2, <1>3, <2>1, <2>2 DEF Owed
<1>6. QED
    BY <1>1, <1>2, <1>3, <1>4, <1>5 DEF CoverageOf, Writing

LEMMA FetchPageCoverage ==
    ASSUME CoverageInv, NEW w \in Workers, FetchPage(w)
    PROVE  CoverageOf(w)'
<1> DEFINE rows == PageOf(followers[Author(w)], job[w].page * BatchSize, BatchSize)
<1>1. /\ pc[w] = "page" /\ UNCHANGED <<followers, stream, inbox, seen>>
      /\ Author(w)' = Author(w)
    <2>1. pc[w] = "page" /\ UNCHANGED <<followers, stream, inbox, seen>>
        BY DEF FetchPage, At, mysql
    <2>2. QED
        BY <2>1, AuthorKept DEF Idle, CoverageInv
<1>2. /\ Author(w) \in Authors /\ followers[Author(w)] \in SUBSET Users
      /\ job[w] \in Jobs /\ seen[w] \in Views
    BY <1>1, BusyFacts DEF CoverageInv, Busy
<1>3. /\ seen[w].owed \subseteq followers[Author(w)]
      /\ Owed(w, PageStart(w)) \subseteq seen[w].reached
      /\ \A u \in seen[w].owed : Rank(followers[Author(w)], u) < job[w].pages * BatchSize
    BY <1>1 DEF CoverageInv, Coverage, CoverageOf, Busy
<1>4. Owed(w, PageStart(w) + BatchSize) \subseteq seen[w].reached \cup rows
    <2> SUFFICES ASSUME NEW u \in Owed(w, PageStart(w) + BatchSize), u \notin rows
                 PROVE  u \in seen[w].reached
        OBVIOUS
    <2>1. /\ u \in seen[w].owed /\ u \in followers[Author(w)]
          /\ Rank(followers[Author(w)], u) < job[w].page * BatchSize + BatchSize
        BY <1>3 DEF Owed, PageStart
    <2>2. ~(job[w].page * BatchSize <= Rank(followers[Author(w)], u))
        BY <2>1 DEF PageOf
    <2>3. Rank(followers[Author(w)], u) < job[w].page * BatchSize
        BY <1>2, <2>2, RankType, NextPageStart DEF Jobs
    <2>4. QED
        BY <1>3, <2>1, <2>3 DEF Owed, PageStart
<1>5. CASE rows = {}
    <2>1. NextPage(w)
        BY <1>5 DEF FetchPage
    <2>2. QED
        BY <1>1, <1>4, <1>5, <2>1, CoverageNextPage
<1>6. CASE rows # {}
    <2>1. /\ job' = [job EXCEPT ![w].batch = rows, ![w].todo = rows, ![w].stamp = now]
          /\ Goto(w, "zadd")
        BY <1>6 DEF FetchPage
    <2> HIDE DEF rows
    <2>2. /\ pc'[w] = "zadd" /\ job'[w].batch = rows /\ job'[w].todo = rows
          /\ job'[w].page = job[w].page /\ job'[w].pages = job[w].pages
        BY <2>1 DEF Goto, CoverageInv, TypeInv, TypeOK, Jobs
    <2>3. Owed(w, PageStart(w) + BatchSize)' = Owed(w, PageStart(w) + BatchSize)
        BY <1>1, <2>2 DEF Owed, PageStart
    <2>4. QED
        BY <1>1, <1>3, <1>4, <2>2, <2>3 DEF CoverageOf
<1>7. QED
    BY <1>5, <1>6

(* The steps of the pipeline write the followers of a page one by one. *)
LEMMA PipelineCoverage ==
    ASSUME CoverageInv, NEW w \in Workers,
           ZAddNext(w) \/ TrimNext(w) \/ ExpireNext(w) \/ PipelineRetried(w)
    PROVE  CoverageOf(w)'
<1> DEFINE u == First(job[w].todo)
           end == PageStart(w) + BatchSize
<1>1. /\ pc[w] \in Writing /\ UNCHANGED <<followers, stream, inbox>>
      /\ Author(w)' = Author(w)
    <2>1. pc[w] \in Writing /\ UNCHANGED <<followers, stream, inbox>>
        BY DEF ZAddNext, TrimNext, ExpireNext, PipelineRetried, At, mysql, Writing
    <2>2. QED
        BY <2>1, AuthorKept DEF Idle, Writing, CoverageInv
<1>2. /\ seen[w].owed \subseteq followers[Author(w)]
      /\ \A v \in seen[w].owed : Rank(followers[Author(w)], v) < job[w].pages * BatchSize
      /\ Owed(w, end) \subseteq seen[w].reached \cup job[w].todo
      /\ job[w].todo \subseteq job[w].batch
    BY <1>1 DEF CoverageInv, Coverage, CoverageOf, Busy
<1>3. job \in [Workers -> Jobs] /\ seen \in [Workers -> Views] /\ pc \in [Workers -> PCs]
    BY DEF CoverageInv, TypeInv, TypeOK
<1>4. job'[w].page = job[w].page /\ job'[w].pages = job[w].pages /\ seen'[w].owed = seen[w].owed
    BY <1>3 DEF ZAddNext, TrimNext, ExpireNext, PipelineRetried, Jobs, Views
<1>5. Owed(w, PageStart(w) + BatchSize)' = Owed(w, end)
    BY <1>1, <1>4 DEF Owed, PageStart
<1> HIDE DEF u, end
<1>6. CASE ZAddNext(w)
    <2>1. /\ pc'[w] = "trim" /\ job' = job
          /\ seen'[w].reached = seen[w].reached \cup {u}
        BY <1>3, <1>6 DEF ZAddNext, Goto, Views, u
    <2>2. QED
        BY <1>1, <1>2, <1>4, <1>5, <2>1 DEF CoverageOf, u
<1>7. CASE TrimNext(w)
    <2>1. pc'[w] = "expire" /\ job' = job /\ seen' = seen /\ pc[w] = "trim"
        BY <1>3, <1>7 DEF TrimNext, Goto, At
    <2>2. u \in seen[w].reached
        BY <2>1 DEF CoverageInv, Coverage, CoverageOf, u
    <2>3. QED
        BY <1>1, <1>2, <1>4, <1>5, <2>1, <2>2 DEF CoverageOf, u
<1>8. CASE ExpireNext(w)
    <2>1. /\ pc[w] = "expire" /\ seen' = seen
          /\ job'[w].todo = job[w].todo \ {u} /\ job'[w].batch = job[w].batch
          /\ pc'[w] = IF job[w].todo \ {u} = {} THEN "reply" ELSE "zadd"
        BY <1>3, <1>8 DEF ExpireNext, Goto, At, Jobs, u
    <2>2. u \in seen[w].reached
        BY <2>1 DEF CoverageInv, Coverage, CoverageOf, u
    <2>3. QED
        BY <1>1, <1>2, <1>4, <1>5, <2>1, <2>2 DEF CoverageOf
<1>9. CASE PipelineRetried(w)
    <2>1. /\ pc'[w] = "zadd" /\ seen' = seen
          /\ job'[w].todo = job[w].batch /\ job'[w].batch = job[w].batch
        BY <1>3, <1>9 DEF PipelineRetried, Goto, Jobs
    <2>2. QED
        BY <1>1, <1>2, <1>4, <1>5, <2>1 DEF CoverageOf
<1>10. QED
    BY <1>6, <1>7, <1>8, <1>9

LEMMA PageDoneCoverage ==
    ASSUME CoverageInv, NEW w \in Workers, PageDone(w)
    PROVE  CoverageOf(w)'
<1>1. pc[w] = "reply" /\ NextPage(w) /\ UNCHANGED <<followers, stream, inbox, seen>>
    BY DEF PageDone, At, mysql
<1>2. Owed(w, PageStart(w) + BatchSize) \subseteq seen[w].reached
    BY <1>1 DEF CoverageInv, Coverage, CoverageOf, Writing
<1>3. QED
    BY <1>1, <1>2, CoverageNextPage DEF Writing

(* Somebody follows or unfollows: those who are owed the post afterwards   *)
(* rank below the change, and their ranks are what they were.              *)
LEMMA WatchingCoverage ==
    ASSUME CoverageInv, NEW a \in Authors, NEW u \in Users, NEW w \in Workers,
           Follow(a, u) \/ Unfollow(a, u)
    PROVE  CoverageOf(w)'
<1>1. /\ UNCHANGED <<stream, pc, inbox, job>>
      /\ seen' = Watching(a, u)
      /\ followers' \in {[followers EXCEPT ![a] = @ \cup {u}], [followers EXCEPT ![a] = @ \ {u}]}
    BY DEF Follow, Unfollow, worker
<1>2. CASE pc[w] \in Busy
    <2>1. /\ Author(w) \in Authors /\ followers[Author(w)] \in SUBSET Users
          /\ job[w] \in Jobs /\ seen[w] \in Views
        BY <1>2, BusyFacts DEF CoverageInv
    <2>2. Author(w)' = Author(w) /\ Held(w) # {}
        <3>1. pc[w] \notin Idle
            BY <1>2 DEF Busy, Idle, Writing
        <3>2. QED
            BY <1>1, <3>1, AuthorKept, CurrentEntry DEF CoverageInv
    <2>3. CASE Author(w) # a
        <3>1. seen'[w] = seen[w]
            BY <1>1, <2>3 DEF Watching
        <3>2. followers'[Author(w)] = followers[Author(w)]
            BY <1>1, <2>1, <2>3 DEF CoverageInv, TypeInv, TypeOK
        <3>3. CoverageOf(w)
            BY DEF CoverageInv, Coverage
        <3>4. QED
            BY <1>1, <2>2, <3>1, <3>2, <3>3 DEF CoverageOf, Owed, PageStart
    <2>4. CASE Author(w) = a
        <3>1. /\ seen'[w].owed = {v \in seen[w].owed : v < u}
              /\ seen'[w].reached = seen[w].reached
            BY <1>1, <2>1, <2>2, <2>4 DEF Watching, Views
        <3>2. followers'[a] = followers[a] \cup {u} \/ followers'[a] = followers[a] \ {u}
            BY <1>1 DEF CoverageInv, TypeInv, TypeOK
        <3>3. seen[w].owed \subseteq followers[a] /\ seen[w].owed \subseteq Users
            BY <1>2, <2>1, <2>4 DEF CoverageInv, Coverage, CoverageOf, Views
        <3>4. \A v \in seen'[w].owed : /\ v \in seen[w].owed
                                       /\ v \in followers'[a]
                                       /\ Rank(followers'[a], v) = Rank(followers[a], v)
            <4> SUFFICES ASSUME NEW v \in seen'[w].owed
                         PROVE  /\ v \in seen[w].owed
                                /\ v \in followers'[a]
                                /\ Rank(followers'[a], v) = Rank(followers[a], v)
                OBVIOUS
            <4>1. v \in seen[w].owed /\ v < u /\ v \in Users /\ v \in followers[a]
                BY <3>1, <3>3
            <4>2. v # u
                BY <4>1, FanoutAssumption
            <4>3. QED
                BY <2>1, <2>4, <3>2, <4>1, <4>2, RankBelowChange
        <3>5. \A end : Owed(w, end)' \subseteq Owed(w, end)
            BY <2>2, <2>4, <3>4 DEF Owed
        <3>6. CoverageOf(w)
            BY DEF CoverageInv, Coverage
        <3>7. QED
            BY <1>1, <2>2, <2>4, <3>1, <3>4, <3>5, <3>6 DEF CoverageOf, PageStart
    <2>5. QED
        BY <2>3, <2>4
<1>3. CASE pc[w] \notin Busy
    BY <1>1, <1>3 DEF CoverageOf, Busy, Writing
<1>4. QED
    BY <1>2, <1>3

(* A step of w leaves the other workers' coverage as it is. *)
LEMMA OthersCoverage ==
    ASSUME CoverageInv, NEW w \in Workers, WorkerNext(w), NEW v \in Workers, v # w
    PROVE  CoverageOf(v)'
<1>1. /\ UNCHANGED <<followers, stream>>
      /\ pc'[v] = pc[v] /\ inbox'[v] = inbox[v] /\ job'[v] = job[v] /\ seen'[v] = seen[v]
    <2> USE DEF mysql, Goto, CoverageInv, TypeInv, TypeOK
    <2>1. CASE Start(w) \/ Signal(w) \/ CancelContext(w) \/ CloseDB(w) \/ CloseRedis(w)
        BY <2>1 DEF Start, Signal, CancelContext, CloseDB, CloseRedis, Close
    <2>2. CASE Loop(w) \/ Read(w) \/ ReadReplyLost(w) \/ ReadFails(w)
        BY <2>2 DEF Loop, Read, ReadReplyLost, ReadFails
    <2>3. CASE SkipMalformed(w) \/ GiveUp(w) \/ Ack(w) \/ AckFails(w)
        BY <2>3 DEF SkipMalformed, GiveUp, Ack, AckFails, NextEntry
    <2>4. CASE Count(w) \/ FetchPage(w) \/ PageDone(w)
        BY <2>4 DEF Count, FetchPage, PageDone, NextPage
    <2>5. CASE ZAddNext(w) \/ TrimNext(w) \/ ExpireNext(w) \/ PipelineRetried(w)
        BY <2>5 DEF ZAddNext, TrimNext, ExpireNext, PipelineRetried
    <2>6. CASE Exit(w) \/ Crash(w)
        BY <2>6 DEF Exit, Crash, Die
    <2>7. QED
        BY <2>1, <2>2, <2>3, <2>4, <2>5, <2>6 DEF WorkerNext, Consume, Shutdown
<1>2. QED
    BY <1>1, CoverageKept DEF CoverageInv, Coverage

LEMMA OwnCoverage ==
    ASSUME CoverageInv, NEW w \in Workers, WorkerNext(w)
    PROVE  CoverageOf(w)'
<1> USE DEF CoverageInv, TypeInv, TypeOK
<1>1. CASE pc'[w] \notin Busy
    BY <1>1 DEF CoverageOf, Busy, Writing
<1>2. CASE pc'[w] \in Busy
    <2>1. ~Start(w) /\ ~Loop(w) /\ ~Read(w) /\ ~ReadReplyLost(w) /\ ~ReadFails(w)
        BY <1>2 DEF Start, Loop, Read, ReadReplyLost, ReadFails, Goto, Busy, Writing
    <2>2. ~SkipMalformed(w) /\ ~GiveUp(w) /\ ~Ack(w) /\ ~AckFails(w)
        BY <1>2 DEF SkipMalformed, GiveUp, Ack, AckFails, NextEntry, Goto, Busy, Writing
    <2>3. ~Exit(w) /\ ~Crash(w)
        BY <1>2 DEF Exit, Crash, Die, Goto, Busy, Writing
    <2>4. CASE Signal(w) \/ CancelContext(w) \/ CloseDB(w) \/ CloseRedis(w)
        BY <2>4, CoverageKept
        DEF Coverage, Signal, CancelContext, CloseDB, CloseRedis, Close, mysql
    <2>5. QED
        BY <2>1, <2>2, <2>3, <2>4, CountCoverage, FetchPageCoverage, PipelineCoverage,
           PageDoneCoverage DEF WorkerNext, Consume, Shutdown
<1>3. QED
    BY <1>1, <1>2

LEMMA NextCoverageInv == CoverageInv /\ [Next]_vars => CoverageInv'
<1> SUFFICES ASSUME CoverageInv, [Next]_vars, NEW v \in Workers PROVE CoverageOf(v)'
    BY NextTypeInv DEF CoverageInv, Coverage
<1>1. ASSUME NEW w \in Workers, WorkerNext(w) PROVE CoverageOf(v)'
    BY <1>1, OthersCoverage, OwnCoverage
<1>2. CASE Environment
    <2>1. ASSUME NEW a \in Authors, NEW u \in Users, Follow(a, u) \/ Unfollow(a, u)
          PROVE  CoverageOf(v)'
        BY <2>1, WatchingCoverage
    <2>2. CASE Publish
        <3>1. PICK e \in Entries : stream' = Append(stream, e)
            BY <2>2 DEF Publish
        <3>2. \A i \in 1 .. Len(stream) : stream'[i] = stream[i]
            BY <3>1 DEF CoverageInv, TypeInv, TypeOK
        <3>3. QED
            BY <2>2, <3>2, CoverageKept DEF Publish, mysql, worker, CoverageInv, Coverage
    <2>3. ASSUME NEW u \in Users, NEW p \in Posts, Delist(u, p) PROVE CoverageOf(v)'
        BY <2>3, CoverageKept DEF Delist, mysql, worker, CoverageInv, Coverage
    <2>4. ASSUME NEW u \in Users, TimelineExpires(u) PROVE CoverageOf(v)'
        BY <2>4, CoverageKept DEF TimelineExpires, mysql, worker, CoverageInv, Coverage
    <2>5. CASE Tick
        BY <2>5, CoverageKept DEF Tick, mysql, worker, CoverageInv, Coverage
    <2>6. QED
        BY <1>2, <2>1, <2>2, <2>3, <2>4, <2>5 DEF Environment
<1>3. CASE UNCHANGED vars
    BY <1>3, CoverageKept DEF vars, mysql, worker, CoverageInv, Coverage
<1>4. QED
    BY <1>1, <1>2, <1>3 DEF Next

LEMMA InvariantCoverageInv == Spec => []CoverageInv
<1>1. Init => CoverageInv
    BY InitTypeInv DEF Init, CoverageInv, Coverage, CoverageOf, Busy, Writing
<1>2. QED
    BY <1>1, NextCoverageInv, PTL DEF Spec

(* An acknowledgement means that everybody owed the post has been reached, *)
(* for every number of followers and every page size, and however many     *)
(* users follow and unfollow between the pages.                            *)
THEOREM AcknowledgedMeansReached == Spec => AckMeansReached
<1>1. CoverageInv =>
        \A w \in Workers :
            At(w, "ack") /\ Current(w) \in pending /\ Current(w) \notin pending'
            => seen[w].owed \subseteq seen[w].reached
    BY DEF CoverageInv, Coverage, CoverageOf, At
<1>2. QED
    BY <1>1, InvariantCoverageInv, PTL DEF AckMeansReached

------------------------------------------------------------------------------
(***************************************************************************)
(* What the workers do to the timelines: no timeline outgrows the limit by *)
(* more than the workers in the middle of it and the failures explain, and *)
(* every timeline is going to expire.                                      *)
(***************************************************************************)
(* Between the signal and its exit a process may leave an untrimmed        *)
(* timeline behind at no further cost: its signal has paid for it.         *)
Ending(w) ==
    \/ main[w].phase \in {"signalled", "dbClosed"}
    \/ main[w].phase = "redisClosed" /\ At(w, "trim")

OnTrim(w, u) == At(w, "trim") /\ First(job[w].todo) = u

Doomed == {w \in Workers : Ending(w)}
Trimming(u) == {w \in Workers : OnTrim(w, u)}

SizeInv ==
    /\ Cardinality(Doomed) <= faults
    /\ \A u \in Users :
        Cardinality(Members(timelines[u])) + Cardinality(Doomed)
            <= MaxTimeline + faults + Cardinality(Trimming(u))

BoundInv == TypeInv /\ SizeInv

(* Without a failure no process is shut down. *)
QuietInv == faults = 0 => \A w \in Workers : main[w].phase \in {"down", "up"}

ExpiryInv == TypeInv /\ QuietInv /\ ExpiryArmed

-----------------------------------------------------------------------------
(* What the trim leaves: at most MaxTimeline members.  Each of them has    *)
(* fewer than that many above it, and no two have equally many, since the  *)
(* order of the sorted set is total.                                       *)
LEMMA MembersFinite ==
    ASSUME NEW tl
    PROVE  IsFiniteSet(Members(tl)) /\ Cardinality(Members(tl)) \in Nat
BY ZSetAssumption, FS_Subset, FS_CardinalityType DEF Members

LEMMA AboveFinite ==
    ASSUME NEW tl, NEW p
    PROVE  IsFiniteSet(Above(tl, p)) /\ Cardinality(Above(tl, p)) \in Nat
BY MembersFinite, FS_Subset, FS_CardinalityType DEF Above

LEMMA AboveGrows ==
    ASSUME NEW tl \in Timelines, NEW p \in Members(tl), NEW q \in Members(tl), Before(tl, p, q)
    PROVE  Cardinality(Above(tl, q)) < Cardinality(Above(tl, p))
<1> USE DEF Members, Timelines
<1>1. p \in Posts /\ q \in Posts /\ tl[p] \in Nat /\ tl[q] \in Nat
      /\ TextRank[p] \in Nat /\ TextRank[q] \in Nat
    BY ZSetAssumption
<1>2. ASSUME NEW x \in Above(tl, q) PROVE x \in Above(tl, p)
  <2>1. x \in Posts /\ tl[x] \in Nat /\ TextRank[x] \in Nat /\ Before(tl, q, x)
      BY ZSetAssumption DEF Above
  <2> QED
      BY <1>1, <2>1 DEF Above, Before
<1>3. q \in Above(tl, p) /\ q \notin Above(tl, q)
    BY <1>1 DEF Above, Before
<1>4. Above(tl, q) \subseteq Above(tl, p) \ {q}
    BY <1>2, <1>3
<1>5. /\ IsFiniteSet(Above(tl, p) \ {q})
      /\ Cardinality(Above(tl, p) \ {q}) = Cardinality(Above(tl, p)) - 1
    BY <1>3, AboveFinite, FS_RemoveElement
<1> QED
    BY <1>4, <1>5, AboveFinite, FS_Subset

LEMMA TrimBound ==
    ASSUME NEW tl \in Timelines
    PROVE  Cardinality(Members(Trim(tl))) <= MaxTimeline
<1> DEFINE M == Members(Trim(tl))
           f == [p \in M |-> Cardinality(Above(tl, p))]
<1>1. MaxTimeline \in Nat \ {0}
    BY ZSetAssumption
<1>2. ASSUME NEW p \in M PROVE p \in Members(tl) /\ f[p] \in 0 .. MaxTimeline - 1
  <2>1. p \in Posts /\ Trim(tl)[p] # 0
      BY DEF Members
  <2>2. Cardinality(Above(tl, p)) < MaxTimeline /\ tl[p] # 0
      BY <2>1 DEF Trim
  <2> QED
      BY <1>1, <2>1, <2>2, AboveFinite DEF Members
<1>3. ASSUME NEW p \in M, NEW q \in M, f[p] = f[q] PROVE p = q
  <2>1. p \in Members(tl) /\ q \in Members(tl)
      BY <1>2
  <2>2. p # q => Before(tl, p, q) \/ Before(tl, q, p)
    <3>1. p \in Posts /\ q \in Posts /\ tl[p] \in Nat /\ tl[q] \in Nat
          /\ TextRank[p] \in Nat /\ TextRank[q] \in Nat
        BY <2>1, ZSetAssumption DEF Members, Timelines
    <3>2. TextRank[p] = TextRank[q] => p = q
        BY <3>1, ZSetAssumption
    <3> QED
        BY <3>1, <3>2 DEF Before
  <2>3. Cardinality(Above(tl, p)) = Cardinality(Above(tl, q))
      BY <1>3
  <2> QED
      BY <2>1, <2>2, <2>3, AboveGrows, AboveFinite
<1>4. f \in Injection(M, 0 .. MaxTimeline - 1)
    BY <1>2, <1>3 DEF Injection, IsInjective
<1>5. /\ IsFiniteSet(0 .. MaxTimeline - 1)
      /\ Cardinality(0 .. MaxTimeline - 1) = MaxTimeline
    BY <1>1, FS_Interval
<1> HIDE DEF M, f
<1>6. Cardinality(M) <= Cardinality(0 .. MaxTimeline - 1)
    BY <1>4, <1>5, FS_Injection
<1> QED
    BY <1>5, <1>6 DEF M

(* A ZADD adds at most one member. *)
LEMMA ZAddBound ==
    ASSUME NEW tl \in Timelines, NEW p \in Posts, NEW score
    PROVE  Cardinality(Members(ZAdd(tl, p, score))) <= Cardinality(Members(tl)) + 1
<1> DEFINE M == Members(tl)
           N == Members(ZAdd(tl, p, score))
<1>1. N \subseteq M \cup {p}
    BY DEF Members, ZAdd, Timelines
<1>2. IsFiniteSet(M) /\ Cardinality(M) \in Nat /\ Cardinality(N) \in Nat
    BY MembersFinite
<1> HIDE DEF M, N
<1>3. /\ IsFiniteSet(M \cup {p})
      /\ Cardinality(M \cup {p}) = IF p \in M THEN Cardinality(M) ELSE Cardinality(M) + 1
    BY <1>2, FS_AddElement
<1>4. Cardinality(N) <= Cardinality(M \cup {p})
    BY <1>1, <1>3, FS_Subset
<1>5. Cardinality(M \cup {p}) <= Cardinality(M) + 1
    BY <1>2, <1>3
<1>6. Cardinality(M \cup {p}) \in Nat
    BY <1>3, FS_CardinalityType
<1> QED
    BY <1>2, <1>4, <1>5, <1>6 DEF M, N

(* Commands that take members away. *)
LEMMA ShrinkBound ==
    ASSUME NEW S, NEW T, Members(T) \subseteq Members(S)
    PROVE  Cardinality(Members(T)) <= Cardinality(Members(S))
BY MembersFinite, FS_Subset

-----------------------------------------------------------------------------
(* A step of one worker changes the two counts by what it changes of that  *)
(* worker.                                                                 *)
Toll(w) == IF Ending(w) THEN 1 ELSE 0
Place(w, u) == IF OnTrim(w, u) THEN 1 ELSE 0

OthersSame(w) ==
    \A v \in Workers \ {w} : pc'[v] = pc[v] /\ job'[v] = job[v] /\ main'[v] = main[v]

LEMMA CountsTyped ==
    ASSUME NEW u
    PROVE  /\ IsFiniteSet(Doomed) /\ Cardinality(Doomed) \in Nat
           /\ IsFiniteSet(Trimming(u)) /\ Cardinality(Trimming(u)) \in Nat
BY FanoutAssumption, FS_Subset, FS_CardinalityType DEF Doomed, Trimming

LEMMA CountOne ==
    ASSUME NEW S, IsFiniteSet(S), NEW w
    PROVE  Cardinality(S) = Cardinality(S \ {w}) + (IF w \in S THEN 1 ELSE 0)
<1>1. Cardinality(S) \in Nat /\ Cardinality(S \ {w}) \in Nat
    BY FS_CardinalityType, FS_RemoveElement
<1>2. Cardinality(S \ {w}) = IF w \in S THEN Cardinality(S) - 1 ELSE Cardinality(S)
    BY FS_RemoveElement
<1> QED
    BY <1>1, <1>2

LEMMA CountsMove ==
    ASSUME NEW w \in Workers, NEW u, OthersSame(w)
    PROVE  /\ Cardinality(Doomed') = Cardinality(Doomed) - Toll(w) + Toll(w)'
           /\ Cardinality(Trimming(u)') = Cardinality(Trimming(u)) - Place(w, u) + Place(w, u)'
<1>1. Doomed' \ {w} = Doomed \ {w}
    BY DEF OthersSame, Doomed, Ending, At
<1>2. Trimming(u)' \ {w} = Trimming(u) \ {w}
    BY DEF OthersSame, Trimming, OnTrim, At
<1>3. /\ IsFiniteSet(Doomed) /\ IsFiniteSet(Doomed')
      /\ IsFiniteSet(Trimming(u)) /\ IsFiniteSet(Trimming(u)')
    BY FanoutAssumption, FS_Subset DEF Doomed, Trimming
<1>4. /\ Toll(w) = IF w \in Doomed THEN 1 ELSE 0
      /\ Toll(w)' = IF w \in Doomed' THEN 1 ELSE 0
      /\ Place(w, u) = IF w \in Trimming(u) THEN 1 ELSE 0
      /\ Place(w, u)' = IF w \in Trimming(u)' THEN 1 ELSE 0
    BY DEF Toll, Place, Doomed, Trimming
<1>5. /\ Cardinality(Doomed \ {w}) \in Nat /\ Cardinality(Trimming(u) \ {w}) \in Nat
    BY <1>3, FS_RemoveElement, FS_CardinalityType
<1>6. /\ Cardinality(Doomed) = Cardinality(Doomed \ {w}) + Toll(w)
      /\ Cardinality(Doomed') = Cardinality(Doomed \ {w}) + Toll(w)'
    BY <1>1, <1>3, <1>4, CountOne
<1>7. /\ Cardinality(Trimming(u)) = Cardinality(Trimming(u) \ {w}) + Place(w, u)
      /\ Cardinality(Trimming(u)') = Cardinality(Trimming(u) \ {w}) + Place(w, u)'
    BY <1>2, <1>3, <1>4, CountOne
<1> QED
    BY <1>5, <1>6, <1>7 DEF Toll, Place

-----------------------------------------------------------------------------
(* Every step of a worker pays for what it leaves behind: a worker that    *)
(* leaves a timeline untrimmed meets a failure, or was signalled before,   *)
(* and being signalled is counted as one.                                  *)
Paid(w) ==
    /\ faults' \in Nat
    /\ Toll(w)' <= Toll(w) + (faults' - faults)
    /\ \A u \in Users : Toll(w)' + Place(w, u) <= Toll(w) + Place(w, u)' + (faults' - faults)

LEMMA WorkerFacts ==
    ASSUME TypeInv, NEW w \in Workers
    PROVE  /\ pc[w] \in PCs /\ main[w] \in MainStates /\ faults \in Nat
           /\ DOMAIN pc = Workers /\ DOMAIN main = Workers /\ DOMAIN job = Workers
           /\ main[w].phase = "down" => pc[w] = "off"
BY DEF TypeInv, TypeOK, Shape, ShapeOf

LEMMA AwayFromTheTrim ==
    ASSUME NEW w \in Workers, faults \in Nat, faults' \in Nat, faults <= faults',
           ~At(w, "trim"), ~At(w, "trim")', main' = main
    PROVE  Paid(w)
BY DEF Paid, Toll, Place, Ending, OnTrim

LEMMA PaidConsume ==
    ASSUME TypeInv, NEW w \in Workers, Consume(w) \/ ReadReplyLost(w), ~ZAddNext(w), ~TrimNext(w)
    PROVE  Paid(w) /\ OthersSame(w) /\ timelines' = timelines
<1> USE WorkerFacts DEF At, Goto, OthersSame, cache, worker, bounds
<1>1. CASE Loop(w) \/ Read(w) \/ ReadFails(w) \/ ReadReplyLost(w)
  <2>1. faults' \in Nat /\ faults <= faults' /\ main' = main /\ job' = job /\ timelines' = timelines
      BY <1>1 DEF Loop, Read, ReadFails, ReadReplyLost, Fault
  <2>2. ~At(w, "trim") /\ ~At(w, "trim")' /\ \A v \in Workers \ {w} : pc'[v] = pc[v]
      BY <1>1 DEF Loop, Read, ReadFails, ReadReplyLost
  <2> QED
      BY <2>1, <2>2, AwayFromTheTrim
<1>2. CASE SkipMalformed(w) \/ Ack(w) \/ AckFails(w)
  <2>1. faults' \in Nat /\ faults <= faults' /\ main' = main /\ timelines' = timelines
      BY <1>2 DEF SkipMalformed, Ack, AckFails, Fault, NoFault
  <2>2. /\ ~At(w, "trim") /\ ~At(w, "trim")'
        /\ \A v \in Workers \ {w} : pc'[v] = pc[v] /\ job'[v] = job[v]
      BY <1>2 DEF SkipMalformed, Ack, AckFails, NextEntry
  <2> QED
      BY <2>1, <2>2, AwayFromTheTrim
<1>3. CASE Count(w) \/ FetchPage(w) \/ PageDone(w)
  <2>1. faults' = faults /\ main' = main /\ timelines' = timelines
      BY <1>3 DEF Count, FetchPage, PageDone
  <2>2. /\ ~At(w, "trim") /\ ~At(w, "trim")'
        /\ \A v \in Workers \ {w} : pc'[v] = pc[v] /\ job'[v] = job[v]
      BY <1>3 DEF Count, FetchPage, PageDone, NextPage
  <2> QED
      BY <2>1, <2>2, AwayFromTheTrim
<1>4. CASE ExpireNext(w)
  <2>1. faults' = faults /\ main' = main /\ timelines' = timelines
      BY <1>4 DEF ExpireNext
  <2>2. /\ ~At(w, "trim") /\ ~At(w, "trim")'
        /\ \A v \in Workers \ {w} : pc'[v] = pc[v] /\ job'[v] = job[v]
      BY <1>4 DEF ExpireNext
  <2> QED
      BY <2>1, <2>2, AwayFromTheTrim
<1>5. CASE GiveUp(w)
  <2>1. main' = main /\ timelines' = timelines /\ ~At(w, "trim")'
        /\ \A v \in Workers \ {w} : pc'[v] = pc[v] /\ job'[v] = job[v]
      BY <1>5 DEF GiveUp, NextEntry
  <2>2. /\ faults' = faults \/ faults' = faults + 1
        /\ At(w, "trim") /\ RedisOpen(w) => faults' = faults + 1
      BY <1>5 DEF GiveUp, Fault, NoFault, Writing
  <2>3. At(w, "trim") /\ ~RedisOpen(w) => main[w].phase = "redisClosed"
      BY DEF RedisOpen, MainStates, Phases
  <2> QED
      BY <2>1, <2>2, <2>3 DEF Paid, Toll, Place, Ending, OnTrim, RedisOpen
<1> QED
    BY <1>1, <1>2, <1>3, <1>4, <1>5 DEF Consume

LEMMA PaidRest ==
    ASSUME TypeInv, NEW w \in Workers,
           Start(w) \/ PipelineRetried(w) \/ Signal(w) \/ Shutdown(w) \/ Crash(w)
    PROVE  Paid(w) /\ OthersSame(w) /\ timelines' = timelines
<1> USE WorkerFacts DEF At, Goto, OthersSame, cache, worker, bounds
<1>1. CASE Start(w)
  <2>1. faults' = faults /\ timelines' = timelines /\ job' = job
        /\ pc'[w] = "loop" /\ main'[w].phase = "up" /\ pc[w] = "off" /\ main[w].phase = "down"
        /\ \A v \in Workers \ {w} : pc'[v] = pc[v] /\ main'[v] = main[v]
      BY <1>1 DEF Start
  <2> QED
      BY <2>1 DEF Paid, Toll, Place, Ending, OnTrim
<1>2. CASE PipelineRetried(w)
  <2>1. faults' = faults + 1 /\ timelines' = timelines /\ main' = main /\ pc'[w] = "zadd"
        /\ RedisOpen(w) /\ \A v \in Workers \ {w} : pc'[v] = pc[v] /\ job'[v] = job[v]
      BY <1>2 DEF PipelineRetried, Fault
  <2> QED
      BY <2>1 DEF Paid, Toll, Place, Ending, OnTrim, RedisOpen
<1>3. CASE Signal(w)
  <2>1. faults' = faults + 1 /\ timelines' = timelines /\ pc' = pc /\ job' = job
        /\ main[w].phase = "up" /\ main'[w].phase = "signalled"
        /\ \A v \in Workers \ {w} : main'[v] = main[v]
      BY <1>3 DEF Signal, Fault, MainStates
  <2> QED
      BY <2>1 DEF Paid, Toll, Place, Ending, OnTrim
<1>4. CASE CancelContext(w) \/ CloseDB(w) \/ CloseRedis(w)
  <2>1. faults' = faults /\ timelines' = timelines /\ pc' = pc /\ job' = job
        /\ \A v \in Workers \ {w} : main'[v] = main[v]
      BY <1>4 DEF CancelContext, CloseDB, CloseRedis, Close
  <2>2. \/ main'[w].phase = main[w].phase
        \/ main[w].phase = "signalled" /\ main'[w].phase = "dbClosed"
        \/ main[w].phase = "dbClosed" /\ main'[w].phase = "redisClosed"
      BY <1>4 DEF CancelContext, CloseDB, CloseRedis, Close, MainStates
  <2> QED
      BY <2>1, <2>2 DEF Paid, Toll, Place, Ending, OnTrim
<1>5. CASE Exit(w) \/ Crash(w)
  <2>1. timelines' = timelines /\ pc'[w] = "off" /\ main'[w].phase = "down"
        /\ \A v \in Workers \ {w} : pc'[v] = pc[v] /\ job'[v] = job[v] /\ main'[v] = main[v]
      BY <1>5 DEF Exit, Crash, Die
  <2>2. \/ faults' = faults + 1
        \/ faults' = faults /\ main[w].phase = "redisClosed"
      BY <1>5 DEF Exit, Crash, Fault, NoFault
  <2> QED
      BY <2>1, <2>2 DEF Paid, Toll, Place, Ending, OnTrim
<1> QED
    BY <1>1, <1>2, <1>3, <1>4, <1>5 DEF Shutdown

-----------------------------------------------------------------------------
LEMMA InitBoundInv == Init => BoundInv
<1> SUFFICES ASSUME Init PROVE BoundInv
    OBVIOUS
<1>1. TypeInv
    BY InitTypeInv
<1>2. Doomed = {}
    BY DEF Init, Doomed, Ending
<1>3. \A u \in Users : Members(timelines[u]) = {}
    BY DEF Init, NoTimeline, Members
<1>4. faults = 0 /\ MaxTimeline \in Nat
    BY ZSetAssumption DEF Init
<1>5. Cardinality({}) = 0 /\ \A u \in Users : Cardinality(Trimming(u)) \in Nat
    BY FS_EmptySet, CountsTyped
<1>6. SizeInv
    BY <1>2, <1>3, <1>4, <1>5 DEF SizeInv
<1> QED
    BY <1>1, <1>6 DEF BoundInv

(* The numbers of the invariant, and how a step that has paid keeps them. *)
LEMMA SizeNumbers ==
    ASSUME TypeInv, NEW u
    PROVE  /\ MaxTimeline \in Nat /\ faults \in Nat
           /\ Cardinality(Doomed) \in Nat /\ Cardinality(Trimming(u)) \in Nat
           /\ Cardinality(Members(timelines[u])) \in Nat
           /\ Cardinality(Doomed') \in Nat /\ Cardinality(Trimming(u)') \in Nat
           /\ Cardinality(Members(timelines'[u])) \in Nat
<1>1. IsFiniteSet(Doomed') /\ IsFiniteSet(Trimming(u)')
    BY FanoutAssumption, FS_Subset DEF Doomed, Trimming
<1> QED
    BY <1>1, ZSetAssumption, CountsTyped, MembersFinite, FS_CardinalityType DEF TypeInv, TypeOK

LEMMA PaidKeepsSize ==
    ASSUME BoundInv, NEW w \in Workers, Paid(w), OthersSame(w), timelines' = timelines
    PROVE  SizeInv'
<1>1. Toll(w) \in {0, 1} /\ Toll(w)' \in {0, 1} /\ faults' \in Nat
    BY DEF Toll, Paid
<1>2. Cardinality(Doomed') <= faults'
  <2>1. Cardinality(Doomed') = Cardinality(Doomed) - Toll(w) + Toll(w)'
      BY CountsMove
  <2>2. Cardinality(Doomed) <= faults /\ Toll(w)' <= Toll(w) + (faults' - faults)
      BY DEF BoundInv, SizeInv, Paid
  <2> QED
      BY <1>1, <2>1, <2>2, SizeNumbers DEF BoundInv
<1>3. ASSUME NEW u \in Users
      PROVE  Cardinality(Members(timelines'[u])) + Cardinality(Doomed')
                 <= MaxTimeline + faults' + Cardinality(Trimming(u)')
  <2>1. /\ Cardinality(Doomed') = Cardinality(Doomed) - Toll(w) + Toll(w)'
        /\ Cardinality(Trimming(u)') = Cardinality(Trimming(u)) - Place(w, u) + Place(w, u)'
      BY CountsMove
  <2>2. Toll(w)' + Place(w, u) <= Toll(w) + Place(w, u)' + (faults' - faults)
      BY DEF Paid
  <2>3. Cardinality(Members(timelines[u])) + Cardinality(Doomed)
            <= MaxTimeline + faults + Cardinality(Trimming(u))
      BY DEF BoundInv, SizeInv
  <2>4. Place(w, u) \in {0, 1} /\ Place(w, u)' \in {0, 1}
      BY DEF Place
  <2> HIDE DEF Doomed, Trimming
  <2> QED
      BY <1>1, <2>1, <2>2, <2>3, <2>4, SizeNumbers DEF BoundInv
<1> QED
    BY <1>2, <1>3 DEF SizeInv

(* A worker that writes to a timeline is from then on in the middle of it, *)
(* and its trim brings the timeline back to the limit.                     *)
LEMMA ZAddKeepsSize ==
    ASSUME BoundInv, NEW w \in Workers, ZAddNext(w)
    PROVE  SizeInv'
<1> DEFINE x == First(job[w].todo)
<1>1. TypeInv
    BY DEF BoundInv
<1>2. /\ pc[w] = "zadd" /\ pc'[w] = "trim" /\ main' = main /\ job' = job /\ faults' = faults
      /\ \A v \in Workers \ {w} : pc'[v] = pc[v]
      /\ timelines' = [timelines EXCEPT ![x] = ZAdd(@, Post(w), job[w].stamp)]
      /\ main[w].phase # "redisClosed"
    BY <1>1, WorkerFacts DEF ZAddNext, At, Goto, cache, worker, bounds, RedisOpen
<1>3. OthersSame(w) /\ Toll(w)' = Toll(w)
    BY <1>2 DEF OthersSame, Toll, Ending
<1>4. Toll(w) \in {0, 1}
    BY DEF Toll
<1>5. Cardinality(Doomed') = Cardinality(Doomed)
    BY <1>3, <1>4, CountsMove, SizeNumbers, <1>1
<1>6. ASSUME NEW u \in Users
      PROVE  Cardinality(Members(timelines'[u])) + Cardinality(Doomed')
                 <= MaxTimeline + faults' + Cardinality(Trimming(u)')
  <2>1. Cardinality(Trimming(u)') = Cardinality(Trimming(u)) - Place(w, u) + Place(w, u)'
      BY <1>3, CountsMove
  <2>2. Place(w, u) = 0 /\ Place(w, u)' = IF x = u THEN 1 ELSE 0
      BY <1>2 DEF Place, OnTrim, At
  <2>3. Cardinality(Members(timelines[u])) + Cardinality(Doomed)
            <= MaxTimeline + faults + Cardinality(Trimming(u))
      BY DEF BoundInv, SizeInv
  <2>4. Cardinality(Members(timelines'[u]))
            <= Cardinality(Members(timelines[u])) + (IF x = u THEN 1 ELSE 0)
    <3>1. timelines[u] \in Timelines /\ DOMAIN timelines = Users
        BY <1>1 DEF TypeInv, TypeOK
    <3>2. Post(w) \in Posts
        BY <1>1, <1>2, CurrentEntry DEF TypeInv, Shape, ShapeOf, Idle, Busy, Writing
    <3>3. CASE x = u
      <4>1. timelines'[u] = ZAdd(timelines[u], Post(w), job[w].stamp)
          BY <1>2, <3>1, <3>3
      <4> QED
          BY <3>1, <3>2, <3>3, <4>1, ZAddBound
    <3>4. CASE x # u
      <4>1. timelines'[u] = timelines[u]
          BY <1>2, <3>1, <3>4
      <4> QED
          BY <1>1, <3>4, <4>1, SizeNumbers
    <3> QED
        BY <3>3, <3>4
  <2> QED
      BY <1>1, <1>2, <1>5, <2>1, <2>2, <2>3, <2>4, SizeNumbers
<1>7. Cardinality(Doomed') <= faults'
    BY <1>2, <1>5 DEF BoundInv, SizeInv
<1> QED
    BY <1>6, <1>7 DEF SizeInv

LEMMA TrimKeepsSize ==
    ASSUME BoundInv, NEW w \in Workers, TrimNext(w)
    PROVE  SizeInv'
<1> DEFINE x == First(job[w].todo)
<1>1. TypeInv
    BY DEF BoundInv
<1>2. /\ pc[w] = "trim" /\ pc'[w] = "expire" /\ main' = main /\ job' = job /\ faults' = faults
      /\ \A v \in Workers \ {w} : pc'[v] = pc[v]
      /\ timelines' = [timelines EXCEPT ![x] = Trim(@)]
      /\ main[w].phase # "redisClosed"
    BY <1>1, WorkerFacts DEF TrimNext, At, Goto, cache, worker, bounds, RedisOpen
<1>3. OthersSame(w) /\ Toll(w)' = Toll(w)
    BY <1>2 DEF OthersSame, Toll, Ending
<1>4. Toll(w) \in {0, 1}
    BY DEF Toll
<1>5. Cardinality(Doomed') = Cardinality(Doomed)
    BY <1>3, <1>4, CountsMove, SizeNumbers, <1>1
<1>6. Cardinality(Doomed') <= faults'
    BY <1>2, <1>5 DEF BoundInv, SizeInv
<1>7. ASSUME NEW u \in Users
      PROVE  Cardinality(Members(timelines'[u])) + Cardinality(Doomed')
                 <= MaxTimeline + faults' + Cardinality(Trimming(u)')
  <2>1. timelines[u] \in Timelines /\ DOMAIN timelines = Users
      BY <1>1 DEF TypeInv, TypeOK
  <2>2. CASE x = u
    <3>1. timelines'[u] = Trim(timelines[u])
        BY <1>2, <2>1, <2>2
    <3>2. Cardinality(Members(timelines'[u])) <= MaxTimeline
        BY <2>1, <3>1, TrimBound
    <3> QED
        BY <1>1, <1>2, <1>6, <3>2, SizeNumbers
  <2>3. CASE x # u
    <3>1. timelines'[u] = timelines[u]
        BY <1>2, <2>1, <2>3
    <3>2. Place(w, u) = 0 /\ Place(w, u)' = 0
        BY <1>2, <2>3 DEF Place, OnTrim, At
    <3>3. Cardinality(Trimming(u)') = Cardinality(Trimming(u))
        BY <1>1, <1>3, <3>2, CountsMove, SizeNumbers
    <3> QED
        BY <1>2, <1>5, <3>1, <3>3 DEF BoundInv, SizeInv
  <2> QED
      BY <2>2, <2>3
<1> QED
    BY <1>6, <1>7 DEF SizeInv

(* The rest of the system only takes posts out of timelines. *)
LEMMA EnvironmentKeepsSize ==
    ASSUME BoundInv, Environment \/ UNCHANGED vars
    PROVE  SizeInv'
<1> USE DEF cache, worker, bounds
<1>1. TypeInv /\ timelines \in [Users -> Timelines]
    BY DEF BoundInv, TypeInv, TypeOK
<1>2. pc' = pc /\ main' = main /\ job' = job /\ faults' = faults
    BY DEF Environment, Publish, Follow, Unfollow, TimelineExpires, Delist, Tick, vars
<1>3. ASSUME NEW u \in Users PROVE Members(timelines'[u]) \subseteq Members(timelines[u])
  <2>1. CASE timelines' = timelines
      BY <2>1
  <2>2. ASSUME NEW v \in Users, TimelineExpires(v)
        PROVE  Members(timelines'[u]) \subseteq Members(timelines[u])
      BY <1>1, <2>2 DEF TimelineExpires, Members, NoTimeline
  <2>3. ASSUME NEW v \in Users, NEW p \in Posts, Delist(v, p)
        PROVE  Members(timelines'[u]) \subseteq Members(timelines[u])
      BY <1>1, <2>3 DEF Delist, ZRem, Members, Timelines
  <2> QED
      BY <2>1, <2>2, <2>3 DEF Environment, Publish, Follow, Unfollow, Tick, vars
<1>4. Doomed' = Doomed /\ \A u \in Users : Trimming(u)' = Trimming(u)
    BY <1>2 DEF Doomed, Ending, Trimming, OnTrim, At
<1>5. ASSUME NEW u \in Users
      PROVE  Cardinality(Members(timelines'[u])) + Cardinality(Doomed')
                 <= MaxTimeline + faults' + Cardinality(Trimming(u)')
  <2>1. Cardinality(Members(timelines'[u])) <= Cardinality(Members(timelines[u]))
      BY <1>3, ShrinkBound
  <2>2. Cardinality(Members(timelines[u])) + Cardinality(Doomed)
            <= MaxTimeline + faults + Cardinality(Trimming(u))
      BY DEF BoundInv, SizeInv
  <2> QED
      BY <1>1, <1>2, <1>4, <2>1, <2>2, SizeNumbers
<1> QED
    BY <1>2, <1>4, <1>5 DEF BoundInv, SizeInv

LEMMA NextBoundInv == BoundInv /\ [Next]_vars => BoundInv'
<1> SUFFICES ASSUME BoundInv, [Next]_vars PROVE BoundInv'
    OBVIOUS
<1>1. TypeInv'
    BY NextTypeInv DEF BoundInv
<1>2. ASSUME NEW w \in Workers, WorkerNext(w) PROVE SizeInv'
  <2>1. CASE ZAddNext(w)
      BY <2>1, ZAddKeepsSize
  <2>2. CASE TrimNext(w)
      BY <2>2, TrimKeepsSize
  <2>3. CASE ~ZAddNext(w) /\ ~TrimNext(w)
    <3>1. Paid(w) /\ OthersSame(w) /\ timelines' = timelines
        BY <1>2, <2>3, PaidConsume, PaidRest DEF WorkerNext, BoundInv
    <3> QED
        BY <3>1, PaidKeepsSize
  <2> QED
      BY <2>1, <2>2, <2>3
<1>3. SizeInv'
    BY <1>2, EnvironmentKeepsSize DEF Next
<1> QED
    BY <1>1, <1>3 DEF BoundInv

(* For every number of workers and every limit: a timeline never outgrows  *)
(* the limit by more than the workers between their ZADD and their trim of *)
(* it, and the failures.                                                   *)
THEOREM TimelinesStayBounded == Spec => []TimelineBounded
<1>1. ASSUME BoundInv PROVE TimelineBounded
  <2>1. TypeInv
      BY <1>1 DEF BoundInv
  <2>2. ASSUME NEW u \in Users
        PROVE  Cardinality(Members(timelines[u]))
                   <= MaxTimeline + faults + Cardinality(Trimming(u))
    <3>1. Cardinality(Members(timelines[u])) + Cardinality(Doomed)
              <= MaxTimeline + faults + Cardinality(Trimming(u))
        BY <1>1 DEF BoundInv, SizeInv
    <3> QED
        BY <2>1, <3>1, SizeNumbers
  <2> QED
      BY <2>2 DEF TimelineBounded, Trimming, OnTrim
<1>2. BoundInv => TimelineBounded
    BY <1>1
<1> QED
    BY <1>2, InitBoundInv, NextBoundInv, PTL DEF Spec

-----------------------------------------------------------------------------
(* Without a failure nothing cuts a pipeline short: a worker that has      *)
(* written to a timeline goes on to its EXPIRE.                            *)
Attends(v, u) == pc[v] \in {"trim", "expire"} /\ First(job[v].todo) = u

Armed(u) == timelines[u] # NoTimeline /\ ~ttl[u] => \E v \in Workers : Attends(v, u)

LEMMA ArmedWhenCalm == ExpiryArmed <=> (faults = 0 => \A u \in Users : Armed(u))
BY DEF ExpiryArmed, Armed, Attends

(* Steps of a worker that can happen without a failure, and what they do   *)
(* to the timelines.                                                       *)
LEMMA CalmFrame ==
    ASSUME TypeInv, QuietInv, faults = 0, faults' = 0, NEW w \in Workers, WorkerNext(w)
    PROVE  /\ OthersSame(w)
           /\ main'[w].phase \in {"down", "up"}
           /\ \/ ZAddNext(w) \/ TrimNext(w) \/ ExpireNext(w)
              \/ timelines' = timelines /\ ttl' = ttl /\ pc[w] \notin {"trim", "expire"}
              \/ timelines' = timelines /\ ttl' = ttl /\ pc'[w] = pc[w] /\ job'[w] = job[w]
<1> USE WorkerFacts
<1>1. main[w].phase \in {"down", "up"}
    BY DEF QuietInv
<1>2. ~Crash(w) /\ ~Exit(w) /\ ~Signal(w) /\ ~PipelineRetried(w) /\ ~ReadReplyLost(w)
      /\ ~CloseDB(w) /\ ~CloseRedis(w) /\ ~CancelContext(w)
    BY <1>1 DEF Crash, Exit, Signal, PipelineRetried, ReadReplyLost, Fault,
                CloseDB, CloseRedis, Close, CancelContext
<1>3. CASE Start(w)
  <2>1. Paid(w) /\ OthersSame(w) /\ timelines' = timelines
      BY <1>3, PaidRest
  <2>2. ttl' = ttl /\ pc[w] = "off" /\ main'[w].phase = "up"
      BY <1>3 DEF Start, cache
  <2> QED
      BY <2>1, <2>2
<1>4. CASE Consume(w) /\ ~ZAddNext(w) /\ ~TrimNext(w)
  <2>1. Paid(w) /\ OthersSame(w) /\ timelines' = timelines
      BY <1>4, PaidConsume
  <2>2. main' = main
      BY <1>4 DEF Consume, Loop, Read, ReadFails, SkipMalformed, Count, FetchPage, ExpireNext,
                  PageDone, GiveUp, Ack, AckFails, worker
  <2>3. ExpireNext(w) \/ ttl' = ttl
      BY <1>4 DEF Consume, Loop, Read, ReadFails, SkipMalformed, Count, FetchPage,
                  PageDone, GiveUp, Ack, AckFails, cache
  <2>4. ~(GiveUp(w) /\ pc[w] \in Writing)
    <3>1. pc[w] \in Writing => main[w].phase = "up"
        BY <1>1 DEF Writing
    <3> QED
        BY <3>1 DEF GiveUp, RedisOpen, Fault, Writing
  <2>5. ExpireNext(w) \/ pc[w] \notin {"trim", "expire"}
      BY <1>4, <2>4 DEF Consume, Loop, Read, ReadFails, SkipMalformed, Count, FetchPage,
                  PageDone, GiveUp, Ack, AckFails, At, Writing
  <2> QED
      BY <1>1, <2>1, <2>2, <2>3, <2>5
<1>5. CASE ZAddNext(w) \/ TrimNext(w)
  <2>1. main' = main /\ job' = job /\ \A v \in Workers \ {w} : pc'[v] = pc[v]
      BY <1>5 DEF ZAddNext, TrimNext, Goto
  <2> QED
      BY <1>1, <1>5, <2>1 DEF OthersSame
<1> QED
    BY <1>2, <1>3, <1>4, <1>5 DEF WorkerNext, Shutdown

LEMMA CalmArmed ==
    ASSUME ExpiryInv, faults = 0, faults' = 0, NEW w \in Workers, WorkerNext(w), NEW u \in Users
    PROVE  Armed(u)'
<1>1. TypeInv /\ QuietInv /\ Armed(u)
    BY ArmedWhenCalm DEF ExpiryInv
<1>2. OthersSame(w)
    BY <1>1, CalmFrame
<1>3. \A v \in Workers \ {w} : Attends(v, u)' <=> Attends(v, u)
    BY <1>2 DEF OthersSame, Attends
<1>4. timelines \in [Users -> Timelines] /\ ttl \in [Users -> BOOLEAN] /\ DOMAIN pc = Workers
    BY <1>1 DEF TypeInv, TypeOK
<1>5. CASE ZAddNext(w) \/ TrimNext(w)
  <2> DEFINE x == First(job[w].todo)
  <2>1. /\ pc'[w] \in {"trim", "expire"} /\ job' = job /\ ttl' = ttl
        /\ u # x => timelines'[u] = timelines[u]
      BY <1>4, <1>5 DEF ZAddNext, TrimNext, At, Goto
  <2>2. CASE u = x
      BY <2>1, <2>2 DEF Attends, Armed
  <2>3. CASE u # x
      BY <1>1, <1>3, <2>1, <2>3 DEF Attends, Armed
  <2> QED
      BY <2>2, <2>3
<1>6. CASE ExpireNext(w)
  <2> DEFINE x == First(job[w].todo)
  <2>1. timelines' = timelines /\ ttl' = [ttl EXCEPT ![x] = timelines[x] # NoTimeline]
      BY <1>6 DEF ExpireNext
  <2>2. CASE u = x
    <3>1. ttl'[u] <=> timelines[u] # NoTimeline
        BY <1>4, <2>1, <2>2
    <3> QED
        BY <2>1, <3>1 DEF Armed
  <2>3. CASE u # x
    <3>1. ttl'[u] = ttl[u] /\ ~Attends(w, u)
        BY <1>4, <2>1, <2>3 DEF Attends
    <3> QED
        BY <1>1, <1>3, <2>1, <3>1 DEF Armed
  <2> QED
      BY <2>2, <2>3
<1>7. CASE timelines' = timelines /\ ttl' = ttl /\ pc[w] \notin {"trim", "expire"}
    BY <1>1, <1>3, <1>7 DEF Armed, Attends
<1>8. CASE timelines' = timelines /\ ttl' = ttl /\ pc'[w] = pc[w] /\ job'[w] = job[w]
    BY <1>1, <1>3, <1>8 DEF Armed, Attends
<1> QED
    BY <1>1, <1>5, <1>6, <1>7, <1>8, CalmFrame

LEMMA EnvironmentArmed ==
    ASSUME ExpiryInv, faults = 0, Environment \/ UNCHANGED vars, NEW u \in Users
    PROVE  Armed(u)'
<1> USE DEF cache, worker, bounds
<1>1. Armed(u) /\ timelines \in [Users -> Timelines] /\ ttl \in [Users -> BOOLEAN]
    BY ArmedWhenCalm DEF ExpiryInv, TypeInv, TypeOK
<1>2. pc' = pc /\ job' = job
    BY DEF Environment, Publish, Follow, Unfollow, TimelineExpires, Delist, Tick, vars
<1>3. CASE timelines' = timelines /\ ttl' = ttl
    BY <1>1, <1>2, <1>3 DEF Armed, Attends
<1>4. ASSUME NEW v \in Users, TimelineExpires(v) PROVE Armed(u)'
  <2>1. CASE u = v
      BY <1>1, <1>4, <2>1 DEF TimelineExpires, Armed
  <2>2. CASE u # v
      BY <1>1, <1>2, <1>4, <2>2 DEF TimelineExpires, Armed, Attends
  <2> QED
      BY <2>1, <2>2
<1>5. ASSUME NEW v \in Users, NEW p \in Posts, Delist(v, p) PROVE Armed(u)'
  <2>1. CASE u = v
    <3>1. timelines'[u] # NoTimeline => timelines[u] # NoTimeline
        BY <1>1, <1>5, <2>1 DEF Delist, ZRem, NoTimeline, Timelines
    <3>2. ttl'[u] <=> ttl[u] /\ timelines'[u] # NoTimeline
        BY <1>1, <1>5, <2>1 DEF Delist
    <3> QED
        BY <1>1, <1>2, <3>1, <3>2 DEF Armed, Attends
  <2>2. CASE u # v
      BY <1>1, <1>2, <1>5, <2>2 DEF Delist, Armed, Attends
  <2> QED
      BY <2>1, <2>2
<1> QED
    BY <1>3, <1>4, <1>5 DEF Environment, Publish, Follow, Unfollow, Tick, vars

LEMMA FaultsStay == TypeInv /\ [Next]_vars /\ faults' = 0 => faults = 0
<1> SUFFICES ASSUME TypeInv, [Next]_vars, faults' = 0 PROVE faults = 0
    OBVIOUS
<1> USE DEF cache, worker, bounds
<1>1. faults \in Nat
    BY DEF TypeInv, TypeOK
<1>2. ASSUME NEW w \in Workers, WorkerNext(w) PROVE faults = 0
  <2>1. CASE ZAddNext(w) \/ TrimNext(w)
      BY <2>1 DEF ZAddNext, TrimNext
  <2>2. CASE ~ZAddNext(w) /\ ~TrimNext(w)
    <3>1. Consume(w) \/ ReadReplyLost(w) => faults' = faults \/ faults' = faults + 1
        BY <2>2 DEF Consume, Loop, Read, ReadFails, SkipMalformed, Count, FetchPage, ExpireNext,
                  PageDone, GiveUp, Ack, AckFails, ReadReplyLost, Fault, NoFault
    <3>2. ~(Consume(w) \/ ReadReplyLost(w)) => faults' = faults \/ faults' = faults + 1
        BY <1>2 DEF WorkerNext, Shutdown, Start, PipelineRetried, Signal, CancelContext,
                    CloseDB, CloseRedis, Close, Exit, Crash, Fault, NoFault
    <3> QED
        BY <1>1, <3>1, <3>2
  <2> QED
      BY <2>1, <2>2
<1>3. CASE Environment \/ UNCHANGED vars
    BY <1>3 DEF Environment, Publish, Follow, Unfollow, TimelineExpires, Delist, Tick, vars
<1> QED
    BY <1>2, <1>3 DEF Next

LEMMA NextExpiryInv == ExpiryInv /\ [Next]_vars => ExpiryInv'
<1> SUFFICES ASSUME ExpiryInv, [Next]_vars PROVE ExpiryInv'
    OBVIOUS
<1>1. TypeInv /\ TypeInv'
    BY NextTypeInv DEF ExpiryInv
<1>2. CASE faults' # 0
    BY <1>1, <1>2 DEF ExpiryInv, QuietInv, ExpiryArmed
<1>3. CASE faults' = 0
  <2>1. faults = 0
      BY <1>1, <1>3, FaultsStay
  <2>2. \A u \in Users : Armed(u)'
      BY <1>3, <2>1, CalmArmed, EnvironmentArmed DEF Next
  <2>3. \A v \in Workers : main'[v].phase \in {"down", "up"}
    <3>1. ASSUME NEW w \in Workers, WorkerNext(w), NEW v \in Workers
          PROVE  main'[v].phase \in {"down", "up"}
        BY <1>1, <1>3, <2>1, <3>1, CalmFrame DEF ExpiryInv, QuietInv, OthersSame
    <3>2. CASE Environment \/ UNCHANGED vars
      <4>1. main' = main
          BY <3>2 DEF Environment, Publish, Follow, Unfollow, TimelineExpires, Delist, Tick, vars,
                      worker
      <4> QED
          BY <2>1, <4>1 DEF ExpiryInv, QuietInv
    <3> QED
        BY <3>1, <3>2 DEF Next
  <2>4. ExpiryArmed'
      BY <2>2 DEF ExpiryArmed, Armed, Attends
  <2> QED
      BY <1>1, <2>3, <2>4 DEF ExpiryInv, QuietInv
<1> QED
    BY <1>2, <1>3

(* For every number of workers: while nothing fails, a timeline that       *)
(* exists has an expiry or a worker that is about to set it, whatever      *)
(* other workers, deletions and expiries of the key do in between.         *)
THEOREM TimelinesExpire == Spec => []ExpiryArmed
<1>1. Init => ExpiryInv
    BY InitTypeInv DEF Init, ExpiryInv, QuietInv, ExpiryArmed
<1>2. ExpiryInv => ExpiryArmed
    BY DEF ExpiryInv
<1> QED
    BY <1>1, <1>2, NextExpiryInv, PTL DEF Spec
==============================================================================
