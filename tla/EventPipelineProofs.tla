------------------------ MODULE EventPipelineProofs ------------------------
(***************************************************************************)
(* What the consumers of the message queue promise, for any events, queues,*)
(* goroutines, retries and prefetch.                                       *)
(***************************************************************************)
EXTENDS EventPipeline, SequenceTheorems, FiniteSetTheorems, TLAPS

MessagesOf(s) == {s[i] : i \in 1 .. Len(s)}
Has(s, e) == \E m \in MessagesOf(s) : m.event = e
Once(s, e) == \A i, j \in 1 .. Len(s) : s[i].event = e /\ s[j].event = e => i = j

(* What a goroutine has yet to deal with: the message it is about to       *)
(* acknowledge has been handled, published again, or lost.                 *)
Open(c) == IF pc[c] = "ack" THEN Tail(inbox[c]) ELSE inbox[c]

(* The lines in which a message can stand: the queues, and what the        *)
(* goroutines have yet to deal with.                                       *)
Spots == ({"queue"} \X Queues) \cup ({"hand"} \X Consumers)
Lines == [x \in Spots |-> IF x[1] = "queue" THEN queue[x[2]] ELSE Open(x[2])]
Unique(L, e) ==
    /\ \A x \in Spots : Once(L[x], e)
    /\ \A x, y \in Spots : Has(L[x], e) /\ Has(L[y], e) => x = y

(* A message is of a published event, in a queue its routing key is bound  *)
(* to, and the event failed at least as often as the message counts.       *)
Sound(m, q) ==
    m.event \in published /\ Route[m.event] = q /\ failures[m.event] >= m.retries

MessageInv ==
    /\ \A q \in Queues : \A m \in MessagesOf(queue[q]) : Sound(m, q)
    /\ \A c \in Consumers : \A m \in MessagesOf(inbox[c]) : Sound(m, Subscribed[c])
    /\ \A e \in Events \ published : handled[e] = 0 /\ failures[e] = 0 /\ ~MQ!Buried(e)

(* Where a goroutine is says what it has in its hands. *)
InOrder(c) ==
    /\ pc[c] \in {"handle", "republish", "ack", "reject"} => inbox[c] # <<>>
    /\ pc[c] \in {"down", "starting"} => inbox[c] = <<>>
    /\ pc[c] = "republish" =>
         LET m == inbox[c][1] IN m.retries < MaxRetries /\ failures[m.event] >= m.retries + 1
    /\ pc[c] = "reject" =>
         LET m == inbox[c][1] IN m.event \in Malformed \/ failures[m.event] >= MaxRetries + 1
    /\ ~MQ!Connected(c) => \A m \in MessagesOf(inbox[c]) : m.event \in doubled

GoroutineInv == \A c \in Consumers : InOrder(c)

Kept(e) ==
    \/ \E q \in Queues : Has(queue[q], e)
    \/ \E c \in Consumers : MQ!Connected(c) /\ Has(Open(c), e)
    \/ handled[e] > 0 \/ MQ!Buried(e)

KeptInv == \A e \in published \ lost : Kept(e)

(* An event that was never out with a broken connection stands in one      *)
(* place, until it is handled or given up; the message counts its failures,*)
(* but for the one that the goroutine is dealing with.                     *)
Counted(c, m) ==
    \/ failures[m.event] = m.retries
    \/ pc[c] = "republish" /\ m = inbox[c][1] /\ failures[m.event] = m.retries + 1
    \/ pc[c] = "reject" /\ m = inbox[c][1]

Placed(e) ==
    /\ Unique(Lines, e)
    /\ (\E x \in Spots : Has(Lines[x], e)) => handled[e] = 0 /\ ~MQ!Buried(e)
    /\ \A q \in Queues : \A m \in MessagesOf(queue[q]) :
         m.event = e => failures[e] = m.retries
    /\ \A c \in Consumers : \A m \in MessagesOf(Open(c)) : m.event = e => Counted(c, m)

OnceInv == \A e \in Events \ doubled : Placed(e)

RowsInv ==
    \A e \in Events :
        /\ e \in confirmed => Notification!RowsOf(e) # {}
        /\ e \notin unanswered => Cardinality(Notification!RowsOf(e)) <= handled[e]

QueueInv ==
    /\ MQ!QueueTypeOK /\ MessageInv /\ GoroutineInv /\ KeptInv /\ OnceInv
    /\ MQ!HandledOnce /\ MQ!DeadLettersWereTried

(* The messages a worker has counted and passed over are among those of    *)
(* other types that were handled.                                          *)
PassedOver == UNION {{e} \X (1 .. handled[e]) : e \in Events \ PostCreated}
Passed(w) == metrics[w].processed - metrics[w].batches - metrics[w].errors
               - (IF pc[w] = "handle" THEN 1 ELSE 0)
MetricsInv ==
    /\ IsFiniteSet(PassedOver)
    /\ \A w \in WorkerSet :
         up["fanout"] => 0 <= Passed(w) /\ Passed(w) <= Cardinality(PassedOver)

PipelineInv ==
    QueueInv /\ Notification!TypeOK /\ Manager!WorkersTypeOK /\ RowsInv /\ MetricsInv

-----------------------------------------------------------------------------
(* Lines of messages: what an append, a removal at the head and a return   *)
(* to the front do to the messages in them.                                *)
LEMMA EmptyLine == MessagesOf(<<>>) = {} /\ \A e : ~Has(<<>>, e) /\ Once(<<>>, e)
<1>1. Len(<<>>) = 0 /\ 1 .. 0 = {}
    OBVIOUS
<1> QED
    BY <1>1 DEF MessagesOf, Has, Once

LEMMA AppendLine ==
    ASSUME NEW S, NEW s \in Seq(S), NEW m \in S
    PROVE  /\ Append(s, m) \in Seq(S) /\ Append(s, m) # <<>>
           /\ MessagesOf(Append(s, m)) = MessagesOf(s) \cup {m}
           /\ \A e : Has(Append(s, m), e) <=> Has(s, e) \/ m.event = e
           /\ \A e : Once(s, e) /\ (m.event = e => ~Has(s, e)) => Once(Append(s, m), e)
           /\ s # <<>> => Append(s, m)[1] = s[1] /\ Tail(Append(s, m)) = Append(Tail(s), m)
<1> DEFINE t == Append(s, m)
<1>1. /\ t \in Seq(S) /\ t # <<>> /\ Len(t) = Len(s) + 1 /\ Len(s) \in Nat
      /\ \A i \in 1 .. Len(s) : t[i] = s[i]
      /\ t[Len(s) + 1] = m
    BY AppendProperties, LenProperties
<1>2. s # <<>> => t[1] = s[1] /\ Tail(t) = Append(Tail(s), m)
    BY <1>1, HeadTailAppend, EmptySeq
<1> HIDE DEF t
<1>3. 1 .. Len(t) = (1 .. Len(s)) \cup {Len(s) + 1}
    BY <1>1
<1>4. MessagesOf(t) = MessagesOf(s) \cup {m}
    BY <1>1, <1>3 DEF MessagesOf
<1>5. \A e : Has(t, e) <=> Has(s, e) \/ m.event = e
    BY <1>4 DEF Has
<1>6. ASSUME NEW e, Once(s, e), m.event = e => ~Has(s, e) PROVE Once(t, e)
  <2> SUFFICES ASSUME NEW i \in 1 .. Len(t), NEW j \in 1 .. Len(t), t[i].event = e, t[j].event = e
               PROVE  i = j
      BY DEF Once
  <2>1. \A k \in 1 .. Len(s) : t[k].event = e => Has(s, e)
      BY <1>1 DEF Has, MessagesOf
  <2> QED
      BY <1>1, <1>3, <1>6, <2>1 DEF Once
<1> QED
    BY <1>1, <1>2, <1>4, <1>5, <1>6 DEF t

LEMMA TailLine ==
    ASSUME NEW S, NEW s \in Seq(S), s # <<>>
    PROVE  /\ Head(s) = s[1] /\ s[1] \in S /\ Tail(s) \in Seq(S)
           /\ MessagesOf(s) = {s[1]} \cup MessagesOf(Tail(s))
           /\ \A e : Has(s, e) <=> s[1].event = e \/ Has(Tail(s), e)
           /\ \A e : Once(s, e) => Once(Tail(s), e) /\ (s[1].event = e => ~Has(Tail(s), e))
<1> DEFINE t == Tail(s)
<1>1. /\ Len(s) \in Nat \ {0} /\ t \in Seq(S) /\ Len(t) = Len(s) - 1
      /\ \A i \in 1 .. Len(t) : t[i] = s[i + 1]
      /\ Head(s) = s[1] /\ s[1] \in S
    BY HeadTailProperties, EmptySeq, ElementOfSeq
<1> HIDE DEF t
<1>2. MessagesOf(s) = {s[1]} \cup MessagesOf(t)
  <2>1. ASSUME NEW i \in 1 .. Len(s), i # 1 PROVE s[i] \in MessagesOf(t)
    <3>1. i - 1 \in 1 .. Len(t) /\ t[i - 1] = s[i]
        BY <1>1, <2>1
    <3> QED
        BY <3>1 DEF MessagesOf
  <2>2. ASSUME NEW i \in 1 .. Len(t) PROVE t[i] \in MessagesOf(s)
    <3>1. i + 1 \in 1 .. Len(s) /\ t[i] = s[i + 1]
        BY <1>1
    <3> QED
        BY <3>1 DEF MessagesOf
  <2>3. s[1] \in MessagesOf(s)
      BY <1>1 DEF MessagesOf
  <2> QED
      BY <2>1, <2>2, <2>3 DEF MessagesOf
<1>3. \A e : Has(s, e) <=> s[1].event = e \/ Has(t, e)
    BY <1>2 DEF Has
<1>4. ASSUME NEW e, Once(s, e) PROVE Once(t, e) /\ (s[1].event = e => ~Has(t, e))
  <2>1. \A i \in 1 .. Len(t) : i + 1 \in 1 .. Len(s) /\ t[i] = s[i + 1] /\ i + 1 # 1
    <3>1. ASSUME NEW i \in 1 .. Len(t) PROVE i + 1 \in 1 .. Len(s) /\ i + 1 # 1
        BY <1>1, <3>1
    <3> QED
        BY <1>1, <3>1
  <2>2. Once(t, e)
    <3> SUFFICES ASSUME NEW i \in 1 .. Len(t), NEW j \in 1 .. Len(t),
                        t[i].event = e, t[j].event = e
                 PROVE  i = j
        BY DEF Once
    <3>1. i + 1 = j + 1
        BY <1>4, <2>1 DEF Once
    <3> QED
        BY <3>1
  <2>3. s[1].event = e => ~Has(t, e)
      BY <1>1, <1>4, <2>1 DEF Once, Has, MessagesOf
  <2> QED
      BY <2>2, <2>3
<1> QED
    BY <1>1, <1>2, <1>3, <1>4 DEF t

LEMMA ConcatLine ==
    ASSUME NEW S, NEW s \in Seq(S), NEW t \in Seq(S)
    PROVE  /\ s \o t \in Seq(S)
           /\ MessagesOf(s \o t) = MessagesOf(s) \cup MessagesOf(t)
           /\ \A e : Has(s \o t, e) <=> Has(s, e) \/ Has(t, e)
           /\ \A e : Once(t, e) /\ ~Has(s, e) => Once(s \o t, e)
<1> DEFINE u == s \o t
<1>1. /\ Len(s) \in Nat /\ Len(t) \in Nat /\ u \in Seq(S) /\ Len(u) = Len(s) + Len(t)
      /\ \A i \in 1 .. Len(s) + Len(t) : u[i] = IF i <= Len(s) THEN s[i] ELSE t[i - Len(s)]
    BY ConcatProperties, LenProperties
<1> HIDE DEF u
<1>2. \A i \in 1 .. Len(s) : i \in 1 .. Len(u) /\ u[i] = s[i]
    BY <1>1
<1>3. ASSUME NEW i \in 1 .. Len(t) PROVE Len(s) + i \in 1 .. Len(u) /\ u[Len(s) + i] = t[i]
  <2>1. /\ Len(s) + i \in 1 .. Len(s) + Len(t) /\ ~(Len(s) + i <= Len(s))
        /\ (Len(s) + i) - Len(s) = i
      BY <1>1
  <2> QED
      BY <1>1, <2>1
<1>4. ASSUME NEW i \in 1 .. Len(u)
      PROVE  \/ i \in 1 .. Len(s) /\ u[i] = s[i]
             \/ i - Len(s) \in 1 .. Len(t) /\ u[i] = t[i - Len(s)]
    BY <1>1
<1>5. MessagesOf(u) = MessagesOf(s) \cup MessagesOf(t)
  <2>1. \A i \in 1 .. Len(u) : u[i] \in MessagesOf(s) \cup MessagesOf(t)
      BY <1>4 DEF MessagesOf
  <2>2. \A i \in 1 .. Len(s) : s[i] \in MessagesOf(u)
      BY <1>2 DEF MessagesOf
  <2>3. \A i \in 1 .. Len(t) : t[i] \in MessagesOf(u)
      BY <1>3 DEF MessagesOf
  <2> QED
      BY <2>1, <2>2, <2>3 DEF MessagesOf
<1>6. \A e : Has(u, e) <=> Has(s, e) \/ Has(t, e)
    BY <1>5 DEF Has
<1>7. ASSUME NEW e, Once(t, e), ~Has(s, e) PROVE Once(u, e)
  <2> SUFFICES ASSUME NEW i \in 1 .. Len(u), NEW j \in 1 .. Len(u), u[i].event = e, u[j].event = e
               PROVE  i = j
      BY DEF Once
  <2>1. \A k \in 1 .. Len(s) : s[k].event # e
      BY <1>7 DEF Has, MessagesOf
  <2>2. /\ i - Len(s) \in 1 .. Len(t) /\ t[i - Len(s)].event = e
        /\ j - Len(s) \in 1 .. Len(t) /\ t[j - Len(s)].event = e
      BY <1>4, <2>1
  <2>3. i - Len(s) = j - Len(s)
      BY <1>7, <2>2 DEF Once
  <2> QED
      BY <1>1, <2>3
<1> QED
    BY <1>1, <1>5, <1>6, <1>7 DEF u

(* A message that is in no line may be added to one ...                    *)
LEMMA UniqueAdd ==
    ASSUME NEW S, NEW L, NEW K, NEW x \in Spots, NEW m \in S, NEW e, L[x] \in Seq(S),
           Unique(L, e), m.event = e => \A y \in Spots : ~Has(L[y], e),
           K[x] = Append(L[x], m), \A y \in Spots \ {x} : K[y] = L[y]
    PROVE  Unique(K, e)
<1>1. Once(K[x], e) /\ (Has(K[x], e) <=> Has(L[x], e) \/ m.event = e)
    BY AppendLine DEF Unique
<1>2. \A y \in Spots : Once(K[y], e)
    BY <1>1 DEF Unique
<1>3. ASSUME NEW y \in Spots, NEW z \in Spots, Has(K[y], e), Has(K[z], e) PROVE y = z
    BY <1>1, <1>3 DEF Unique
<1> QED
    BY <1>2, <1>3 DEF Unique

(* ... and the head of a line, once removed, is in none.                   *)
LEMMA UniqueDrop ==
    ASSUME NEW S, NEW L, NEW K, NEW x \in Spots, NEW e, L[x] \in Seq(S), L[x] # <<>>,
           Unique(L, e), K[x] = Tail(L[x]), \A y \in Spots \ {x} : K[y] = L[y]
    PROVE  /\ Unique(K, e)
           /\ L[x][1].event = e => \A y \in Spots : ~Has(K[y], e)
           /\ \A y \in Spots : Has(K[y], e) => Has(L[y], e)
<1>1. /\ Once(K[x], e) /\ (Has(L[x], e) <=> L[x][1].event = e \/ Has(K[x], e))
      /\ L[x][1].event = e => ~Has(K[x], e)
    BY TailLine DEF Unique
<1>2. \A y \in Spots : Once(K[y], e)
    BY <1>1 DEF Unique
<1>3. \A y \in Spots : Has(K[y], e) => Has(L[y], e)
    BY <1>1
<1>4. L[x][1].event = e => \A y \in Spots : ~Has(K[y], e)
    BY <1>1 DEF Unique
<1> QED
    BY <1>2, <1>3, <1>4 DEF Unique

(* Messages that leave the lines take nothing from the ones that stay.     *)
LEMMA UniqueLess ==
    ASSUME NEW L, NEW K, NEW e, Unique(L, e),
           \A x \in Spots : (Has(K[x], e) => Has(L[x], e)) /\ (Once(L[x], e) => Once(K[x], e))
    PROVE  Unique(K, e)
BY DEF Unique

-----------------------------------------------------------------------------
LEMMA SpotFacts ==
    /\ \A q \in Queues : /\ <<"queue", q>> \in Spots
                         /\ Lines[<<"queue", q>>] = queue[q] /\ Lines'[<<"queue", q>>] = queue'[q]
    /\ \A c \in Consumers : /\ <<"hand", c>> \in Spots
                            /\ Lines[<<"hand", c>>] = Open(c) /\ Lines'[<<"hand", c>>] = Open(c)'
    /\ \A x \in Spots : \/ \E q \in Queues : x = <<"queue", q>>
                        \/ \E c \in Consumers : x = <<"hand", c>>
    /\ \A q, c : <<"queue", q>> # <<"hand", c>>
<1>1. \A q \in Queues : <<"queue", q>> \in Spots
    BY DEF Spots
<1>2. \A c \in Consumers : <<"hand", c>> \in Spots
    BY DEF Spots
<1>3. \A x \in Spots : \/ \E q \in Queues : x = <<"queue", q>>
                       \/ \E c \in Consumers : x = <<"hand", c>>
    BY DEF Spots
<1>4. \A q, c : <<"queue", q>> # <<"hand", c>>
    OBVIOUS
<1>5. \A q \in Queues : Lines[<<"queue", q>>] = queue[q] /\ Lines'[<<"queue", q>>] = queue'[q]
    BY <1>1 DEF Lines
<1>6. \A c \in Consumers : Lines[<<"hand", c>>] = Open(c) /\ Lines'[<<"hand", c>>] = Open(c)'
    BY <1>2 DEF Lines, Open
<1> QED
    BY <1>1, <1>2, <1>3, <1>4, <1>5, <1>6

(* What the invariant says of the lines: their types, and the message in a *)
(* goroutine's hands.                                                      *)
LEMMA LineTypes ==
    ASSUME QueueInv
    PROVE  /\ \A q \in Queues : queue[q] \in Seq(MQ!Messages)
           /\ \A c \in Consumers :
                /\ inbox[c] \in Seq(MQ!Messages) /\ Open(c) \in Seq(MQ!Messages)
                /\ MessagesOf(Open(c)) \subseteq MessagesOf(inbox[c])
           /\ \A x \in Spots : Lines[x] \in Seq(MQ!Messages)
<1>1. /\ \A q \in Queues : queue[q] \in Seq(MQ!Messages)
      /\ \A c \in Consumers : inbox[c] \in Seq(MQ!Messages)
    BY DEF QueueInv, MQ!QueueTypeOK
<1>2. ASSUME NEW c \in Consumers
      PROVE  Open(c) \in Seq(MQ!Messages) /\ MessagesOf(Open(c)) \subseteq MessagesOf(inbox[c])
  <2>1. CASE pc[c] = "ack"
    <3>1. inbox[c] # <<>>
        BY <2>1 DEF QueueInv, GoroutineInv, InOrder
    <3> QED
        BY <1>1, <2>1, <3>1, TailLine DEF Open
  <2>2. CASE pc[c] # "ack"
      BY <1>1, <2>2 DEF Open
  <2> QED
      BY <2>1, <2>2
<1> QED
    BY <1>1, <1>2, SpotFacts

LEMMA InHand ==
    ASSUME QueueInv, NEW c \in Consumers, pc[c] \in {"handle", "republish", "ack", "reject"}
    PROVE  /\ inbox[c] # <<>> /\ inbox[c][1] \in MQ!Messages
           /\ inbox[c][1] \in MessagesOf(inbox[c])
           /\ Sound(inbox[c][1], Subscribed[c])
           /\ Tail(inbox[c]) \in Seq(MQ!Messages)
           /\ MessagesOf(inbox[c]) = {inbox[c][1]} \cup MessagesOf(Tail(inbox[c]))
           /\ \A e : Has(inbox[c], e) <=> inbox[c][1].event = e \/ Has(Tail(inbox[c]), e)
<1>1. inbox[c] # <<>> /\ inbox[c] \in Seq(MQ!Messages)
    BY LineTypes DEF QueueInv, GoroutineInv, InOrder
<1>2. /\ inbox[c][1] \in MQ!Messages /\ Tail(inbox[c]) \in Seq(MQ!Messages)
      /\ MessagesOf(inbox[c]) = {inbox[c][1]} \cup MessagesOf(Tail(inbox[c]))
      /\ \A e : Has(inbox[c], e) <=> inbox[c][1].event = e \/ Has(Tail(inbox[c]), e)
    BY <1>1, TailLine
<1> QED
    BY <1>1, <1>2 DEF QueueInv, MessageInv

(* The head of a line goes: what is left of its event in the lines is      *)
(* nothing, and the other events stand where they stood.                   *)
LEMMA DropPlaces ==
    ASSUME QueueInv, NEW x0 \in Spots, NEW m, Lines[x0] # <<>>, Lines[x0][1] = m,
           Lines'[x0] = Tail(Lines[x0]), \A x \in Spots \ {x0} : Lines'[x] = Lines[x],
           UNCHANGED failures, NEW e \in Events \ doubled,
           e # m.event => /\ handled'[e] = handled[e] /\ (MQ!Buried(e)' => MQ!Buried(e))
                          /\ \A c \in Consumers : \A n \in MessagesOf(Open(c)) :
                               n.event = e /\ Counted(c, n) => Counted(c, n)'
    PROVE  /\ Placed(e)'
           /\ m.event = e => handled[e] = 0 /\ ~MQ!Buried(e)
<1>1. Placed(e) /\ Unique(Lines, e) /\ Lines[x0] \in Seq(MQ!Messages)
    BY LineTypes DEF QueueInv, OnceInv, Placed
<1>2. /\ Unique(Lines', e) /\ (m.event = e => \A x \in Spots : ~Has(Lines'[x], e))
      /\ \A x \in Spots : Has(Lines'[x], e) => Has(Lines[x], e)
    BY <1>1, UniqueDrop
<1>3. \A f : Has(Lines[x0], f) <=> m.event = f \/ Has(Tail(Lines[x0]), f)
    BY <1>1, TailLine
<1>4. m.event = e => handled[e] = 0 /\ ~MQ!Buried(e)
    BY <1>1, <1>3 DEF Placed
<1>5. MessagesOf(Lines[x0]) = {m} \cup MessagesOf(Tail(Lines[x0]))
    BY <1>1, TailLine
<1>6. \A x \in Spots : MessagesOf(Lines'[x]) \subseteq MessagesOf(Lines[x])
    BY <1>5
<1>7. (\E x \in Spots : Has(Lines'[x], e)) => handled'[e] = 0 /\ ~MQ!Buried(e)'
    BY <1>1, <1>2 DEF Placed
<1>8. ASSUME NEW q \in Queues, NEW n \in MessagesOf(queue'[q]), n.event = e
      PROVE  failures'[e] = n.retries
  <2>1. n \in MessagesOf(queue[q])
      BY <1>6, SpotFacts
  <2> QED
      BY <1>1, <1>8, <2>1 DEF Placed
<1>9. ASSUME NEW c \in Consumers, NEW n \in MessagesOf(Open(c)'), n.event = e
      PROVE  Counted(c, n)'
  <2>1. n \in MessagesOf(Open(c)) /\ Has(Lines'[<<"hand", c>>], e)
      BY <1>6, <1>9, SpotFacts DEF Has
  <2>2. e # m.event
      BY <1>2, <2>1, SpotFacts
  <2> QED
      BY <1>1, <1>9, <2>1, <2>2 DEF Placed
<1> QED
    BY <1>2, <1>4, <1>7, <1>8, <1>9 DEF Placed

(* PublishMessage. *)
LEMMA PublishKeeps ==
    ASSUME QueueInv, NEW e0 \in Events, MQ!PublishMessage(e0)
    PROVE  QueueInv'
<1> DEFINE m == MQ!Message(e0, 0)
           q0 == Route[e0]
           x0 == <<"queue", q0>>
<1>1. /\ e0 \notin published /\ published' = published \cup {e0}
      /\ queue' = [queue EXCEPT ![q0] = Append(queue[q0], m)]
      /\ UNCHANGED <<dead, up, inbox, pc, handled, failures, lost, doubled, faults>>
    BY DEF MQ!PublishMessage, MQ!client
<1>2. q0 \in Queues /\ m \in MQ!Messages /\ m.event = e0 /\ m.retries = 0 /\ Route[m.event] = q0
    BY EventAssumption DEF MQ!Message, MQ!Messages
<1> HIDE DEF m, q0
<1>3. /\ queue \in [Queues -> Seq(MQ!Messages)] /\ queue'[q0] = Append(queue[q0], m)
      /\ \A q \in Queues : q # q0 => queue'[q] = queue[q]
    BY <1>1, <1>2 DEF QueueInv, MQ!QueueTypeOK
<1>4. /\ queue'[q0] \in Seq(MQ!Messages)
      /\ MessagesOf(queue'[q0]) = MessagesOf(queue[q0]) \cup {m}
      /\ \A e : Has(queue'[q0], e) <=> Has(queue[q0], e) \/ e0 = e
    BY <1>2, <1>3, AppendLine
<1>5. \A c \in Consumers : Open(c)' = Open(c)
    BY <1>1 DEF Open
<1>6. MQ!QueueTypeOK'
  <2>1. queue' \in [Queues -> Seq(MQ!Messages)]
      BY <1>1, <1>2, <1>3, <1>4
  <2> QED
      BY <1>1, <2>1 DEF QueueInv, MQ!QueueTypeOK
<1>7. handled[e0] = 0 /\ failures[e0] = 0 /\ ~MQ!Buried(e0)
    BY <1>1 DEF QueueInv, MessageInv
<1>8. MessageInv'
  <2>1. \A q \in Queues : \A n \in MessagesOf(queue'[q]) : Sound(n, q)'
      BY <1>1, <1>2, <1>3, <1>4, <1>7 DEF QueueInv, MessageInv, Sound
  <2>2. \A c \in Consumers : \A n \in MessagesOf(inbox'[c]) : Sound(n, Subscribed[c])'
      BY <1>1 DEF QueueInv, MessageInv, Sound
  <2> QED
      BY <1>1, <2>1, <2>2 DEF QueueInv, MessageInv, MQ!Buried
<1>9. GoroutineInv'
    BY <1>1 DEF QueueInv, GoroutineInv, InOrder, MQ!Connected
<1>10. KeptInv'
  <2> SUFFICES ASSUME NEW e \in published' \ lost' PROVE Kept(e)'
      BY DEF KeptInv
  <2>1. CASE e = e0
      BY <1>2, <1>4, <2>1 DEF Kept
  <2>2. CASE e # e0
    <3>1. Kept(e)
        BY <1>1, <2>2 DEF QueueInv, KeptInv
    <3>2. \A q \in Queues : Has(queue[q], e) => Has(queue'[q], e)
        BY <1>3, <1>4
    <3> QED
        BY <1>1, <1>5, <3>1, <3>2 DEF Kept, MQ!Connected, MQ!Buried
  <2> QED
      BY <2>1, <2>2
<1>11. OnceInv'
  <2> SUFFICES ASSUME NEW e \in Events, e \notin doubled PROVE Placed(e)'
      BY <1>1 DEF OnceInv
  <2>1. Placed(e)
      BY DEF QueueInv, OnceInv
  <2>2. e = e0 => \A x \in Spots : ~Has(Lines[x], e)
    <3>1. \A q \in Queues : ~Has(queue[q], e0)
        BY <1>1 DEF QueueInv, MessageInv, Sound, Has
    <3>2. \A c \in Consumers : ~Has(Open(c), e0)
        BY <1>1, LineTypes DEF QueueInv, MessageInv, Sound, Has
    <3> QED
        BY <3>1, <3>2, SpotFacts
  <2>3. /\ x0 \in Spots /\ Lines[x0] \in Seq(MQ!Messages) /\ Lines'[x0] = Append(Lines[x0], m)
        /\ \A x \in Spots \ {x0} : Lines'[x] = Lines[x]
      BY <1>2, <1>3, <1>5, SpotFacts
  <2>4. Unique(Lines', e)
    <3> HIDE DEF x0
    <3>1. Unique(Lines, e) /\ (m.event = e => \A x \in Spots : ~Has(Lines[x], e))
        BY <1>2, <2>1, <2>2 DEF Placed
    <3> QED
        BY <1>2, <2>3, <3>1, UniqueAdd
  <2>5. \A x \in Spots : Has(Lines'[x], e) => Has(Lines[x], e) \/ e = e0
      BY <1>2, <1>3, <1>4, <2>3, SpotFacts
  <2>6. (\E x \in Spots : Has(Lines'[x], e)) => handled'[e] = 0 /\ ~MQ!Buried(e)'
      BY <1>1, <1>7, <2>1, <2>5 DEF Placed, MQ!Buried
  <2>7. \A q \in Queues : \A n \in MessagesOf(queue'[q]) : n.event = e => failures'[e] = n.retries
      BY <1>1, <1>2, <1>3, <1>4, <1>7, <2>1 DEF Placed
  <2>8. \A c \in Consumers : \A n \in MessagesOf(Open(c)') : n.event = e => Counted(c, n)'
      BY <1>1, <1>5, <2>1 DEF Placed, Counted
  <2> QED
      BY <2>4, <2>6, <2>7, <2>8 DEF Placed
<1>12. MQ!HandledOnce' /\ MQ!DeadLettersWereTried'
    BY <1>1 DEF QueueInv, MQ!HandledOnce, MQ!DeadLettersWereTried, MQ!Buried
<1> QED
    BY <1>6, <1>8, <1>9, <1>10, <1>11, <1>12 DEF QueueInv

(* Deliver: the head of a queue goes to the end of what a goroutine has.   *)
LEMMA DeliverKeeps ==
    ASSUME QueueInv, NEW c0 \in Consumers, MQ!Deliver(c0)
    PROVE  QueueInv'
<1> DEFINE q0 == Subscribed[c0]
           m == queue[q0][1]
           x0 == <<"queue", q0>>
           y0 == <<"hand", c0>>
           mid == [x \in Spots |-> IF x = x0 THEN Tail(Lines[x0]) ELSE Lines[x]]
<1>1. /\ up[ProcessOf[c0]] /\ pc[c0] \notin {"down", "starting"} /\ queue[q0] # <<>>
      /\ inbox' = [inbox EXCEPT ![c0] = Append(inbox[c0], Head(queue[q0]))]
      /\ queue' = [queue EXCEPT ![q0] = Tail(queue[q0])]
      /\ UNCHANGED <<dead, up, pc, published, handled, failures, lost, doubled, faults>>
    BY DEF MQ!Deliver, MQ!Connected, MQ!record
<1>2. q0 \in Queues
    BY EventAssumption DEF Consumers
<1> HIDE DEF q0
<1>3. /\ queue \in [Queues -> Seq(MQ!Messages)] /\ inbox \in [Consumers -> Seq(MQ!Messages)]
      /\ \A q \in Queues : q # q0 => queue'[q] = queue[q]
      /\ \A c \in Consumers : c # c0 => inbox'[c] = inbox[c]
      /\ queue'[q0] = Tail(queue[q0]) /\ inbox'[c0] = Append(inbox[c0], Head(queue[q0]))
    BY <1>1, <1>2 DEF QueueInv, MQ!QueueTypeOK
<1>4. /\ Head(queue[q0]) = m /\ m \in MQ!Messages /\ queue'[q0] \in Seq(MQ!Messages)
      /\ MessagesOf(queue[q0]) = {m} \cup MessagesOf(queue'[q0])
      /\ \A e : Has(queue[q0], e) <=> m.event = e \/ Has(queue'[q0], e)
    BY <1>1, <1>2, <1>3, TailLine
<1> HIDE DEF m
<1>5. /\ inbox'[c0] = Append(inbox[c0], m) /\ inbox'[c0] \in Seq(MQ!Messages)
      /\ inbox'[c0] # <<>> /\ MessagesOf(inbox'[c0]) = MessagesOf(inbox[c0]) \cup {m}
      /\ inbox[c0] # <<>> => /\ inbox'[c0][1] = inbox[c0][1]
                             /\ Tail(inbox'[c0]) = Append(Tail(inbox[c0]), m)
    BY <1>3, <1>4, AppendLine
<1>6. /\ Open(c0)' = Append(Open(c0), m) /\ Open(c0) \in Seq(MQ!Messages)
      /\ \A c \in Consumers : c # c0 => Open(c)' = Open(c)
    BY <1>1, <1>3, <1>5, LineTypes DEF Open, QueueInv, GoroutineInv, InOrder
<1>7. /\ MessagesOf(Open(c0)') = MessagesOf(Open(c0)) \cup {m}
      /\ \A e : Has(Open(c0)', e) <=> Has(Open(c0), e) \/ m.event = e
    BY <1>4, <1>6, AppendLine
<1>8. MQ!QueueTypeOK'
  <2>1. queue' \in [Queues -> Seq(MQ!Messages)] /\ inbox' \in [Consumers -> Seq(MQ!Messages)]
      BY <1>1, <1>2, <1>3, <1>4, <1>5
  <2> QED
      BY <1>1, <2>1 DEF QueueInv, MQ!QueueTypeOK
<1>9. Sound(m, q0) /\ m \in MessagesOf(queue[q0])
    BY <1>2, <1>4 DEF QueueInv, MessageInv
<1>10. MessageInv'
  <2>1. \A q \in Queues : \A n \in MessagesOf(queue'[q]) : Sound(n, q)'
    <3>1. \A q \in Queues : MessagesOf(queue'[q]) \subseteq MessagesOf(queue[q])
        BY <1>3, <1>4
    <3> QED
        BY <1>1, <3>1 DEF QueueInv, MessageInv, Sound
  <2>2. \A c \in Consumers : \A n \in MessagesOf(inbox'[c]) : Sound(n, Subscribed[c])'
      BY <1>1, <1>3, <1>5, <1>9 DEF QueueInv, MessageInv, Sound, q0
  <2> QED
      BY <1>1, <2>1, <2>2 DEF QueueInv, MessageInv, MQ!Buried
<1>11. GoroutineInv'
  <2> SUFFICES ASSUME NEW c \in Consumers PROVE InOrder(c)'
      BY DEF GoroutineInv
  <2>1. InOrder(c)
      BY DEF QueueInv, GoroutineInv
  <2>2. CASE c = c0
      BY <1>1, <1>5, <2>1, <2>2 DEF InOrder, MQ!Connected
  <2>3. CASE c # c0
      BY <1>1, <1>3, <2>1, <2>3 DEF InOrder, MQ!Connected
  <2> QED
      BY <2>2, <2>3
<1>12. KeptInv'
  <2> SUFFICES ASSUME NEW e \in published' \ lost' PROVE Kept(e)'
      BY DEF KeptInv
  <2>1. Kept(e)
      BY <1>1 DEF QueueInv, KeptInv
  <2>2. \A q \in Queues : Has(queue[q], e) => Has(queue'[q], e) \/ Has(Open(c0)', e)
      BY <1>3, <1>4, <1>7
  <2>3. \A c \in Consumers : Has(Open(c), e) => Has(Open(c)', e)
      BY <1>6, <1>7
  <2> QED
      BY <1>1, <2>1, <2>2, <2>3 DEF Kept, MQ!Connected, MQ!Buried
<1>13. OnceInv'
  <2> SUFFICES ASSUME NEW e \in Events, e \notin doubled PROVE Placed(e)'
      BY <1>1 DEF OnceInv
  <2>1. Placed(e) /\ Unique(Lines, e)
      BY DEF QueueInv, OnceInv, Placed
  <2>2. /\ x0 \in Spots /\ y0 \in Spots /\ x0 # y0
        /\ Lines[x0] = queue[q0] /\ Lines[y0] = Open(c0)
        /\ \A x \in Spots : Lines[x] \in Seq(MQ!Messages)
        /\ Lines'[x0] = queue'[q0] /\ Lines'[y0] = Open(c0)'
      BY <1>2, SpotFacts, LineTypes
  <2>3. ASSUME NEW x \in Spots \ {x0, y0} PROVE Lines'[x] = Lines[x]
    <3>1. CASE \E q \in Queues : x = <<"queue", q>>
        BY <1>3, <2>3, <3>1, SpotFacts
    <3>2. CASE \E c \in Consumers : x = <<"hand", c>>
        BY <1>6, <2>3, <3>2, SpotFacts
    <3> QED
        BY <3>1, <3>2, SpotFacts
  <2> HIDE DEF x0, y0
  <2>4. /\ mid[x0] = Tail(Lines[x0]) /\ mid[y0] = Lines[y0]
        /\ \A x \in Spots \ {x0} : mid[x] = Lines[x]
      BY <2>2
  <2>5. /\ Lines'[x0] = mid[x0] /\ Lines'[y0] = Append(mid[y0], m) /\ mid[y0] \in Seq(MQ!Messages)
        /\ \A x \in Spots \ {y0} : Lines'[x] = mid[x]
      BY <1>3, <1>6, <2>2, <2>3, <2>4
  <2> HIDE DEF mid
  <2>6. /\ Unique(mid, e) /\ (m.event = e => \A x \in Spots : ~Has(mid[x], e))
        /\ \A x \in Spots : Has(mid[x], e) => Has(Lines[x], e)
    <3>1. Lines[x0] # <<>> /\ Lines[x0][1] = m
        BY <1>1, <2>2 DEF m
    <3>2. x0 \in Spots /\ Lines[x0] \in Seq(MQ!Messages)
        BY <2>2
    <3> QED
        BY <2>1, <2>4, <3>1, <3>2, UniqueDrop
  <2>7. Unique(Lines', e)
    <3>1. y0 \in Spots /\ m \in MQ!Messages
        BY <1>4, <2>2
    <3> QED
        BY <2>5, <2>6, <3>1, UniqueAdd
  <2>8. m.event = e => Has(Lines[x0], e)
      BY <1>4, <2>2
  <2>9. \A x \in Spots : Has(Lines'[x], e) => \E y \in Spots : Has(Lines[y], e)
      BY <1>6, <1>7, <2>2, <2>5, <2>6, <2>8
  <2>10. (\E x \in Spots : Has(Lines'[x], e)) => handled'[e] = 0 /\ ~MQ!Buried(e)'
      BY <1>1, <2>1, <2>9 DEF Placed, MQ!Buried
  <2>11. \A q \in Queues : \A n \in MessagesOf(queue'[q]) : n.event = e => failures'[e] = n.retries
      BY <1>1, <1>3, <1>4, <2>1 DEF Placed
  <2>12. m.event = e => failures'[m.event] = m.retries
      BY <1>1, <1>2, <1>9, <2>1 DEF Placed
  <2>13. ASSUME NEW c \in Consumers, NEW n \in MessagesOf(Open(c)'), n.event = e
         PROVE  Counted(c, n)'
    <3>1. CASE n \in MessagesOf(Open(c))
      <4>1. Counted(c, n)
          BY <2>1, <2>13, <3>1 DEF Placed
      <4>2. pc[c] \in {"republish", "reject"} => inbox'[c][1] = inbox[c][1]
          BY <1>3, <1>5 DEF QueueInv, GoroutineInv, InOrder
      <4> QED
          BY <1>1, <4>1, <4>2 DEF Counted
    <3>2. CASE n \notin MessagesOf(Open(c))
      <4>1. n = m
          BY <1>6, <1>7, <2>13, <3>2
      <4> QED
          BY <2>12, <2>13, <4>1 DEF Counted
    <3> QED
        BY <3>1, <3>2
  <2> QED
      BY <2>7, <2>10, <2>11, <2>13 DEF Placed
<1>14. MQ!HandledOnce' /\ MQ!DeadLettersWereTried'
    BY <1>1 DEF QueueInv, MQ!HandledOnce, MQ!DeadLettersWereTried, MQ!Buried
<1> QED
    BY <1>8, <1>10, <1>11, <1>12, <1>13, <1>14 DEF QueueInv

(* Expire: the head of a queue is buried.                                  *)
LEMMA ExpireKeeps ==
    ASSUME QueueInv, NEW q0 \in Queues, MQ!Expire(q0)
    PROVE  QueueInv'
<1> DEFINE m == queue[q0][1]
           d == [event |-> m.event, retries |-> m.retries, cause |-> "expired"]
           x0 == <<"queue", q0>>
<1>1. /\ queue[q0] # <<>> /\ faults < MaxFaults /\ faults' = faults + 1
      /\ UNCHANGED <<up, inbox, pc, published, handled, failures, lost, doubled>>
      /\ queue' = [queue EXCEPT ![q0] = Tail(queue[q0])]
    BY DEF MQ!Expire, MQ!Fault, MQ!client, MQ!record
<1>2. /\ queue \in [Queues -> Seq(MQ!Messages)] /\ queue'[q0] = Tail(queue[q0])
      /\ \A q \in Queues : q # q0 => queue'[q] = queue[q]
    BY <1>1 DEF QueueInv, MQ!QueueTypeOK
<1>3. /\ Head(queue[q0]) = m /\ m \in MQ!Messages /\ queue'[q0] \in Seq(MQ!Messages)
      /\ MessagesOf(queue[q0]) = {m} \cup MessagesOf(queue'[q0])
      /\ \A e : Has(queue[q0], e) <=> m.event = e \/ Has(queue'[q0], e)
    BY <1>1, <1>2, TailLine
<1>4. dead' = dead \cup {d} /\ d \in MQ!DeadLetters /\ d.event = m.event /\ d.cause = "expired"
    BY <1>3 DEF MQ!Expire, MQ!Bury, MQ!Messages, MQ!DeadLetters
<1> HIDE DEF m, d
<1>5. \A e : MQ!Buried(e)' <=> MQ!Buried(e) \/ e = m.event
    BY <1>4 DEF MQ!Buried
<1>6. \A c \in Consumers : Open(c)' = Open(c)
    BY <1>1 DEF Open
<1>7. MQ!QueueTypeOK'
  <2>1. queue' \in [Queues -> Seq(MQ!Messages)] /\ faults' \in 0 .. MaxFaults
      BY <1>1, <1>2, <1>3, EventAssumption DEF QueueInv, MQ!QueueTypeOK
  <2> QED
      BY <1>1, <1>4, <2>1 DEF QueueInv, MQ!QueueTypeOK
<1>8. m.event \in published
    BY <1>3 DEF QueueInv, MessageInv, Sound
<1>9. MessageInv'
  <2>1. \A q \in Queues : MessagesOf(queue'[q]) \subseteq MessagesOf(queue[q])
      BY <1>2, <1>3
  <2>2. \A q \in Queues : \A n \in MessagesOf(queue'[q]) : Sound(n, q)'
      BY <1>1, <2>1 DEF QueueInv, MessageInv, Sound
  <2>3. \A c \in Consumers : \A n \in MessagesOf(inbox'[c]) : Sound(n, Subscribed[c])'
      BY <1>1 DEF QueueInv, MessageInv, Sound
  <2> QED
      BY <1>1, <1>5, <1>8, <2>2, <2>3 DEF QueueInv, MessageInv
<1>10. GoroutineInv'
    BY <1>1 DEF QueueInv, GoroutineInv, InOrder, MQ!Connected
<1>11. KeptInv'
  <2> SUFFICES ASSUME NEW e \in published' \ lost' PROVE Kept(e)'
      BY DEF KeptInv
  <2>1. Kept(e)
      BY <1>1 DEF QueueInv, KeptInv
  <2>2. \A q \in Queues : Has(queue[q], e) => Has(queue'[q], e) \/ e = m.event
      BY <1>2, <1>3
  <2> QED
      BY <1>1, <1>5, <1>6, <2>1, <2>2 DEF Kept, MQ!Connected
<1>12. ASSUME NEW e \in Events \ doubled
       PROVE  Placed(e)' /\ (m.event = e => handled[e] = 0 /\ ~MQ!Buried(e))
  <2>1. /\ x0 \in Spots /\ Lines[x0] # <<>> /\ Lines[x0][1] = m /\ Lines'[x0] = Tail(Lines[x0])
      BY <1>1, <1>2, SpotFacts DEF m
  <2>2. \A x \in Spots \ {x0} : Lines'[x] = Lines[x]
    <3> TAKE x \in Spots \ {x0}
    <3>1. CASE \E q \in Queues : x = <<"queue", q>>
        BY <1>2, <3>1, SpotFacts
    <3>2. CASE \E c \in Consumers : x = <<"hand", c>>
        BY <1>6, <3>2, SpotFacts
    <3> QED
        BY <3>1, <3>2, SpotFacts
  <2>3. e # m.event => /\ handled'[e] = handled[e] /\ (MQ!Buried(e)' => MQ!Buried(e))
                       /\ \A c \in Consumers : \A n \in MessagesOf(Open(c)) :
                            n.event = e /\ Counted(c, n) => Counted(c, n)'
      BY <1>1, <1>5 DEF Counted
  <2> HIDE DEF x0
  <2> QED
      BY <1>1, <2>1, <2>2, <2>3, DropPlaces
<1>13. OnceInv' /\ MQ!HandledOnce'
    BY <1>1, <1>5, <1>12 DEF OnceInv, QueueInv, MQ!HandledOnce
<1>14. MQ!DeadLettersWereTried'
    BY <1>1, <1>4 DEF QueueInv, MQ!DeadLettersWereTried
<1> QED
    BY <1>7, <1>9, <1>10, <1>11, <1>13, <1>14 DEF QueueInv

LEMMA SameCardinality == \A S : MQ!Cardinality(S) = Cardinality(S)
BY DEF MQ!Cardinality, Cardinality

(* The deliveries that goroutines have not answered go back in some order: *)
(* every one of them, and nothing else.                                    *)
LEMMA UnansweredFinite ==
    ASSUME QueueInv, NEW S \in SUBSET Consumers
    PROVE  /\ IsFiniteSet(MQ!Unanswered(S)) /\ Cardinality(MQ!Unanswered(S)) \in Nat
           /\ \A x \in MQ!Unanswered(S) : x[1] \in S /\ x[2] \in 1 .. Len(inbox[x[1]])
           /\ \A c \in S : \A i \in 1 .. Len(inbox[c]) : <<c, i>> \in MQ!Unanswered(S)
<1> DEFINE f == [c \in S |-> {c} \X DOMAIN inbox[c]]
           T == {{c} \X DOMAIN inbox[c] : c \in S}
<1>1. \A c \in S : inbox[c] \in Seq(MQ!Messages) /\ DOMAIN inbox[c] = 1 .. Len(inbox[c])
                   /\ Len(inbox[c]) \in Nat
    BY LineTypes
<1>2. IsFiniteSet(S)
    BY EventAssumption, FS_Subset DEF Consumers
<1>3. f \in Surjection(S, T)
    BY DEF Surjection
<1>4. IsFiniteSet(T)
  <2> HIDE DEF f, T
  <2> QED
      BY <1>2, <1>3, FS_Surjection
<1>5. \A c \in S : IsFiniteSet({c} \X DOMAIN inbox[c])
  <2> TAKE c \in S
  <2> DEFINE n == Len(inbox[c])
  <2>1. n \in Int /\ 1 \in Int /\ DOMAIN inbox[c] = 1 .. n
      BY <1>1
  <2>3. IsFiniteSet({c})
      BY FS_Singleton
  <2>2. IsFiniteSet(1 .. n)
    <3> HIDE DEF n
    <3> QED
        BY <2>1, FS_Interval
  <2> QED
      BY <2>1, <2>2, <2>3, FS_Product
<1>6. IsFiniteSet(UNION T)
  <2>1. \A U \in T : IsFiniteSet(U)
      BY <1>5
  <2> HIDE DEF T
  <2> QED
      BY <1>4, <2>1, FS_UNION
<1>7. MQ!Unanswered(S) = UNION T
    BY DEF MQ!Unanswered
<1>8. Cardinality(MQ!Unanswered(S)) \in Nat
    BY <1>6, <1>7, FS_CardinalityType
<1>9. \A x \in MQ!Unanswered(S) : x[1] \in S /\ x[2] \in 1 .. Len(inbox[x[1]])
    BY <1>1, <1>7
<1>10. \A c \in S : \A i \in 1 .. Len(inbox[c]) : <<c, i>> \in MQ!Unanswered(S)
    BY <1>1, <1>7
<1> QED
    BY <1>6, <1>7, <1>8, <1>9, <1>10

LEMMA DeliveredAgain ==
    ASSUME QueueInv, NEW S \in SUBSET Consumers, NEW order \in MQ!Orders(S)
    PROVE  /\ MQ!Deliveries(order) \in Seq(MQ!Messages)
           /\ \A m \in MessagesOf(MQ!Deliveries(order)) : \E c \in S : m \in MessagesOf(inbox[c])
           /\ \A c \in S : MessagesOf(inbox[c]) \subseteq MessagesOf(MQ!Deliveries(order))
<1> DEFINE n == Cardinality(MQ!Unanswered(S))
           t == MQ!Deliveries(order)
<1>1. /\ n \in Nat /\ order \in [1 .. n -> MQ!Unanswered(S)]
      /\ \A x \in MQ!Unanswered(S) : \E i \in 1 .. n : x = order[i]
  <2> DEFINE U == MQ!Unanswered(S)
  <2>1. order \in [1 .. n -> U] /\ U \subseteq {order[i] : i \in DOMAIN order}
    <3>1. order \in {o \in [1 .. n -> U] :
                       /\ U \subseteq {o[i] : i \in DOMAIN o}
                       /\ \A i, j \in DOMAIN o :
                            i < j /\ o[i][1] = o[j][1] => o[i][2] < o[j][2]}
        BY SameCardinality DEF MQ!Orders
    <3> QED
        BY <3>1
  <2>2. DOMAIN order = 1 .. n
      BY <2>1
  <2>3. n \in Nat
      BY UnansweredFinite
  <2> QED
      BY <2>1, <2>2, <2>3
<1>2. \A i \in 1 .. n : /\ order[i][1] \in S
                        /\ order[i][2] \in 1 .. Len(inbox[order[i][1]])
    BY <1>1, UnansweredFinite
<1> HIDE DEF n
<1>3. t = [i \in 1 .. n |-> inbox[order[i][1]][order[i][2]]]
    BY <1>1 DEF MQ!Deliveries
<1>4. ASSUME NEW i \in 1 .. n PROVE t[i] \in MQ!Messages /\ t[i] \in MessagesOf(inbox[order[i][1]])
  <2>1. inbox[order[i][1]] \in Seq(MQ!Messages)
      BY <1>2, LineTypes
  <2>2. t[i] = inbox[order[i][1]][order[i][2]]
      BY <1>3
  <2> HIDE DEF t
  <2> QED
      BY <1>2, <2>1, <2>2, ElementOfSeq DEF MessagesOf
<1> HIDE DEF t
<1>5. t \in Seq(MQ!Messages) /\ Len(t) = n
    BY <1>1, <1>3, <1>4
<1>6. \A m \in MessagesOf(t) : \E c \in S : m \in MessagesOf(inbox[c])
    BY <1>2, <1>4, <1>5 DEF MessagesOf
<1>7. ASSUME NEW c \in S, NEW i \in 1 .. Len(inbox[c]) PROVE inbox[c][i] \in MessagesOf(t)
  <2>1. PICK j \in 1 .. n : order[j] = <<c, i>>
      BY <1>1, UnansweredFinite
  <2>2. t[j] = inbox[c][i]
      BY <1>3, <2>1
  <2> QED
      BY <1>5, <2>2 DEF MessagesOf
<1>8. \A c \in S : MessagesOf(inbox[c]) \subseteq MessagesOf(t)
    BY <1>7 DEF MessagesOf
<1> QED
    BY <1>5, <1>6, <1>8 DEF t

LEMMA RequeueLines ==
    ASSUME QueueInv, NEW p \in Processes, MQ!Requeue(p)
    PROVE  /\ queue' \in [Queues -> Seq(MQ!Messages)]
           /\ \A q \in Queues :
                /\ MessagesOf(queue[q]) \subseteq MessagesOf(queue'[q])
                /\ \A m \in MessagesOf(queue'[q]) \ MessagesOf(queue[q]) :
                     \E c \in MQ!ConsumersOf(p) : Subscribed[c] = q /\ m \in MessagesOf(inbox[c])
                /\ \A e : Once(queue[q], e) /\ (\A c \in MQ!ConsumersOf(p) : ~Has(inbox[c], e))
                          => Once(queue'[q], e)
           /\ up[p] => \A c \in MQ!ConsumersOf(p) :
                         MessagesOf(inbox[c]) \subseteq MessagesOf(queue'[Subscribed[c]])
           /\ up' = [up EXCEPT ![p] = FALSE]
           /\ doubled' = doubled \cup UNION {MQ!InHands(c) : c \in MQ!ConsumersOf(p)}
<1> DEFINE Of(q) == {c \in MQ!ConsumersOf(p) : Subscribed[c] = q /\ up[p]}
<1>1. PICK order : /\ \A q \in Queues : order[q] \in MQ!Orders(Of(q))
                   /\ queue' = [q \in Queues |-> MQ!Deliveries(order[q]) \o queue[q]]
    BY DEF MQ!Requeue
<1>2. ASSUME NEW q \in Queues
      PROVE  /\ queue'[q] \in Seq(MQ!Messages)
             /\ MessagesOf(queue[q]) \subseteq MessagesOf(queue'[q])
             /\ \A m \in MessagesOf(queue'[q]) \ MessagesOf(queue[q]) :
                  \E c \in MQ!ConsumersOf(p) : Subscribed[c] = q /\ m \in MessagesOf(inbox[c])
             /\ \A e : Once(queue[q], e) /\ (\A c \in MQ!ConsumersOf(p) : ~Has(inbox[c], e))
                       => Once(queue'[q], e)
             /\ \A c \in Of(q) : MessagesOf(inbox[c]) \subseteq MessagesOf(queue'[q])
  <2> DEFINE s == MQ!Deliveries(order[q])
  <2>1. Of(q) \in SUBSET Consumers /\ \A c \in Of(q) : c \in MQ!ConsumersOf(p) /\ Subscribed[c] = q
      BY DEF MQ!ConsumersOf
  <2> HIDE DEF Of
  <2>2. /\ s \in Seq(MQ!Messages)
        /\ \A m \in MessagesOf(s) : \E c \in Of(q) : m \in MessagesOf(inbox[c])
        /\ \A c \in Of(q) : MessagesOf(inbox[c]) \subseteq MessagesOf(s)
      BY <1>1, <2>1, DeliveredAgain
  <2>3. queue'[q] = s \o queue[q] /\ queue[q] \in Seq(MQ!Messages)
      BY <1>1, LineTypes
  <2> HIDE DEF s
  <2>4. /\ queue'[q] \in Seq(MQ!Messages)
        /\ MessagesOf(queue'[q]) = MessagesOf(s) \cup MessagesOf(queue[q])
        /\ \A e : Once(queue[q], e) /\ ~Has(s, e) => Once(queue'[q], e)
      BY <2>2, <2>3, ConcatLine
  <2>5. \A e : (\A c \in MQ!ConsumersOf(p) : ~Has(inbox[c], e)) => ~Has(s, e)
      BY <2>1, <2>2 DEF Has
  <2> QED
      BY <2>1, <2>2, <2>4, <2>5
<1>3. \A c \in MQ!ConsumersOf(p) : Subscribed[c] \in Queues
    BY EventAssumption DEF MQ!ConsumersOf, Consumers
<1>4. queue' \in [Queues -> Seq(MQ!Messages)]
    BY <1>1, <1>2
<1>5. up[p] => \A c \in MQ!ConsumersOf(p) :
                 MessagesOf(inbox[c]) \subseteq MessagesOf(queue'[Subscribed[c]])
    BY <1>2, <1>3
<1> QED
    BY <1>2, <1>4, <1>5 DEF MQ!Requeue

(* A broken connection: the goroutines keep what they had received, or     *)
(* are gone with it.                                                       *)
LEMMA RequeueKeeps ==
    ASSUME QueueInv, NEW p \in Processes, MQ!Requeue(p),
           UNCHANGED <<dead, published, handled, failures, lost>>, faults' \in 0 .. MaxFaults,
           inbox' \in [Consumers -> Seq(MQ!Messages)], pc' \in [Consumers -> MQ!Labels],
           \A c \in Consumers \ MQ!ConsumersOf(p) : inbox'[c] = inbox[c] /\ pc'[c] = pc[c],
           \A c \in MQ!ConsumersOf(p) : \/ inbox'[c] = inbox[c] /\ pc'[c] = pc[c]
                                        \/ inbox'[c] = <<>> /\ pc'[c] = "down"
    PROVE  QueueInv'
<1> DEFINE Gone == MQ!ConsumersOf(p)
<1>1. /\ queue' \in [Queues -> Seq(MQ!Messages)]
      /\ \A q \in Queues :
           /\ MessagesOf(queue[q]) \subseteq MessagesOf(queue'[q])
           /\ \A m \in MessagesOf(queue'[q]) \ MessagesOf(queue[q]) :
                \E c \in Gone : Subscribed[c] = q /\ m \in MessagesOf(inbox[c])
           /\ \A e : Once(queue[q], e) /\ (\A c \in Gone : ~Has(inbox[c], e))
                     => Once(queue'[q], e)
      /\ up[p] => \A c \in Gone : MessagesOf(inbox[c]) \subseteq MessagesOf(queue'[Subscribed[c]])
      /\ up' = [up EXCEPT ![p] = FALSE]
      /\ doubled' = doubled \cup UNION {MQ!InHands(c) : c \in Gone}
    BY RequeueLines
<1>2. /\ Gone \subseteq Consumers /\ \A c \in Gone : ProcessOf[c] = p /\ Subscribed[c] \in Queues
      /\ \A c \in Consumers \ Gone : ProcessOf[c] # p
    BY EventAssumption DEF MQ!ConsumersOf, Consumers
<1> HIDE DEF Gone
<1>3. \A c \in Consumers : MQ!InHands(c) = {m.event : m \in MessagesOf(inbox[c])}
    BY DEF MQ!InHands, MessagesOf
<1>4. /\ doubled \subseteq doubled'
      /\ \A c \in Gone : \A m \in MessagesOf(inbox[c]) : m.event \in doubled'
    BY <1>1, <1>2, <1>3
<1>5. /\ up \in [Processes -> BOOLEAN] /\ up' \in [Processes -> BOOLEAN] /\ ~up'[p]
      /\ \A c \in Consumers \ Gone : MQ!Connected(c)' = MQ!Connected(c)
      /\ \A c \in Gone : ~MQ!Connected(c)' /\ (MQ!Connected(c) <=> up[p])
  <2>1. up \in [Processes -> BOOLEAN] /\ up' \in [Processes -> BOOLEAN] /\ ~up'[p]
      BY <1>1 DEF QueueInv, MQ!QueueTypeOK
  <2>2. \A c \in Consumers : ProcessOf[c] \in Processes
      BY DEF ProcessOf, Processes
  <2>3. \A o \in Processes : o # p => up'[o] = up[o]
      BY <1>1, <2>1
  <2> QED
      BY <1>2, <2>1, <2>2, <2>3 DEF MQ!Connected
<1>6. MQ!QueueTypeOK'
  <2>1. UNION {published, lost, doubled} \subseteq Events
      BY DEF QueueInv, MQ!QueueTypeOK
  <2>2. \A c \in Gone : \A m \in MessagesOf(inbox[c]) : m.event \in Events
    <3> SUFFICES ASSUME NEW c \in Gone, NEW i \in 1 .. Len(inbox[c])
                 PROVE  inbox[c][i].event \in Events
        BY DEF MessagesOf
    <3>1. inbox[c] \in Seq(MQ!Messages)
        BY <1>2, LineTypes
    <3>2. inbox[c][i] \in MQ!Messages
        BY <3>1, ElementOfSeq
    <3> QED
        BY <3>2 DEF MQ!Messages
  <2>3. doubled' \subseteq Events
      BY <1>1, <1>2, <1>3, <2>1, <2>2
  <2>4. UNION {published', lost', doubled'} \subseteq Events
      BY <2>1, <2>3
  <2> QED
      BY <1>1, <1>5, <2>4 DEF QueueInv, MQ!QueueTypeOK
<1>7. \A c \in Consumers : MessagesOf(inbox'[c]) \subseteq MessagesOf(inbox[c])
    BY EmptyLine
<1>8. MessageInv'
  <2>1. \A c \in Consumers : \A n \in MessagesOf(inbox[c]) : Sound(n, Subscribed[c])
      BY DEF QueueInv, MessageInv
  <2>2. ASSUME NEW q \in Queues, NEW n \in MessagesOf(queue'[q]) PROVE Sound(n, q)
    <3>1. CASE n \in MessagesOf(queue[q])
        BY <3>1 DEF QueueInv, MessageInv
    <3>2. CASE n \notin MessagesOf(queue[q])
      <4>1. PICK c \in Gone : Subscribed[c] = q /\ n \in MessagesOf(inbox[c])
          BY <1>1, <3>2
      <4> QED
          BY <1>2, <2>1, <4>1
    <3> QED
        BY <3>1, <3>2
  <2>3. \A q, n : Sound(n, q) => Sound(n, q)'
      BY DEF Sound
  <2>4. \A q \in Queues : \A n \in MessagesOf(queue'[q]) : Sound(n, q)'
      BY <2>2, <2>3
  <2>5. \A c \in Consumers : \A n \in MessagesOf(inbox'[c]) : Sound(n, Subscribed[c])'
      BY <1>7, <2>1, <2>3
  <2>6. \A e \in Events \ published' : handled'[e] = 0 /\ failures'[e] = 0 /\ ~MQ!Buried(e)'
      BY DEF QueueInv, MessageInv, MQ!Buried
  <2> QED
      BY <2>4, <2>5, <2>6 DEF MessageInv
<1>9. GoroutineInv'
  <2> SUFFICES ASSUME NEW c \in Consumers PROVE InOrder(c)'
      BY DEF GoroutineInv
  <2>1. InOrder(c)
      BY DEF QueueInv, GoroutineInv
  <2>2. \A m \in MessagesOf(inbox[c]) : ~MQ!Connected(c)' => m.event \in doubled'
      BY <1>4, <1>5, <2>1 DEF InOrder
  <2>3. CASE inbox'[c] = inbox[c] /\ pc'[c] = pc[c]
      BY <2>1, <2>2, <2>3 DEF InOrder
  <2>4. CASE inbox'[c] = <<>> /\ pc'[c] = "down"
      BY <2>4, EmptyLine DEF InOrder
  <2> QED
      BY <2>3, <2>4
<1>10. KeptInv'
  <2> SUFFICES ASSUME NEW e \in published' \ lost' PROVE Kept(e)'
      BY DEF KeptInv
  <2>1. Kept(e)
      BY DEF QueueInv, KeptInv
  <2>2. \A q \in Queues : Has(queue[q], e) => Has(queue'[q], e)
      BY <1>1 DEF Has
  <2>3. \A c \in Gone : MQ!Connected(c) /\ Has(Open(c), e) => Has(queue'[Subscribed[c]], e)
      BY <1>1, <1>2, <1>5, LineTypes DEF Has
  <2>4. \A c \in Consumers \ Gone : Open(c)' = Open(c)
      BY DEF Open, Gone
  <2> QED
      BY <1>2, <1>5, <2>1, <2>2, <2>3, <2>4 DEF Kept, MQ!Buried
<1>11. OnceInv'
  <2> SUFFICES ASSUME NEW e \in Events, e \notin doubled' PROVE Placed(e)'
      BY DEF OnceInv
  <2>1. Placed(e) /\ Unique(Lines, e)
      BY <1>4 DEF QueueInv, OnceInv, Placed
  <2>2. \A c \in Gone : ~Has(inbox[c], e)
      BY <1>4 DEF Has
  <2>3. \A q \in Queues : \A m \in MessagesOf(queue'[q]) : m.event = e => m \in MessagesOf(queue[q])
      BY <1>1, <2>2 DEF Has
  <2>4. \A q \in Queues : /\ Has(queue'[q], e) => Has(queue[q], e)
                          /\ Once(queue[q], e) => Once(queue'[q], e)
      BY <1>1, <2>2, <2>3 DEF Has
  <2>5. \A c \in Consumers : \/ Open(c)' = Open(c) /\ inbox'[c] = inbox[c] /\ pc'[c] = pc[c]
                             \/ Open(c)' = <<>>
      BY DEF Open, Gone
  <2>6. \A c \in Consumers : /\ Has(Open(c)', e) => Has(Open(c), e)
                             /\ Once(Open(c), e) => Once(Open(c)', e)
      BY <2>5, EmptyLine
  <2>7. ASSUME NEW x \in Spots
        PROVE  /\ Has(Lines'[x], e) => Has(Lines[x], e)
               /\ Once(Lines[x], e) => Once(Lines'[x], e)
      BY <2>4, <2>6, SpotFacts
  <2>8. Unique(Lines', e)
      BY <2>1, <2>7, UniqueLess
  <2>9. (\E x \in Spots : Has(Lines'[x], e)) => handled'[e] = 0 /\ ~MQ!Buried(e)'
      BY <2>1, <2>7 DEF Placed, MQ!Buried
  <2>10. \A q \in Queues : \A m \in MessagesOf(queue'[q]) : m.event = e => failures'[e] = m.retries
      BY <2>1, <2>3 DEF Placed
  <2>11. \A c \in Consumers : \A m \in MessagesOf(Open(c)') : m.event = e => Counted(c, m)'
      BY <2>1, <2>5, EmptyLine DEF Placed, Counted
  <2> QED
      BY <2>8, <2>9, <2>10, <2>11 DEF Placed
<1>12. MQ!HandledOnce' /\ MQ!DeadLettersWereTried'
    BY <1>4 DEF QueueInv, MQ!HandledOnce, MQ!DeadLettersWereTried, MQ!Buried
<1> QED
    BY <1>6, <1>8, <1>9, <1>10, <1>11, <1>12 DEF QueueInv

LEMMA DisconnectKeeps == ASSUME QueueInv, NEW p \in Processes, MQ!Disconnect(p) PROVE QueueInv'
<1>1. /\ MQ!Requeue(p) /\ UNCHANGED <<dead, inbox, pc, published, handled, failures, lost>>
      /\ faults' \in 0 .. MaxFaults
    BY EventAssumption DEF MQ!Disconnect, MQ!Fault, MQ!client, QueueInv, MQ!QueueTypeOK
<1>2. inbox \in [Consumers -> Seq(MQ!Messages)] /\ pc \in [Consumers -> MQ!Labels]
    BY DEF QueueInv, MQ!QueueTypeOK
<1> QED
    BY <1>1, <1>2, RequeueKeeps

LEMMA CrashKeeps == ASSUME QueueInv, NEW p \in Processes, MQ!Crash(p) PROVE QueueInv'
<1>1. /\ MQ!Requeue(p) /\ UNCHANGED <<dead, published, handled, failures, lost>>
      /\ faults' \in 0 .. MaxFaults
      /\ inbox' = [c \in Consumers |-> IF ProcessOf[c] = p THEN <<>> ELSE inbox[c]]
      /\ pc' = [c \in Consumers |-> IF ProcessOf[c] = p THEN "down" ELSE pc[c]]
    BY EventAssumption DEF MQ!Crash, MQ!Fault, QueueInv, MQ!QueueTypeOK
<1>2. inbox \in [Consumers -> Seq(MQ!Messages)] /\ pc \in [Consumers -> MQ!Labels]
    BY DEF QueueInv, MQ!QueueTypeOK
<1>3. inbox' \in [Consumers -> Seq(MQ!Messages)] /\ pc' \in [Consumers -> MQ!Labels]
  <2>1. <<>> \in Seq(MQ!Messages) /\ "down" \in MQ!Labels
      BY DEF MQ!Labels
  <2> QED
      BY <1>1, <1>2, <2>1
<1>4. /\ \A c \in Consumers \ MQ!ConsumersOf(p) : inbox'[c] = inbox[c] /\ pc'[c] = pc[c]
      /\ \A c \in MQ!ConsumersOf(p) : inbox'[c] = <<>> /\ pc'[c] = "down"
    BY <1>1 DEF MQ!ConsumersOf
<1> QED
    BY <1>1, <1>3, <1>4, RequeueKeeps

(* Steps that only move goroutines, or empty what a lost connection left.  *)
LEMMA ClientKeeps ==
    ASSUME QueueInv,
           UNCHANGED <<queue, dead, published, handled, failures, lost, doubled, faults>>,
           up' \in [Processes -> BOOLEAN], pc' \in [Consumers -> MQ!Labels],
           inbox' \in [Consumers -> Seq(MQ!Messages)],
           \A c \in Consumers :
             /\ MessagesOf(inbox'[c]) \subseteq MessagesOf(inbox[c])
             /\ Open(c)' = Open(c) \/ (~MQ!Connected(c) /\ Open(c)' = <<>>)
             /\ MQ!Connected(c) => MQ!Connected(c)'
             /\ InOrder(c)'
             /\ \A n \in MessagesOf(Open(c)') : Counted(c, n) => Counted(c, n)'
    PROVE  QueueInv'
<1>1. MQ!QueueTypeOK'
    BY DEF QueueInv, MQ!QueueTypeOK
<1>2. MessageInv'
  <2>1. \A q \in Queues : \A n \in MessagesOf(queue'[q]) : Sound(n, q)'
      BY DEF QueueInv, MessageInv, Sound
  <2>2. \A c \in Consumers : \A n \in MessagesOf(inbox'[c]) : Sound(n, Subscribed[c])'
      BY DEF QueueInv, MessageInv, Sound
  <2> QED
      BY <2>1, <2>2 DEF QueueInv, MessageInv, MQ!Buried
<1>3. GoroutineInv'
    BY DEF GoroutineInv
<1>4. KeptInv'
  <2> SUFFICES ASSUME NEW e \in published' \ lost' PROVE Kept(e)'
      BY DEF KeptInv
  <2>1. Kept(e)
      BY DEF QueueInv, KeptInv
  <2>2. ASSUME NEW c \in Consumers, MQ!Connected(c), Has(Open(c), e)
        PROVE  MQ!Connected(c)' /\ Has(Open(c)', e)
      BY <2>2
  <2> QED
      BY <2>1, <2>2 DEF Kept, MQ!Buried
<1>5. OnceInv'
  <2> SUFFICES ASSUME NEW e \in Events \ doubled PROVE Placed(e)'
      BY DEF OnceInv
  <2>1. Placed(e) /\ Unique(Lines, e)
      BY DEF QueueInv, OnceInv, Placed
  <2>2. \A c \in Consumers : /\ Has(Open(c)', e) => Has(Open(c), e)
                             /\ Once(Open(c), e) => Once(Open(c)', e)
                             /\ MessagesOf(Open(c)') \subseteq MessagesOf(Open(c))
      BY EmptyLine
  <2>3. ASSUME NEW x \in Spots
        PROVE  /\ Has(Lines'[x], e) => Has(Lines[x], e)
               /\ Once(Lines[x], e) => Once(Lines'[x], e)
      BY <2>2, SpotFacts
  <2>4. Unique(Lines', e)
      BY <2>1, <2>3, UniqueLess
  <2>5. (\E x \in Spots : Has(Lines'[x], e)) => handled'[e] = 0 /\ ~MQ!Buried(e)'
      BY <2>1, <2>3 DEF Placed, MQ!Buried
  <2>6. \A q \in Queues : \A m \in MessagesOf(queue'[q]) : m.event = e => failures'[e] = m.retries
      BY <2>1 DEF Placed
  <2>7. \A c \in Consumers : \A m \in MessagesOf(Open(c)') : m.event = e => Counted(c, m)'
      BY <2>1, <2>2 DEF Placed
  <2> QED
      BY <2>4, <2>5, <2>6, <2>7 DEF Placed
<1>6. MQ!HandledOnce' /\ MQ!DeadLettersWereTried'
    BY DEF QueueInv, MQ!HandledOnce, MQ!DeadLettersWereTried, MQ!Buried
<1> QED
    BY <1>1, <1>2, <1>3, <1>4, <1>5, <1>6 DEF QueueInv

(* The same for one goroutine. *)
LEMMA MoveKeeps ==
    ASSUME QueueInv, NEW c0 \in Consumers, NEW label \in MQ!Labels, NEW rest \in Seq(MQ!Messages),
           UNCHANGED <<queue, dead, up, published, handled, failures, lost, doubled, faults>>,
           pc' = [pc EXCEPT ![c0] = label], inbox' = [inbox EXCEPT ![c0] = rest],
           MessagesOf(rest) \subseteq MessagesOf(inbox[c0]), label # "ack",
           rest = Open(c0) \/ (~MQ!Connected(c0) /\ rest = <<>>),
           pc[c0] \notin {"republish", "reject"}, label # "republish",
           label \in {"down", "starting"} => rest = <<>>,
           label \in {"handle", "reject"} => rest # <<>>,
           label = "reject" => rest[1].event \in Malformed
    PROVE  QueueInv'
<1>1. /\ pc \in [Consumers -> MQ!Labels] /\ inbox \in [Consumers -> Seq(MQ!Messages)]
      /\ up \in [Processes -> BOOLEAN]
    BY DEF QueueInv, MQ!QueueTypeOK
<1>2. /\ pc' \in [Consumers -> MQ!Labels] /\ inbox' \in [Consumers -> Seq(MQ!Messages)]
      /\ pc'[c0] = label /\ inbox'[c0] = rest /\ up' \in [Processes -> BOOLEAN]
      /\ \A c \in Consumers \ {c0} : pc'[c] = pc[c] /\ inbox'[c] = inbox[c]
    BY <1>1
<1>3. Open(c0)' = rest
    BY <1>2 DEF Open
<1>4. ASSUME NEW c \in Consumers
      PROVE  /\ MessagesOf(inbox'[c]) \subseteq MessagesOf(inbox[c])
             /\ Open(c)' = Open(c) \/ (~MQ!Connected(c) /\ Open(c)' = <<>>)
             /\ MQ!Connected(c) => MQ!Connected(c)'
             /\ InOrder(c)'
             /\ \A n \in MessagesOf(Open(c)') : Counted(c, n) => Counted(c, n)'
  <2>1. InOrder(c) /\ MQ!Connected(c)' = MQ!Connected(c)
      BY DEF QueueInv, GoroutineInv, MQ!Connected
  <2>2. CASE c = c0
    <3>1. \A m \in MessagesOf(inbox'[c]) : ~MQ!Connected(c)' => m.event \in doubled'
        BY <1>2, <2>1, <2>2 DEF InOrder
    <3>2. InOrder(c)'
        BY <1>2, <2>2, <3>1 DEF InOrder, MQ!Labels
    <3> QED
        BY <1>2, <1>3, <2>1, <2>2, <3>2 DEF Counted
  <2>3. CASE c # c0
      BY <1>2, <2>1, <2>3 DEF InOrder, Open, Counted
  <2> QED
      BY <2>2, <2>3
<1> QED
    BY <1>2, <1>4, ClientKeeps

(* ConsumeMessages, Receive, RangeEnds, Ack, and a worker that cannot      *)
(* register.                                                               *)
LEMMA GoroutineMoves ==
    ASSUME QueueInv, NEW c \in Consumers,
           \/ MQ!ConsumeMessages(c) \/ MQ!Receive(c) \/ MQ!RangeEnds(c) \/ MQ!Ack(c)
           \/ /\ pc[c] = "starting" /\ MQ!Goto(c, "down")
              /\ UNCHANGED <<queue, dead, up, inbox, published, handled, failures, lost, doubled,
                             faults>>
    PROVE  QueueInv'
<1> DEFINE same ==
             UNCHANGED <<queue, dead, up, published, handled, failures, lost, doubled, faults>>
<1>1. /\ inbox \in [Consumers -> Seq(MQ!Messages)] /\ inbox[c] \in Seq(MQ!Messages)
      /\ InOrder(c) /\ <<>> \in Seq(MQ!Messages) /\ MessagesOf(<<>>) = {}
    BY EmptyLine DEF QueueInv, MQ!QueueTypeOK, GoroutineInv
<1>2. UNCHANGED inbox => inbox' = [inbox EXCEPT ![c] = inbox[c]]
    BY <1>1
<1>3. CASE MQ!ConsumeMessages(c)
  <2>1. /\ same /\ pc[c] = "starting" /\ pc' = [pc EXCEPT ![c] = "receive"]
        /\ UNCHANGED inbox
      BY <1>3 DEF MQ!ConsumeMessages, MQ!broker, MQ!record, MQ!At, MQ!Goto
  <2>2. inbox[c] = Open(c) /\ "receive" \in MQ!Labels
      BY <2>1 DEF Open, MQ!Labels
  <2> QED
      BY <1>1, <1>2, <2>1, <2>2, MoveKeeps
<1>4. CASE MQ!Receive(c)
  <2> DEFINE label == IF inbox[c][1].event \in Malformed THEN "reject" ELSE "handle"
  <2>1. /\ same /\ pc[c] = "receive" /\ inbox[c] # <<>> /\ pc' = [pc EXCEPT ![c] = label]
        /\ UNCHANGED inbox
      BY <1>4 DEF MQ!Receive, MQ!broker, MQ!record, MQ!At, MQ!Goto, MQ!Current
  <2>2. /\ inbox[c] = Open(c) /\ label \in MQ!Labels /\ label \in {"handle", "reject"}
        /\ label = "reject" => inbox[c][1].event \in Malformed
      BY <2>1 DEF Open, MQ!Labels
  <2> HIDE DEF label
  <2> QED
      BY <1>1, <1>2, <2>1, <2>2, MoveKeeps
<1>5. CASE MQ!RangeEnds(c)
  <2>1. /\ same /\ pc[c] = "receive" /\ ~MQ!Connected(c) /\ pc' = [pc EXCEPT ![c] = "down"]
        /\ inbox' = [inbox EXCEPT ![c] = <<>>]
      BY <1>5 DEF MQ!RangeEnds, MQ!broker, MQ!record, MQ!At, MQ!Goto
  <2>2. "down" \in MQ!Labels
      BY DEF MQ!Labels
  <2> QED
      BY <1>1, <2>1, <2>2, MoveKeeps
<1>6. CASE MQ!Ack(c)
  <2>1. /\ same /\ pc[c] = "ack" /\ pc' = [pc EXCEPT ![c] = "receive"]
        /\ inbox' = [inbox EXCEPT ![c] = Tail(inbox[c])]
      BY <1>6 DEF MQ!Ack, MQ!Answer, MQ!broker, MQ!record, MQ!At, MQ!Goto
  <2>2. /\ Tail(inbox[c]) = Open(c) /\ Open(c) \in Seq(MQ!Messages) /\ "receive" \in MQ!Labels
        /\ MessagesOf(Open(c)) \subseteq MessagesOf(inbox[c])
      BY <2>1, LineTypes DEF Open, MQ!Labels
  <2> QED
      BY <1>1, <2>1, <2>2, MoveKeeps
<1>7. CASE /\ pc[c] = "starting" /\ MQ!Goto(c, "down")
           /\ UNCHANGED <<queue, dead, up, inbox, published, handled, failures, lost, doubled,
                          faults>>
  <2>1. same /\ pc[c] = "starting" /\ pc' = [pc EXCEPT ![c] = "down"] /\ UNCHANGED inbox
      BY <1>7 DEF MQ!Goto
  <2>2. inbox[c] = Open(c) /\ inbox[c] = <<>> /\ "down" \in MQ!Labels
      BY <1>1, <2>1 DEF Open, MQ!Labels, InOrder
  <2> QED
      BY <1>1, <1>2, <2>1, <2>2, MoveKeeps
<1> QED
    BY <1>3, <1>4, <1>5, <1>6, <1>7

LEMMA RestartKeeps == ASSUME QueueInv, NEW p \in Processes, MQ!Restart(p) PROVE QueueInv'
<1>1. /\ UNCHANGED <<queue, dead, inbox, published, handled, failures, lost, doubled, faults>>
      /\ \A c \in Consumers : ProcessOf[c] = p => pc[c] = "down"
      /\ up' = [up EXCEPT ![p] = TRUE]
      /\ pc' = [c \in Consumers |-> IF ProcessOf[c] = p THEN "starting" ELSE pc[c]]
    BY DEF MQ!Restart, MQ!record, MQ!ConsumersOf
<1>2. /\ up \in [Processes -> BOOLEAN] /\ pc \in [Consumers -> MQ!Labels]
      /\ inbox \in [Consumers -> Seq(MQ!Messages)]
    BY DEF QueueInv, MQ!QueueTypeOK
<1>3. up' \in [Processes -> BOOLEAN] /\ pc' \in [Consumers -> MQ!Labels]
  <2>1. "starting" \in MQ!Labels
      BY DEF MQ!Labels
  <2> QED
      BY <1>1, <1>2, <2>1
<1>4. ASSUME NEW c \in Consumers
      PROVE  /\ MessagesOf(inbox'[c]) \subseteq MessagesOf(inbox[c])
             /\ Open(c)' = Open(c) \/ (~MQ!Connected(c) /\ Open(c)' = <<>>)
             /\ MQ!Connected(c) => MQ!Connected(c)'
             /\ InOrder(c)'
             /\ \A n \in MessagesOf(Open(c)') : Counted(c, n) => Counted(c, n)'
  <2>1. InOrder(c) /\ ProcessOf[c] \in Processes
      BY DEF QueueInv, GoroutineInv, ProcessOf, Processes
  <2>2. MQ!Connected(c) => MQ!Connected(c)'
      BY <1>1, <1>2, <2>1 DEF MQ!Connected
  <2>3. CASE ProcessOf[c] = p
    <3>1. pc[c] = "down" /\ inbox[c] = <<>> /\ pc'[c] = "starting" /\ inbox'[c] = <<>>
        BY <1>1, <2>1, <2>3 DEF InOrder
    <3> QED
        BY <2>2, <3>1, EmptyLine DEF InOrder, Open, Counted
  <2>4. CASE ProcessOf[c] # p
    <3>1. pc'[c] = pc[c] /\ inbox'[c] = inbox[c] /\ MQ!Connected(c)' = MQ!Connected(c)
        BY <1>1, <1>2, <2>1, <2>4 DEF MQ!Connected
    <3> QED
        BY <1>1, <2>1, <2>2, <3>1 DEF InOrder, Open, Counted
  <2> QED
      BY <2>3, <2>4
<1> QED
    BY <1>1, <1>2, <1>3, <1>4, ClientKeeps

(* A goroutine is done with the message in its hands.                      *)
LEMMA HandDrops ==
    ASSUME QueueInv, NEW c0 \in Consumers, pc[c0] \in {"handle", "republish", "reject"},
           UNCHANGED <<up, failures, doubled>>, NEW label, pc' = [pc EXCEPT ![c0] = label],
           \/ label = "ack" /\ UNCHANGED inbox
           \/ label = "receive" /\ inbox' = [inbox EXCEPT ![c0] = Tail(inbox[c0])]
    PROVE  /\ pc' \in [Consumers -> MQ!Labels] /\ inbox' \in [Consumers -> Seq(MQ!Messages)]
           /\ Open(c0) = inbox[c0] /\ Open(c0)' = Tail(inbox[c0])
           /\ \A c \in Consumers \ {c0} : Open(c)' = Open(c)
           /\ \A c \in Consumers : MessagesOf(inbox'[c]) \subseteq MessagesOf(inbox[c])
           /\ \A c \in Consumers : \A e : Has(Open(c), e) =>
                Has(Open(c)', e) \/ (c = c0 /\ e = inbox[c0][1].event)
           /\ \A c \in Consumers : \A n :
                n.event # inbox[c0][1].event /\ Counted(c, n) => Counted(c, n)'
           /\ GoroutineInv'
<1>1. /\ pc \in [Consumers -> MQ!Labels] /\ inbox \in [Consumers -> Seq(MQ!Messages)]
    BY DEF QueueInv, MQ!QueueTypeOK
<1>2. /\ inbox[c0] # <<>> /\ Tail(inbox[c0]) \in Seq(MQ!Messages)
      /\ MessagesOf(inbox[c0]) = {inbox[c0][1]} \cup MessagesOf(Tail(inbox[c0]))
      /\ \A e : Has(inbox[c0], e) <=> inbox[c0][1].event = e \/ Has(Tail(inbox[c0]), e)
    BY InHand
<1>3. /\ pc' \in [Consumers -> MQ!Labels] /\ inbox' \in [Consumers -> Seq(MQ!Messages)]
      /\ pc'[c0] = label /\ \A c \in Consumers \ {c0} : pc'[c] = pc[c] /\ inbox'[c] = inbox[c]
      /\ \/ label = "ack" /\ inbox'[c0] = inbox[c0]
         \/ label = "receive" /\ inbox'[c0] = Tail(inbox[c0])
  <2>1. label \in MQ!Labels
      BY DEF MQ!Labels
  <2> QED
      BY <1>1, <1>2, <2>1
<1>4. Open(c0) = inbox[c0] /\ Open(c0)' = Tail(inbox[c0])
    BY <1>3 DEF Open
<1>5. \A c \in Consumers \ {c0} : Open(c)' = Open(c)
    BY <1>3 DEF Open
<1>6. \A c \in Consumers : MessagesOf(inbox'[c]) \subseteq MessagesOf(inbox[c])
    BY <1>2, <1>3
<1>7. \A c \in Consumers : \A e : Has(Open(c), e) =>
         Has(Open(c)', e) \/ (c = c0 /\ e = inbox[c0][1].event)
    BY <1>2, <1>4, <1>5
<1>8. ASSUME NEW c \in Consumers, NEW n, n.event # inbox[c0][1].event, Counted(c, n)
      PROVE  Counted(c, n)'
  <2>1. CASE c = c0
      BY <1>8, <2>1 DEF Counted
  <2>2. CASE c # c0
      BY <1>3, <1>8, <2>2 DEF Counted
  <2> QED
      BY <2>1, <2>2
<1>9. GoroutineInv'
  <2> SUFFICES ASSUME NEW c \in Consumers PROVE InOrder(c)'
      BY DEF GoroutineInv
  <2>1. InOrder(c) /\ MQ!Connected(c)' = MQ!Connected(c)
      BY DEF QueueInv, GoroutineInv, MQ!Connected
  <2>2. ~MQ!Connected(c)' => \A m \in MessagesOf(inbox'[c]) : m.event \in doubled'
      BY <1>6, <2>1 DEF InOrder
  <2>3. CASE c = c0
      BY <1>2, <1>3, <2>2, <2>3 DEF InOrder
  <2>4. CASE c # c0
      BY <1>3, <2>1, <2>2, <2>4 DEF InOrder
  <2> QED
      BY <2>3, <2>4
<1> QED
    BY <1>3, <1>4, <1>5, <1>6, <1>7, <1>8, <1>9

(* ... and what it did with it has taken the event out of the lines.       *)
LEMMA HandPlaces ==
    ASSUME QueueInv, NEW c0 \in Consumers, pc[c0] \in {"handle", "republish", "reject"},
           UNCHANGED <<queue, up, failures, doubled>>, NEW label, pc' = [pc EXCEPT ![c0] = label],
           \/ label = "ack" /\ UNCHANGED inbox
           \/ label = "receive" /\ inbox' = [inbox EXCEPT ![c0] = Tail(inbox[c0])],
           NEW e \in Events \ doubled,
           e # inbox[c0][1].event => handled'[e] = handled[e] /\ (MQ!Buried(e)' => MQ!Buried(e))
    PROVE  /\ Placed(e)'
           /\ e = inbox[c0][1].event => handled[e] = 0 /\ ~MQ!Buried(e)
<1> DEFINE x0 == <<"hand", c0>>
           m == inbox[c0][1]
<1>1. /\ Open(c0) = inbox[c0] /\ Open(c0)' = Tail(inbox[c0])
      /\ \A c \in Consumers \ {c0} : Open(c)' = Open(c)
      /\ \A c \in Consumers : \A n : n.event # m.event /\ Counted(c, n) => Counted(c, n)'
    BY HandDrops
<1>2. inbox[c0] # <<>>
    BY InHand
<1>3. /\ x0 \in Spots /\ Lines[x0] # <<>> /\ Lines[x0][1] = m /\ Lines'[x0] = Tail(Lines[x0])
    BY <1>1, <1>2, SpotFacts
<1>4. ASSUME NEW x \in Spots \ {x0} PROVE Lines'[x] = Lines[x]
  <2>1. CASE \E q \in Queues : x = <<"queue", q>>
      BY <2>1, SpotFacts
  <2>2. CASE \E c \in Consumers : x = <<"hand", c>>
      BY <1>1, <1>4, <2>2, SpotFacts
  <2> QED
      BY <2>1, <2>2, SpotFacts
<1>5. e # m.event => /\ handled'[e] = handled[e] /\ (MQ!Buried(e)' => MQ!Buried(e))
                     /\ \A c \in Consumers : \A n \in MessagesOf(Open(c)) :
                          n.event = e /\ Counted(c, n) => Counted(c, n)'
    BY <1>1
<1> HIDE DEF x0, m
<1>6. Placed(e)' /\ (m.event = e => handled[e] = 0 /\ ~MQ!Buried(e))
    BY <1>3, <1>4, <1>5, DropPlaces
<1> QED
    BY <1>6 DEF m

LEMMA HandlerSucceedsKeeps ==
    ASSUME QueueInv, NEW c0 \in Consumers, MQ!HandlerSucceeds(c0)
    PROVE  QueueInv'
<1> DEFINE m == inbox[c0][1]
<1>1. /\ pc[c0] = "handle" /\ pc' = [pc EXCEPT ![c0] = "ack"]
      /\ handled' = [handled EXCEPT ![m.event] = handled[m.event] + 1]
      /\ UNCHANGED <<queue, dead, up, inbox, published, failures, lost, doubled, faults>>
    BY DEF MQ!HandlerSucceeds, MQ!broker, MQ!At, MQ!Goto, MQ!Current
<1>2. /\ m \in MQ!Messages /\ m.event \in Events /\ Sound(m, Subscribed[c0])
      /\ m \in MessagesOf(inbox[c0])
    BY <1>1, InHand DEF MQ!Messages
<1>3. /\ pc' \in [Consumers -> MQ!Labels] /\ inbox' \in [Consumers -> Seq(MQ!Messages)]
      /\ Open(c0) = inbox[c0]
      /\ \A c \in Consumers : \A e : Has(Open(c), e) => Has(Open(c)', e) \/ (c = c0 /\ e = m.event)
      /\ GoroutineInv'
    BY <1>1, HandDrops
<1>4. ASSUME NEW e \in Events \ doubled,
             e # m.event => handled'[e] = handled[e] /\ (MQ!Buried(e)' => MQ!Buried(e))
      PROVE  Placed(e)' /\ (e = m.event => handled[e] = 0 /\ ~MQ!Buried(e))
    BY <1>1, <1>4, HandPlaces
<1> HIDE DEF m
<1>5. /\ handled \in [Events -> Nat] /\ handled' \in [Events -> Nat]
      /\ handled'[m.event] = handled[m.event] + 1
      /\ \A e \in Events : e # m.event => handled'[e] = handled[e]
    BY <1>1, <1>2 DEF QueueInv, MQ!QueueTypeOK
<1>6. MQ!QueueTypeOK'
    BY <1>1, <1>3, <1>5 DEF QueueInv, MQ!QueueTypeOK
<1>7. MessageInv'
  <2>1. \A q \in Queues : \A n \in MessagesOf(queue'[q]) : Sound(n, q)'
      BY <1>1 DEF QueueInv, MessageInv, Sound
  <2>2. \A c \in Consumers : \A n \in MessagesOf(inbox'[c]) : Sound(n, Subscribed[c])'
      BY <1>1 DEF QueueInv, MessageInv, Sound
  <2> QED
      BY <1>1, <1>2, <1>5, <2>1, <2>2 DEF QueueInv, MessageInv, MQ!Buried, Sound
<1>8. KeptInv'
  <2> SUFFICES ASSUME NEW e \in published' \ lost' PROVE Kept(e)'
      BY DEF KeptInv
  <2>1. Kept(e) /\ e \in Events
      BY <1>1 DEF QueueInv, KeptInv, MQ!QueueTypeOK
  <2>2. CASE e = m.event
      BY <1>5, <2>1, <2>2 DEF Kept
  <2>3. CASE e # m.event
      BY <1>1, <1>3, <1>5, <2>1, <2>3 DEF Kept, MQ!Connected, MQ!Buried
  <2> QED
      BY <2>2, <2>3
<1>9. \A e \in Events \ doubled : Placed(e)' /\ (e = m.event => handled[e] = 0 /\ ~MQ!Buried(e))
    BY <1>1, <1>4, <1>5 DEF MQ!Buried
<1>10. MQ!HandledOnce'
  <2> SUFFICES ASSUME NEW e \in Events \ doubled
               PROVE  /\ handled'[e] <= 1
                      /\ handled'[e] = 1 => ~MQ!Buried(e)' /\ failures'[e] <= MaxRetries
      BY <1>1 DEF MQ!HandledOnce
  <2>1. CASE e = m.event
    <3>1. Placed(e)
        BY DEF QueueInv, OnceInv
    <3>2. Counted(c0, m)
        BY <1>2, <1>3, <2>1, <3>1 DEF Placed
    <3>3. failures[e] = m.retries /\ m.retries \in 0 .. MaxRetries
        BY <1>1, <1>2, <2>1, <3>2 DEF Counted, MQ!Messages
    <3>4. failures[e] <= MaxRetries
        BY <3>3, EventAssumption
    <3> QED
        BY <1>1, <1>5, <1>9, <2>1, <3>4 DEF MQ!Buried
  <2>2. CASE e # m.event
      BY <1>1, <1>5, <2>2 DEF QueueInv, MQ!HandledOnce, MQ!Buried
  <2> QED
      BY <2>1, <2>2
<1>11. OnceInv' /\ MQ!DeadLettersWereTried'
    BY <1>1, <1>9 DEF QueueInv, OnceInv, MQ!DeadLettersWereTried
<1> QED
    BY <1>3, <1>6, <1>7, <1>8, <1>10, <1>11 DEF QueueInv

(* A failure is counted, and the message is still in the goroutine's hands.*)
LEMMA HandlerFailsKeeps ==
    ASSUME QueueInv, NEW c0 \in Consumers, MQ!HandlerFails(c0)
    PROVE  QueueInv'
<1> DEFINE m == inbox[c0][1]
           label == IF m.retries < MaxRetries THEN "republish" ELSE "reject"
<1>1. /\ pc[c0] = "handle" /\ pc' = [pc EXCEPT ![c0] = label]
      /\ failures' = [failures EXCEPT ![m.event] = failures[m.event] + 1]
      /\ UNCHANGED <<queue, dead, up, inbox, published, handled, lost, doubled, faults>>
    BY DEF MQ!HandlerFails, MQ!broker, MQ!At, MQ!Goto, MQ!Current
<1>2. /\ m \in MQ!Messages /\ m.event \in Events /\ Sound(m, Subscribed[c0])
      /\ m \in MessagesOf(inbox[c0]) /\ inbox[c0] # <<>>
      /\ inbox[c0] \in Seq(MQ!Messages)
    BY <1>1, InHand, LineTypes DEF MQ!Messages
<1>3. /\ m.retries \in Nat /\ m.retries <= MaxRetries /\ MaxRetries \in Nat
    BY <1>2, EventAssumption DEF MQ!Messages
<1>4. /\ label \in MQ!Labels /\ label \in {"republish", "reject"}
      /\ label = "republish" => m.retries < MaxRetries
      /\ label = "reject" => m.retries >= MaxRetries
    BY <1>3 DEF MQ!Labels
<1> HIDE DEF label
<1>5. /\ pc' \in [Consumers -> MQ!Labels] /\ pc'[c0] = label
      /\ \A c \in Consumers \ {c0} : pc'[c] = pc[c]
    BY <1>1, <1>4 DEF QueueInv, MQ!QueueTypeOK
<1>6. /\ failures \in [Events -> Nat] /\ failures' \in [Events -> Nat]
      /\ failures'[m.event] = failures[m.event] + 1
      /\ \A e \in Events : e # m.event => failures'[e] = failures[e]
      /\ \A e \in Events : failures'[e] >= failures[e]
    BY <1>1, <1>2 DEF QueueInv, MQ!QueueTypeOK
<1>7. \A c \in Consumers : Open(c)' = Open(c)
    BY <1>1, <1>4, <1>5 DEF Open
<1>8. MQ!QueueTypeOK'
    BY <1>1, <1>5, <1>6 DEF QueueInv, MQ!QueueTypeOK
<1>9. published \subseteq Events /\ m.event \in published
    BY <1>2 DEF QueueInv, MQ!QueueTypeOK, Sound
<1>10. \A n, q : n \in MQ!Messages /\ Sound(n, q) => Sound(n, q)'
  <2> TAKE n, q
  <2>1. n \in MQ!Messages => n.event \in Events /\ n.retries \in Int
      BY EventAssumption DEF MQ!Messages
  <2> QED
      BY <1>1, <1>6, <2>1 DEF Sound
<1>11. MessageInv'
  <2>1. \A q \in Queues : \A n \in MessagesOf(queue'[q]) : n \in MQ!Messages
      BY <1>1, LineTypes, ElementOfSeq DEF MessagesOf
  <2>2. \A c \in Consumers : \A n \in MessagesOf(inbox'[c]) : n \in MQ!Messages
      BY <1>1, LineTypes, ElementOfSeq DEF MessagesOf
  <2>3. \A q \in Queues : \A n \in MessagesOf(queue'[q]) : Sound(n, q)'
      BY <1>1, <1>10, <2>1 DEF QueueInv, MessageInv
  <2>4. \A c \in Consumers : \A n \in MessagesOf(inbox'[c]) : Sound(n, Subscribed[c])'
      BY <1>1, <1>10, <2>2 DEF QueueInv, MessageInv
  <2> QED
      BY <1>1, <1>6, <1>9, <2>3, <2>4 DEF QueueInv, MessageInv, MQ!Buried
<1>12. failures'[m.event] \in Nat /\ failures'[m.event] >= m.retries + 1
    BY <1>2, <1>3, <1>6 DEF Sound
<1>13. GoroutineInv'
  <2> SUFFICES ASSUME NEW c \in Consumers PROVE InOrder(c)'
      BY DEF GoroutineInv
  <2>1. InOrder(c) /\ MQ!Connected(c)' = MQ!Connected(c)
      BY <1>1 DEF QueueInv, GoroutineInv, MQ!Connected
  <2>2. ~MQ!Connected(c)' => \A n \in MessagesOf(inbox'[c]) : n.event \in doubled'
      BY <1>1, <2>1 DEF InOrder
  <2>3. CASE c = c0
    <3>1. label = "reject" => failures'[m.event] >= MaxRetries + 1
        BY <1>3, <1>4, <1>12
    <3> QED
        BY <1>1, <1>2, <1>4, <1>5, <1>12, <2>2, <2>3, <3>1 DEF InOrder
  <2>4. CASE c # c0
    <3> DEFINE n == inbox[c][1]
    <3>1. pc'[c] = pc[c] /\ inbox'[c] = inbox[c]
        BY <1>1, <1>5, <2>4
    <3>2. pc[c] \in {"republish", "reject"} =>
             failures'[n.event] >= failures[n.event] /\ failures'[n.event] \in Nat
             /\ failures[n.event] \in Nat /\ n.retries \in Nat
      <4>1. pc[c] \in {"republish", "reject"} => n \in MQ!Messages
          BY InHand
      <4>2. n \in MQ!Messages => n.event \in Events /\ n.retries \in Nat
          BY EventAssumption DEF MQ!Messages
      <4> HIDE DEF n
      <4> QED
          BY <1>6, <4>1, <4>2
    <3>3. pc[c] = "republish" => n.retries < MaxRetries /\ failures'[n.event] >= n.retries + 1
        BY <2>1, <3>2 DEF InOrder
    <3>4. pc[c] = "reject" => n.event \in Malformed \/ failures'[n.event] >= MaxRetries + 1
        BY <1>3, <2>1, <3>2 DEF InOrder
    <3> QED
        BY <2>1, <2>2, <3>1, <3>3, <3>4 DEF InOrder
  <2> QED
      BY <2>3, <2>4
<1>14. KeptInv'
    BY <1>1, <1>7 DEF QueueInv, KeptInv, Kept, MQ!Connected, MQ!Buried
<1>15. ASSUME NEW e \in Events \ doubled PROVE Placed(e)' /\ (e = m.event => handled[e] = 0)
  <2>1. Placed(e) /\ Unique(Lines, e)
      BY DEF QueueInv, OnceInv, Placed
  <2>2. \A x \in Spots : Lines'[x] = Lines[x]
      BY <1>1, <1>7, SpotFacts
  <2>3. Unique(Lines', e)
      BY <2>1, <2>2 DEF Unique
  <2>4. (\E x \in Spots : Has(Lines'[x], e)) => handled'[e] = 0 /\ ~MQ!Buried(e)'
      BY <1>1, <2>1, <2>2 DEF Placed, MQ!Buried
  <2>5. CASE e # m.event
    <3>1. \A q \in Queues : \A n \in MessagesOf(queue'[q]) : n.event = e => failures'[e] = n.retries
        BY <1>1, <1>6, <2>1, <2>5 DEF Placed
    <3>2. ASSUME NEW c \in Consumers, NEW n \in MessagesOf(Open(c)'), n.event = e
          PROVE  Counted(c, n)'
      <4>1. Counted(c, n) /\ failures'[n.event] = failures[n.event]
          BY <1>6, <1>7, <2>1, <2>5, <3>2 DEF Placed
      <4>2. c = c0 => failures[n.event] = n.retries
          BY <1>1, <4>1 DEF Counted
      <4>3. CASE c = c0
          BY <4>1, <4>2, <4>3 DEF Counted
      <4>4. CASE c # c0
          BY <1>1, <1>5, <4>1, <4>4 DEF Counted
      <4> QED
          BY <4>3, <4>4
    <3> QED
        BY <2>3, <2>4, <2>5, <3>1, <3>2 DEF Placed
  <2>6. CASE e = m.event
    <3>1. Open(c0) = inbox[c0] /\ Has(Open(c0), e) /\ Has(Lines[<<"hand", c0>>], e)
        BY <1>1, <1>2, <2>6, SpotFacts DEF Open, Has
    <3>2. handled[e] = 0 /\ \A x \in Spots : Has(Lines[x], e) => x = <<"hand", c0>>
        BY <2>1, <3>1, SpotFacts DEF Placed, Unique
    <3>3. \A q \in Queues : \A n \in MessagesOf(queue'[q]) : n.event # e
        BY <1>1, <3>2, SpotFacts DEF Has
    <3>4. \A c \in Consumers : \A n \in MessagesOf(Open(c)) : n.event = e => c = c0
        BY <3>2, SpotFacts DEF Has
    <3>5. ASSUME NEW n \in MessagesOf(inbox[c0]), n.event = e PROVE n = m
      <4>1. Once(inbox[c0], e)
          BY <2>1, <3>1, SpotFacts DEF Unique
      <4>2. 1 \in 1 .. Len(inbox[c0])
          BY <1>2, EmptySeq
      <4>3. PICK i \in 1 .. Len(inbox[c0]) : n = inbox[c0][i]
          BY DEF MessagesOf
      <4> QED
          BY <2>6, <3>5, <4>1, <4>2, <4>3 DEF Once
    <3>6. failures[e] = m.retries
        BY <1>1, <1>2, <2>1, <2>6, <3>1 DEF Placed, Counted
    <3>7. failures'[m.event] = m.retries + 1
        BY <1>6, <2>6, <3>6
    <3>8. \A c \in Consumers : \A n \in MessagesOf(Open(c)') : n.event = e => Counted(c, n)'
      <4> SUFFICES ASSUME NEW c \in Consumers, NEW n \in MessagesOf(Open(c)), n.event = e
                   PROVE  Counted(c, n)'
          BY <1>7
      <4>1. c = c0 /\ n = m
          BY <3>1, <3>4, <3>5
      <4> QED
          BY <1>1, <1>4, <1>5, <3>7, <4>1 DEF Counted
    <3> QED
        BY <2>3, <2>4, <3>2, <3>3, <3>8 DEF Placed
  <2> QED
      BY <2>5, <2>6
<1>16. OnceInv'
    BY <1>1, <1>15 DEF OnceInv
<1>17. MQ!HandledOnce'
    BY <1>1, <1>6, <1>15 DEF QueueInv, MQ!HandledOnce, MQ!Buried
<1>18. MQ!DeadLettersWereTried'
  <2>1. \A d \in dead : d.event \in Events
      BY DEF QueueInv, MQ!QueueTypeOK, MQ!DeadLetters
  <2> QED
      BY <1>1, <1>3, <1>6, <2>1 DEF QueueInv, MQ!DeadLettersWereTried
<1> QED
    BY <1>8, <1>11, <1>13, <1>14, <1>16, <1>17, <1>18 DEF QueueInv

(* A message the goroutine no longer has to deal with, the queues as they  *)
(* were: its publishing failed, or it is rejected.                         *)
LEMMA GivenUpKeeps ==
    ASSUME QueueInv, NEW c0 \in Consumers, pc[c0] \in {"republish", "reject"}, MQ!QueueTypeOK',
           UNCHANGED <<queue, up, published, handled, failures, doubled>>,
           NEW label, pc' = [pc EXCEPT ![c0] = label],
           \/ label = "ack" /\ UNCHANGED inbox
           \/ label = "receive" /\ inbox' = [inbox EXCEPT ![c0] = Tail(inbox[c0])],
           lost \subseteq lost', MQ!DeadLettersWereTried',
           \A e : MQ!Buried(e) => MQ!Buried(e)',
           \A e : MQ!Buried(e)' => MQ!Buried(e) \/ e = inbox[c0][1].event,
           MQ!Connected(c0) => \/ inbox[c0][1].event \in lost'
                               \/ \E d \in dead' : d.event = inbox[c0][1].event
    PROVE  QueueInv'
<1> DEFINE m == inbox[c0][1]
<1>1. m.event \in published
    BY InHand DEF Sound
<1>2. /\ \A c \in Consumers : MessagesOf(inbox'[c]) \subseteq MessagesOf(inbox[c])
      /\ \A c \in Consumers : \A e : Has(Open(c), e) => Has(Open(c)', e) \/ (c = c0 /\ e = m.event)
      /\ GoroutineInv'
    BY HandDrops
<1>3. ASSUME NEW e \in Events \ doubled
      PROVE  Placed(e)' /\ (e = m.event => handled[e] = 0 /\ ~MQ!Buried(e))
    BY <1>3, HandPlaces
<1>4. MessageInv'
  <2>1. \A q \in Queues : \A n \in MessagesOf(queue'[q]) : Sound(n, q)'
      BY DEF QueueInv, MessageInv, Sound
  <2>2. \A c \in Consumers : \A n \in MessagesOf(inbox'[c]) : Sound(n, Subscribed[c])'
      BY <1>2 DEF QueueInv, MessageInv, Sound
  <2>3. \A e \in Events \ published' : handled'[e] = 0 /\ failures'[e] = 0 /\ ~MQ!Buried(e)'
      BY <1>1 DEF QueueInv, MessageInv
  <2> QED
      BY <2>1, <2>2, <2>3 DEF MessageInv
<1>5. KeptInv'
  <2> SUFFICES ASSUME NEW e \in published' \ lost' PROVE Kept(e)'
      BY DEF KeptInv
  <2>1. Kept(e)
      BY DEF QueueInv, KeptInv
  <2>2. CASE \E c \in Consumers : MQ!Connected(c) /\ Has(Open(c), e)
    <3>1. PICK c \in Consumers : MQ!Connected(c) /\ Has(Open(c), e)
        BY <2>2
    <3>2. CASE Has(Open(c)', e)
        BY <3>1, <3>2 DEF Kept, MQ!Connected
    <3>3. CASE c = c0 /\ e = m.event
        BY <3>1, <3>3 DEF Kept, MQ!Buried
    <3> QED
        BY <1>2, <3>1, <3>2, <3>3
  <2>3. CASE ~\E c \in Consumers : MQ!Connected(c) /\ Has(Open(c), e)
      BY <2>1, <2>3 DEF Kept
  <2> QED
      BY <2>2, <2>3
<1>6. OnceInv'
    BY <1>3 DEF OnceInv
<1>7. MQ!HandledOnce'
  <2> SUFFICES ASSUME NEW e \in Events \ doubled
               PROVE  /\ handled'[e] <= 1
                      /\ handled'[e] = 1 => ~MQ!Buried(e)' /\ failures'[e] <= MaxRetries
      BY DEF MQ!HandledOnce
  <2>1. handled[e] <= 1 /\ (handled[e] = 1 => ~MQ!Buried(e) /\ failures[e] <= MaxRetries)
      BY DEF QueueInv, MQ!HandledOnce
  <2>2. e = m.event => handled[e] = 0
      BY <1>3
  <2> QED
      BY <2>1, <2>2
<1> QED
    BY <1>2, <1>4, <1>5, <1>6, <1>7 DEF QueueInv

LEMMA RepublishFailsKeeps ==
    ASSUME QueueInv, NEW c0 \in Consumers, MQ!RepublishFails(c0)
    PROVE  QueueInv'
<1> DEFINE m == inbox[c0][1]
<1>1. /\ pc[c0] = "republish" /\ pc' = [pc EXCEPT ![c0] = "ack"]
      /\ UNCHANGED <<queue, dead, up, inbox, published, handled, failures, doubled>>
      /\ IF MQ!Connected(c0)
         THEN faults < MaxFaults /\ faults' = faults + 1 /\ lost' = lost \cup {m.event}
         ELSE UNCHANGED <<faults, lost>>
    BY DEF MQ!RepublishFails, MQ!broker, MQ!At, MQ!Goto, MQ!Current, MQ!Fault
<1>2. m.event \in Events
    BY <1>1, InHand DEF MQ!Messages
<1>3. /\ lost \subseteq lost' /\ lost' \subseteq Events /\ faults' \in 0 .. MaxFaults
      /\ MQ!Connected(c0) => m.event \in lost'
  <2>1. lost \subseteq Events /\ faults \in 0 .. MaxFaults /\ MaxFaults \in Nat
      BY EventAssumption DEF QueueInv, MQ!QueueTypeOK
  <2> HIDE DEF m
  <2>2. CASE MQ!Connected(c0)
      BY <1>1, <1>2, <2>1, <2>2
  <2>3. CASE ~MQ!Connected(c0)
      BY <1>1, <2>1, <2>3
  <2> QED
      BY <2>2, <2>3
<1>4. pc' \in [Consumers -> MQ!Labels]
    BY <1>1, HandDrops
<1>5. MQ!QueueTypeOK' /\ MQ!DeadLettersWereTried' /\ \A e : MQ!Buried(e)' <=> MQ!Buried(e)
    BY <1>1, <1>3, <1>4 DEF QueueInv, MQ!QueueTypeOK, MQ!DeadLettersWereTried, MQ!Buried
<1> QED
    BY <1>1, <1>3, <1>5, GivenUpKeeps

LEMMA NackKeeps == ASSUME QueueInv, NEW c0 \in Consumers, MQ!Nack(c0) PROVE QueueInv'
<1> DEFINE m == inbox[c0][1]
           cause == IF m.event \in Malformed THEN "malformed" ELSE "failed"
           d == [event |-> m.event, retries |-> m.retries, cause |-> cause]
<1>1. /\ pc[c0] = "reject" /\ pc' = [pc EXCEPT ![c0] = "receive"]
      /\ inbox' = [inbox EXCEPT ![c0] = Tail(inbox[c0])]
      /\ UNCHANGED <<queue, up, published, handled, failures, lost, doubled, faults>>
      /\ dead' = IF MQ!Connected(c0) THEN dead \cup {d} ELSE dead
    BY DEF MQ!Nack, MQ!Answer, MQ!Bury, MQ!record, MQ!At, MQ!Goto, MQ!Current
<1>2. d \in MQ!DeadLetters /\ d.event = m.event /\ d.cause = cause
    BY <1>1, InHand DEF MQ!Messages, MQ!DeadLetters
<1>3. m.event \in Malformed \/ failures[m.event] >= MaxRetries + 1
    BY <1>1 DEF QueueInv, GoroutineInv, InOrder
<1>4. cause = "failed" => m.event \notin Malformed
    OBVIOUS
<1> HIDE DEF d, cause
<1>5. /\ \A e : MQ!Buried(e) => MQ!Buried(e)'
      /\ \A e : MQ!Buried(e)' => MQ!Buried(e) \/ e = m.event
      /\ MQ!Connected(c0) => \E b \in dead' : b.event = m.event
    BY <1>1, <1>2 DEF MQ!Buried
<1>6. MQ!DeadLettersWereTried'
    BY <1>1, <1>2, <1>3, <1>4 DEF QueueInv, MQ!DeadLettersWereTried
<1>7. pc' \in [Consumers -> MQ!Labels] /\ inbox' \in [Consumers -> Seq(MQ!Messages)]
    BY <1>1, HandDrops
<1>8. MQ!QueueTypeOK'
    BY <1>1, <1>2, <1>7 DEF QueueInv, MQ!QueueTypeOK
<1> QED
    BY <1>1, <1>5, <1>6, <1>8, GivenUpKeeps

(* Republish: the message goes to the end of its queue with a higher count.*)
LEMMA RepublishKeeps ==
    ASSUME QueueInv, NEW c0 \in Consumers, MQ!Republish(c0)
    PROVE  QueueInv'
<1> DEFINE m == inbox[c0][1]
           again == MQ!Message(m.event, m.retries + 1)
           q0 == Subscribed[c0]
           x0 == <<"hand", c0>>
           y0 == <<"queue", q0>>
           mid == [x \in Spots |-> IF x = x0 THEN Tail(Lines[x0]) ELSE Lines[x]]
<1>1. /\ pc[c0] = "republish" /\ pc' = [pc EXCEPT ![c0] = "ack"] /\ MQ!Connected(c0)
      /\ queue' = [queue EXCEPT ![q0] = Append(queue[q0], again)]
      /\ UNCHANGED <<dead, up, inbox, published, handled, failures, lost, doubled, faults>>
    BY DEF MQ!Republish, MQ!record, MQ!At, MQ!Goto, MQ!Current, MQ!Again
<1>2. /\ q0 \in Queues /\ inbox[c0] # <<>> /\ m \in MQ!Messages /\ m.event \in Events
      /\ Sound(m, q0) /\ m \in MessagesOf(inbox[c0])
    BY <1>1, InHand, EventAssumption DEF MQ!Messages, Consumers
<1>3. m.retries < MaxRetries /\ failures[m.event] >= m.retries + 1
    BY <1>1 DEF QueueInv, GoroutineInv, InOrder
<1>4. again \in MQ!Messages /\ again.event = m.event /\ again.retries = m.retries + 1
  <2>1. m.retries + 1 \in 0 .. MaxRetries
      BY <1>2, <1>3, EventAssumption DEF MQ!Messages
  <2> QED
      BY <1>2, <2>1 DEF MQ!Message, MQ!Messages
<1>5. Sound(again, q0)
    BY <1>2, <1>3, <1>4 DEF Sound
<1>6. /\ pc' \in [Consumers -> MQ!Labels]
      /\ Open(c0) = inbox[c0] /\ Open(c0)' = Tail(inbox[c0])
      /\ \A c \in Consumers \ {c0} : Open(c)' = Open(c)
      /\ \A c \in Consumers : \A e : Has(Open(c), e) => Has(Open(c)', e) \/ (c = c0 /\ e = m.event)
      /\ \A c \in Consumers : \A n : n.event # m.event /\ Counted(c, n) => Counted(c, n)'
      /\ GoroutineInv'
    BY <1>1, HandDrops
<1> HIDE DEF again, q0, m
<1>7. /\ queue \in [Queues -> Seq(MQ!Messages)] /\ queue'[q0] = Append(queue[q0], again)
      /\ \A q \in Queues : q # q0 => queue'[q] = queue[q]
    BY <1>1, <1>2 DEF QueueInv, MQ!QueueTypeOK
<1>8. /\ queue'[q0] \in Seq(MQ!Messages)
      /\ MessagesOf(queue'[q0]) = MessagesOf(queue[q0]) \cup {again}
      /\ \A e : Has(queue'[q0], e) <=> Has(queue[q0], e) \/ m.event = e
    BY <1>2, <1>4, <1>7, AppendLine
<1>9. MQ!QueueTypeOK'
  <2>1. queue' \in [Queues -> Seq(MQ!Messages)]
      BY <1>1, <1>2, <1>7, <1>8
  <2> QED
      BY <1>1, <1>6, <2>1 DEF QueueInv, MQ!QueueTypeOK
<1>10. MessageInv'
  <2>1. \A q \in Queues : \A n \in MessagesOf(queue'[q]) : Sound(n, q)
      BY <1>5, <1>7, <1>8 DEF QueueInv, MessageInv
  <2>2. \A q \in Queues : \A n \in MessagesOf(queue'[q]) : Sound(n, q)'
      BY <1>1, <2>1 DEF Sound
  <2>3. \A c \in Consumers : \A n \in MessagesOf(inbox'[c]) : Sound(n, Subscribed[c])'
      BY <1>1 DEF QueueInv, MessageInv, Sound
  <2> QED
      BY <1>1, <2>2, <2>3 DEF QueueInv, MessageInv, MQ!Buried
<1>11. KeptInv'
  <2> SUFFICES ASSUME NEW e \in published' \ lost' PROVE Kept(e)'
      BY DEF KeptInv
  <2>1. Kept(e)
      BY <1>1 DEF QueueInv, KeptInv
  <2>2. /\ \A q \in Queues : Has(queue[q], e) => Has(queue'[q], e)
        /\ e = m.event => Has(queue'[q0], e)
      BY <1>7, <1>8
  <2> QED
      BY <1>1, <1>2, <1>6, <2>1, <2>2 DEF Kept, MQ!Connected, MQ!Buried
<1>12. OnceInv'
  <2> SUFFICES ASSUME NEW e \in Events, e \notin doubled PROVE Placed(e)'
      BY <1>1 DEF OnceInv
  <2>1. Placed(e) /\ Unique(Lines, e)
      BY DEF QueueInv, OnceInv, Placed
  <2>2. /\ x0 \in Spots /\ y0 \in Spots /\ x0 # y0
        /\ Lines[x0] = inbox[c0] /\ Lines[y0] = queue[q0]
        /\ \A x \in Spots : Lines[x] \in Seq(MQ!Messages)
        /\ Lines'[x0] = Tail(inbox[c0]) /\ Lines'[y0] = queue'[q0]
      BY <1>2, <1>6, SpotFacts, LineTypes
  <2>3. ASSUME NEW x \in Spots \ {x0, y0} PROVE Lines'[x] = Lines[x]
    <3>1. CASE \E q \in Queues : x = <<"queue", q>>
        BY <1>7, <2>3, <3>1, SpotFacts
    <3>2. CASE \E c \in Consumers : x = <<"hand", c>>
        BY <1>6, <2>3, <3>2, SpotFacts
    <3> QED
        BY <3>1, <3>2, SpotFacts
  <2> HIDE DEF x0, y0
  <2>4. /\ mid[x0] = Tail(Lines[x0]) /\ mid[y0] = Lines[y0]
        /\ \A x \in Spots \ {x0} : mid[x] = Lines[x]
      BY <2>2
  <2>5. /\ Lines'[x0] = mid[x0] /\ Lines'[y0] = Append(mid[y0], again)
        /\ mid[y0] \in Seq(MQ!Messages) /\ \A x \in Spots \ {y0} : Lines'[x] = mid[x]
      BY <1>7, <2>2, <2>3, <2>4
  <2> HIDE DEF mid
  <2>6. /\ Unique(mid, e) /\ (m.event = e => \A x \in Spots : ~Has(mid[x], e))
        /\ \A x \in Spots : Has(mid[x], e) => Has(Lines[x], e)
    <3>1. Lines[x0] # <<>> /\ Lines[x0][1] = m
        BY <1>2, <2>2 DEF m
    <3>2. x0 \in Spots /\ Lines[x0] \in Seq(MQ!Messages)
        BY <2>2
    <3> QED
        BY <2>1, <2>4, <3>1, <3>2, UniqueDrop
  <2>7. Unique(Lines', e)
    <3>1. y0 \in Spots /\ again \in MQ!Messages
        BY <1>4, <2>2
    <3>2. again.event = e => \A x \in Spots : ~Has(mid[x], e)
        BY <1>4, <2>6
    <3> QED
        BY <2>5, <2>6, <3>1, <3>2, UniqueAdd
  <2>8. m.event = e => Has(Lines[x0], e)
      BY <1>2, <2>2 DEF Has
  <2>9. \A x \in Spots : Has(Lines'[x], e) => \E y \in Spots : Has(Lines[y], e)
      BY <1>8, <2>2, <2>5, <2>6, <2>8
  <2>10. (\E x \in Spots : Has(Lines'[x], e)) => handled'[e] = 0 /\ ~MQ!Buried(e)'
      BY <1>1, <2>1, <2>9 DEF Placed, MQ!Buried
  <2>11. m.event = e => failures[e] = again.retries
    <3>1. m.event = e => Counted(c0, m)
        BY <1>2, <1>6, <2>1 DEF Placed
    <3>2. m.event = e => failures[e] = m.retries \/ failures[e] = m.retries + 1
        BY <1>1, <3>1 DEF Counted
    <3>3. m.retries \in Nat
        BY <1>2, EventAssumption DEF MQ!Messages
    <3> QED
        BY <1>3, <1>4, <3>2, <3>3
  <2>12. \A q \in Queues : \A n \in MessagesOf(queue'[q]) : n.event = e => failures'[e] = n.retries
    <3> SUFFICES ASSUME NEW q \in Queues, NEW n \in MessagesOf(queue'[q]), n.event = e
                 PROVE  failures'[e] = n.retries
        OBVIOUS
    <3>1. CASE n = again
        BY <1>1, <1>4, <2>11, <3>1
    <3>2. CASE n # again
        BY <1>1, <1>7, <1>8, <2>1, <3>2 DEF Placed
    <3> QED
        BY <3>1, <3>2
  <2>13. ASSUME NEW c \in Consumers, NEW n \in MessagesOf(Open(c)'), n.event = e
         PROVE  Counted(c, n)'
    <3>1. MessagesOf(inbox[c0]) = {m} \cup MessagesOf(Tail(inbox[c0]))
        BY <1>1, InHand DEF m
    <3>2. n \in MessagesOf(Open(c))
        BY <1>6, <3>1
    <3>3. CASE e = m.event
      <4>1. \A x \in Spots : ~Has(mid[x], e)
          BY <2>6, <3>3
      <4>2. mid[<<"hand", c>>] = Open(c)' /\ <<"hand", c>> \in Spots
          BY <2>5, SpotFacts DEF y0
      <4> QED
          BY <2>13, <4>1, <4>2 DEF Has
    <3>4. CASE e # m.event
        BY <1>6, <2>1, <2>13, <3>2, <3>4 DEF Placed
    <3> QED
        BY <3>3, <3>4
  <2> QED
      BY <2>7, <2>10, <2>12, <2>13 DEF Placed
<1>13. MQ!HandledOnce' /\ MQ!DeadLettersWereTried'
    BY <1>1 DEF QueueInv, MQ!HandledOnce, MQ!DeadLettersWereTried, MQ!Buried
<1> QED
    BY <1>6, <1>9, <1>10, <1>11, <1>12, <1>13 DEF QueueInv

-----------------------------------------------------------------------------
(* The counters of the workers. *)
LEMMA CountStep ==
    ASSUME Manager!WorkersTypeOK, NEW w \in WorkerSet,
           NEW counter \in {"processed", "batches", "errors"}, Manager!Count(w, counter)
    PROVE  /\ Manager!WorkersTypeOK'
           /\ \A v \in WorkerSet \ {w} : metrics'[v] = metrics[v]
           /\ metrics'[w].processed =
                metrics[w].processed + (IF counter = "processed" THEN 1 ELSE 0)
           /\ metrics'[w].batches = metrics[w].batches + (IF counter = "batches" THEN 1 ELSE 0)
           /\ metrics'[w].errors = metrics[w].errors + (IF counter = "errors" THEN 1 ELSE 0)
<1> DEFINE M == [processed : Nat, batches : Nat, errors : Nat]
           n == metrics[w][counter] + 1
           row == [metrics[w] EXCEPT ![counter] = n]
<1>1. /\ metrics \in [WorkerSet -> M] /\ metrics[w] \in M
      /\ UNCHANGED <<start, stop>> /\ metrics' = [metrics EXCEPT ![w] = row]
    BY DEF Manager!Count, Manager!WorkersTypeOK
<1>2. n \in Nat
    BY <1>1
<1>3. /\ row \in M
      /\ row.processed = IF counter = "processed" THEN n ELSE metrics[w].processed
      /\ row.batches = IF counter = "batches" THEN n ELSE metrics[w].batches
      /\ row.errors = IF counter = "errors" THEN n ELSE metrics[w].errors
  <2> HIDE DEF n
  <2> QED
      BY <1>1, <1>2
<1>4. /\ metrics' \in [WorkerSet -> M] /\ metrics'[w] = row
      /\ \A v \in WorkerSet \ {w} : metrics'[v] = metrics[v]
  <2> HIDE DEF row
  <2> QED
      BY <1>1, <1>3
<1>5. Manager!WorkersTypeOK'
    BY <1>1, <1>4 DEF Manager!WorkersTypeOK
<1> QED
    BY <1>1, <1>3, <1>4, <1>5

LEMMA CounterTypes ==
    ASSUME Manager!WorkersTypeOK, NEW w \in WorkerSet
    PROVE  metrics[w].processed \in Int /\ metrics[w].batches \in Int /\ metrics[w].errors \in Int
BY DEF Manager!WorkersTypeOK

LEMMA HandledGrows ==
    ASSUME handled \in [Events -> Nat], IsFiniteSet(PassedOver), NEW e0 \in Events,
           handled' = [handled EXCEPT ![e0] = handled[e0] + 1]
    PROVE  /\ IsFiniteSet(PassedOver') /\ Cardinality(PassedOver) \in Nat
           /\ Cardinality(PassedOver') =
                Cardinality(PassedOver) + (IF e0 \in PostCreated THEN 0 ELSE 1)
<1> DEFINE Line(e) == {e} \X (1 .. handled[e])
           n == handled[e0] + 1
<1>1. /\ handled'[e0] = n /\ n \in Nat /\ 1 .. n = (1 .. handled[e0]) \cup {n}
      /\ n \notin 1 .. handled[e0] /\ \A e \in Events : e # e0 => handled'[e] = handled[e]
    OBVIOUS
<1>2. Cardinality(PassedOver) \in Nat
    BY FS_CardinalityType
<1>3. CASE e0 \in PostCreated
  <2>1. PassedOver' = PassedOver
      BY <1>1, <1>3 DEF PassedOver
  <2> QED
      BY <1>2, <1>3, <2>1
<1>4. CASE e0 \notin PostCreated
  <2> HIDE DEF n
  <2>1. PassedOver' = PassedOver \cup {<<e0, n>>}
    <3>1. ASSUME NEW x \in PassedOver' PROVE x \in PassedOver \cup {<<e0, n>>}
      <4>1. PICK e \in Events \ PostCreated : x \in {e} \X (1 .. handled'[e])
          BY <3>1 DEF PassedOver
      <4>2. CASE e = e0
          BY <1>1, <4>1, <4>2 DEF PassedOver
      <4>3. CASE e # e0
          BY <1>1, <4>1, <4>3 DEF PassedOver
      <4> QED
          BY <4>2, <4>3
    <3>2. ASSUME NEW x \in PassedOver PROVE x \in PassedOver'
      <4>1. PICK e \in Events \ PostCreated : x \in {e} \X (1 .. handled[e])
          BY <3>2 DEF PassedOver
      <4>2. x \in {e} \X (1 .. handled'[e])
          BY <1>1, <4>1
      <4> QED
          BY <4>1, <4>2 DEF PassedOver
    <3>3. <<e0, n>> \in {e0} \X (1 .. handled'[e0])
        BY <1>1
    <3>4. <<e0, n>> \in PassedOver'
        BY <1>4, <3>3 DEF PassedOver
    <3> QED
        BY <3>1, <3>2, <3>4
  <2>2. <<e0, n>> \notin PassedOver
      BY <1>1 DEF PassedOver
  <2> QED
      BY <1>2, <1>4, <2>1, <2>2, FS_AddElement
<1> QED
    BY <1>3, <1>4

(* The steps that leave the workers' counters alone. *)
LEMMA MetricsQuiet ==
    ASSUME QueueInv, MetricsInv, Manager!WorkersTypeOK, UNCHANGED metrics,
           up'["fanout"] => /\ up["fanout"]
                            /\ \A w \in WorkerSet : pc'[w] = "handle" <=> pc[w] = "handle",
           \/ UNCHANGED handled
           \/ \E e \in Events : handled' = [handled EXCEPT ![e] = handled[e] + 1]
    PROVE  MetricsInv'
<1>1. handled \in [Events -> Nat]
    BY DEF QueueInv, MQ!QueueTypeOK
<1>2. /\ IsFiniteSet(PassedOver') /\ Cardinality(PassedOver) \in Nat
      /\ Cardinality(PassedOver') \in Nat /\ Cardinality(PassedOver') >= Cardinality(PassedOver)
  <2>1. CASE UNCHANGED handled
    <3>1. PassedOver' = PassedOver
        BY <2>1 DEF PassedOver
    <3>2. IsFiniteSet(PassedOver) /\ Cardinality(PassedOver) \in Nat
        BY FS_CardinalityType DEF MetricsInv
    <3> QED
        BY <3>1, <3>2
  <2>2. ASSUME NEW e \in Events, handled' = [handled EXCEPT ![e] = handled[e] + 1]
        PROVE  /\ IsFiniteSet(PassedOver') /\ Cardinality(PassedOver) \in Nat
               /\ Cardinality(PassedOver') \in Nat
               /\ Cardinality(PassedOver') >= Cardinality(PassedOver)
    <3> DEFINE n == Cardinality(PassedOver)
               k == Cardinality(PassedOver')
    <3>1. IsFiniteSet(PassedOver)
        BY DEF MetricsInv
    <3>2. /\ IsFiniteSet(PassedOver') /\ n \in Nat
          /\ k = n + (IF e \in PostCreated THEN 0 ELSE 1)
        BY <1>1, <2>2, <3>1, HandledGrows
    <3> HIDE DEF n, k
    <3>3. k \in Nat /\ k >= n
        BY <3>2
    <3> QED
        BY <3>2, <3>3 DEF n, k
  <2> QED
      BY <2>1, <2>2
<1>3. ASSUME NEW w \in WorkerSet, up'["fanout"]
      PROVE  0 <= Passed(w)' /\ Passed(w)' <= Cardinality(PassedOver')
  <2>1. Passed(w)' = Passed(w) /\ 0 <= Passed(w) /\ Passed(w) <= Cardinality(PassedOver)
      BY <1>3 DEF Passed, MetricsInv
  <2>2. Passed(w) \in Int
      BY CounterTypes DEF Passed
  <2> QED
      BY <1>2, <2>1, <2>2
<1> QED
    BY <1>2, <1>3 DEF MetricsInv

(* The steps that leave the table alone. *)
LEMMA RowsQuiet ==
    ASSUME QueueInv, Notification!TypeOK, RowsInv, UNCHANGED <<rows, confirmed, unanswered>>,
           \/ UNCHANGED handled
           \/ \E e \in Events : handled' = [handled EXCEPT ![e] = handled[e] + 1]
    PROVE  RowsInv'
<1> SUFFICES ASSUME NEW e \in Events, e \notin unanswered
             PROVE  Cardinality(Notification!RowsOf(e)) <= handled'[e]
    BY DEF RowsInv, Notification!RowsOf, Notification!Ids
<1>1. handled \in [Events -> Nat]
    BY DEF QueueInv, MQ!QueueTypeOK
<1>2. handled[e] \in Nat /\ handled'[e] \in Nat /\ handled'[e] >= handled[e]
    BY <1>1
<1>3. Cardinality(Notification!RowsOf(e)) \in Nat
  <2>1. rows \in Seq(Notification!RowSet) /\ Len(rows) \in Int
      BY DEF Notification!TypeOK
  <2>2. IsFiniteSet(1 .. Len(rows))
      BY <2>1, FS_Interval
  <2>3. IsFiniteSet(Notification!RowsOf(e))
      BY <2>2, FS_Subset DEF Notification!RowsOf, Notification!Ids
  <2> QED
      BY <2>3, FS_CardinalityType
<1>4. Cardinality(Notification!RowsOf(e)) <= handled[e]
    BY DEF RowsInv
<1> QED
    BY <1>2, <1>3, <1>4

(* An INSERT adds one row of the event. *)
LEMMA InsertStep ==
    ASSUME Notification!TypeOK, NEW e \in Events, NEW stage \in {"begun", "none"},
           Notification!Insert(e, stage), UNCHANGED <<request, scroll>>,
           confirmed' \subseteq Events, unanswered' \subseteq Events
    PROVE  /\ Notification!TypeOK' /\ Notification!RowsOf(e)' # {}
           /\ Cardinality(Notification!RowsOf(e)) \in Nat
           /\ Cardinality(Notification!RowsOf(e)') = Cardinality(Notification!RowsOf(e)) + 1
           /\ \A f \in Events \ {e} : Notification!RowsOf(f)' = Notification!RowsOf(f)
<1> DEFINE row == Notification!Row(e)
           n == Len(rows) + 1
<1>1. /\ rows \in Seq(Notification!RowSet) /\ delivery \in Seq(Notification!Stages)
      /\ Len(delivery) = Len(rows) /\ Len(rows) \in Nat
      /\ rows' = Append(rows, row) /\ delivery' = Append(delivery, stage)
    BY DEF Notification!TypeOK, Notification!Insert
<1>2. row \in Notification!RowSet /\ row.event = e /\ stage \in Notification!Stages
    BY DEF Notification!Row, Notification!RowSet, Notification!Stages
<1> HIDE DEF row
<1>3. /\ rows' \in Seq(Notification!RowSet) /\ Len(rows') = n /\ rows'[n] = row
      /\ \A i \in 1 .. Len(rows) : rows'[i] = rows[i]
    BY <1>1, <1>2, AppendProperties
<1>4. delivery' \in Seq(Notification!Stages) /\ Len(delivery') = n
    BY <1>1, <1>2, AppendProperties
<1>5. Notification!TypeOK'
    BY <1>3, <1>4 DEF Notification!TypeOK
<1>6. 1 .. n = (1 .. Len(rows)) \cup {n} /\ n \notin 1 .. Len(rows)
    BY <1>1
<1> HIDE DEF n
<1>7. /\ Notification!RowsOf(e)' = Notification!RowsOf(e) \cup {n}
      /\ n \notin Notification!RowsOf(e)
      /\ \A f \in Events \ {e} : Notification!RowsOf(f)' = Notification!RowsOf(f)
    BY <1>2, <1>3, <1>6 DEF Notification!RowsOf, Notification!Ids
<1>8. IsFiniteSet(Notification!RowsOf(e))
  <2>1. IsFiniteSet(1 .. Len(rows))
      BY <1>1, FS_Interval
  <2> QED
      BY <2>1, FS_Subset DEF Notification!RowsOf, Notification!Ids
<1>9. /\ Cardinality(Notification!RowsOf(e)) \in Nat
      /\ Cardinality(Notification!RowsOf(e)') = Cardinality(Notification!RowsOf(e)) + 1
    BY <1>7, <1>8, FS_CardinalityType, FS_AddElement
<1> QED
    BY <1>5, <1>7, <1>9

(* HandleNotification. *)
LEMMA HandleNotificationKeeps ==
    ASSUME PipelineInv, NEW c \in Consumers, HandleNotification(c)
    PROVE  PipelineInv'
<1>0. inbox[c][1].event \in Events
    BY InHand DEF HandleNotification, MQ!At, PipelineInv, MQ!Messages
<1> PICK e \in Events : e = inbox[c][1].event
    BY <1>0
<1>1. /\ c \in Notifiers /\ pc[c] = "handle" /\ UNCHANGED <<start, stop, metrics>>
      /\ \/ e \notin Known /\ MQ!HandlerSucceeds(c) /\ UNCHANGED notificationVars
         \/ e \in Known /\ MQ!HandlerSucceeds(c) /\ Notification!CreateNotification(e)
         \/ e \in Known /\ MQ!HandlerFails(c) /\ Notification!CreateFails(e)
    BY DEF HandleNotification, MQ!At, workerVars
<1>2. QueueInv'
    BY <1>1, HandlerSucceedsKeeps, HandlerFailsKeeps DEF PipelineInv
<1>3. /\ UNCHANGED up
      /\ \A w \in WorkerSet : pc'[w] = pc[w]
      /\ MQ!HandlerSucceeds(c) => handled' = [handled EXCEPT ![e] = handled[e] + 1]
      /\ MQ!HandlerFails(c) => UNCHANGED handled
  <2>1. pc \in [Consumers -> MQ!Labels] /\ \A w \in WorkerSet : w \in Consumers /\ w # c
      BY <1>1, EventAssumption DEF PipelineInv, QueueInv, MQ!QueueTypeOK, Consumers
  <2> QED
      BY <1>1, <2>1 DEF MQ!HandlerSucceeds, MQ!HandlerFails, MQ!Goto, MQ!broker, MQ!Current
<1>4. MetricsInv'
    BY <1>1, <1>3, MetricsQuiet DEF PipelineInv
<1>5. Manager!WorkersTypeOK'
    BY <1>1 DEF PipelineInv, Manager!WorkersTypeOK
<1>6. Notification!TypeOK' /\ RowsInv'
  <2>1. CASE UNCHANGED notificationVars
    <3>1. Notification!TypeOK'
        BY <2>1 DEF notificationVars, PipelineInv, Notification!TypeOK
    <3>2. UNCHANGED handled \/ \E f \in Events : handled' = [handled EXCEPT ![f] = handled[f] + 1]
        BY <1>1, <1>3
    <3>3. RowsInv'
        BY <2>1, <3>2, RowsQuiet DEF notificationVars, PipelineInv
    <3> QED
        BY <3>1, <3>3
  <2>2. CASE MQ!HandlerSucceeds(c) /\ Notification!CreateNotification(e)
    <3>1. /\ Notification!Insert(e, "begun") /\ confirmed' = confirmed \cup {e}
          /\ UNCHANGED <<request, scroll, unanswered>>
        BY <2>2 DEF Notification!CreateNotification
    <3>2. confirmed' \subseteq Events /\ unanswered' \subseteq Events
        BY <3>1 DEF PipelineInv, Notification!TypeOK
    <3>3. /\ Notification!TypeOK' /\ Notification!RowsOf(e)' # {}
          /\ Cardinality(Notification!RowsOf(e)) \in Nat
          /\ Cardinality(Notification!RowsOf(e)') = Cardinality(Notification!RowsOf(e)) + 1
          /\ \A f \in Events \ {e} : Notification!RowsOf(f)' = Notification!RowsOf(f)
        BY <3>1, <3>2, InsertStep DEF PipelineInv
    <3>4. /\ handled \in [Events -> Nat] /\ handled'[e] = handled[e] + 1
          /\ \A f \in Events \ {e} : handled'[f] = handled[f]
        BY <1>3, <2>2 DEF PipelineInv, QueueInv, MQ!QueueTypeOK
    <3>5. ASSUME NEW f \in Events
          PROVE  /\ f \in confirmed' => Notification!RowsOf(f)' # {}
                 /\ f \notin unanswered' => Cardinality(Notification!RowsOf(f)') <= handled'[f]
      <4>1. /\ f \in confirmed => Notification!RowsOf(f) # {}
            /\ f \notin unanswered => Cardinality(Notification!RowsOf(f)) <= handled[f]
          BY DEF PipelineInv, RowsInv
      <4>2. CASE f # e
          BY <3>1, <3>3, <3>4, <4>1, <4>2
      <4>3. CASE f = e
        <5>1. handled[e] \in Nat
            BY <3>4
        <5> QED
            BY <3>1, <3>3, <3>4, <4>1, <4>3, <5>1
      <4> QED
          BY <4>2, <4>3
    <3> QED
        BY <3>3, <3>5 DEF RowsInv
  <2>3. CASE MQ!HandlerFails(c) /\ Notification!CreateFails(e)
    <3>1. /\ UNCHANGED <<request, scroll, confirmed, handled>>
          /\ \/ UNCHANGED <<rows, delivery, unanswered>>
             \/ Notification!Insert(e, "none") /\ unanswered' = unanswered \cup {e}
        BY <1>3, <2>3 DEF Notification!CreateFails
    <3>2. CASE UNCHANGED <<rows, delivery, unanswered>>
      <4>1. Notification!TypeOK'
          BY <3>1, <3>2 DEF PipelineInv, Notification!TypeOK
      <4>2. RowsInv'
          BY <3>1, <3>2, RowsQuiet DEF PipelineInv
      <4> QED
          BY <4>1, <4>2
    <3>3. CASE Notification!Insert(e, "none") /\ unanswered' = unanswered \cup {e}
      <4>1. confirmed' \subseteq Events /\ unanswered' \subseteq Events
          BY <3>1, <3>3 DEF PipelineInv, Notification!TypeOK
      <4>2. /\ Notification!TypeOK' /\ Notification!RowsOf(e)' # {}
            /\ \A f \in Events \ {e} : Notification!RowsOf(f)' = Notification!RowsOf(f)
          BY <3>1, <3>3, <4>1, InsertStep DEF PipelineInv
      <4>3. ASSUME NEW f \in Events
            PROVE  /\ f \in confirmed' => Notification!RowsOf(f)' # {}
                   /\ f \notin unanswered' => Cardinality(Notification!RowsOf(f)') <= handled'[f]
        <5>1. /\ f \in confirmed => Notification!RowsOf(f) # {}
              /\ f \notin unanswered => Cardinality(Notification!RowsOf(f)) <= handled[f]
            BY DEF PipelineInv, RowsInv
        <5> QED
            BY <3>1, <3>3, <4>2, <5>1
      <4> QED
          BY <4>2, <4>3 DEF RowsInv
    <3> QED
        BY <3>1, <3>2, <3>3
  <2> QED
      BY <1>1, <2>1, <2>2, <2>3
<1> QED
    BY <1>2, <1>4, <1>5, <1>6 DEF PipelineInv

(* What the steps of the goroutines and of the broker leave alone. *)
LEMMA QueueStepFacts ==
    ASSUME QueueInv, NEW c \in Consumers, MQ!QueueStep(c)
    PROVE  /\ UNCHANGED <<up, handled>> /\ \A v \in Consumers \ {c} : pc'[v] = pc[v]
           /\ pc[c] # "handle"
<1>1. pc \in [Consumers -> MQ!Labels]
    BY DEF QueueInv, MQ!QueueTypeOK
<1> QED
    BY <1>1 DEF MQ!QueueStep, MQ!Receive, MQ!RangeEnds, MQ!Republish, MQ!RepublishFails, MQ!Ack,
                MQ!Nack, MQ!Answer, MQ!At, MQ!Goto, MQ!broker, MQ!record

LEMMA QueueStepKeeps == ASSUME QueueInv, NEW c \in Consumers, MQ!QueueStep(c) PROVE QueueInv'
BY GoroutineMoves, RepublishKeeps, RepublishFailsKeeps, NackKeeps DEF MQ!QueueStep

(* Steps that concern neither the table nor the counters. *)
LEMMA ElsewhereKeeps ==
    ASSUME PipelineInv, QueueInv', UNCHANGED <<notificationVars, metrics, handled>>,
           Manager!WorkersTypeOK',
           up'["fanout"] => /\ up["fanout"]
                            /\ \A w \in WorkerSet : pc'[w] = "handle" <=> pc[w] = "handle"
    PROVE  PipelineInv'
<1>1. Notification!TypeOK'
    BY DEF notificationVars, PipelineInv, Notification!TypeOK
<1>2. RowsInv'
    BY RowsQuiet DEF notificationVars, PipelineInv
<1>3. MetricsInv'
    BY MetricsQuiet DEF PipelineInv
<1> QED
    BY <1>1, <1>2, <1>3 DEF PipelineInv

LEMMA GoroutineStepKeeps ==
    ASSUME PipelineInv, NEW c \in Consumers, MQ!QueueStep(c), UNCHANGED notificationVars,
           IF c \in WorkerSet /\ pc'[c] = "handle"
           THEN Manager!Count(c, "processed") ELSE UNCHANGED workerVars
    PROVE  PipelineInv'
<1>1. /\ UNCHANGED <<up, handled>> /\ pc[c] # "handle"
      /\ \A v \in Consumers \ {c} : pc'[v] = pc[v]
      /\ QueueInv'
    BY QueueStepFacts, QueueStepKeeps DEF PipelineInv
<1>2. CASE ~(c \in WorkerSet /\ pc'[c] = "handle")
  <2>1. UNCHANGED <<metrics, start, stop>>
      BY <1>2 DEF workerVars
  <2>2. \A w \in WorkerSet : pc'[w] = "handle" <=> pc[w] = "handle"
      BY <1>1, <1>2 DEF Consumers
  <2> QED
      BY <1>1, <2>1, <2>2, ElsewhereKeeps DEF PipelineInv, Manager!WorkersTypeOK
<1>3. CASE c \in WorkerSet /\ pc'[c] = "handle"
  <2>1. /\ Manager!WorkersTypeOK'
        /\ \A v \in WorkerSet \ {c} : metrics'[v] = metrics[v]
        /\ metrics'[c].processed = metrics[c].processed + 1
        /\ metrics'[c].batches = metrics[c].batches + 0
        /\ metrics'[c].errors = metrics[c].errors + 0
      BY <1>3, CountStep DEF PipelineInv
  <2>2. PassedOver' = PassedOver
      BY <1>1 DEF PassedOver
  <2>3. ASSUME NEW w \in WorkerSet PROVE Passed(w)' = Passed(w)
    <3>1. CASE w = c
        BY <1>1, <1>3, <2>1, <3>1, CounterTypes DEF PipelineInv, Passed
    <3>2. CASE w # c
        BY <1>1, <2>1, <3>2 DEF Passed, Consumers
    <3> QED
        BY <3>1, <3>2
  <2>4. MetricsInv'
      BY <1>1, <2>2, <2>3 DEF PipelineInv, MetricsInv
  <2>5. Notification!TypeOK' /\ RowsInv'
      BY <1>1, RowsQuiet DEF notificationVars, PipelineInv, Notification!TypeOK
  <2> QED
      BY <1>1, <2>1, <2>4, <2>5 DEF PipelineInv
<1> QED
    BY <1>2, <1>3

(* HandlePost. *)
LEMMA HandlePostKeeps ==
    ASSUME PipelineInv, NEW c \in Consumers, HandlePost(c)
    PROVE  PipelineInv'
<1>0. inbox[c][1].event \in Events
    BY InHand DEF HandlePost, MQ!At, PipelineInv, MQ!Messages
<1> PICK e \in Events : e = inbox[c][1].event
    BY <1>0
<1>1. /\ c \in WorkerSet /\ pc[c] = "handle" /\ UNCHANGED notificationVars
      /\ \/ e \notin PostCreated /\ MQ!HandlerSucceeds(c) /\ UNCHANGED workerVars
         \/ e \in PostCreated /\ MQ!HandlerSucceeds(c) /\ Manager!Count(c, "batches")
         \/ e \in PostCreated /\ MQ!HandlerFails(c) /\ Manager!Count(c, "errors")
    BY DEF HandlePost, MQ!At
<1>2. QueueInv'
    BY <1>1, HandlerSucceedsKeeps, HandlerFailsKeeps DEF PipelineInv
<1>3. /\ UNCHANGED up /\ pc'[c] # "handle" /\ \A v \in Consumers \ {c} : pc'[v] = pc[v]
      /\ MQ!HandlerSucceeds(c) => handled' = [handled EXCEPT ![e] = handled[e] + 1]
      /\ MQ!HandlerFails(c) => UNCHANGED handled
  <2>1. pc \in [Consumers -> MQ!Labels]
      BY DEF PipelineInv, QueueInv, MQ!QueueTypeOK
  <2> QED
      BY <1>1, <2>1 DEF MQ!HandlerSucceeds, MQ!HandlerFails, MQ!Goto, MQ!broker, MQ!Current
<1>4. /\ IsFiniteSet(PassedOver') /\ Cardinality(PassedOver) \in Nat
      /\ Cardinality(PassedOver') = Cardinality(PassedOver) +
           (IF MQ!HandlerSucceeds(c) /\ e \notin PostCreated THEN 1 ELSE 0)
  <2>1. handled \in [Events -> Nat] /\ IsFiniteSet(PassedOver)
      BY DEF PipelineInv, QueueInv, MQ!QueueTypeOK, MetricsInv
  <2>2. CASE MQ!HandlerSucceeds(c)
      BY <1>3, <2>1, <2>2, HandledGrows
  <2>3. CASE ~MQ!HandlerSucceeds(c)
    <3>1. PassedOver' = PassedOver /\ Cardinality(PassedOver) \in Nat
        BY <1>1, <1>3, <2>1, <2>3, FS_CardinalityType DEF PassedOver
    <3> QED
        BY <2>1, <2>3, <3>1
  <2> QED
      BY <2>2, <2>3
<1>5. /\ Manager!WorkersTypeOK'
      /\ \A v \in WorkerSet \ {c} : metrics'[v] = metrics[v]
      /\ Passed(c) \in Int
      /\ Passed(c)' = Passed(c) + (IF e \notin PostCreated THEN 1 ELSE 0)
  <2>1. /\ metrics[c].processed \in Int /\ metrics[c].batches \in Int /\ metrics[c].errors \in Int
      BY <1>1, CounterTypes DEF PipelineInv
  <2>5. Passed(c) = metrics[c].processed - metrics[c].batches - metrics[c].errors - 1
      BY <1>1 DEF Passed
  <2>6. Passed(c)' = metrics'[c].processed - metrics'[c].batches - metrics'[c].errors - 0
      BY <1>3 DEF Passed
  <2>2. CASE UNCHANGED workerVars /\ e \notin PostCreated
      BY <2>1, <2>2, <2>5, <2>6 DEF workerVars, PipelineInv, Manager!WorkersTypeOK
  <2>3. CASE Manager!Count(c, "batches") /\ e \in PostCreated
    <3>1. /\ Manager!WorkersTypeOK' /\ \A v \in WorkerSet \ {c} : metrics'[v] = metrics[v]
          /\ metrics'[c].processed = metrics[c].processed + 0
          /\ metrics'[c].batches = metrics[c].batches + 1
          /\ metrics'[c].errors = metrics[c].errors + 0
        BY <1>1, <2>3, CountStep DEF PipelineInv
    <3> QED
        BY <2>1, <2>3, <2>5, <2>6, <3>1
  <2>4. CASE Manager!Count(c, "errors") /\ e \in PostCreated
    <3>1. /\ Manager!WorkersTypeOK' /\ \A v \in WorkerSet \ {c} : metrics'[v] = metrics[v]
          /\ metrics'[c].processed = metrics[c].processed + 0
          /\ metrics'[c].batches = metrics[c].batches + 0
          /\ metrics'[c].errors = metrics[c].errors + 1
        BY <1>1, <2>4, CountStep DEF PipelineInv
    <3> QED
        BY <2>1, <2>4, <2>5, <2>6, <3>1
  <2> QED
      BY <1>1, <2>2, <2>3, <2>4
<1>6. MetricsInv'
  <2> SUFFICES ASSUME NEW w \in WorkerSet, up'["fanout"]
               PROVE  0 <= Passed(w)' /\ Passed(w)' <= Cardinality(PassedOver')
      BY <1>4 DEF MetricsInv
  <2>1. 0 <= Passed(w) /\ Passed(w) <= Cardinality(PassedOver)
      BY <1>3 DEF PipelineInv, MetricsInv
  <2>2. CASE w = c
      BY <1>1, <1>4, <1>5, <2>1, <2>2
  <2>3. CASE w # c
    <3>1. Passed(w)' = Passed(w) /\ Passed(w) \in Int
        BY <1>3, <1>5, <2>3, CounterTypes DEF Passed, Consumers, PipelineInv
    <3> QED
        BY <1>4, <2>1, <3>1
  <2> QED
      BY <2>2, <2>3
<1>7. Notification!TypeOK' /\ RowsInv'
  <2>1. UNCHANGED handled \/ \E f \in Events : handled' = [handled EXCEPT ![f] = handled[f] + 1]
      BY <1>1, <1>3
  <2> QED
      BY <1>1, <2>1, RowsQuiet DEF notificationVars, PipelineInv, Notification!TypeOK
<1> QED
    BY <1>2, <1>5, <1>6, <1>7 DEF PipelineInv

LEMMA RegisterKeeps ==
    ASSUME PipelineInv, NEW c \in Consumers, Register(c) \/ (c \in WorkerSet /\ RegisterFails(c))
    PROVE  PipelineInv'
<1>1. /\ QueueInv' /\ UNCHANGED <<notificationVars, metrics, handled, up>>
      /\ pc[c] = "starting" /\ pc'[c] # "handle" /\ \A v \in Consumers \ {c} : pc'[v] = pc[v]
  <2>1. pc \in [Consumers -> MQ!Labels] /\ QueueInv
      BY DEF PipelineInv, QueueInv, MQ!QueueTypeOK
  <2>2. CASE Register(c)
    <3>1. MQ!ConsumeMessages(c) /\ UNCHANGED notificationVars
          /\ (UNCHANGED workerVars \/ Manager!Registers(c))
        BY <2>2 DEF Register
    <3>2. QueueInv'
        BY <2>1, <3>1, GoroutineMoves
    <3> QED
        BY <2>1, <3>1, <3>2 DEF MQ!ConsumeMessages, MQ!At, MQ!Goto, MQ!broker, MQ!record,
                                Manager!Registers, workerVars
  <2>3. CASE RegisterFails(c)
    <3>1. QueueInv'
        BY <2>1, <2>3, GoroutineMoves DEF RegisterFails
    <3> QED
        BY <2>1, <2>3, <3>1 DEF RegisterFails, MQ!Goto, Manager!RegisterFails
  <2> QED
      BY <2>2, <2>3
<1>2. Manager!WorkersTypeOK'
  <2>1. CASE UNCHANGED workerVars
      BY <2>1 DEF workerVars, PipelineInv, Manager!WorkersTypeOK
  <2>2. CASE Manager!Registers(c) \/ Manager!RegisterFails(c)
      BY <2>2 DEF Manager!Registers, Manager!RegisterFails, PipelineInv, Manager!WorkersTypeOK
  <2> QED
      BY <2>1, <2>2 DEF Register, RegisterFails
<1>3. \A w \in WorkerSet : pc'[w] = "handle" <=> pc[w] = "handle"
    BY <1>1 DEF Consumers
<1> QED
    BY <1>1, <1>2, <1>3, ElsewhereKeeps

(* A process dies, and is started again. *)
LEMMA ProcessKeeps ==
    ASSUME PipelineInv, NEW p \in Processes, Crash(p) \/ Restart(p)
    PROVE  PipelineInv'
<1>1. /\ up \in [Processes -> BOOLEAN] /\ pc \in [Consumers -> MQ!Labels] /\ QueueInv
      /\ "fanout" \in Processes /\ \A w \in WorkerSet : ProcessOf[w] = "fanout" /\ w \in Consumers
    BY EventAssumption DEF PipelineInv, QueueInv, MQ!QueueTypeOK, Processes, ProcessOf, Consumers
<1>2. CASE Crash(p)
  <2>1. /\ MQ!Crash(p) /\ UNCHANGED workerVars
        /\ IF p = "notifier" THEN Notification!Dies ELSE UNCHANGED notificationVars
      BY <1>2 DEF Crash
  <2>2. QueueInv' /\ UNCHANGED handled
      BY <1>1, <2>1, CrashKeeps DEF MQ!Crash
  <2>3. up'["fanout"] => /\ up["fanout"]
                         /\ \A w \in WorkerSet : pc'[w] = "handle" <=> pc[w] = "handle"
    <3>1. /\ up' = [up EXCEPT ![p] = FALSE]
          /\ pc' = [c \in Consumers |-> IF ProcessOf[c] = p THEN "down" ELSE pc[c]]
        BY <2>1 DEF MQ!Crash, MQ!Requeue
    <3> QED
        BY <1>1, <3>1
  <2>4. Manager!WorkersTypeOK' /\ UNCHANGED metrics
      BY <2>1 DEF workerVars, PipelineInv, Manager!WorkersTypeOK
  <2>5. UNCHANGED <<rows, confirmed, unanswered>>
      BY <2>1 DEF Notification!Dies, notificationVars
  <2>6. Notification!TypeOK'
    <3>1. CASE UNCHANGED notificationVars
        BY <3>1 DEF notificationVars, PipelineInv, Notification!TypeOK
    <3>2. CASE Notification!Dies
      <4>1. /\ delivery \in Seq(Notification!Stages) /\ Len(rows) \in Nat
            /\ Len(delivery) = Len(rows)
            /\ delivery' = [i \in 1 .. Len(rows) |->
                              IF delivery[i] = "begun" THEN "broken" ELSE delivery[i]]
            /\ request' = [r \in Requests |-> Notification!NoRequest]
            /\ UNCHANGED <<rows, scroll, confirmed, unanswered>>
          BY <3>2 DEF Notification!Dies, Notification!Ids, PipelineInv, Notification!TypeOK
      <4>2. \A i \in 1 .. Len(rows) : delivery[i] \in Notification!Stages
          BY <4>1, ElementOfSeq
      <4>3. "broken" \in Notification!Stages
          BY DEF Notification!Stages
      <4>4. delivery' \in Seq(Notification!Stages) /\ Len(delivery') = Len(rows)
          BY <4>1, <4>2, <4>3
      <4>5. request' \in [Requests -> Notification!RequestSet]
        <5>1. Notification!NoRequest \in Notification!RequestSet
            BY EventAssumption DEF Notification!NoRequest, Notification!RequestSet
        <5> QED
            BY <4>1, <5>1
      <4> QED
          BY <4>1, <4>4, <4>5 DEF PipelineInv, Notification!TypeOK
    <3> QED
        BY <2>1, <3>1, <3>2
  <2>7. RowsInv' /\ MetricsInv'
      BY <2>2, <2>3, <2>4, <2>5, RowsQuiet, MetricsQuiet DEF PipelineInv
  <2> QED
      BY <2>2, <2>4, <2>6, <2>7 DEF PipelineInv
<1>3. CASE Restart(p)
  <2>1. /\ MQ!Restart(p) /\ UNCHANGED notificationVars
        /\ IF p = "fanout" THEN Manager!ManagerRestarts ELSE UNCHANGED workerVars
      BY <1>3 DEF Restart
  <2>2. /\ QueueInv' /\ UNCHANGED handled
        /\ up' = [up EXCEPT ![p] = TRUE]
        /\ pc' = [c \in Consumers |-> IF ProcessOf[c] = p THEN "starting" ELSE pc[c]]
      BY <1>1, <2>1, RestartKeeps DEF MQ!Restart, MQ!record
  <2>3. CASE p # "fanout"
    <3>1. UNCHANGED metrics /\ Manager!WorkersTypeOK'
        BY <2>1, <2>3 DEF workerVars, PipelineInv, Manager!WorkersTypeOK
    <3>2. up'["fanout"] = up["fanout"] /\ \A w \in WorkerSet : pc'[w] = pc[w]
        BY <1>1, <2>2, <2>3
    <3> QED
        BY <2>1, <2>2, <3>1, <3>2, ElsewhereKeeps
  <2>4. CASE p = "fanout"
    <3>1. /\ metrics' = [w \in WorkerSet |-> Manager!NoMetrics] /\ Manager!WorkersTypeOK'
        BY <2>1, <2>4 DEF Manager!ManagerRestarts, Manager!WorkersTypeOK, Manager!NoMetrics
    <3>2. \A w \in WorkerSet : Passed(w)' = 0
      <4> TAKE w \in WorkerSet
      <4>1. pc'[w] = "starting" /\ metrics'[w] = Manager!NoMetrics
          BY <1>1, <2>2, <2>4, <3>1
      <4> QED
          BY <4>1 DEF Passed, Manager!NoMetrics
    <3>3. PassedOver' = PassedOver /\ IsFiniteSet(PassedOver) /\ Cardinality(PassedOver) \in Nat
        BY <2>2, FS_CardinalityType DEF PassedOver, PipelineInv, MetricsInv
    <3>4. MetricsInv'
        BY <3>2, <3>3 DEF MetricsInv
    <3>5. Notification!TypeOK' /\ RowsInv'
        BY <2>1, <2>2, RowsQuiet DEF notificationVars, PipelineInv, Notification!TypeOK
    <3> QED
        BY <2>2, <3>1, <3>4, <3>5 DEF PipelineInv
  <2> QED
      BY <2>3, <2>4
<1> QED
    BY <1>2, <1>3

LEMMA BrokerKeeps == ASSUME PipelineInv, Broker PROVE PipelineInv'
<1>1. UNCHANGED <<notificationVars, workerVars>> /\ QueueInv
    BY DEF Broker, PipelineInv
<1>2. /\ QueueInv' /\ UNCHANGED <<handled, pc>>
      /\ UNCHANGED up \/ \E p \in Processes : MQ!Disconnect(p)
  <2>1. CASE \E e \in Events : MQ!PublishMessage(e)
      BY <1>1, <2>1, PublishKeeps DEF MQ!PublishMessage, MQ!client
  <2>2. CASE \E c \in Consumers : MQ!Deliver(c)
      BY <1>1, <2>2, DeliverKeeps DEF MQ!Deliver, MQ!record
  <2>3. CASE \E q \in Queues : MQ!Expire(q)
      BY <1>1, <2>3, ExpireKeeps DEF MQ!Expire, MQ!client, MQ!record
  <2>4. CASE \E p \in Processes : MQ!Disconnect(p)
      BY <1>1, <2>4, DisconnectKeeps DEF MQ!Disconnect, MQ!client
  <2> QED
      BY <2>1, <2>2, <2>3, <2>4 DEF Broker
<1>3. up'["fanout"] => up["fanout"]
  <2>1. CASE UNCHANGED up
      BY <2>1
  <2>2. ASSUME NEW p \in Processes, MQ!Disconnect(p) PROVE up'["fanout"] => up["fanout"]
    <3>1. /\ up' = [up EXCEPT ![p] = FALSE] /\ up \in [Processes -> BOOLEAN]
          /\ "fanout" \in Processes
        BY <1>1, <2>2 DEF MQ!Disconnect, MQ!Requeue, QueueInv, MQ!QueueTypeOK, Processes
    <3> QED
        BY <3>1
  <2> QED
      BY <1>2, <2>1, <2>2
<1>4. Manager!WorkersTypeOK' /\ UNCHANGED metrics
    BY <1>1 DEF workerVars, PipelineInv, Manager!WorkersTypeOK
<1> QED
    BY <1>1, <1>2, <1>3, <1>4, ElsewhereKeeps

LEMMA ManagerKeeps ==
    ASSUME PipelineInv, UNCHANGED <<queueVars, notificationVars>>,
           \/ \E w \in WorkerSet : Manager!Stops(w)
           \/ Manager!StopReturns \/ Manager!Stop \/ UNCHANGED workerVars
    PROVE  PipelineInv'
<1>1. UNCHANGED <<queue, dead, up, inbox, pc, published, handled, failures, lost, doubled, faults>>
    BY DEF queueVars
<1>2. UNCHANGED metrics /\ Manager!WorkersTypeOK'
    BY DEF Manager!Stops, Manager!StopReturns, Manager!Stop, workerVars, PipelineInv,
           Manager!WorkersTypeOK
<1>3. QueueInv'
  <2>1. MQ!QueueTypeOK' /\ MQ!HandledOnce' /\ MQ!DeadLettersWereTried'
      BY <1>1 DEF PipelineInv, QueueInv, MQ!QueueTypeOK, MQ!HandledOnce, MQ!DeadLettersWereTried,
                  MQ!Buried
  <2>2. MessageInv' /\ GoroutineInv'
      BY <1>1 DEF PipelineInv, QueueInv, MessageInv, Sound, MQ!Buried, GoroutineInv, InOrder,
                  MQ!Connected
  <2>3. KeptInv'
      BY <1>1 DEF PipelineInv, QueueInv, KeptInv, Kept, Open, MQ!Connected, MQ!Buried
  <2>4. OnceInv'
    <3>1. Lines' = Lines
        BY <1>1 DEF Lines, Open
    <3>2. \A e : Placed(e) => Placed(e)'
        BY <1>1, <3>1 DEF Placed, Unique, Open, Counted, MQ!Buried
    <3> QED
        BY <1>1, <3>2 DEF PipelineInv, QueueInv, OnceInv
  <2> QED
      BY <2>1, <2>2, <2>3, <2>4 DEF QueueInv
<1> QED
    BY <1>1, <1>2, <1>3, ElsewhereKeeps

-----------------------------------------------------------------------------
LEMMA InitPipeline == Init => PipelineInv
<1> SUFFICES ASSUME Init PROVE PipelineInv
    OBVIOUS
<1>1. /\ queue = [q \in Queues |-> <<>>] /\ dead = {} /\ up = [p \in Processes |-> TRUE]
      /\ inbox = [c \in Consumers |-> <<>>] /\ pc = [c \in Consumers |-> "starting"]
      /\ published = {} /\ lost = {} /\ doubled = {} /\ faults = 0
      /\ handled = [e \in Events |-> 0] /\ failures = [e \in Events |-> 0]
    BY DEF Init, MQ!InitQueue
<1>2. MQ!QueueTypeOK
    BY <1>1, EventAssumption DEF MQ!QueueTypeOK, MQ!Labels
<1>3. MessageInv
    BY <1>1, EmptyLine DEF MessageInv, MQ!Buried
<1>4. GoroutineInv
    BY <1>1, EmptyLine DEF GoroutineInv, InOrder
<1>5. KeptInv /\ MQ!HandledOnce /\ MQ!DeadLettersWereTried
    BY <1>1 DEF KeptInv, MQ!HandledOnce, MQ!DeadLettersWereTried
<1>6. OnceInv
  <2>1. \A x \in Spots : Lines[x] = <<>>
      BY <1>1 DEF Lines, Spots, Open
  <2>2. (\A q \in Queues : queue[q] = <<>>) /\ \A c \in Consumers : Open(c) = <<>>
      BY <1>1 DEF Open
  <2> SUFFICES ASSUME NEW e \in Events PROVE Placed(e)
      BY DEF OnceInv
  <2>3. Unique(Lines, e)
      BY <2>1, EmptyLine DEF Unique
  <2> QED
      BY <2>1, <2>2, <2>3, EmptyLine DEF Placed
<1>7. Notification!TypeOK
  <2>1. /\ rows = <<>> /\ delivery = <<>> /\ confirmed = {} /\ unanswered = {}
        /\ request = [r \in Requests |-> Notification!NoRequest] /\ scroll = Notification!Top
      BY DEF Init, Notification!Init
  <2>2. Notification!NoRequest \in Notification!RequestSet
      BY EventAssumption DEF Notification!NoRequest, Notification!RequestSet
  <2> QED
      BY <2>1, <2>2, EventAssumption DEF Notification!TypeOK, Notification!Top
<1>8. Manager!WorkersTypeOK
    BY DEF Init, Manager!InitWorkers, Manager!WorkersTypeOK, Manager!NoMetrics
<1>9. RowsInv
  <2>1. /\ rows = <<>> /\ confirmed = {}
      BY DEF Init, Notification!Init
  <2>2. \A e : Notification!RowsOf(e) = {}
      BY <2>1 DEF Notification!RowsOf, Notification!Ids
  <2>3. Cardinality({}) = 0
      BY FS_EmptySet
  <2>4. ASSUME NEW e \in Events PROVE Cardinality(Notification!RowsOf(e)) <= handled[e]
    <3>1. Cardinality(Notification!RowsOf(e)) = 0 /\ handled[e] = 0
        BY <1>1, <2>2, <2>3
    <3> QED
        BY <3>1
  <2> QED
      BY <2>1, <2>4 DEF RowsInv
<1>10. MetricsInv
  <2>1. PassedOver = {} /\ IsFiniteSet({}) /\ Cardinality({}) = 0
      BY <1>1, FS_EmptySet DEF PassedOver
  <2>2. ASSUME NEW w \in WorkerSet PROVE Passed(w) = 0
    <3>1. metrics[w] = Manager!NoMetrics /\ pc[w] = "starting"
        BY <1>1 DEF Init, Manager!InitWorkers, Consumers
    <3> QED
        BY <3>1 DEF Passed, Manager!NoMetrics
  <2> QED
      BY <2>1, <2>2 DEF MetricsInv
<1> QED
    BY <1>2, <1>3, <1>4, <1>5, <1>6, <1>7, <1>8, <1>9, <1>10 DEF PipelineInv, QueueInv

LEMMA StepPipeline == PipelineInv /\ [Next]_vars => PipelineInv'
<1> SUFFICES ASSUME PipelineInv, [Next]_vars PROVE PipelineInv'
    OBVIOUS
<1>1. CASE Broker
    BY <1>1, BrokerKeeps
<1>2. ASSUME NEW c \in Consumers, Goroutine(c) PROVE PipelineInv'
    BY <1>2, HandleNotificationKeeps, HandlePostKeeps, GoroutineStepKeeps DEF Goroutine
<1>3. ASSUME NEW c \in Consumers, Register(c) PROVE PipelineInv'
    BY <1>3, RegisterKeeps
<1>4. ASSUME NEW w \in WorkerSet, RegisterFails(w) PROVE PipelineInv'
    BY <1>4, RegisterKeeps DEF Consumers
<1>5. ASSUME NEW p \in Processes, Crash(p) \/ Restart(p) PROVE PipelineInv'
    BY <1>5, ProcessKeeps
<1>6. CASE ManagerGoroutines \/ (Manager!Stop /\ UNCHANGED <<queueVars, notificationVars>>)
    BY <1>6, ManagerKeeps DEF ManagerGoroutines
<1>7. CASE UNCHANGED vars
    BY <1>7, ManagerKeeps DEF vars
<1> QED
    BY <1>1, <1>2, <1>3, <1>4, <1>5, <1>6, <1>7 DEF Next

LEMMA PipelineAlways == Spec => []PipelineInv
BY InitPipeline, StepPipeline, PTL DEF Spec

(* Types, for any number of events, queues and goroutines. *)
THEOREM TypeCorrect == Spec => []TypeOK
<1>1. PipelineInv => TypeOK
    BY DEF PipelineInv, QueueInv, TypeOK
<1> QED
    BY <1>1, PipelineAlways, PTL

(* What was published is with the broker, with a connected goroutine that  *)
(* has yet to deal with it, handled, or in the dead letter queue, unless   *)
(* it fell to a publish whose error ConsumeMessages ignores.  The property *)
(* alone is not inductive, for it also counts the message a goroutine has  *)
(* published again or is about to acknowledge; Kept leaves that one out.   *)
THEOREM NothingDisappears == Spec => []NoEventDisappears
<1>1. PipelineInv => NoEventDisappears
  <2> SUFFICES ASSUME PipelineInv, NEW e \in published \ lost
               PROVE  \/ e \in MQ!Waiting(Route[e]) \/ MQ!Held(e) \/ handled[e] > 0
                      \/ MQ!Buried(e)
      BY DEF NoEventDisappears, MQ!NoEventDisappears
  <2>1. Kept(e)
      BY DEF PipelineInv, QueueInv, KeptInv
  <2>2. ASSUME NEW q \in Queues, Has(queue[q], e) PROVE e \in MQ!Waiting(Route[e])
    <3>1. PICK i \in 1 .. Len(queue[q]) : queue[q][i].event = e
        BY <2>2 DEF Has, MessagesOf
    <3>2. Route[e] = q
        BY <3>1 DEF PipelineInv, QueueInv, MessageInv, Sound, MessagesOf
    <3> QED
        BY <3>1, <3>2 DEF MQ!Waiting
  <2>3. ASSUME NEW c \in Consumers, MQ!Connected(c), Has(Open(c), e) PROVE MQ!Held(e)
    <3>1. Has(inbox[c], e)
        BY <2>3, LineTypes DEF Has, PipelineInv
    <3> QED
        BY <2>3, <3>1 DEF MQ!Held, MQ!InHands, Has, MessagesOf
  <2> QED
      BY <2>1, <2>2, <2>3 DEF Kept
<1> QED
    BY <1>1, PipelineAlways, PTL

(* A dead letter that is neither malformed nor expired failed on each of   *)
(* its MaxRetries + 1 deliveries.                                          *)
THEOREM TriedBeforeBuried == Spec => []DeadLettersWereTried
<1>1. PipelineInv => DeadLettersWereTried
    BY DEF PipelineInv, QueueInv, DeadLettersWereTried
<1> QED
    BY <1>1, PipelineAlways, PTL

(* However many goroutines of both services consume its queue, an event    *)
(* is handled at most once, and never both handled and given up, unless it *)
(* was out when a connection broke: it stands in one place at a time, and  *)
(* the message counts its failures.                                        *)
THEOREM AtMostOnce == Spec => []HandledOnce
<1>1. PipelineInv => HandledOnce
    BY DEF PipelineInv, QueueInv, HandledOnce
<1> QED
    BY <1>1, PipelineAlways, PTL

(* Every event the notification service took has its row, and only one,    *)
(* unless an INSERT lost its answer or a connection broke.                 *)
THEOREM OneRowPerEvent == Spec => []OneNotificationPerEvent
<1>1. PipelineInv => OneNotificationPerEvent
  <2> SUFFICES ASSUME PipelineInv, NEW e \in Events, e \notin doubled \cup unanswered
               PROVE  Cardinality(Notification!RowsOf(e)) <= 1
      BY DEF PipelineInv, RowsInv, OneNotificationPerEvent
  <2>1. Cardinality(Notification!RowsOf(e)) <= handled[e] /\ handled[e] <= 1 /\ handled[e] \in Nat
      BY DEF PipelineInv, RowsInv, QueueInv, MQ!HandledOnce, MQ!QueueTypeOK
  <2>2. Cardinality(Notification!RowsOf(e)) \in Nat
    <3>1. Len(rows) \in Int
        BY DEF PipelineInv, Notification!TypeOK
    <3>2. IsFiniteSet(1 .. Len(rows))
        BY <3>1, FS_Interval
    <3>3. IsFiniteSet(Notification!RowsOf(e))
        BY <3>2, FS_Subset DEF Notification!RowsOf, Notification!Ids
    <3> QED
        BY <3>3, FS_CardinalityType
  <2> QED
      BY <2>1, <2>2
<1> QED
    BY <1>1, PipelineAlways, PTL

(* The counters of a worker account for every message it took, but for     *)
(* those of other types: a manager that is up began them with the process. *)
THEOREM CountersAddUp == Spec => []MetricsAddUp
<1>1. PipelineInv => MetricsAddUp
    BY DEF PipelineInv, MetricsInv, MetricsAddUp, Passed, PassedOver
<1> QED
    BY <1>1, PipelineAlways, PTL

-----------------------------------------------------------------------------
(* NotificationService by itself, with the calls that mark and delete:     *)
(* MarkAsRead and DeleteNotification compare the user with the row in one  *)
(* statement and change the row by its id in another.                      *)

RequestRecords == [op : {"none", "read", "delete"}, user : Notification!Users \cup {0}, id : Nat]

TableInv ==
    /\ rows \in Seq(Notification!RowSet)
    /\ request \in [Requests -> RequestRecords]

(* What was compared stays true until the row is changed: rows keep their  *)
(* ids and their recipients.                                               *)
CheckedInv ==
    \A r \in Requests :
        request[r] # Notification!NoRequest =>
            /\ request[r].op \in {"read", "delete"}
            /\ request[r].id \in Notification!Ids
            /\ request[r].user = Notification!Owner(request[r].id)

(* An INSERT adds a row behind those there are. *)
LEMMA InsertAppends ==
    ASSUME TableInv, NEW e \in Events, NEW stage, Notification!Insert(e, stage)
    PROVE  /\ rows' \in Seq(Notification!RowSet)
           /\ Notification!Ids \subseteq Notification!Ids'
           /\ \A i \in Notification!Ids : rows'[i] = rows[i]
<1>1. Notification!Row(e) \in Notification!RowSet
    BY DEF Notification!Row, Notification!RowSet
<1>2. rows \in Seq(Notification!RowSet) /\ rows' = Append(rows, Notification!Row(e))
    BY DEF TableInv, Notification!Insert
<1> QED
    BY <1>1, <1>2, AppendProperties DEF Notification!Ids

(* The second statement of a call changes one row, in place. *)
LEMMA ChangeInPlace ==
    ASSUME TableInv, CheckedInv, NEW r \in Requests, Notification!Change(r)
    PROVE  /\ request[r].id \in Notification!Ids
           /\ rows' \in Seq(Notification!RowSet) /\ Notification!Ids' = Notification!Ids
           /\ \A i \in Notification!Ids :
                /\ rows'[i].event = rows[i].event
                /\ i # request[r].id => rows'[i] = rows[i]
                /\ rows'[i] # rows[i] => ~rows[i].deleted
<1> DEFINE i == request[r].id
<1>1. i \in Notification!Ids
    BY DEF CheckedInv, Notification!Change
<1>2. rows \in Seq(Notification!RowSet) /\ rows[i] \in Notification!RowSet
    BY <1>1 DEF TableInv, Notification!Ids
<1>3. CASE rows' = rows
    BY <1>1, <1>2, <1>3 DEF Notification!Ids
<1>4. ASSUME NEW row \in Notification!RowSet, rows' = [rows EXCEPT ![i] = row],
             row.event = rows[i].event,
             row # rows[i] => ~rows[i].deleted
      PROVE  /\ rows' \in Seq(Notification!RowSet) /\ Notification!Ids' = Notification!Ids
             /\ \A j \in Notification!Ids :
                  /\ rows'[j].event = rows[j].event
                  /\ j # i => rows'[j] = rows[j]
                  /\ rows'[j] # rows[j] => ~rows[j].deleted
  <2> HIDE DEF i
  <2> QED
      BY <1>1, <1>2, <1>4, ExceptSeq DEF Notification!Ids
<1>5. CASE rows' = [rows EXCEPT ![i].deleted = TRUE]
  <2>1. rows' = [rows EXCEPT ![i] = [rows[i] EXCEPT !.deleted = TRUE]]
      BY <1>5
  <2>2. /\ [rows[i] EXCEPT !.deleted = TRUE] \in Notification!RowSet
        /\ [rows[i] EXCEPT !.deleted = TRUE].event = rows[i].event
        /\ rows[i].deleted => [rows[i] EXCEPT !.deleted = TRUE] = rows[i]
      BY <1>2 DEF Notification!RowSet
  <2>3. rows[i].deleted \in BOOLEAN
      BY <1>2 DEF Notification!RowSet
  <2> QED
      BY <1>1, <1>4, <2>1, <2>2, <2>3
<1>6. CASE Notification!Live(i) /\ rows' = [rows EXCEPT ![i].read = TRUE]
  <2>1. rows' = [rows EXCEPT ![i] = [rows[i] EXCEPT !.read = TRUE]]
      BY <1>6
  <2>2. /\ [rows[i] EXCEPT !.read = TRUE] \in Notification!RowSet
        /\ [rows[i] EXCEPT !.read = TRUE].event = rows[i].event
      BY <1>2 DEF Notification!RowSet
  <2> QED
      BY <1>1, <1>4, <1>6, <2>1, <2>2 DEF Notification!Live
<1> QED
    BY <1>1, <1>3, <1>5, <1>6 DEF Notification!Change

LEMMA RowsStayInPlace ==
    ASSUME TableInv, CheckedInv, [Notification!Next]_(Notification!vars)
    PROVE  /\ rows' \in Seq(Notification!RowSet)
           /\ Notification!Ids \subseteq Notification!Ids'
           /\ \A i \in Notification!Ids : rows'[i].event = rows[i].event
<1>1. CASE UNCHANGED rows
    BY <1>1 DEF TableInv, Notification!Ids
<1>2. CASE \E e \in Events, stage \in Notification!Stages : Notification!Insert(e, stage)
    BY <1>2, InsertAppends
<1>3. CASE \E r \in Requests : Notification!Change(r)
    BY <1>3, ChangeInPlace
<1> QED
    BY <1>1, <1>2, <1>3
       DEF Notification!Next, Notification!CreateNotification, Notification!CreateFails,
           Notification!Deliver, Notification!Dies, Notification!Get,
           Notification!GetNotifications, Notification!Stages, Notification!table,
           Notification!vars

LEMMA TableStep == TableInv /\ CheckedInv /\ [Notification!Next]_(Notification!vars) => TableInv'
<1> SUFFICES ASSUME TableInv, CheckedInv, [Notification!Next]_(Notification!vars)
             PROVE  request' \in [Requests -> RequestRecords]
    BY RowsStayInPlace DEF TableInv
<1>1. ASSUME NEW r \in Requests, NEW user \in Notification!Users, NEW op \in {"read", "delete"},
             NEW i \in Notification!Ids, Notification!Get(r, user, op, i)
      PROVE  request' \in [Requests -> RequestRecords]
    BY <1>1 DEF TableInv, Notification!Get, RequestRecords, Notification!Ids
<1>2. ASSUME NEW r \in Requests, Notification!Change(r)
      PROVE  request' \in [Requests -> RequestRecords]
    BY <1>2 DEF TableInv, Notification!Change, Notification!NoRequest, RequestRecords
<1>3. CASE Notification!Dies
    BY <1>3 DEF Notification!Dies, Notification!NoRequest, RequestRecords
<1>4. CASE UNCHANGED request
    BY <1>4 DEF TableInv
<1> QED
    BY <1>1, <1>2, <1>3, <1>4
       DEF Notification!Next, Notification!CreateNotification, Notification!CreateFails,
           Notification!Deliver, Notification!GetNotifications, Notification!table,
           Notification!vars

LEMMA CheckedStep ==
    TableInv /\ CheckedInv /\ [Notification!Next]_(Notification!vars) => CheckedInv'
<1> SUFFICES ASSUME TableInv, CheckedInv, [Notification!Next]_(Notification!vars),
                    NEW r \in Requests, request'[r] # Notification!NoRequest
             PROVE  /\ request'[r].op \in {"read", "delete"}
                    /\ request'[r].id \in Notification!Ids'
                    /\ request'[r].user = Recipient[rows'[request'[r].id].event]
    BY DEF CheckedInv, Notification!Owner
<1>1. CASE request'[r] = request[r]
    BY <1>1, RowsStayInPlace DEF CheckedInv, Notification!Owner
<1>2. CASE request'[r] # request[r]
  <2>1. PICK q \in Requests, user \in Notification!Users, op \in {"read", "delete"},
             i \in Notification!Ids :
            Notification!Get(q, user, op, i)
    <3>1. ASSUME NEW q \in Requests, Notification!Change(q) PROVE FALSE
        BY <1>2, <3>1 DEF TableInv, Notification!Change
    <3>2. ~Notification!Dies /\ request' # request
        BY <1>2 DEF Notification!Dies
    <3> QED
        BY <3>1, <3>2 DEF Notification!Next, Notification!CreateNotification,
                          Notification!CreateFails, Notification!Deliver,
                          Notification!GetNotifications, Notification!table, Notification!vars
  <2>2. q = r
      BY <1>2, <2>1 DEF TableInv, Notification!Get
  <2>3. request'[r] = [op |-> op, user |-> user, id |-> i] /\ rows' = rows
      BY <2>1, <2>2 DEF TableInv, Notification!Get, Notification!table
  <2> QED
      BY <2>1, <2>2, <2>3 DEF Notification!Get, Notification!Ids, Notification!Owner
<1> QED
    BY <1>1, <1>2

(* A step that changes a row.                                              *)
LEMMA ChangesAreOwn ==
    ASSUME TableInv, CheckedInv, [Notification!Next]_(Notification!vars),
           NEW i \in Notification!Ids, rows'[i] # rows[i]
    PROVE  /\ ~rows[i].deleted
           /\ \E r \in Requests : request[r].id = i /\ request[r].user = Notification!Owner(i)
                                  /\ request'[r] # request[r]
<1>1. PICK r \in Requests : Notification!Change(r)
  <2>1. \A e \in Events, stage \in Notification!Stages :
           Notification!Insert(e, stage) => rows'[i] = rows[i]
      BY InsertAppends
  <2> QED
      BY <2>1 DEF Notification!Next, Notification!CreateNotification, Notification!CreateFails,
                  Notification!Deliver, Notification!Dies, Notification!Get,
                  Notification!GetNotifications, Notification!Stages, Notification!table,
                  Notification!vars
<1>2. request[r].id = i /\ ~rows[i].deleted
    BY <1>1, ChangeInPlace
<1>3. request[r].user = Notification!Owner(i)
    BY <1>1, <1>2 DEF CheckedInv, Notification!Change
<1>4. request'[r] # request[r]
    BY <1>1 DEF TableInv, Notification!Change
<1> QED
    BY <1>2, <1>3, <1>4

(* Only calls of the recipient change a row, and none changes what another *)
(* call has deleted since the first one looked.                            *)
THEOREM RecipientsOnly == Notification!Spec => Notification!OnlyRecipientsChange
<1>1. Notification!Init => TableInv /\ CheckedInv
    BY DEF Notification!Init, TableInv, CheckedInv, Notification!NoRequest, RequestRecords
<1>2. TableInv /\ CheckedInv /\ [Notification!Next]_(Notification!vars) => (TableInv /\ CheckedInv)'
    BY TableStep, CheckedStep
<1>3. TableInv /\ CheckedInv /\ [Notification!Next]_(Notification!vars)
      => [\A i \in Notification!Ids :
            rows'[i] # rows[i] =>
                /\ ~rows[i].deleted
                /\ \E r \in Requests : request[r].id = i /\ request[r].user = Notification!Owner(i)
                                       /\ request'[r] # request[r]]_(Notification!vars)
    BY ChangesAreOwn
<1> QED
    BY <1>1, <1>2, <1>3, PTL DEF Notification!Spec, Notification!OnlyRecipientsChange
=============================================================================
