------------------------- MODULE TimelineCacheProofs -------------------------
(***************************************************************************)
(* What a client that goes from page to page of a timeline is shown, for   *)
(* any posts, page size and number of changes: nothing twice, and          *)
(* everything that stays.                                                  *)
(***************************************************************************)
EXTENDS TimelineCache, FiniteSetTheorems, WellFoundedInduction, TLAPS

(* The page, the cursor and the score in between: while a page is under    *)
(* way, its posts have at least its last score, which is under the cursor. *)
PageInv ==
    /\ scroll.pc \in {"ready", "ended"} => scroll.page = {}
    /\ scroll.pc \in {"score", "posts"} =>
         /\ scroll.last \in Posts /\ scroll.score > 0
         /\ scroll.cursor > 0 => scroll.score < scroll.cursor
         /\ \A p \in scroll.page \ moved : timeline[p] = 0 \/ timeline[p] >= scroll.score

(* What was shown, and was not written again, is gone or at the cursor or  *)
(* above it.                                                               *)
ShownInv ==
    ~torn /\ scroll.pc # "ended" =>
      \A p \in scroll.shown \ moved :
          timeline[p] = 0 \/ (scroll.cursor > 0 /\ timeline[p] >= scroll.cursor)

(* What stayed, and was neither shown nor passed over, is still ahead.     *)
StayedInv ==
    ~torn =>
      \A p \in stayed \ (scroll.shown \cup tied) :
          /\ scroll.pc # "ended"
          /\ scroll.cursor > 0 => timeline[p] < scroll.cursor
          /\ scroll.pc \in {"score", "posts"} =>
               p \in scroll.page \cup scroll.rest \/ timeline[p] < scroll.score

CacheInv == TypeOK /\ PageInv /\ ShownInv /\ StayedInv /\ NothingTwice

-----------------------------------------------------------------------------
(* The order of a sorted set: it is total, and a finite set of members has *)
(* a lowest and a highest one.                                             *)
LEMMA OrderIsTotal ==
    ASSUME NEW tl \in Timelines
    PROVE  /\ \A p \in Posts : ~Before(tl, p, p)
           /\ \A p, q \in Posts : p = q \/ Before(tl, p, q) \/ Before(tl, q, p)
           /\ \A p, q, r \in Posts : Before(tl, p, q) /\ Before(tl, q, r) => Before(tl, p, r)
<1>1. \A p \in Posts : tl[p] \in Nat /\ TextRank[p] \in Nat
    BY ZSetAssumption DEF Timelines
<1>2. \A p, q \in Posts : TextRank[p] = TextRank[q] => p = q
    BY ZSetAssumption
<1> QED
    BY <1>1, <1>2 DEF Before

(* Among finitely many sets of posts one has no other below it.           *)
LEMMA SomethingMinimal ==
    ASSUME NEW T, T \subseteq SUBSET Posts, T # {}
    PROVE  \E A \in T : \A B \in T : ~(B \subseteq A /\ B # A)
<1>1. IsWellFoundedOn(StrictSubsetOrdering(Posts), SUBSET Posts)
    BY FS_StrictSubsetOrderingWellFounded, FS_FiniteSubsetsOfFinite, ZSetAssumption
<1>2. PICK A \in T : \A B \in T : <<B, A>> \notin StrictSubsetOrdering(Posts)
    BY <1>1, WFMin
<1> QED
    BY <1>2 DEF StrictSubsetOrdering

LEMMA LowestExists ==
    ASSUME NEW tl \in Timelines, NEW S \in SUBSET Posts, S # {}
    PROVE  \E p \in S : \A q \in S : q = p \/ Before(tl, p, q)
<1> DEFINE Lower(p) == {q \in S : Before(tl, q, p)}
<1>1. PICK p \in S : \A q \in S : ~(Lower(q) \subseteq Lower(p) /\ Lower(q) # Lower(p))
  <2> DEFINE T == {Lower(p) : p \in S}
  <2>1. PICK A \in T : \A B \in T : ~(B \subseteq A /\ B # A)
    <3>1. T \subseteq SUBSET Posts /\ T # {}
        OBVIOUS
    <3> HIDE DEF T
    <3> QED
        BY <3>1, SomethingMinimal
  <2>2. PICK p \in S : A = Lower(p)
      BY <2>1
  <2>3. \A q \in S : Lower(q) \in T
      OBVIOUS
  <2> HIDE DEF T, Lower
  <2> QED
      BY <2>1, <2>2, <2>3
<1>2. ASSUME NEW q \in S, Before(tl, q, p) PROVE FALSE
  <2>1. Lower(q) \subseteq Lower(p)
      BY <1>2, OrderIsTotal
  <2>2. q \in Lower(p) /\ q \notin Lower(q)
      BY <1>2, OrderIsTotal
  <2> QED
      BY <1>1, <2>1, <2>2
<1> QED
    BY <1>2, OrderIsTotal

LEMMA HighestExists ==
    ASSUME NEW tl \in Timelines, NEW S \in SUBSET Posts, S # {}
    PROVE  \E p \in S : \A q \in S : ~Before(tl, p, q)
<1> DEFINE Higher(p) == {q \in S : Before(tl, p, q)}
<1>1. PICK p \in S : \A q \in S : ~(Higher(q) \subseteq Higher(p) /\ Higher(q) # Higher(p))
  <2> DEFINE T == {Higher(p) : p \in S}
  <2>1. PICK A \in T : \A B \in T : ~(B \subseteq A /\ B # A)
    <3>1. T \subseteq SUBSET Posts /\ T # {}
        OBVIOUS
    <3> HIDE DEF T
    <3> QED
        BY <3>1, SomethingMinimal
  <2>2. PICK p \in S : A = Higher(p)
      BY <2>1
  <2>3. \A q \in S : Higher(q) \in T
      OBVIOUS
  <2> HIDE DEF T, Higher
  <2> QED
      BY <2>1, <2>2, <2>3
<1>2. ASSUME NEW q \in S, Before(tl, p, q) PROVE FALSE
  <2>1. Higher(q) \subseteq Higher(p)
      BY <1>2, OrderIsTotal
  <2>2. q \in Higher(p) /\ q \notin Higher(q)
      BY <1>2, OrderIsTotal
  <2> QED
      BY <1>1, <2>1, <2>2
<1> QED
    BY <1>2

(* A page has a last post, and everything that is left of the members it   *)
(* was taken from is at most as high as that.                              *)
LEMMA PageOfHighest ==
    ASSUME NEW tl \in Timelines, NEW S \in SUBSET Posts, S # {}
    PROVE  LET page == FirstHighest(tl, S)
               last == LastOf(tl, page)
           IN  /\ page \subseteq S /\ last \in page
               /\ \A p \in page : tl[p] >= tl[last]
               /\ \A p \in S \ page : tl[p] <= tl[last]
<1> DEFINE Higher(p) == {q \in S : Before(tl, p, q)}
           page == FirstHighest(tl, S)
           last == LastOf(tl, page)
<1>1. \A p \in Posts : tl[p] \in Nat
    BY DEF Timelines
<1>2. page \subseteq S /\ page = {p \in S : Cardinality(Higher(p)) < Limit}
    BY DEF FirstHighest
<1>3. page # {}
  <2>1. PICK p \in S : \A q \in S : ~Before(tl, p, q)
      BY HighestExists
  <2>2. Higher(p) = {}
      BY <2>1
  <2>3. Cardinality(Higher(p)) < Limit
      BY <2>2, FS_EmptySet, CacheAssumption
  <2> QED
      BY <1>2, <2>3
<1>4. last \in page /\ \A q \in page : q = last \/ Before(tl, last, q)
  <2>1. \E p \in page : \A q \in page : q = p \/ Before(tl, p, q)
      BY <1>2, <1>3, LowestExists
  <2> QED
      BY <2>1 DEF LastOf
<1>5. ASSUME NEW p \in page PROVE tl[p] >= tl[last]
  <2> HIDE DEF page, last
  <2> QED
      BY <1>1, <1>2, <1>4, <1>5 DEF Before
<1>6. ASSUME NEW p \in S, Before(tl, last, p) PROVE p \in page
  <2>1. Higher(p) \subseteq Higher(last)
      BY <1>2, <1>4, <1>6, OrderIsTotal
  <2>2. IsFiniteSet(Higher(last))
      BY ZSetAssumption, FS_Subset
  <2>3. /\ Cardinality(Higher(p)) \in Nat /\ Cardinality(Higher(last)) \in Nat
        /\ Cardinality(Higher(p)) <= Cardinality(Higher(last))
      BY <2>1, <2>2, FS_Subset, FS_CardinalityType
  <2>4. Cardinality(Higher(last)) < Limit
      BY <1>2, <1>4
  <2>5. Cardinality(Higher(p)) < Limit
      BY <2>3, <2>4, CacheAssumption
  <2> QED
      BY <1>2, <2>5
<1>7. ASSUME NEW p \in S \ page PROVE tl[p] <= tl[last]
  <2>1. Before(tl, p, last)
      BY <1>2, <1>4, <1>6, <1>7, OrderIsTotal
  <2> QED
      BY <1>1, <1>2, <1>4, <2>1 DEF Before
<1> QED
    BY <1>2, <1>4, <1>5, <1>7

-----------------------------------------------------------------------------
(* A step of the other services.  What keeps its score stays; what changes *)
(* it is gone, or was written since the scroll began.                      *)
OthersStep ==
    \/ \E p \in Posts, second \in 1 .. now : AddPostToTimelines(p, second)
    \/ \E p \in Posts : RemoveFromTimelines(p)
    \/ TrimTimeline
    \/ Expires

LEMMA OthersKeep ==
    ASSUME TypeOK, OthersStep
    PROVE  /\ timeline' \in [Posts -> 0 .. now] /\ now' = now
           /\ changes' \in 0 .. MaxChanges
           /\ scroll' = scroll /\ tied' = tied /\ torn' = torn
           /\ moved \subseteq moved' /\ moved' \subseteq Posts
           /\ stayed' = {p \in stayed : timeline'[p] = timeline[p]}
           /\ \A p \in Posts \ moved' : timeline'[p] \in {timeline[p], 0}
<1> USE CacheAssumption DEF TypeOK
<1>1. ASSUME NEW p \in Posts, NEW second \in 1 .. now, AddPostToTimelines(p, second)
      PROVE  /\ timeline' \in [Posts -> 0 .. now] /\ moved' = moved \cup {p}
             /\ \A q \in Posts \ {p} : timeline'[q] = timeline[q]
    BY <1>1 DEF AddPostToTimelines, Becomes, ZAdd
<1>2. ASSUME NEW p \in Posts, RemoveFromTimelines(p)
      PROVE  /\ timeline' \in [Posts -> 0 .. now] /\ moved' = moved
             /\ \A q \in Posts : timeline'[q] \in {timeline[q], 0}
    BY <1>2 DEF RemoveFromTimelines, Becomes, ZRem
<1>3. CASE TrimTimeline
    BY <1>3 DEF TrimTimeline, Becomes, Trim
<1>4. CASE Expires
    BY <1>4 DEF Expires, Becomes, NoTimeline
<1>5. ASSUME NEW p \in Posts, NEW second \in 1 .. now, AddPostToTimelines(p, second)
      PROVE  /\ changes' \in 0 .. MaxChanges /\ now' = now
             /\ scroll' = scroll /\ tied' = tied /\ torn' = torn
             /\ stayed' = {q \in stayed : timeline'[q] = timeline[q]}
    BY <1>5 DEF AddPostToTimelines, Becomes
<1>6. ASSUME NEW p \in Posts, RemoveFromTimelines(p)
      PROVE  /\ changes' \in 0 .. MaxChanges /\ now' = now
             /\ scroll' = scroll /\ tied' = tied /\ torn' = torn
             /\ stayed' = {q \in stayed : timeline'[q] = timeline[q]}
    BY <1>6 DEF RemoveFromTimelines, Becomes
<1>7. CASE \E p \in Posts, second \in 1 .. now : AddPostToTimelines(p, second)
    BY <1>1, <1>5, <1>7
<1>8. CASE \E p \in Posts : RemoveFromTimelines(p)
    BY <1>2, <1>6, <1>8
<1> QED
    BY <1>3, <1>4, <1>7, <1>8 DEF OthersStep

LEMMA OthersNext ==
    ASSUME CacheInv, OthersStep
    PROVE  CacheInv'
<1>1. TypeOK /\ PageInv /\ ShownInv /\ StayedInv /\ NothingTwice
    BY DEF CacheInv
<1>2. /\ timeline' \in [Posts -> 0 .. now] /\ now' = now
      /\ changes' \in 0 .. MaxChanges
      /\ scroll' = scroll /\ tied' = tied /\ torn' = torn
      /\ moved \subseteq moved' /\ moved' \subseteq Posts
      /\ stayed' = {p \in stayed : timeline'[p] = timeline[p]}
      /\ \A p \in Posts \ moved' : timeline'[p] \in {timeline[p], 0}
    BY <1>1, OthersKeep
<1>3. TypeOK'
    BY <1>1, <1>2 DEF TypeOK, Members
<1>4. scroll.page \subseteq Posts /\ scroll.shown \subseteq Posts
    BY <1>1 DEF TypeOK, Scrolls
<1>5. PageInv'
    BY <1>1, <1>2, <1>4 DEF PageInv
<1>6. ShownInv'
    BY <1>1, <1>2, <1>4 DEF ShownInv
<1>7. StayedInv'
    BY <1>1, <1>2 DEF StayedInv
<1>8. NothingTwice'
    BY <1>1, <1>2 DEF NothingTwice
<1> QED
    BY <1>3, <1>5, <1>6, <1>7, <1>8 DEF CacheInv

-----------------------------------------------------------------------------
(* The scroll, step by step. *)

(* What makes a scroll.                                                    *)
LEMMA ScrollType ==
    ASSUME NEW pc \in {"ready", "score", "posts", "ended"}, NEW cursor \in 0 .. MaxTime,
           NEW page \in SUBSET Posts, NEW last \in Posts \cup {0}, NEW score \in 0 .. MaxTime,
           NEW rest \in SUBSET Posts, NEW next \in 0 .. MaxTime, NEW shown \in SUBSET Posts
    PROVE  [pc |-> pc, cursor |-> cursor, page |-> page, last |-> last, score |-> score,
            rest |-> rest, next |-> next, shown |-> shown] \in Scrolls
BY DEF Scrolls

LEMMA TopChange ==
    ASSUME NEW pc, NEW cursor, NEW shown
    PROVE  /\ [Top EXCEPT !.pc = pc, !.cursor = cursor, !.shown = shown] =
                [pc |-> pc, cursor |-> cursor, page |-> {}, last |-> 0, score |-> 0,
                 rest |-> {}, next |-> 0, shown |-> shown]
           /\ [Top EXCEPT !.cursor = cursor, !.shown = shown] =
                [pc |-> "ready", cursor |-> cursor, page |-> {}, last |-> 0, score |-> 0,
                 rest |-> {}, next |-> 0, shown |-> shown]
<1> DEFINE a == [Top EXCEPT !.pc = pc]
           b == [a EXCEPT !.cursor = cursor]
           c == [Top EXCEPT !.cursor = cursor]
<1>1. a = [pc |-> pc, cursor |-> 0, page |-> {}, last |-> 0, score |-> 0,
           rest |-> {}, next |-> 0, shown |-> {}]
    BY DEF Top
<1>2. c = [pc |-> "ready", cursor |-> cursor, page |-> {}, last |-> 0, score |-> 0,
           rest |-> {}, next |-> 0, shown |-> {}]
    BY DEF Top
<1>3. /\ [Top EXCEPT !.pc = pc, !.cursor = cursor, !.shown = shown] = [b EXCEPT !.shown = shown]
      /\ [Top EXCEPT !.cursor = cursor, !.shown = shown] = [c EXCEPT !.shown = shown]
    OBVIOUS
<1>4. [c EXCEPT !.shown = shown] =
        [pc |-> "ready", cursor |-> cursor, page |-> {}, last |-> 0, score |-> 0,
         rest |-> {}, next |-> 0, shown |-> shown]
  <2> HIDE DEF c
  <2> QED
      BY <1>2
<1>5. b = [pc |-> pc, cursor |-> cursor, page |-> {}, last |-> 0, score |-> 0,
           rest |-> {}, next |-> 0, shown |-> {}]
  <2> HIDE DEF a
  <2> QED
      BY <1>1
<1>6. [b EXCEPT !.shown = shown] =
        [pc |-> pc, cursor |-> cursor, page |-> {}, last |-> 0, score |-> 0,
         rest |-> {}, next |-> 0, shown |-> shown]
  <2> HIDE DEF b
  <2> QED
      BY <1>5
<1> QED
    BY <1>3, <1>4, <1>6

LEMMA TopType ==
    ASSUME NEW pc \in {"ready", "ended"}, NEW cursor \in 0 .. MaxTime, NEW shown \in SUBSET Posts,
           NEW s, s = [pc |-> pc, cursor |-> cursor, page |-> {}, last |-> 0, score |-> 0,
                       rest |-> {}, next |-> 0, shown |-> shown]
    PROVE  /\ s \in Scrolls
           /\ s.pc = pc /\ s.page = {} /\ s.cursor = cursor /\ s.shown = shown
<1>1. 0 \in 0 .. MaxTime
    BY CacheAssumption
<1>2. s \in Scrolls
    BY <1>1, ScrollType
<1> QED
    BY <1>2

LEMMA InitCache == Init => CacheInv
<1> SUFFICES ASSUME Init PROVE CacheInv
    OBVIOUS
<1>1. TypeOK
  <2>1. 0 \in 0 .. MaxTime /\ {} \in SUBSET Posts
      BY CacheAssumption
  <2>2. scroll \in Scrolls
      BY <2>1, ScrollType DEF Init, Top
  <2>3. /\ timeline \in [Posts -> 0 .. now] /\ now \in 1 .. MaxTime
        /\ stayed \subseteq Members(timeline)
      BY DEF Init
  <2>4. changes = 0 /\ moved = {} /\ tied = {} /\ torn = FALSE
      BY DEF Init
  <2>5. 0 \in 0 .. MaxChanges
      BY CacheAssumption
  <2> QED
      BY <2>2, <2>3, <2>4, <2>5 DEF TypeOK
<1>2. PageInv
    BY DEF Init, PageInv, Top
<1>3. ShownInv /\ StayedInv /\ NothingTwice
    BY DEF ShownInv, StayedInv, NothingTwice, Init, Top
<1> QED
    BY <1>1, <1>2, <1>3 DEF CacheInv

(* A new page: what was shown is not below the cursor, what is left is at  *)
(* most as high as the last post of the page.                              *)
LEMMA GetPostIDsNext ==
    ASSUME CacheInv, GetPostIDs
    PROVE  CacheInv'
<1> DEFINE S == Below(timeline, scroll.cursor)
           page == FirstHighest(timeline, S)
           last == LastOf(timeline, page)
           rest == {p \in S \ page : timeline[p] = timeline[last]}
<1>1. /\ TypeOK /\ PageInv /\ ShownInv /\ StayedInv /\ NothingTwice
      /\ scroll.pc = "ready"
      /\ scroll \in Scrolls /\ timeline \in [Posts -> 0 .. now] /\ now \in 1 .. MaxTime
      /\ timeline \in Timelines
    BY CacheAssumption DEF CacheInv, GetPostIDs, TypeOK, Timelines
<1>2. UNCHANGED <<timeline, now, changes, moved, stayed, tied, torn>>
    BY DEF GetPostIDs, history
<1>3. S \in SUBSET Posts /\ \A p \in S : timeline[p] # 0
    BY DEF Below, Members
<1>4. \A p \in S : scroll.cursor > 0 => timeline[p] < scroll.cursor
    BY DEF Below
<1>5. \A p \in Posts \ S : timeline[p] # 0 => scroll.cursor > 0 /\ ~(timeline[p] < scroll.cursor)
    BY DEF Below, Members
<1>6. stayed \subseteq Posts /\ \A p \in stayed : timeline[p] # 0
    BY <1>1 DEF TypeOK, Members
<1>7. CASE S = {}
  <2>1. scroll' = [scroll EXCEPT !.pc = "ended"]
      BY <1>7 DEF GetPostIDs
  <2>2. /\ scroll' \in Scrolls /\ scroll'.pc = "ended" /\ scroll'.page = {}
        /\ scroll'.shown = scroll.shown
      BY <1>1, <2>1 DEF Scrolls, PageInv
  <2>3. TypeOK'
      BY <1>1, <1>2, <2>2 DEF TypeOK, Members
  <2>4. PageInv' /\ ShownInv' /\ NothingTwice'
      BY <2>2 DEF PageInv, ShownInv, NothingTwice
  <2>5. StayedInv'
    <3> SUFFICES ASSUME ~torn, NEW p \in stayed, p \notin scroll.shown \cup tied PROVE FALSE
        BY <1>2, <2>2 DEF StayedInv
    <3>1. scroll.cursor > 0 => timeline[p] < scroll.cursor
        BY <1>1 DEF StayedInv
    <3> QED
        BY <1>5, <1>6, <1>7, <3>1
  <2> QED
      BY <2>3, <2>4, <2>5 DEF CacheInv
<1>8. CASE S # {}
  <2>1. /\ page \subseteq S /\ last \in page
        /\ \A p \in page : timeline[p] >= timeline[last]
        /\ \A p \in S \ page : timeline[p] <= timeline[last]
      BY <1>1, <1>3, <1>8, PageOfHighest
  <2>2. scroll' = [scroll EXCEPT !.pc = "score", !.page = page, !.last = last,
                                 !.score = timeline[last], !.rest = rest]
      BY <1>8 DEF GetPostIDs
  <2>3. rest = {p \in S \ page : timeline[p] = timeline[last]}
      OBVIOUS
  <2> HIDE DEF S, page, last, rest
  <2>4. /\ last \in Posts /\ timeline[last] \in 1 .. MaxTime
        /\ page \subseteq Posts /\ rest \subseteq Posts
      BY <1>1, <1>3, <2>1, <2>3, CacheAssumption
  <2>5. /\ scroll'.pc = "score" /\ scroll'.page = page /\ scroll'.last = last
        /\ scroll'.score = timeline[last] /\ scroll'.rest = rest
        /\ scroll'.cursor = scroll.cursor /\ scroll'.shown = scroll.shown
      BY <1>1, <2>2 DEF Scrolls
  <2>6. scroll' \in Scrolls
    <3>1. /\ scroll.cursor \in 0 .. MaxTime /\ scroll.next \in 0 .. MaxTime
          /\ scroll.shown \in SUBSET Posts
        BY <1>1 DEF Scrolls
    <3>2. scroll' = [pc |-> "score", cursor |-> scroll.cursor, page |-> page, last |-> last,
                     score |-> timeline[last], rest |-> rest, next |-> scroll.next,
                     shown |-> scroll.shown]
        BY <1>1, <2>2 DEF Scrolls
    <3>3. timeline[last] \in 0 .. MaxTime
        BY <2>4
    <3> QED
        BY <2>4, <3>1, <3>2, <3>3, ScrollType
  <2>7. TypeOK'
      BY <1>1, <1>2, <2>6 DEF TypeOK, Members
  <2>8. PageInv'
      BY <1>2, <1>4, <2>1, <2>4, <2>5 DEF PageInv
  <2>9. ShownInv'
      BY <1>1, <1>2, <2>5 DEF ShownInv
  <2>10. StayedInv'
    <3> SUFFICES ASSUME ~torn, NEW p \in stayed, p \notin scroll.shown \cup tied
                 PROVE  /\ scroll.cursor > 0 => timeline[p] < scroll.cursor
                        /\ p \in page \cup rest \/ timeline[p] < timeline[last]
        BY <1>2, <2>5 DEF StayedInv
    <3>1. scroll.cursor > 0 => timeline[p] < scroll.cursor
        BY <1>1 DEF StayedInv
    <3>2. p \in S
        BY <1>5, <1>6, <3>1
    <3>3. p \in Posts /\ timeline[p] \in Nat
        BY <1>1, <1>6
    <3> QED
        BY <2>1, <2>3, <2>4, <3>1, <3>2, <3>3
  <2>11. NothingTwice'
    <3> SUFFICES ASSUME ~torn, NEW p \in page, p \in scroll.shown, p \notin moved PROVE FALSE
        BY <1>2, <2>5 DEF NothingTwice
    <3>1. timeline[p] = 0 \/ (scroll.cursor > 0 /\ timeline[p] >= scroll.cursor)
        BY <1>1 DEF ShownInv
    <3>2. p \in S /\ timeline[p] \in Nat /\ scroll.cursor \in Nat
        BY <1>1, <1>3, <2>1 DEF Scrolls
    <3> QED
        BY <1>3, <1>4, <3>1, <3>2
  <2> QED
      BY <2>7, <2>8, <2>9, <2>10, <2>11 DEF CacheInv
<1> QED
    BY <1>7, <1>8

LEMMA GetScoreNext ==
    ASSUME CacheInv, GetScore
    PROVE  CacheInv'
<1>1. /\ TypeOK /\ PageInv /\ ShownInv /\ StayedInv /\ NothingTwice
      /\ scroll.pc = "score" /\ scroll \in Scrolls
      /\ timeline \in [Posts -> 0 .. now] /\ now \in 1 .. MaxTime
      /\ scroll.last \in Posts
    BY DEF CacheInv, GetScore, TypeOK, PageInv
<1>2. UNCHANGED <<timeline, now, moved, stayed, tied, torn>>
    BY DEF GetScore, history
<1>3. PICK n \in 0 .. MaxTime : scroll' = [scroll EXCEPT !.pc = "posts", !.next = n]
  <2>1. timeline[scroll.last] \in 0 .. MaxTime /\ 0 \in 0 .. MaxTime
      BY <1>1, CacheAssumption
  <2> QED
      BY <2>1 DEF GetScore
<1>4. /\ scroll' \in Scrolls /\ scroll'.pc = "posts" /\ scroll'.page = scroll.page
      /\ scroll'.last = scroll.last /\ scroll'.score = scroll.score
      /\ scroll'.rest = scroll.rest /\ scroll'.cursor = scroll.cursor
      /\ scroll'.shown = scroll.shown
    BY <1>1, <1>3 DEF Scrolls
<1>5. changes' \in 0 .. MaxChanges
    BY <1>1, CacheAssumption DEF GetScore, TypeOK
<1>6. TypeOK'
    BY <1>1, <1>2, <1>4, <1>5 DEF TypeOK, Members
<1>7. PageInv' /\ ShownInv'
    BY <1>1, <1>2, <1>4 DEF PageInv, ShownInv
<1>8. StayedInv' /\ NothingTwice'
    BY <1>1, <1>2, <1>4 DEF StayedInv, NothingTwice
<1> QED
    BY <1>6, <1>7, <1>8 DEF CacheInv

(* The page is shown; the cursor becomes the score it ended at, or the     *)
(* scroll is torn.                                                         *)
LEMMA GetPostsByIDsNext ==
    ASSUME CacheInv, GetPostsByIDs
    PROVE  CacheInv'
<1>1. /\ TypeOK /\ PageInv /\ ShownInv /\ StayedInv /\ NothingTwice
      /\ scroll.pc = "posts" /\ scroll \in Scrolls
      /\ timeline \in [Posts -> 0 .. now] /\ now \in 1 .. MaxTime
    BY DEF CacheInv, GetPostsByIDs, TypeOK
<1>2. /\ UNCHANGED <<timeline, now, changes, moved, stayed>>
      /\ tied' = tied \cup scroll.rest
      /\ torn' = (torn \/ scroll.next # scroll.score)
    BY DEF GetPostsByIDs
<1>3. /\ scroll.shown \subseteq Posts /\ scroll.page \subseteq Posts /\ scroll.rest \subseteq Posts
      /\ scroll.next \in 0 .. MaxTime /\ scroll.cursor \in 0 .. MaxTime
      /\ scroll.score \in 0 .. MaxTime
    BY <1>1 DEF Scrolls
<1>4. /\ scroll' \in Scrolls /\ scroll'.page = {} /\ scroll'.cursor = scroll.next
      /\ scroll'.pc = (IF scroll.next = 0 THEN "ended" ELSE "ready")
      /\ scroll'.shown = scroll.shown \cup scroll.page
  <2> DEFINE pc == IF scroll.next = 0 THEN "ended" ELSE "ready"
             shown == scroll.shown \cup scroll.page
  <2>1. scroll' = [pc |-> pc, cursor |-> scroll.next, page |-> {}, last |-> 0, score |-> 0,
                   rest |-> {}, next |-> 0, shown |-> shown]
      BY TopChange DEF GetPostsByIDs
  <2>2. pc \in {"ready", "ended"} /\ shown \in SUBSET Posts
      BY <1>3
  <2> HIDE DEF pc, shown
  <2>3. /\ scroll' \in Scrolls
        /\ scroll'.pc = pc /\ scroll'.page = {} /\ scroll'.cursor = scroll.next
        /\ scroll'.shown = shown
      BY <1>3, <2>1, <2>2, TopType
  <2> QED
      BY <2>3 DEF pc, shown
<1>5. TypeOK'
    BY <1>1, <1>2, <1>3, <1>4 DEF TypeOK, Members
<1>6. PageInv' /\ NothingTwice'
    BY <1>4 DEF PageInv, NothingTwice
<1>7. ~torn' => scroll.next = scroll.score /\ ~torn /\ scroll.score > 0
    BY <1>1, <1>2 DEF PageInv
<1>8. ShownInv'
  <2> SUFFICES ASSUME ~torn', NEW p \in scroll.shown \cup scroll.page, p \notin moved
               PROVE  timeline[p] = 0 \/ (scroll.score > 0 /\ timeline[p] >= scroll.score)
      BY <1>2, <1>4, <1>7 DEF ShownInv
  <2>1. CASE p \in scroll.page
      BY <1>1, <1>7, <2>1 DEF PageInv
  <2>2. CASE p \in scroll.shown
    <3>1. timeline[p] = 0 \/ (scroll.cursor > 0 /\ timeline[p] >= scroll.cursor)
        BY <1>1, <1>7, <2>2 DEF ShownInv
    <3>2. scroll.cursor > 0 => scroll.score < scroll.cursor
        BY <1>1 DEF PageInv
    <3>3. timeline[p] \in Nat
        BY <1>1, <1>3
    <3> QED
        BY <1>3, <1>7, <3>1, <3>2, <3>3
  <2> QED
      BY <2>1, <2>2
<1>9. StayedInv'
  <2> SUFFICES ASSUME ~torn', NEW p \in stayed, p \notin scroll.shown, p \notin scroll.page,
                      p \notin tied, p \notin scroll.rest
               PROVE  timeline[p] < scroll.score
      BY <1>2, <1>4, <1>7 DEF StayedInv
  <2> QED
      BY <1>1, <1>7 DEF StayedInv
<1> QED
    BY <1>5, <1>6, <1>8, <1>9 DEF CacheInv

LEMMA GetFailsNext ==
    ASSUME CacheInv, GetFails
    PROVE  CacheInv'
<1>1. /\ TypeOK /\ PageInv /\ ShownInv /\ StayedInv /\ NothingTwice
      /\ scroll.pc \in {"ready", "posts"} /\ scroll \in Scrolls
    BY DEF CacheInv, GetFails, TypeOK
<1>2. UNCHANGED <<timeline, now, moved, stayed, tied, torn>>
    BY DEF GetFails, history
<1>4. /\ scroll' \in Scrolls /\ scroll'.page = {} /\ scroll'.cursor = scroll.cursor
      /\ scroll'.pc = "ready" /\ scroll'.shown = scroll.shown
  <2>1. scroll.cursor \in 0 .. MaxTime /\ scroll.shown \in SUBSET Posts
      BY <1>1 DEF Scrolls
  <2>2. scroll' = [pc |-> "ready", cursor |-> scroll.cursor, page |-> {}, last |-> 0,
                   score |-> 0, rest |-> {}, next |-> 0, shown |-> scroll.shown]
      BY TopChange DEF GetFails
  <2> QED
      BY <2>1, <2>2, TopType
<1>5. changes' \in 0 .. MaxChanges
    BY <1>1, CacheAssumption DEF GetFails, TypeOK
<1>6. TypeOK'
    BY <1>1, <1>2, <1>4, <1>5 DEF TypeOK, Members
<1>7. PageInv' /\ NothingTwice'
    BY <1>4 DEF PageInv, NothingTwice
<1>8. ShownInv' /\ StayedInv'
    BY <1>1, <1>2, <1>4 DEF ShownInv, StayedInv
<1> QED
    BY <1>6, <1>7, <1>8 DEF CacheInv

LEMMA RestartNext ==
    ASSUME CacheInv, Restart
    PROVE  CacheInv'
<1>1. TypeOK
    BY DEF CacheInv
<1>2. /\ UNCHANGED <<timeline, now, changes>>
      /\ moved' = {} /\ tied' = {} /\ torn' = FALSE /\ stayed' = Members(timeline)
      /\ scroll' = Top
    BY DEF Restart
<1>3. /\ scroll' \in Scrolls /\ scroll'.page = {} /\ scroll'.cursor = 0
      /\ scroll'.pc = "ready" /\ scroll'.shown = {}
    BY <1>2, CacheAssumption DEF Top, Scrolls
<1>4. TypeOK'
    BY <1>1, <1>2, <1>3 DEF TypeOK, Members
<1>5. PageInv' /\ NothingTwice' /\ ShownInv' /\ StayedInv'
    BY <1>3 DEF PageInv, NothingTwice, ShownInv, StayedInv
<1> QED
    BY <1>4, <1>5 DEF CacheInv

LEMMA TickNext ==
    ASSUME CacheInv, Tick
    PROVE  CacheInv'
<1>1. TypeOK /\ PageInv /\ ShownInv /\ StayedInv /\ NothingTwice
    BY DEF CacheInv
<1>2. UNCHANGED <<timeline, changes, scroll, moved, stayed, tied, torn>> /\ now' = now + 1
      /\ now < MaxTime
    BY DEF Tick, history
<1>3. TypeOK'
    BY <1>1, <1>2, CacheAssumption DEF TypeOK, Members
<1>4. PageInv' /\ ShownInv' /\ StayedInv' /\ NothingTwice'
    BY <1>1, <1>2 DEF PageInv, ShownInv, StayedInv, NothingTwice
<1> QED
    BY <1>3, <1>4 DEF CacheInv

LEMMA UnchangedNext ==
    ASSUME CacheInv, UNCHANGED vars
    PROVE  CacheInv'
BY DEF CacheInv, TypeOK, PageInv, ShownInv, StayedInv, NothingTwice, Members, vars, history

LEMMA CacheInductive == CacheInv /\ [Next]_vars => CacheInv'
<1> SUFFICES ASSUME CacheInv, [Next]_vars PROVE CacheInv'
    OBVIOUS
<1>1. CASE OthersStep
    BY <1>1, OthersNext
<1>2. CASE GetPostIDs
    BY <1>2, GetPostIDsNext
<1>3. CASE GetScore
    BY <1>3, GetScoreNext
<1>4. CASE GetPostsByIDs
    BY <1>4, GetPostsByIDsNext
<1>5. CASE GetFails
    BY <1>5, GetFailsNext
<1>6. CASE Restart
    BY <1>6, RestartNext
<1>7. CASE Tick
    BY <1>7, TickNext
<1>8. CASE UNCHANGED vars
    BY <1>8, UnchangedNext
<1> QED
    BY <1>1, <1>2, <1>3, <1>4, <1>5, <1>6, <1>7, <1>8 DEF Next, OthersStep

LEMMA CacheInvariant == Spec => []CacheInv
BY InitCache, CacheInductive, PTL DEF Spec

(* Every variable of the scroll keeps its type.                            *)
THEOREM TypeCorrect == Spec => []TypeOK
<1>1. CacheInv => TypeOK
    BY DEF CacheInv
<1> QED
    BY <1>1, CacheInvariant, PTL

(* A page names a post of an earlier page only if a fan-out wrote the post *)
(* again meanwhile, or a ZSCORE did not give the score its page ended at.  *)
THEOREM NoRepetition == Spec => []NothingTwice
<1>1. CacheInv => NothingTwice
    BY DEF CacheInv
<1> QED
    BY <1>1, CacheInvariant, PTL

(* Who scrolls to the end has seen every post that kept its place, but for *)
(* those of the second at which a page was full.                           *)
THEOREM EverythingIsShown == Spec => []ScrollIsComplete
<1>1. CacheInv => ScrollIsComplete
    BY DEF CacheInv, StayedInv, ScrollIsComplete
<1> QED
    BY <1>1, CacheInvariant, PTL
=============================================================================
