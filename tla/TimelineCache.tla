---------------------------- MODULE TimelineCache ----------------------------
(***************************************************************************)
(* timeline-service's getTimelineUC.Get over the sorted set of one user: a *)
(* page of ids by ZREVRANGEBYSCORE below the cursor, a ZSCORE for the next *)
(* cursor, a query for the rows.  No handler calls it; here a client goes  *)
(* from page to page until a cursor is 0 (docs/frontend-api.md:218), while *)
(* the fan-out workers write the timeline and the admin service removes    *)
(* posts from it.                                                          *)
(***************************************************************************)
EXTENDS TimelineZSet

CONSTANTS
    Limit,        \* ids on a page
    MaxTime,      \* bound: seconds the clock counts
    MaxChanges    \* bound: commands of others and failed calls

ASSUME CacheAssumption ==
    Limit \in Nat \ {0} /\ MaxTime \in Nat \ {0} /\ MaxChanges \in Nat

VARIABLES
    timeline,     \* the sorted set
    now, changes,
    scroll,       \* the client, and the call it waits for
    moved,        \* history: posts written since the scroll began
    stayed,       \* history: posts that kept their score since it began
    tied,         \* history: posts as old as the last of a page, and not on it
    torn          \* history: a cursor was not the score its page ended at

history == <<moved, stayed, tied, torn>>
vars == <<timeline, now, changes, scroll, history>>

Top == [pc |-> "ready", cursor |-> 0, page |-> {}, last |-> 0, score |-> 0,
        rest |-> {}, next |-> 0, shown |-> {}]
Scrolls == [pc : {"ready", "score", "posts", "ended"}, cursor : 0 .. MaxTime,
            page : SUBSET Posts, last : Posts \cup {0}, score : 0 .. MaxTime,
            rest : SUBSET Posts, next : 0 .. MaxTime, shown : SUBSET Posts]

(* The timeline is what earlier fan-outs left.                             *)
Init ==
    /\ now \in 1 .. MaxTime /\ changes = 0
    /\ timeline \in {tl \in [Posts -> 0 .. now] : Cardinality(Members(tl)) <= MaxTimeline}
    /\ scroll = Top
    /\ moved = {} /\ tied = {} /\ torn = FALSE
    /\ stayed = Members(timeline)

-----------------------------------------------------------------------------
(* Mutated: the bound is not exclusive. *)
BelowInclusive(tl, cursor) == {p \in Members(tl) : cursor > 0 => tl[p] <= cursor}

(* The members with a score below the cursor; cursor 0 is +inf.            *)
Below(tl, cursor) == {p \in Members(tl) : cursor > 0 => tl[p] < cursor}

(* Mutated: ZRANGEBYSCORE. *)
FirstLowest(tl, S) == {p \in S : Cardinality({q \in S : Before(tl, q, p)}) < Limit}

(* ZREVRANGEBYSCORE with LIMIT 0 Limit.                                    *)
FirstHighest(tl, S) == {p \in S : Cardinality({q \in S : Before(tl, p, q)}) < Limit}

LastOf(tl, page) == CHOOSE p \in page : \A q \in page : q = p \/ Before(tl, p, q)

(* An empty page has cursor 0 and ends the scroll. *)
GetPostIDs ==
    LET S == Below(timeline, scroll.cursor)
        page == FirstHighest(timeline, S)
        last == LastOf(timeline, page)
    IN  /\ scroll.pc = "ready"
        /\ scroll' = IF S = {} THEN [scroll EXCEPT !.pc = "ended"]
                     ELSE [scroll EXCEPT !.pc = "score", !.page = page,
                                         !.last = last, !.score = timeline[last],
                                         !.rest = {p \in S \ page : timeline[p] = timeline[last]}]
        /\ UNCHANGED <<timeline, now, changes, history>>

(* ZSCORE of the last id, at a later moment than the page.  Its error is   *)
(* ignored: an id that is gone, and a failed call, give cursor 0.          *)
GetScore ==
    /\ scroll.pc = "score"
    /\ \/ /\ scroll' = [scroll EXCEPT !.pc = "posts", !.next = timeline[scroll.last]]
          /\ UNCHANGED changes
       \/ /\ changes < MaxChanges /\ changes' = changes + 1
          /\ scroll' = [scroll EXCEPT !.pc = "posts", !.next = 0]
    /\ UNCHANGED <<timeline, now, history>>

(* The rows of the page, those of deleted posts included, are the answer.  *)
(* The client goes on with its cursor, or ends at 0.                       *)
GetPostsByIDs ==
    /\ scroll.pc = "posts"
    /\ scroll' = [Top EXCEPT !.pc = IF scroll.next = 0 THEN "ended" ELSE "ready",
                             !.cursor = scroll.next, !.shown = scroll.shown \cup scroll.page]
    /\ tied' = tied \cup scroll.rest
    /\ torn' = (torn \/ scroll.next # scroll.score)
    /\ UNCHANGED <<timeline, now, changes, moved, stayed>>

(* The page or the rows cannot be read; the client asks again.             *)
GetFails ==
    /\ scroll.pc \in {"ready", "posts"} /\ changes < MaxChanges
    /\ changes' = changes + 1
    /\ scroll' = [Top EXCEPT !.cursor = scroll.cursor, !.shown = scroll.shown]
    /\ UNCHANGED <<timeline, now, history>>

Restart ==
    /\ scroll.pc = "ended"
    /\ scroll' = Top
    /\ moved' = {} /\ tied' = {} /\ torn' = FALSE
    /\ stayed' = Members(timeline)
    /\ UNCHANGED <<timeline, now, changes>>

-----------------------------------------------------------------------------
(* The other services.                                                     *)

Becomes(tl) ==
    /\ timeline' = tl
    /\ stayed' = {p \in stayed : tl[p] = timeline[p]}

(* A fan-out worker's ZADD with the second its pipeline was built in.      *)
AddPostToTimelines(p, second) ==
    /\ changes < MaxChanges /\ changes' = changes + 1
    /\ Becomes(ZAdd(timeline, p, second))
    /\ moved' = moved \cup {p}
    /\ UNCHANGED <<now, scroll, tied, torn>>

(* The trim of a pipeline, which never comes when the connection breaks.   *)
TrimTimeline ==
    /\ Cardinality(Members(timeline)) > MaxTimeline
    /\ Becomes(Trim(timeline))
    /\ UNCHANGED <<now, changes, scroll, moved, tied, torn>>

(* The admin service removes a post. *)
RemoveFromTimelines(p) ==
    /\ timeline[p] # 0
    /\ changes < MaxChanges /\ changes' = changes + 1
    /\ Becomes(ZRem(timeline, p))
    /\ UNCHANGED <<now, scroll, moved, tied, torn>>

(* The key expires a week after the last write. *)
Expires ==
    /\ moved = {} /\ Members(timeline) # {}
    /\ Becomes(NoTimeline)
    /\ UNCHANGED <<now, changes, scroll, moved, tied, torn>>

Tick ==
    /\ now < MaxTime /\ now' = now + 1
    /\ UNCHANGED <<timeline, changes, scroll, history>>

Next ==
    \/ GetPostIDs \/ GetScore \/ GetPostsByIDs \/ GetFails \/ Restart
    \/ \E p \in Posts, second \in 1 .. now : AddPostToTimelines(p, second)
    \/ \E p \in Posts : RemoveFromTimelines(p)
    \/ TrimTimeline \/ Expires \/ Tick

Spec == Init /\ [][Next]_vars

-----------------------------------------------------------------------------
(* Every variable keeps its type.                                          *)
TypeOK ==
    /\ now \in 1 .. MaxTime /\ changes \in 0 .. MaxChanges
    /\ timeline \in [Posts -> 0 .. now]
    /\ scroll \in Scrolls
    /\ moved \subseteq Posts /\ stayed \subseteq Members(timeline) /\ tied \subseteq Posts
    /\ torn \in BOOLEAN

(* A page repeats a post of an earlier page only if a fan-out wrote the    *)
(* post again in between, whatever else is added, removed, trimmed or      *)
(* fails - unless the ZSCORE after some page did not give the score that   *)
(* the page had ended at.                                                  *)
NothingTwice == ~torn => scroll.page \cap scroll.shown \subseteq moved

(* A scroll that comes to its end has shown every post that kept its place *)
(* in the timeline meanwhile, save those of the very second at which a     *)
(* page was full: the cursor, an exclusive bound in seconds, passes over   *)
(* them.  The same exception is made for a ZSCORE that did not give the    *)
(* score its page had ended at.                                            *)
ScrollIsComplete == scroll.pc = "ended" /\ ~torn => stayed \subseteq scroll.shown \cup tied
=============================================================================
