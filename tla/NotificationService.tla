------------------------- MODULE NotificationService -------------------------
(***************************************************************************)
(* notification-service: the handler of the events it is subscribed to,    *)
(* the goroutines that deliver what it has stored, the calls of            *)
(* PUT /notifications/:id/read and DELETE /notifications/:id, and the      *)
(* pages of GET /notifications.                                            *)
(***************************************************************************)
EXTENDS Integers, Sequences, FiniteSets

CONSTANTS
    Events,
    Recipient,    \* Recipient[e]: the user an event's notification is for
    Requests,     \* calls that mark or delete
    Limit,        \* rows on a page (20 by default)
    MaxRows       \* bound: rows inserted

VARIABLES
    rows,         \* the notifications table, by id
    delivery,     \* deliverNotification of each row
    request,      \* the calls, after their SELECT
    scroll,       \* a client that goes from page to page
    confirmed,    \* history: events whose INSERT was answered
    unanswered    \* history: events with an INSERT whose answer was lost

table == <<rows, delivery, confirmed, unanswered>>
vars == <<table, request, scroll>>

Users == {Recipient[e] : e \in Events}
Row(e) == [event |-> e, read |-> FALSE, deleted |-> FALSE]
RowSet == [event : Events, read : BOOLEAN, deleted : BOOLEAN]
Stages == {"none", "begun", "sent", "broken"}
Ids == 1 .. Len(rows)
RowsOf(e) == {i \in Ids : rows[i].event = e}
Live(i) == i \in Ids /\ ~rows[i].deleted
Owner(i) == Recipient[rows[i].event]

NoRequest == [op |-> "none", user |-> 0, id |-> 0]
RequestSet == [op : {"none", "read", "delete"}, user : Users \cup {0}, id : 0 .. MaxRows]

Top == [user |-> 0, cursor |-> 0, shown |-> {}, again |-> FALSE]

Init ==
    /\ rows = <<>> /\ delivery = <<>>
    /\ confirmed = {} /\ unanswered = {}
    /\ request = [r \in Requests |-> NoRequest]
    /\ scroll = Top

-----------------------------------------------------------------------------
(* handleMessage: CreateNotification inserts the row and starts a          *)
(* goroutine that delivers it.                                             *)
Insert(e, stage) ==
    /\ Len(rows) < MaxRows
    /\ rows' = Append(rows, Row(e))
    /\ delivery' = Append(delivery, stage)

(* Mutated: the handler succeeds whatever the INSERT returns. *)
CreateUnchecked(e) ==
    /\ \/ UNCHANGED <<rows, delivery>>
       \/ Insert(e, "begun")
    /\ confirmed' = confirmed \cup {e}
    /\ UNCHANGED <<request, scroll, unanswered>>

CreateNotification(e) ==
    /\ Insert(e, "begun")
    /\ confirmed' = confirmed \cup {e}
    /\ UNCHANGED <<request, scroll, unanswered>>

(* A failed INSERT, which may have been committed, fails the handler.      *)
CreateFails(e) ==
    /\ \/ UNCHANGED <<rows, delivery, unanswered>>
       \/ Insert(e, "none") /\ unanswered' = unanswered \cup {e}
    /\ UNCHANGED <<request, scroll, confirmed>>

(* deliverNotification: e-mail and push, whatever they return.             *)
Deliver(i) ==
    /\ delivery[i] = "begun"
    /\ delivery' = [delivery EXCEPT ![i] = "sent"]
    /\ UNCHANGED <<rows, request, scroll, confirmed, unanswered>>

(* The process dies with its goroutines and calls.                         *)
Dies ==
    /\ delivery' = [i \in Ids |-> IF delivery[i] = "begun" THEN "broken" ELSE delivery[i]]
    /\ request' = [r \in Requests |-> NoRequest]
    /\ UNCHANGED <<rows, scroll, confirmed, unanswered>>

(* MarkAsRead and DeleteNotification: SELECT the row, answered 404 when it *)
(* is gone, and compare its user, answered 403 ...                         *)
Get(r, user, op, i) ==
    /\ request[r] = NoRequest
    /\ Live(i) /\ Owner(i) = user
    /\ request' = [request EXCEPT ![r] = [op |-> op, user |-> user, id |-> i]]
    /\ UNCHANGED <<table, scroll>>

(* ... and UPDATE or DELETE it.  An error of that statement, or a row that *)
(* is gone meanwhile, is answered with success all the same.               *)
Change(r) ==
    /\ request[r] # NoRequest
    /\ request' = [request EXCEPT ![r] = NoRequest]
    /\ LET i == request[r].id IN
        \/ UNCHANGED rows
        \/ request[r].op = "delete" /\ rows' = [rows EXCEPT ![i].deleted = TRUE]
        \/ request[r].op = "read" /\ Live(i) /\ rows' = [rows EXCEPT ![i].read = TRUE]
    /\ UNCHANGED <<delivery, scroll, confirmed, unanswered>>

(* GetByUserID: the cursor has two parts, but the loop that should split   *)
(* it yields the whole text as one, and only two parts restrict the rows.  *)
Parts(cursor) == <<cursor>>
After(cursor, i) == cursor # 0 /\ Len(Parts(cursor)) = 2 => i < cursor

Selected(user, cursor) == {i \in Ids : Live(i) /\ Owner(i) = user /\ After(cursor, i)}
PageOf(S) == {i \in S : Cardinality({j \in S : j > i}) < Limit}
Lowest(S) == CHOOSE i \in S : \A j \in S : i <= j

(* The client asks for the first page, and while the answer names a next   *)
(* cursor for the page after it.                                           *)
GetNotifications(user) ==
    LET S == Selected(user, scroll.cursor)
        page == PageOf(S)
    IN  /\ scroll = Top \/ (scroll.user = user /\ scroll.cursor # 0)
        /\ scroll' = [user |-> user, shown |-> scroll.shown \cup page,
                      cursor |-> IF page = S THEN 0 ELSE Lowest(page),
                      again |-> scroll.again \/ scroll.shown \cap page # {}]
        /\ UNCHANGED <<table, request>>

Next ==
    \/ \E e \in Events : CreateNotification(e) \/ CreateFails(e)
    \/ \E i \in Ids : Deliver(i)
    \/ Dies
    \/ \E r \in Requests, user \in Users, op \in {"read", "delete"}, i \in Ids : Get(r, user, op, i)
    \/ \E r \in Requests : Change(r)
    \/ \E user \in Users : GetNotifications(user)

Spec == Init /\ [][Next]_vars

-----------------------------------------------------------------------------
TypeOK ==
    /\ rows \in Seq(RowSet) /\ delivery \in Seq(Stages) /\ Len(delivery) = Len(rows)
    /\ request \in [Requests -> RequestSet]
    /\ scroll \in [user : Users \cup {0}, cursor : 0 .. MaxRows, shown : SUBSET (1 .. MaxRows),
                   again : BOOLEAN]
    /\ confirmed \subseteq Events /\ unanswered \subseteq Events

(* Only calls of the recipient change a row, though the row is checked in  *)
(* one statement and changed by its id in another; and none of them brings *)
(* back, or marks, what another call deleted in between.                   *)
OnlyRecipientsChange ==
    [][\A i \in Ids :
         rows'[i] # rows[i] =>
             /\ ~rows[i].deleted
             /\ \E r \in Requests : request[r].id = i /\ request[r].user = Owner(i)
                                    /\ request'[r] # request[r]]_vars

(* docs/frontend-api.md: "For timeline and notifications use cursor-based  *)
(* infinite scroll".  A client that follows the cursors is not shown a     *)
(* notification a second time.                                             *)
ScrollingMovesOn == ~scroll.again
==============================================================================
