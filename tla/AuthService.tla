----------------------------- MODULE AuthService -----------------------------
(***************************************************************************)
(* auth-service: POST /register, POST /login and PUT /update over the      *)
(* users table.  An update reads the row, changes the copy and writes the  *)
(* whole copy back in a later statement, so that it races with the other   *)
(* updates and with the admin service, which changes the status of a row.  *)
(* A bcrypt hash stands for the password it verifies.                      *)
(***************************************************************************)
EXTENDS Naturals, FiniteSets

CONSTANTS
    Ids,         \* ids the table can assign
    Emails,
    Passwords,
    Calls,       \* calls of the handlers
    None         \* an absent field

ASSUME AuthAssumption == None \notin Emails \cup Passwords \cup {"active", "deactivated"}

VARIABLES
    users,       \* rows of the users table
    call,        \* the handler calls
    window,      \* history: what each open update's row has held since the call began
    promised     \* history: password the last answered update of a row stored, None
                 \* when another update of the row overlapped with it

vars == <<users, call, window, promised>>

Statuses == {"active", "deactivated"}
NoRow == [email |-> None, password |-> None, status |-> None]
Rows == [email : Emails, password : Passwords, status : Statuses]

Exists(u) == users[u] # NoRow
WithEmail(e) == {u \in Ids : users[u].email = e}

Idle == [pc |-> "idle", kind |-> None, email |-> None, new |-> None, password |-> None,
         id |-> None, copy |-> NoRow, reply |-> 0]
CallSet ==
    [pc : {"idle", "insert", "read", "find", "locate", "write", "done", "gone"},
     kind : {"register", "login", "update", None},
     email : Emails \cup {None}, new : Emails \cup {None}, password : Passwords \cup {None},
     id : Ids \cup {None}, copy : Rows \cup {NoRow},
     reply : {0, 200, 400, 401, 403, 404, 409, 500}]

(* The table starts as earlier registrations left it.                      *)
Init ==
    /\ users \in {t \in [Ids -> Rows \cup {NoRow}] :
                    \A u, v \in Ids : t[u] # NoRow /\ t[u].email = t[v].email => u = v}
    /\ call = [c \in Calls |-> Idle]
    /\ window = [c \in Calls |-> {}]
    /\ promised = [u \in Ids |-> None]

At(c, label) == call[c].pc = label
Reply(c, code) == call' = [call EXCEPT ![c].pc = "done", ![c].reply = code]

(* Updates of row u that have read it and not finished.                    *)
Open(u) == {c \in Calls : call[c].id = u /\ call[c].pc \in {"locate", "write"}}

(* The histories after the row of u was changed.                           *)
Note(u) ==
    window' = [c \in Calls |-> IF c \in Open(u) THEN window[c] \cup {users'[u]} ELSE window[c]]

-----------------------------------------------------------------------------
(* The drivers: a body that does not validate is refused; Register hashes  *)
(* the password before its only statement.                                 *)
Begin(c, first, request) ==
    /\ At(c, "idle")
    /\ \/ call' = [call EXCEPT ![c] = [request EXCEPT !.pc = "done", !.reply = 400]]
       \/ call' = [call EXCEPT ![c] = [request EXCEPT !.pc = first]]
    /\ UNCHANGED <<users, window, promised>>

Register(c) ==
    \E e \in Emails, p \in Passwords :
        Begin(c, "insert", [Idle EXCEPT !.kind = "register", !.email = e, !.password = p])

Login(c) ==
    \E e \in Emails, p \in Passwords :
        Begin(c, "read", [Idle EXCEPT !.kind = "login", !.email = e, !.password = p])

UpdateInfo(c) ==
    \E e \in Emails, n \in Emails \cup {None}, p \in Passwords \cup {None} :
        Begin(c, "find", [Idle EXCEPT !.kind = "update", !.email = e, !.new = n, !.password = p])

HashFails(c) ==
    /\ At(c, "insert") \/ (At(c, "locate") /\ call[c].password # None)
    /\ Reply(c, 500)
    /\ UNCHANGED <<users, window, promised>>

(* Mutated: the e-mail column is not unique. *)
InsertAnyway(c) ==
    /\ At(c, "insert")
    /\ \E u \in Ids :
        /\ ~Exists(u)
        /\ users' = [users EXCEPT ![u] = [email |-> call[c].email, password |-> call[c].password,
                                          status |-> "active"]]
    /\ Reply(c, 200)
    /\ UNCHANGED <<window, promised>>

(* Mutated: the registration replaces the row that has the e-mail. *)
InsertOrReplace(c) ==
    /\ At(c, "insert")
    /\ \E u \in Ids :
        /\ IF WithEmail(call[c].email) = {} THEN ~Exists(u) ELSE u \in WithEmail(call[c].email)
        /\ users' = [users EXCEPT ![u] = [email |-> call[c].email, password |-> call[c].password,
                                          status |-> "active"]]
    /\ Reply(c, 200)
    /\ UNCHANGED <<window, promised>>

(* INSERT: the unique e-mail decides between concurrent registrations.     *)
Insert(c) ==
    /\ At(c, "insert")
    /\ IF WithEmail(call[c].email) # {}
          THEN Reply(c, 409) /\ UNCHANGED users
          ELSE /\ \E u \in Ids :
                    /\ ~Exists(u)
                    /\ users' = [users EXCEPT ![u] = [email |-> call[c].email, status |-> "active",
                                                      password |-> call[c].password]]
               /\ \E code \in {200, 500} : Reply(c, code)    \* the reply may be lost
    /\ UNCHANGED <<window, promised>>

(* Login answers from the one row it read; a failed query is answered 401, *)
(* a failed signature 500.                                                 *)
Read(c) ==
    /\ At(c, "read")
    /\ \/ Reply(c, 401) /\ WithEmail(call[c].email) = {}
       \/ \E u \in WithEmail(call[c].email) :
            IF users[u].password # call[c].password THEN Reply(c, 401)
            ELSE IF users[u].status = "deactivated" THEN Reply(c, 403)
            ELSE \E code \in {200, 500} : Reply(c, code)
    /\ UNCHANGED <<users, window, promised>>

(* UpdateInfo: FindByEmail(old_email) gives the copy that is changed ...   *)
Find(c) ==
    /\ At(c, "find")
    /\ IF WithEmail(call[c].email) = {} THEN Reply(c, 404) /\ UNCHANGED <<window, promised>>
       ELSE \E u \in WithEmail(call[c].email) :
              /\ call' = [call EXCEPT ![c].pc = "locate", ![c].id = u, ![c].copy = users[u]]
              /\ window' = [window EXCEPT ![c] = {users[u]}]
              /\ promised' = IF Open(u) = {} THEN promised ELSE [promised EXCEPT ![u] = None]
    /\ UNCHANGED users

(* Mutated: a password that was left out replaces the stored one. *)
ChangedBlindly(c) ==
    [call[c].copy EXCEPT
        !.password = call[c].password,
        !.email = IF call[c].new = None THEN @ ELSE call[c].new]

Changed(c) ==
    [call[c].copy EXCEPT
        !.password = IF call[c].password = None THEN @ ELSE call[c].password,
        !.email = IF call[c].new = None THEN @ ELSE call[c].new]

(* ... Update looks the row up once more, by the e-mail of the copy ...    *)
Locate(c) ==
    /\ At(c, "locate")
    /\ IF WithEmail(Changed(c).email) = {} THEN Reply(c, 500)
       ELSE call' = [call EXCEPT ![c].pc = "write", ![c].copy = Changed(c)]
    /\ UNCHANGED <<users, window, promised>>

Store(c, u, row) ==
    /\ users' = [users EXCEPT ![u] = row]
    /\ Note(u)
    /\ promised' = [promised EXCEPT ![call[c].id] =
                       IF Open(call[c].id) = {c} THEN row.password ELSE None]
    /\ \E code \in {200, 500} : Reply(c, code)               \* the reply may be lost

(* Mutated: the id is not among the columns that are set. *)
WriteWithoutId(c) ==
    /\ At(c, "write")
    /\ \E u \in WithEmail(call[c].copy.email) : Store(c, u, call[c].copy)

(* Mutated: the copy is built like a new user. *)
WriteActive(c) ==
    /\ At(c, "write")
    /\ \E u \in WithEmail(call[c].copy.email) :
        IF u # call[c].id THEN Reply(c, 409) /\ UNCHANGED <<users, window, promised>>
        ELSE Store(c, u, [call[c].copy EXCEPT !.status = "active"])

(* ... and sets every column of the row with that e-mail, the id included, *)
(* so that the row of another user gives a duplicate key.                  *)
Write(c) ==
    /\ At(c, "write")
    /\ \E u \in WithEmail(call[c].copy.email) :
        IF u # call[c].id THEN Reply(c, 409) /\ UNCHANGED <<users, window, promised>>
        ELSE Store(c, u, call[c].copy)

(* A failed statement that changed nothing.                                *)
QueryFails(c) ==
    /\ \/ call[c].pc \in {"insert", "locate", "write"} /\ Reply(c, 500)
       \/ At(c, "read") /\ Reply(c, 401)
       \/ At(c, "find") /\ Reply(c, 404)
    /\ UNCHANGED <<users, window, promised>>

(* The process dies under the call.                                        *)
CallLost(c) ==
    /\ call[c].pc \notin {"idle", "done", "gone"}
    /\ call' = [call EXCEPT ![c].pc = "gone"]
    /\ UNCHANGED <<users, window, promised>>

(* PATCH /admin/users: the admin service sets the status by id.            *)
SetStatus(u, s) ==
    /\ Exists(u) /\ users[u].status # s
    /\ users' = [users EXCEPT ![u].status = s]
    /\ Note(u)
    /\ UNCHANGED <<call, promised>>

CallNext(c) ==
    \/ Register(c) \/ Login(c) \/ UpdateInfo(c)
    \/ HashFails(c) \/ Insert(c) \/ Read(c)
    \/ Find(c) \/ Locate(c) \/ Write(c)
    \/ QueryFails(c) \/ CallLost(c)

Next ==
    \/ \E c \in Calls : CallNext(c)
    \/ \E u \in Ids, s \in Statuses : SetStatus(u, s)

Spec == Init /\ [][Next]_vars

-----------------------------------------------------------------------------
TypeOK ==
    /\ users \in [Ids -> Rows \cup {NoRow}]
    /\ call \in [Calls -> CallSet]
    /\ window \in [Calls -> SUBSET Rows]
    /\ promised \in [Ids -> Passwords \cup {None}]

(* An e-mail belongs to one row for good: registrations that race for it   *)
(* leave one row, and no update gives it up or takes it over.  An update   *)
(* that asks for another e-mail is never answered with success.            *)
EmailsBelongToOneRow ==
    /\ \A u, v \in Ids : Exists(u) /\ users[u].email = users[v].email => u = v
    /\ \A c \in Calls :
        /\ call[c].id # None => users[call[c].id].email = call[c].email
        /\ call[c].new \notin {None, call[c].email} => call[c].reply # 200

(* A call changes no row but the one its old_email names, although the     *)
(* UPDATE selects its row by the new e-mail.                               *)
UpdatesStayInTheirRow ==
    [][\A u \in Ids :
         Exists(u) /\ users'[u].password # users[u].password =>
             \E c \in Calls : call[c].kind = "update" /\ call[c].email = users[u].email
                              /\ At(c, "write") /\ ~At(c, "write")']_vars

(* What an update writes back beside its own password was in the row while *)
(* the call ran: a deactivation that was finished before the update began  *)
(* survives it.                                                            *)
NothingOlderThanTheCall ==
    [][\A c \in Calls, u \in Ids :
         At(c, "write") /\ users'[u] # users[u] /\ ~At(c, "write")' =>
             \E row \in window[c] :
                 /\ users'[u].status = row.status
                 /\ users'[u].password \in {row.password, call[c].password}]_vars

(* A password stored by an update that overlapped with no other update of  *)
(* the row stays until the next update: neither the admin service nor a    *)
(* registration of the same e-mail takes it away.                          *)
PromisedPasswordKept ==
    \A u \in Ids : promised[u] # None => users[u].password = promised[u]
==============================================================================
