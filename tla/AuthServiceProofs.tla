-------------------------- MODULE AuthServiceProofs --------------------------
(***************************************************************************)
(* Proofs about the users table under concurrent registrations, logins and *)
(* updates, for any e-mails, passwords, ids and number of calls.           *)
(***************************************************************************)
EXTENDS AuthService, TLAPS

(* What a call holds: the form that was validated, then the row it found,  *)
(* whose e-mail is the one it asked for, and at last a copy that differs   *)
(* from what the row has held in the requested fields only.                *)
CallInv(c) ==
    /\ call[c].pc \in {"insert", "read", "find", "locate", "write"} => call[c].email \in Emails
    /\ call[c].pc = "insert" => call[c].password \in Passwords
    /\ call[c].pc \in {"insert", "read"} => call[c].new = None
    /\ call[c].pc \in {"find", "locate", "write"} => call[c].kind = "update"
    /\ call[c].pc # "done" => call[c].reply = 0
    /\ call[c].id # None => call[c].email \in Emails /\ users[call[c].id].email = call[c].email
    /\ call[c].new \notin {None, call[c].email} => call[c].reply # 200
    /\ call[c].pc \in {"locate", "write"} =>
         /\ call[c].id \in Ids /\ call[c].copy \in Rows
         /\ users[call[c].id].email = call[c].email
         /\ \E row \in window[c] : /\ call[c].copy.status = row.status
                                   /\ call[c].copy.password \in {row.password, call[c].password}
    /\ call[c].pc = "write" /\ call[c].new # None => call[c].copy.email = call[c].new

Unique == \A u, v \in Ids : Exists(u) /\ users[u].email = users[v].email => u = v

Inv == TypeOK /\ Unique /\ PromisedPasswordKept /\ \A c \in Calls : CallInv(c)

(* No row is deleted or given another e-mail.                              *)
RowsKept == \A u \in Ids : Exists(u) => users'[u].email = users[u].email
OthersKept(c) ==
    \A d \in Calls : d # c => call'[d] = call[d] /\ window[d] \subseteq window'[d]

-----------------------------------------------------------------------------
LEMMA CallFields ==
    ASSUME TypeOK, NEW c \in Calls
    PROVE  /\ call[c].pc \in {"idle", "insert", "read", "find", "locate", "write", "done", "gone"}
           /\ call[c].email \in Emails \cup {None} /\ call[c].new \in Emails \cup {None}
           /\ call[c].password \in Passwords \cup {None} /\ call[c].id \in Ids \cup {None}
           /\ call[c].copy \in Rows \cup {NoRow}
           /\ call[c] \in CallSet
BY DEF TypeOK, CallSet

(* A row has an e-mail, and what has one is a row.                         *)
LEMMA RowFields ==
    ASSUME TypeOK, NEW u \in Ids
    PROVE  /\ Exists(u) => users[u] \in Rows
           /\ \A e \in Emails : u \in WithEmail(e) => Exists(u) /\ users[u].email = e
BY AuthAssumption DEF TypeOK, Exists, WithEmail, NoRow

(* One form of a call asks for what another does.                          *)
SameAs(k, l) ==
    /\ k.kind = l.kind /\ k.email = l.email /\ k.new = l.new
    /\ k.password = l.password /\ k.id = l.id

MovedTo(k, label) == [k EXCEPT !.pc = label]
AnsweredBy(k, code) == [k EXCEPT !.reply = code]
Labels == {"idle", "insert", "read", "find", "locate", "write", "done", "gone"}
Codes == {0, 200, 400, 401, 403, 404, 409, 500}

LEMMA MoveCall ==
    ASSUME NEW k \in CallSet, NEW label \in Labels
    PROVE  /\ MovedTo(k, label) \in CallSet /\ MovedTo(k, label).pc = label
           /\ SameAs(MovedTo(k, label), k)
           /\ MovedTo(k, label).copy = k.copy /\ MovedTo(k, label).reply = k.reply
BY DEF CallSet, MovedTo, SameAs, Labels

LEMMA AnswerCall ==
    ASSUME NEW k \in CallSet, NEW code \in Codes
    PROVE  /\ AnsweredBy(k, code) \in CallSet
           /\ AnsweredBy(k, code).reply = code /\ AnsweredBy(k, code).pc = k.pc
           /\ SameAs(AnsweredBy(k, code), k)
BY DEF CallSet, AnsweredBy, SameAs, Codes

(* An answer changes nothing of a call but where it is. *)
LEMMA ReplyStep ==
    ASSUME TypeOK, NEW c \in Calls, NEW code \in Codes, Reply(c, code)
    PROVE  /\ call' \in [Calls -> CallSet]
           /\ call'[c].pc = "done" /\ call'[c].reply = code /\ SameAs(call'[c], call[c])
           /\ \A d \in Calls : d # c => call'[d] = call[d]
<1> DEFINE mid == MovedTo(call[c], "done")
           answered == AnsweredBy(mid, code)
<1>1. call \in [Calls -> CallSet] /\ call[c] \in CallSet
    BY DEF TypeOK
<1>2. call' = [call EXCEPT ![c] = answered]
  <2>1. call' = [[call EXCEPT ![c].pc = "done"] EXCEPT ![c].reply = code]
      BY DEF Reply
  <2>2. c \in DOMAIN call
      BY <1>1
  <2> QED
      BY <2>1, <2>2 DEF MovedTo, AnsweredBy
<1>3. mid \in CallSet /\ mid.pc = "done" /\ SameAs(mid, call[c])
    BY <1>1, MoveCall DEF Labels
<1> HIDE DEF mid
<1>5. answered \in CallSet /\ answered.pc = "done" /\ answered.reply = code /\ SameAs(answered, mid)
    BY <1>3, AnswerCall
<1> HIDE DEF answered
<1>6. call'[c] = answered /\ \A d \in Calls : d # c => call'[d] = call[d]
    BY <1>1, <1>2
<1>7. call' \in [Calls -> CallSet]
    BY <1>1, <1>2, <1>5
<1> QED
    BY <1>3, <1>5, <1>6, <1>7 DEF SameAs

(* A call that does not move keeps what it holds while the rows keep their *)
(* e-mails.                                                                *)
LEMMA CallKept ==
    ASSUME TypeOK, NEW d \in Calls, CallInv(d), RowsKept, call'[d] = call[d], window[d] \subseteq window'[d]
    PROVE  CallInv(d)'
<1>1. call[d].id # None => call[d].id \in Ids /\ users'[call[d].id].email = call[d].email
  <2> SUFFICES ASSUME call[d].id # None
               PROVE  call[d].id \in Ids /\ users'[call[d].id].email = call[d].email
      OBVIOUS
  <2>1. call[d].id \in Ids
      BY CallFields
  <2>2. users[call[d].id].email = call[d].email /\ call[d].email \in Emails
      BY DEF CallInv
  <2>3. Exists(call[d].id)
      BY <2>1, <2>2, AuthAssumption DEF Exists, NoRow
  <2> QED
      BY <2>1, <2>2, <2>3 DEF RowsKept
<1>2. call[d].pc \in {"locate", "write"} => users'[call[d].id].email = call[d].email
  <2> SUFFICES ASSUME call[d].pc \in {"locate", "write"}
               PROVE  users'[call[d].id].email = call[d].email
      OBVIOUS
  <2>1. call[d].id \in Ids /\ users[call[d].id].email = call[d].email /\ call[d].email \in Emails
      BY DEF CallInv
  <2>2. Exists(call[d].id)
      BY <2>1, AuthAssumption DEF Exists, NoRow
  <2> QED
      BY <2>1, <2>2 DEF RowsKept
<1> QED
    BY <1>1, <1>2 DEF CallInv

(* A call that is answered keeps what an answered call holds.              *)
LEMMA AnsweredCall ==
    ASSUME TypeOK, NEW c \in Calls, CallInv(c), RowsKept, NEW code \in Codes, Reply(c, code),
           code = 200 => call[c].new \in {None, call[c].email}
    PROVE  CallInv(c)'
<1>1. /\ call'[c].pc = "done" /\ call'[c].reply = code
      /\ call'[c].email = call[c].email /\ call'[c].new = call[c].new /\ call'[c].id = call[c].id
    BY ReplyStep DEF SameAs
<1>2. call[c].id # None => users'[call[c].id].email = call[c].email
  <2> SUFFICES ASSUME call[c].id # None
               PROVE  users'[call[c].id].email = call[c].email
      OBVIOUS
  <2>1. call[c].id \in Ids
      BY CallFields
  <2>2. users[call[c].id].email = call[c].email /\ call[c].email \in Emails
      BY DEF CallInv
  <2>3. Exists(call[c].id)
      BY <2>1, <2>2, AuthAssumption DEF Exists, NoRow
  <2> QED
      BY <2>1, <2>2, <2>3 DEF RowsKept
<1> QED
    BY <1>1, <1>2 DEF CallInv

(* With the table, the histories and the other calls settled, one call is  *)
(* left to look at.                                                        *)
LEMMA OneCallMoves ==
    ASSUME Inv, RowsKept, NEW c \in Calls, CallInv(c)', OthersKept(c)
    PROVE  \A d \in Calls : CallInv(d)'
<1> SUFFICES ASSUME NEW d \in Calls PROVE CallInv(d)'
    OBVIOUS
<1>1. CASE d = c
    BY <1>1
<1>2. CASE d # c
    BY <1>2, CallKept DEF Inv, OthersKept
<1> QED
    BY <1>1, <1>2

(* An answer that comes without a change of the table.                     *)
LEMMA RefusalKeeps ==
    ASSUME Inv, NEW c \in Calls, NEW code \in Codes, Reply(c, code),
           code = 200 => call[c].new \in {None, call[c].email},
           UNCHANGED <<users, window, promised>>
    PROVE  Inv'
<1>1. TypeOK'
    BY ReplyStep DEF Inv, TypeOK
<1>2. RowsKept /\ OthersKept(c)
    BY ReplyStep DEF RowsKept, OthersKept, Inv
<1>3. \A d \in Calls : CallInv(d)'
    BY <1>2, AnsweredCall, OneCallMoves DEF Inv
<1>4. Unique' /\ PromisedPasswordKept'
    BY DEF Inv, Unique, PromisedPasswordKept, Exists
<1> QED
    BY <1>1, <1>3, <1>4 DEF Inv

-----------------------------------------------------------------------------
(* A new call, and the next step of one that leaves the table alone.       *)
LEMMA QuietMove ==
    ASSUME Inv, NEW c \in Calls, NEW k \in CallSet, call' = [call EXCEPT ![c] = k],
           UNCHANGED <<users, promised>>, window' \in [Calls -> SUBSET Rows],
           \A d \in Calls : d # c => window'[d] = window[d], CallInv(c)'
    PROVE  Inv'
<1>1. TypeOK'
    BY DEF Inv, TypeOK
<1>2. RowsKept /\ OthersKept(c)
    BY DEF RowsKept, OthersKept, Inv, TypeOK
<1>3. \A d \in Calls : CallInv(d)'
    BY <1>2, OneCallMoves
<1>4. Unique' /\ PromisedPasswordKept'
    BY DEF Inv, Unique, PromisedPasswordKept, Exists
<1> QED
    BY <1>1, <1>3, <1>4 DEF Inv

Request(k) == k \in CallSet /\ k.id = None /\ k.reply = 0 /\ k.email \in Emails

LEMMA BeginKeeps ==
    ASSUME Inv, NEW c \in Calls, NEW first \in {"insert", "read", "find"}, NEW k, Request(k),
           first = "insert" => k.password \in Passwords,
           first \in {"insert", "read"} => k.new = None,
           first = "find" => k.kind = "update",
           Begin(c, first, k)
    PROVE  Inv'
<1>1. call \in [Calls -> CallSet] /\ window \in [Calls -> SUBSET Rows]
    BY DEF Inv, TypeOK
<1>2. CASE call' = [call EXCEPT ![c] = [k EXCEPT !.pc = "done", !.reply = 400]]
  <2> DEFINE mid == [k EXCEPT !.pc = "done"]
             j == [mid EXCEPT !.reply = 400]
  <2>0. mid \in CallSet /\ mid.pc = "done" /\ mid.id = None
      BY DEF Request, CallSet
  <2>4. call' = [call EXCEPT ![c] = j]
      BY <1>2
  <2> HIDE DEF mid
  <2>1. j \in CallSet /\ j.pc = "done" /\ j.reply = 400 /\ j.id = None
      BY <2>0 DEF CallSet
  <2> HIDE DEF j
  <2>2. call'[c] = j
      BY <1>1, <2>4
  <2>3. CallInv(c)'
      BY <2>1, <2>2 DEF CallInv
  <2> QED
      BY <1>1, <2>1, <2>3, <2>4, QuietMove DEF Begin
<1>3. CASE call' = [call EXCEPT ![c] = [k EXCEPT !.pc = first]]
  <2> DEFINE j == [k EXCEPT !.pc = first]
  <2>1. /\ j \in CallSet /\ j.pc = first /\ j.reply = 0 /\ j.id = None /\ j.email \in Emails
        /\ j.password = k.password /\ j.new = k.new /\ j.kind = k.kind
      BY DEF Request, CallSet
  <2>2. call'[c] = j
      BY <1>1, <1>3
  <2>3. CallInv(c)'
      BY <2>1, <2>2 DEF CallInv
  <2> QED
      BY <1>1, <1>3, <2>1, <2>3, QuietMove DEF Begin
<1> QED
    BY <1>2, <1>3 DEF Begin

LEMMA IdleCall == Idle \in CallSet /\ Idle.id = None /\ Idle.reply = 0 /\ Idle.new = None
BY DEF Idle, CallSet, NoRow

LEMMA RegisterKeeps == ASSUME Inv, NEW c \in Calls, Register(c) PROVE Inv'
<1> PICK e \in Emails, p \in Passwords :
        Begin(c, "insert", [Idle EXCEPT !.kind = "register", !.email = e, !.password = p])
    BY DEF Register
<1> DEFINE k1 == [Idle EXCEPT !.kind = "register"]
           k2 == [k1 EXCEPT !.email = e]
           k == [k2 EXCEPT !.password = p]
<1>1. k1 \in CallSet /\ k1.id = None /\ k1.reply = 0 /\ k1.kind = "register" /\ k1.new = None
    BY IdleCall DEF CallSet
<1> HIDE DEF k1
<1>2. k2 \in CallSet /\ k2.id = None /\ k2.reply = 0 /\ k2.kind = "register" /\ k2.email = e /\ k2.new = None
    BY <1>1 DEF CallSet
<1> HIDE DEF k2
<1>4. Request(k) /\ k.password \in Passwords /\ k.new = None
    BY <1>2 DEF Request, CallSet
<1>5. Begin(c, "insert", k)
    BY DEF k, k1, k2
<1> HIDE DEF k
<1> QED
    BY <1>4, <1>5, BeginKeeps

LEMMA LoginKeeps == ASSUME Inv, NEW c \in Calls, Login(c) PROVE Inv'
<1> PICK e \in Emails, p \in Passwords :
        Begin(c, "read", [Idle EXCEPT !.kind = "login", !.email = e, !.password = p])
    BY DEF Login
<1> DEFINE k1 == [Idle EXCEPT !.kind = "login"]
           k2 == [k1 EXCEPT !.email = e]
           k == [k2 EXCEPT !.password = p]
<1>1. k1 \in CallSet /\ k1.id = None /\ k1.reply = 0 /\ k1.kind = "login" /\ k1.new = None
    BY IdleCall DEF CallSet
<1> HIDE DEF k1
<1>2. k2 \in CallSet /\ k2.id = None /\ k2.reply = 0 /\ k2.kind = "login" /\ k2.email = e /\ k2.new = None
    BY <1>1 DEF CallSet
<1> HIDE DEF k2
<1>4. Request(k) /\ k.new = None
    BY <1>2 DEF Request, CallSet
<1>5. Begin(c, "read", k)
    BY DEF k, k1, k2
<1> HIDE DEF k
<1> QED
    BY <1>4, <1>5, BeginKeeps

LEMMA UpdateInfoKeeps == ASSUME Inv, NEW c \in Calls, UpdateInfo(c) PROVE Inv'
<1> PICK e \in Emails, n \in Emails \cup {None}, p \in Passwords \cup {None} :
        Begin(c, "find", [Idle EXCEPT !.kind = "update", !.email = e, !.new = n, !.password = p])
    BY DEF UpdateInfo
<1> DEFINE k1 == [Idle EXCEPT !.kind = "update"]
           k2 == [k1 EXCEPT !.email = e]
           k3 == [k2 EXCEPT !.new = n]
           k == [k3 EXCEPT !.password = p]
<1>1. k1 \in CallSet /\ k1.id = None /\ k1.reply = 0 /\ k1.kind = "update" /\ k1.new = None
    BY IdleCall DEF CallSet
<1> HIDE DEF k1
<1>2. k2 \in CallSet /\ k2.id = None /\ k2.reply = 0 /\ k2.kind = "update" /\ k2.email = e /\ k2.new = None
    BY <1>1 DEF CallSet
<1> HIDE DEF k2
<1>3. k3 \in CallSet /\ k3.id = None /\ k3.reply = 0 /\ k3.kind = "update" /\ k3.email = e
    BY <1>2 DEF CallSet
<1> HIDE DEF k3
<1>4. Request(k) /\ k.kind = "update"
    BY <1>3 DEF Request, CallSet
<1>5. Begin(c, "find", k)
    BY DEF k, k1, k2, k3
<1> HIDE DEF k
<1> QED
    BY <1>4, <1>5, BeginKeeps

LEMMA HashFailsKeeps == ASSUME Inv, NEW c \in Calls, HashFails(c) PROVE Inv'
BY RefusalKeeps DEF HashFails, Codes

LEMMA QueryFailsKeeps == ASSUME Inv, NEW c \in Calls, QueryFails(c) PROVE Inv'
BY RefusalKeeps DEF QueryFails, Codes

LEMMA ReadKeeps == ASSUME Inv, NEW c \in Calls, Read(c) PROVE Inv'
<1>1. call[c].new = None
    BY DEF Read, At, Inv, CallInv
<1>2. PICK code \in {200, 401, 403, 500} : Reply(c, code)
    BY DEF Read
<1> QED
    BY <1>1, <1>2, RefusalKeeps DEF Read, Codes

LEMMA CallLostKeeps == ASSUME Inv, NEW c \in Calls, CallLost(c) PROVE Inv'
<1> DEFINE k == MovedTo(call[c], "gone")
<1>1. call \in [Calls -> CallSet] /\ call[c] \in CallSet /\ window \in [Calls -> SUBSET Rows]
    BY DEF Inv, TypeOK
<1>2. k \in CallSet /\ k.pc = "gone" /\ SameAs(k, call[c]) /\ k.reply = call[c].reply
    BY <1>1, MoveCall DEF Labels
<1>3. call' = [call EXCEPT ![c] = k]
    BY <1>1 DEF CallLost, MovedTo
<1>4. call'[c] = k
    BY <1>1, <1>3
<1>5. CallInv(c) /\ UNCHANGED <<users, window, promised>> /\ call[c].pc # "done"
    BY DEF Inv, CallLost
<1> HIDE DEF k
<1>6. CallInv(c)'
    BY <1>2, <1>4, <1>5 DEF CallInv, SameAs
<1> QED
    BY <1>1, <1>2, <1>3, <1>5, <1>6, QuietMove

(* An update that finds its row copies it, and its history begins.         *)
LEMMA FindKeeps == ASSUME Inv, NEW c \in Calls, Find(c) PROVE Inv'
<1>1. /\ call \in [Calls -> CallSet] /\ call[c] \in CallSet /\ window \in [Calls -> SUBSET Rows]
      /\ promised \in [Ids -> Passwords \cup {None}] /\ UNCHANGED users
    BY DEF Inv, TypeOK, Find
<1>2. CASE Reply(c, 404) /\ UNCHANGED <<window, promised>>
    BY <1>1, <1>2, RefusalKeeps DEF Codes
<1>3. ASSUME NEW u \in Ids, u \in WithEmail(call[c].email), At(c, "find"),
             call' = [call EXCEPT ![c].pc = "locate", ![c].id = u, ![c].copy = users[u]],
             window' = [window EXCEPT ![c] = {users[u]}],
             promised' = IF Open(u) = {} THEN promised ELSE [promised EXCEPT ![u] = None]
      PROVE  Inv'
  <2>1. CallInv(c) /\ call[c].email \in Emails /\ call[c].kind = "update" /\ call[c].reply = 0
      BY <1>3 DEF Inv, CallInv, At
  <2>2. users[u] \in Rows /\ users[u].email = call[c].email
      BY <1>3, <2>1, RowFields DEF Inv
  <2> DEFINE k1 == [call[c] EXCEPT !.pc = "locate"]
             k2 == [k1 EXCEPT !.id = u]
             k == [k2 EXCEPT !.copy = users[u]]
  <2>3. /\ k1 \in CallSet /\ k1.pc = "locate" /\ k1.email = call[c].email /\ k1.kind = "update"
        /\ k1.reply = 0
      BY <1>1, <2>1 DEF CallSet
  <2>4. call' = [call EXCEPT ![c] = k]
      BY <1>1, <1>3
  <2> HIDE DEF k1
  <2>5. /\ k2 \in CallSet /\ k2.pc = "locate" /\ k2.email = call[c].email /\ k2.kind = "update"
        /\ k2.reply = 0 /\ k2.id = u
      BY <2>3, <1>3 DEF CallSet
  <2> HIDE DEF k2
  <2>6. /\ k \in CallSet /\ k.pc = "locate" /\ k.email = call[c].email /\ k.kind = "update"
        /\ k.reply = 0 /\ k.id = u /\ k.copy = users[u]
      BY <2>5, <2>2 DEF CallSet
  <2> HIDE DEF k
  <2>7. /\ call'[c] = k /\ call' \in [Calls -> CallSet]
        /\ \A d \in Calls : d # c => call'[d] = call[d]
      BY <1>1, <2>4, <2>6
  <2>8. /\ window' \in [Calls -> SUBSET Rows] /\ window'[c] = {users[u]}
        /\ \A d \in Calls : d # c => window'[d] = window[d]
      BY <1>1, <1>3, <2>2
  <2>9. CallInv(c)'
      BY <1>1, <1>3, <2>1, <2>2, <2>6, <2>7, <2>8 DEF CallInv
  <2>10. TypeOK'
    <3>1. promised' \in [Ids -> Passwords \cup {None}]
        BY <1>1, <1>3
    <3> QED
        BY <1>1, <2>7, <2>8, <3>1 DEF Inv, TypeOK
  <2>11. RowsKept /\ OthersKept(c)
      BY <1>1, <2>7, <2>8 DEF RowsKept, OthersKept
  <2>12. Unique' /\ PromisedPasswordKept'
    <3>1. \A v \in Ids : promised'[v] \in {promised[v], None}
        BY <1>1, <1>3
    <3> QED
        BY <1>1, <3>1 DEF Inv, Unique, PromisedPasswordKept, Exists
  <2> QED
      BY <2>9, <2>10, <2>11, <2>12, OneCallMoves DEF Inv
<1> QED
    BY <1>2, <1>3 DEF Find, WithEmail

(* The changed copy is a row with the status that was copied.              *)
LEMMA ChangedRow ==
    ASSUME TypeOK, NEW c \in Calls, call[c].copy \in Rows
    PROVE  /\ Changed(c) \in Rows /\ Changed(c).status = call[c].copy.status
           /\ Changed(c).password \in {call[c].copy.password, call[c].password}
           /\ call[c].new # None => Changed(c).email = call[c].new
<1> DEFINE row == call[c].copy
           pw == IF call[c].password = None THEN row.password ELSE call[c].password
           em == IF call[c].new = None THEN row.email ELSE call[c].new
           r1 == [row EXCEPT !.password = pw]
           r2 == [r1 EXCEPT !.email = em]
<1>1. call[c].password \in Passwords \cup {None} /\ call[c].new \in Emails \cup {None}
    BY CallFields
<1>2. pw \in Passwords /\ em \in Emails
    BY <1>1 DEF Rows
<1>3. Changed(c) = r2
    BY DEF Changed, Rows
<1>7. pw \in {row.password, call[c].password} /\ (call[c].new # None => em = call[c].new)
    OBVIOUS
<1>8. row \in Rows
    OBVIOUS
<1> HIDE DEF pw, em, row
<1>4. r1 \in Rows /\ r1.password = pw /\ r1.status = row.status
    BY <1>2, <1>8 DEF Rows
<1> HIDE DEF r1
<1>5. r2 \in Rows /\ r2.email = em /\ r2.password = pw /\ r2.status = row.status
    BY <1>2, <1>4 DEF Rows
<1> HIDE DEF r2
<1> QED
    BY <1>3, <1>5, <1>7 DEF row

LEMMA LocateKeeps == ASSUME Inv, NEW c \in Calls, Locate(c) PROVE Inv'
<1>1. /\ call \in [Calls -> CallSet] /\ call[c] \in CallSet /\ window \in [Calls -> SUBSET Rows]
      /\ UNCHANGED <<users, window, promised>> /\ TypeOK /\ CallInv(c)
    BY DEF Inv, TypeOK, Locate
<1>2. CASE Reply(c, 500)
    BY <1>1, <1>2, RefusalKeeps DEF Codes
<1>3. CASE call' = [call EXCEPT ![c].pc = "write", ![c].copy = Changed(c)]
  <2>1. /\ call[c].email \in Emails /\ call[c].kind = "update" /\ call[c].reply = 0
        /\ call[c].id \in Ids /\ call[c].copy \in Rows /\ users[call[c].id].email = call[c].email
      BY <1>1 DEF Locate, At, CallInv
  <2>2. PICK row \in window[c] : /\ call[c].copy.status = row.status
                                /\ call[c].copy.password \in {row.password, call[c].password}
      BY <1>1 DEF Locate, At, CallInv
  <2> DEFINE new == Changed(c)
             k1 == [call[c] EXCEPT !.pc = "write"]
             k == [k1 EXCEPT !.copy = new]
  <2>3. /\ new \in Rows /\ new.status = call[c].copy.status
        /\ new.password \in {call[c].copy.password, call[c].password}
        /\ call[c].new # None => new.email = call[c].new
      BY <1>1, <2>1, ChangedRow
  <2>4. call' = [call EXCEPT ![c] = k]
      BY <1>1, <1>3
  <2> HIDE DEF new
  <2>5. k1 \in CallSet /\ k1.pc = "write" /\ SameAs(k1, call[c]) /\ k1.reply = 0
      BY <1>1, <2>1 DEF CallSet, SameAs
  <2> HIDE DEF k1
  <2>6. k \in CallSet /\ k.pc = "write" /\ SameAs(k, k1) /\ k.reply = 0 /\ k.copy = new
      BY <2>3, <2>5 DEF CallSet, SameAs
  <2> HIDE DEF k
  <2>7. call'[c] = k
      BY <1>1, <2>4
  <2>8. /\ call'[c].pc = "write" /\ call'[c].reply = 0 /\ call'[c].copy = new
        /\ call'[c].kind = "update" /\ call'[c].email = call[c].email /\ call'[c].id = call[c].id
        /\ call'[c].new = call[c].new /\ call'[c].password = call[c].password
      BY <2>1, <2>5, <2>6, <2>7 DEF SameAs
  <2>9. \E r \in window'[c] : /\ new.status = r.status
                              /\ new.password \in {r.password, call[c].password}
      BY <1>1, <2>2, <2>3
  <2>10. CallInv(c)'
      BY <1>1, <2>1, <2>3, <2>8, <2>9 DEF CallInv
  <2> QED
      BY <1>1, <2>4, <2>6, <2>10, QuietMove
<1> QED
    BY <1>2, <1>3 DEF Locate

-----------------------------------------------------------------------------
(* No row has its e-mail yet.                                              *)
Fresh(row) == \A v \in Ids : users[v].email # row.email

(* The steps that change the table: a new row with a new e-mail, or a row  *)
(* that keeps its e-mail.                                                  *)
LEMMA RowStep ==
    ASSUME TypeOK, Unique, NEW u \in Ids, NEW row \in Rows, users' = [users EXCEPT ![u] = row],
           Exists(u) => row.email = users[u].email,
           ~Exists(u) => Fresh(row)
    PROVE  /\ users' \in [Ids -> Rows \cup {NoRow}] /\ RowsKept /\ Unique'
           /\ users'[u] = row /\ \A v \in Ids : v # u => users'[v] = users[v]
<1>1. users \in [Ids -> Rows \cup {NoRow}]
    BY DEF TypeOK
<1>2. users' \in [Ids -> Rows \cup {NoRow}]
    BY <1>1
<1>3. users'[u] = row /\ \A v \in Ids : v # u => users'[v] = users[v]
    BY <1>1
<1>4. RowsKept
    BY <1>3 DEF RowsKept
<1>5. ASSUME NEW v \in Ids, v # u, users[v].email = row.email
      PROVE  FALSE
  <2>1. CASE Exists(u)
      BY <2>1, <1>5 DEF Unique
  <2>2. CASE ~Exists(u)
      BY <2>2, <1>5 DEF Fresh
  <2> QED
      BY <2>1, <2>2
<1>6. Unique'
  <2> SUFFICES ASSUME NEW v \in Ids, NEW w \in Ids, users'[v] # NoRow, users'[v].email = users'[w].email
               PROVE  v = w
      BY DEF Unique, Exists
  <2>1. CASE v = u /\ w # u
      BY <2>1, <1>3, <1>5
  <2>2. CASE v # u /\ w = u
      BY <2>2, <1>3, <1>5
  <2>3. CASE v # u /\ w # u
      BY <2>3, <1>3 DEF Unique, Exists
  <2> QED
      BY <2>1, <2>2, <2>3
<1> QED
    BY <1>2, <1>3, <1>4, <1>6

LEMMA InsertKeeps == ASSUME Inv, NEW c \in Calls, Insert(c) PROVE Inv'
<1>1. TypeOK /\ Unique /\ CallInv(c) /\ UNCHANGED <<window, promised>> /\ call[c].new = None
    BY DEF Inv, Insert, At, CallInv
<1>2. CASE WithEmail(call[c].email) # {}
    BY <1>1, <1>2, RefusalKeeps DEF Insert, Codes
<1>3. CASE WithEmail(call[c].email) = {}
  <2>3. [email |-> call[c].email, status |-> "active", password |-> call[c].password] \in Rows
      BY <1>1 DEF CallInv, Insert, At, Rows, Statuses
  <2>10. PICK row \in Rows : /\ row.email = call[c].email
                            /\ \E u \in Ids : ~Exists(u) /\ users' = [users EXCEPT ![u] = row]
      BY <1>3, <2>3 DEF Insert
  <2>1. PICK u \in Ids : ~Exists(u) /\ users' = [users EXCEPT ![u] = row]
      BY <2>10
  <2>2. PICK code \in {200, 500} : Reply(c, code)
      BY <1>3 DEF Insert
  <2>9. Fresh(row)
      BY <1>3, <2>10 DEF WithEmail, Fresh
  <2>4. /\ users' \in [Ids -> Rows \cup {NoRow}] /\ RowsKept /\ Unique'
        /\ \A v \in Ids : v # u => users'[v] = users[v]
    <3>1. users' \in [Ids -> Rows \cup {NoRow}]
        BY <1>1, <2>1 DEF TypeOK
    <3>2. RowsKept
        BY <1>1, <2>1, <2>9, RowStep
    <3>3. Unique'
        BY <1>1, <2>1, <2>9, RowStep
    <3>4. \A v \in Ids : v # u => users'[v] = users[v]
        BY <1>1, <2>1, <2>9, RowStep
    <3> QED
        BY <3>1, <3>2, <3>3, <3>4
  <2>5. call' \in [Calls -> CallSet] /\ \A d \in Calls : d # c => call'[d] = call[d]
      BY <1>1, <2>2, ReplyStep DEF Codes
  <2>6. \A d \in Calls : CallInv(d)'
    <3>1. CallInv(c)'
        BY <1>1, <2>2, <2>4, AnsweredCall DEF Codes
    <3>2. OthersKept(c)
        BY <1>1, <2>5 DEF OthersKept
    <3> QED
        BY <2>4, <3>1, <3>2, OneCallMoves
  <2>7. PromisedPasswordKept'
    <3>1. users[u].password = None
        BY <1>1, <2>1 DEF Exists, NoRow
    <3>2. promised[u] = None
      <4>1. promised[u] \in Passwords \cup {None}
          BY <1>1 DEF TypeOK
      <4>2. promised[u] # None => users[u].password = promised[u]
          BY DEF Inv, PromisedPasswordKept
      <4> QED
          BY <3>1, <4>1, <4>2
    <3> QED
        BY <1>1, <2>4, <3>2 DEF Inv, PromisedPasswordKept
  <2>8. TypeOK'
      BY <1>1, <2>4, <2>5 DEF TypeOK
  <2> QED
      BY <2>4, <2>6, <2>7, <2>8 DEF Inv
<1> QED
    BY <1>2, <1>3

(* The histories of open updates only grow, by rows.                       *)
LEMMA NoteStep ==
    ASSUME TypeOK, NEW u \in Ids, users'[u] \in Rows, Note(u)
    PROVE  /\ window' \in [Calls -> SUBSET Rows]
           /\ \A d \in Calls : window[d] \subseteq window'[d]
BY DEF TypeOK, Note

LEMMA SetStatusKeeps ==
    ASSUME Inv, NEW u \in Ids, NEW s \in Statuses, SetStatus(u, s)
    PROVE  Inv'
<1> DEFINE row == [users[u] EXCEPT !.status = s]
<1>1. TypeOK /\ Unique /\ UNCHANGED <<call, promised>> /\ Exists(u) /\ users[u] \in Rows
    BY RowFields DEF Inv, SetStatus
<1>2. users' = [users EXCEPT ![u] = row]
    BY <1>1 DEF SetStatus, TypeOK
<1>3. row \in Rows /\ row.email = users[u].email /\ row.password = users[u].password
    BY <1>1 DEF Rows
<1> HIDE DEF row
<1>4. /\ users' \in [Ids -> Rows \cup {NoRow}] /\ RowsKept /\ Unique' /\ users'[u] = row
      /\ \A v \in Ids : v # u => users'[v] = users[v]
    BY <1>1, <1>2, <1>3, RowStep
<1>5. window' \in [Calls -> SUBSET Rows] /\ \A d \in Calls : window[d] \subseteq window'[d]
    BY <1>1, <1>3, <1>4, NoteStep DEF SetStatus
<1>6. \A d \in Calls : CallInv(d)'
    BY <1>1, <1>4, <1>5, CallKept DEF Inv
<1>7. PromisedPasswordKept'
    BY <1>1, <1>3, <1>4 DEF Inv, PromisedPasswordKept
<1>8. TypeOK'
    BY <1>1, <1>4, <1>5 DEF TypeOK
<1> QED
    BY <1>4, <1>6, <1>7, <1>8 DEF Inv

(* What Write does when it is not answered with a duplicate key: the row   *)
(* the call found gets the copy, whose e-mail is the row's.                *)
LEMMA StoreStep ==
    ASSUME Inv, NEW c \in Calls, At(c, "write"), NEW u \in WithEmail(call[c].copy.email),
           u = call[c].id, Store(c, u, call[c].copy)
    PROVE  /\ u \in Ids /\ call[c].copy \in Rows /\ call[c].kind = "update"
           /\ users[u].email = call[c].email /\ call[c].new \in {None, call[c].email}
           /\ users' \in [Ids -> Rows \cup {NoRow}] /\ RowsKept /\ Unique'
           /\ users'[u] = call[c].copy /\ \A v \in Ids : v # u => users'[v] = users[v]
<1>1. TypeOK /\ Unique /\ CallInv(c)
    BY DEF Inv
<1>2. /\ u \in Ids /\ call[c].copy \in Rows /\ call[c].kind = "update"
      /\ users[u].email = call[c].email
    BY <1>1 DEF CallInv, At
<1>3. users[u].email = call[c].copy.email
    BY DEF WithEmail
<1>4. call[c].new \in {None, call[c].email}
    BY <1>1, <1>2, <1>3 DEF CallInv, At
<1>5. Exists(u)
    BY <1>1, <1>2, AuthAssumption DEF CallInv, At, Exists, NoRow
<1>6. users' = [users EXCEPT ![u] = call[c].copy]
    BY DEF Store
<1> QED
    BY <1>1, <1>2, <1>3, <1>4, <1>5, <1>6, RowStep

LEMMA WriteKeeps == ASSUME Inv, NEW c \in Calls, Write(c) PROVE Inv'
<1> PICK u \in WithEmail(call[c].copy.email) :
        IF u # call[c].id THEN Reply(c, 409) /\ UNCHANGED <<users, window, promised>>
        ELSE Store(c, u, call[c].copy)
    BY DEF Write
<1>1. CASE u # call[c].id
    BY <1>1, RefusalKeeps DEF Codes
<1>2. CASE u = call[c].id
  <2>1. At(c, "write") /\ Store(c, u, call[c].copy) /\ TypeOK
      BY <1>2 DEF Write, Inv
  <2>2. /\ u \in Ids /\ call[c].copy \in Rows /\ call[c].new \in {None, call[c].email}
        /\ users' \in [Ids -> Rows \cup {NoRow}] /\ RowsKept /\ Unique'
        /\ users'[u] = call[c].copy /\ \A v \in Ids : v # u => users'[v] = users[v]
      BY <1>2, <2>1, StoreStep
  <2>3. PICK code \in {200, 500} : Reply(c, code)
      BY <2>1 DEF Store
  <2>4. call' \in [Calls -> CallSet] /\ \A d \in Calls : d # c => call'[d] = call[d]
      BY <2>1, <2>3, ReplyStep DEF Codes
  <2>5. window' \in [Calls -> SUBSET Rows] /\ \A d \in Calls : window[d] \subseteq window'[d]
    <3>1. users'[u] \in Rows /\ Note(u)
        BY <2>1, <2>2 DEF Store
    <3> QED
        BY <2>1, <2>2, <3>1, NoteStep
  <2>6. \A d \in Calls : CallInv(d)'
    <3>1. CallInv(c)'
        BY <2>1, <2>2, <2>3, AnsweredCall DEF Inv, Codes
    <3>2. OthersKept(c)
        BY <2>4, <2>5 DEF OthersKept
    <3> QED
        BY <2>2, <3>1, <3>2, OneCallMoves
  <2>7. promised' \in [Ids -> Passwords \cup {None}] /\ PromisedPasswordKept'
    <3>1. PICK p \in {call[c].copy.password, None} : promised' = [promised EXCEPT ![u] = p]
        BY <1>2, <2>1 DEF Store
    <3>2. call[c].copy.password \in Passwords
        BY <2>2 DEF Rows
    <3>3. promised \in [Ids -> Passwords \cup {None}]
        BY <2>1 DEF TypeOK
    <3>4. promised'[u] = p /\ \A v \in Ids : v # u => promised'[v] = promised[v]
        BY <2>2, <3>1, <3>3
    <3>5. promised' \in [Ids -> Passwords \cup {None}]
        BY <3>1, <3>2, <3>3
    <3> QED
        BY <2>2, <3>4, <3>5 DEF Inv, PromisedPasswordKept
  <2>8. TypeOK'
      BY <2>2, <2>4, <2>5, <2>7 DEF TypeOK
  <2> QED
      BY <2>2, <2>6, <2>7, <2>8 DEF Inv
<1> QED
    BY <1>1, <1>2

-----------------------------------------------------------------------------
LEMMA InitInv == Init => Inv
<1> SUFFICES ASSUME Init PROVE Inv
    OBVIOUS
<1>1. TypeOK
    BY DEF Init, TypeOK, Idle, CallSet
<1>2. Unique
    BY DEF Init, Unique, Exists
<1>3. PromisedPasswordKept
    BY DEF Init, PromisedPasswordKept
<1>4. ASSUME NEW c \in Calls PROVE CallInv(c)
    BY DEF Init, CallInv, Idle
<1> QED
    BY <1>1, <1>2, <1>3, <1>4 DEF Inv

LEMMA StepInv == Inv /\ [Next]_vars => Inv'
<1> SUFFICES ASSUME Inv, [Next]_vars PROVE Inv'
    OBVIOUS
<1>1. ASSUME NEW c \in Calls, CallNext(c) PROVE Inv'
  <2>1. CASE Register(c)    BY <2>1, RegisterKeeps
  <2>2. CASE Login(c)       BY <2>2, LoginKeeps
  <2>3. CASE UpdateInfo(c)  BY <2>3, UpdateInfoKeeps
  <2>4. CASE HashFails(c)   BY <2>4, HashFailsKeeps
  <2>5. CASE Insert(c)      BY <2>5, InsertKeeps
  <2>6. CASE Read(c)        BY <2>6, ReadKeeps
  <2>7. CASE Find(c)        BY <2>7, FindKeeps
  <2>8. CASE Locate(c)      BY <2>8, LocateKeeps
  <2>9. CASE Write(c)       BY <2>9, WriteKeeps
  <2>10. CASE QueryFails(c) BY <2>10, QueryFailsKeeps
  <2>11. CASE CallLost(c)   BY <2>11, CallLostKeeps
  <2> QED
      BY <1>1, <2>1, <2>2, <2>3, <2>4, <2>5, <2>6, <2>7, <2>8, <2>9, <2>10, <2>11 DEF CallNext
<1>2. ASSUME NEW u \in Ids, NEW s \in Statuses, SetStatus(u, s) PROVE Inv'
    BY <1>2, SetStatusKeeps
<1>3. CASE UNCHANGED vars
    BY <1>3 DEF vars, Inv, TypeOK, Unique, Exists, PromisedPasswordKept, CallInv
<1> QED
    BY <1>1, <1>2, <1>3 DEF Next

LEMMA InvAlways == Spec => []Inv
BY InitInv, StepInv, PTL DEF Spec

(* Every variable of the model keeps its type.                             *)
THEOREM TypeCorrect == Spec => []TypeOK
<1>1. Inv => TypeOK
    BY DEF Inv
<1> QED
    BY <1>1, InvAlways, PTL

(* Whatever registrations and updates run together, an e-mail belongs to   *)
(* one row of users for good, and an update that asks for another e-mail   *)
(* is not answered with success.                                           *)
THEOREM OneRowPerEmail == Spec => []EmailsBelongToOneRow
<1>1. Inv => EmailsBelongToOneRow
    BY DEF Inv, Unique, CallInv, EmailsBelongToOneRow
<1> QED
    BY <1>1, InvAlways, PTL

(* A password that an update stored while no other update of its row was   *)
(* open is the row's until the next one.                                   *)
THEOREM StoredPasswordStays == Spec => []PromisedPasswordKept
<1>1. Inv => PromisedPasswordKept
    BY DEF Inv
<1> QED
    BY <1>1, InvAlways, PTL

-----------------------------------------------------------------------------
(* A step of one call moves no other.                                      *)
LEMMA OthersStay ==
    ASSUME Inv, NEW d \in Calls, CallNext(d), NEW c \in Calls, c # d
    PROVE  call'[c] = call[c]
<1>1. call \in [Calls -> CallSet] /\ TypeOK
    BY DEF Inv, TypeOK
<1>2. ASSUME NEW code \in Codes, Reply(d, code) PROVE call'[c] = call[c]
    BY <1>1, <1>2, ReplyStep
<1>3. CASE HashFails(d) \/ Insert(d) \/ Read(d) \/ QueryFails(d)
    BY <1>2, <1>3 DEF HashFails, Insert, Read, QueryFails, Codes
<1>4. CASE Write(d)
    BY <1>2, <1>4 DEF Write, Store, Codes
<1>5. ASSUME NEW first, NEW k, Begin(d, first, k) PROVE call'[c] = call[c]
    BY <1>1, <1>5 DEF Begin
<1>6. CASE Register(d) \/ Login(d) \/ UpdateInfo(d)
    BY <1>5, <1>6 DEF Register, Login, UpdateInfo
<1>7. CASE Find(d)
  <2>1. CASE Reply(d, 404)
      BY <1>2, <2>1 DEF Codes
  <2>2. ASSUME NEW u, call' = [call EXCEPT ![d].pc = "locate", ![d].id = u, ![d].copy = users[u]]
        PROVE  call'[c] = call[c]
      BY <1>1, <2>2
  <2> QED
      BY <1>7, <2>1, <2>2 DEF Find
<1>8. CASE Locate(d)
    BY <1>1, <1>2, <1>8 DEF Locate, Codes
<1>9. CASE CallLost(d)
    BY <1>1, <1>9 DEF CallLost
<1> QED
    BY <1>3, <1>4, <1>6, <1>7, <1>8, <1>9 DEF CallNext

(* What the steps of a state that satisfies Inv do to the rows: only Write *)
(* changes a password or overwrites a row on behalf of a call.             *)
LEMMA OnlyWriteStores ==
    ASSUME Inv, [Next]_vars, NEW c \in Calls, At(c, "write"), ~At(c, "write")'
    PROVE  Write(c) \/ UNCHANGED users
<1>1. ASSUME NEW d \in Calls, CallNext(d), d # c PROVE call'[c] = call[c]
    BY <1>1, OthersStay
<1>2. ASSUME CallNext(c) PROVE Write(c) \/ UNCHANGED users
    BY <1>2 DEF CallNext, Register, Login, UpdateInfo, Begin, HashFails, Insert, Read, Find, Locate,
                QueryFails, CallLost, At
<1>3. CASE \E u \in Ids, s \in Statuses : SetStatus(u, s)
    BY <1>3 DEF SetStatus, At
<1>4. CASE UNCHANGED vars
    BY <1>4 DEF vars
<1> QED
    BY <1>1, <1>2, <1>3, <1>4 DEF Next, At

LEMMA PasswordStep ==
    ASSUME Inv, [Next]_vars, NEW u \in Ids, Exists(u), users'[u].password # users[u].password
    PROVE  \E c \in Calls : Write(c)
<1>1. ASSUME NEW c \in Calls, Insert(c) PROVE FALSE
    BY <1>1 DEF Insert, Inv, TypeOK
<1>2. ASSUME NEW v \in Ids, NEW s \in Statuses, SetStatus(v, s) PROVE FALSE
  <2>1. users' = [users EXCEPT ![v] = [users[v] EXCEPT !.status = s]] /\ users[v] \in Rows
      BY <1>2, RowFields DEF SetStatus, Inv, TypeOK
  <2>2. [users[v] EXCEPT !.status = s].password = users[v].password
      BY <2>1 DEF Rows
  <2> QED
      BY <2>1, <2>2 DEF Inv, TypeOK
<1>3. ASSUME NEW c \in Calls, CallNext(c) PROVE Write(c)
    BY <1>1, <1>3 DEF CallNext, Register, Login, UpdateInfo, Begin, HashFails, Read, Find, Locate,
                QueryFails, CallLost
<1>4. ~UNCHANGED vars
    BY DEF vars
<1> QED
    BY <1>2, <1>3, <1>4 DEF Next

(* An update changes the password of the row its old_email names and of no *)
(* other, although it is the new e-mail that selects the row.              *)
THEOREM UpdatesHitTheirRow == Spec => UpdatesStayInTheirRow
<1>1. ASSUME Inv, [Next]_vars, NEW u \in Ids, Exists(u), users'[u].password # users[u].password
      PROVE  \E c \in Calls : call[c].kind = "update" /\ call[c].email = users[u].email
                              /\ At(c, "write") /\ ~At(c, "write")'
  <2>1. PICK c \in Calls : Write(c)
      BY <1>1, PasswordStep
  <2>2. PICK w \in WithEmail(call[c].copy.email) :
            IF w # call[c].id THEN Reply(c, 409) /\ UNCHANGED <<users, window, promised>>
            ELSE Store(c, w, call[c].copy)
      BY <2>1 DEF Write
  <2>3. w = call[c].id /\ At(c, "write") /\ Store(c, w, call[c].copy)
      BY <1>1, <2>1, <2>2 DEF Write
  <2>4. /\ call[c].kind = "update" /\ users[w].email = call[c].email
        /\ \A v \in Ids : v # w => users'[v] = users[v]
      BY <1>1, <2>3, StoreStep
  <2>5. w = u
      BY <1>1, <2>4
  <2>6. PICK code \in {200, 500} : Reply(c, code)
      BY <2>3 DEF Store
  <2>7. call'[c].pc = "done"
      BY <1>1, <2>6, ReplyStep DEF Inv, Codes
  <2> QED
      BY <2>3, <2>4, <2>5, <2>7 DEF At
<1>2. Inv /\ [Next]_vars =>
        [\A u \in Ids :
           Exists(u) /\ users'[u].password # users[u].password =>
             \E c \in Calls : call[c].kind = "update" /\ call[c].email = users[u].email
                              /\ At(c, "write") /\ ~At(c, "write")']_vars
    BY <1>1
<1> QED
    BY <1>2, InvAlways, PTL DEF Spec, UpdatesStayInTheirRow

(* What an update puts into its row, its own password aside, the row has   *)
(* held since the update began: an older deactivation is not undone.       *)
THEOREM NothingOld == Spec => NothingOlderThanTheCall
<1>1. ASSUME Inv, [Next]_vars, NEW c \in Calls, NEW u \in Ids,
             At(c, "write"), users'[u] # users[u], ~At(c, "write")'
      PROVE  \E row \in window[c] : /\ users'[u].status = row.status
                                   /\ users'[u].password \in {row.password, call[c].password}
  <2>1. Write(c)
      BY <1>1, OnlyWriteStores
  <2>2. PICK w \in WithEmail(call[c].copy.email) :
            IF w # call[c].id THEN Reply(c, 409) /\ UNCHANGED <<users, window, promised>>
            ELSE Store(c, w, call[c].copy)
      BY <2>1 DEF Write
  <2>3. w = call[c].id /\ Store(c, w, call[c].copy)
      BY <1>1, <2>2
  <2>4. users'[w] = call[c].copy /\ \A v \in Ids : v # w => users'[v] = users[v]
      BY <1>1, <2>3, StoreStep
  <2>5. users'[u] = call[c].copy
      BY <1>1, <2>4
  <2> QED
      BY <1>1, <2>5 DEF Inv, CallInv, At
<1>2. Inv /\ [Next]_vars =>
        [\A c \in Calls, u \in Ids :
           At(c, "write") /\ users'[u] # users[u] /\ ~At(c, "write")' =>
             \E row \in window[c] :
                 /\ users'[u].status = row.status
                 /\ users'[u].password \in {row.password, call[c].password}]_vars
    BY <1>1
<1> QED
    BY <1>2, InvAlways, PTL DEF Spec, NothingOlderThanTheCall
=============================================================================
