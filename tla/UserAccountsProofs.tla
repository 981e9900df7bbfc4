------------------------- MODULE UserAccountsProofs -------------------------
(***************************************************************************)
(* The tables of user-service under any transactions, emails, lifetime and *)
(* faults.  The invariants say what an open transaction holds in memory:   *)
(* what it writes at its commit was read when it began, and others may     *)
(* have committed since.  The types, last, count the commits and so ask    *)
(* for finitely many requests.                                             *)
(***************************************************************************)
EXTENDS UserAccounts, FiniteSetTheorems, TLAPS

UserOps == {"createUser", "updateNombre", "updateTelefono"}

Typed ==
  /\ step \in [Requests -> {"waiting", "open", "done", "lost"}]
  /\ row \in [Requests -> Requests]
  /\ users = [r \in Requests |-> users[r]]
  /\ sessions = [r \in Requests |-> sessions[r]]
  /\ entity = [r \in Requests |-> entity[r]]
  /\ reply \in [Requests -> {"none", "OK", "INTERNAL", "UNAUTHENTICATED", "ALREADY_EXISTS"}]
  /\ commits \in Nat /\ now \in Nat
  /\ \A r \in Requests : reply[r] = "OK" => step[r] = "done"

\* A row was inserted by a transaction that is over; a user keeps its email.
StoredRows ==
  \A x \in Requests :
    /\ \/ users[x] = NoRow
       \/ /\ OpOf[x] = "createUser" /\ step[x] = "done"
          /\ \E n \in 0 .. commits : users[x] = UserRow(EmailOf[x], n)
    /\ \/ sessions[x] = NoRow
       \/ /\ OpOf[x] = "authenticate" /\ step[x] = "done"
          /\ \E u \in Users, t \in Nat, v \in BOOLEAN : sessions[x] = SessionRow(u, t, v)

\* What the request r, about the row x, has in memory: e.
Holds(r, x, e) ==
  \/ /\ OpOf[r] = "createUser" /\ x = r
     /\ e = UserRow(EmailOf[r], 0)
  \/ /\ OpOf[r] \in {"updateNombre", "updateTelefono"} /\ x \in Users
     /\ \E n \in 0 .. commits : e = UserRow(EmailOf[x], n)
  \/ /\ OpOf[r] = "authenticate" /\ x = r
     /\ \E u \in Users, t \in Nat : e = SessionRow(u, t, FALSE)
  \/ /\ OpOf[r] = "validateToken" /\ x \in Requests /\ sessions[x] # NoRow
     /\ \E u \in Users, t \in Nat, v \in BOOLEAN : e = SessionRow(u, t, v)
  \/ /\ OpOf[r] = "logout" /\ x \in Requests /\ sessions[x] # NoRow
     /\ \E u \in Users, t \in Nat : e = SessionRow(u, t, TRUE)

OpenHolds == \A r \in Open : Holds(r, row[r], entity[r])

Base == Typed /\ StoredRows /\ OpenHolds

-----------------------------------------------------------------------------
(* The steps *)

\* A body ends, with what it read of the row x and what it changed of it.
Reads(r, x, e) ==
  \/ OpOf[r] = "createUser" /\ x = r /\ e = UserRow(EmailOf[r], 0)
  \/ OpOf[r] \in {"updateNombre", "updateTelefono"} /\ x \in Users /\ e = users[x]
  \/ OpOf[r] = "authenticate" /\ x = r /\ \E u \in Users : e = SessionRow(u, now + Lifetime, FALSE)
  \/ OpOf[r] = "validateToken" /\ x \in Requests /\ Active(x) /\ e = sessions[x]
  \/ OpOf[r] = "logout" /\ x \in Requests /\ Active(x) /\ e = SessionRow(sessions[x].user, sessions[x].expires, TRUE)

Begins(r, x, e) ==
  /\ step[r] = "waiting"
  /\ Reads(r, x, e)
  /\ \E events : Leave(r, x, e, events)

\* Every other step writes nothing, opens nothing and answers nothing with OK.
Passes ==
  /\ UNCHANGED <<tableVars, row, entity, announced, overlapped>>
  /\ now' \in {now, now + 1}
  /\ step' \in [Requests -> {"waiting", "open", "done", "lost"}]
  /\ reply' \in [Requests -> {"none", "OK", "INTERNAL", "UNAUTHENTICATED", "ALREADY_EXISTS"}]
  /\ \A r \in Requests :
       /\ step[r] = "done" => step'[r] = "done"
       /\ step'[r] = "open" => step[r] = "open"
       /\ reply'[r] = "OK" => reply[r] = "OK"

LEMMA NextSteps ==
  ASSUME Typed, [Next]_vars
  PROVE  \/ \E r \in Requests, x \in Requests : \E e : Begins(r, x, e)
         \/ \E r \in Requests : Commit(r)
         \/ Passes
<1> DEFINE BeginsOne(r) == \E x \in Requests : \E e : Begins(r, x, e)
<1> USE DEF Typed
<1>1. ASSUME NEW r \in Requests, NEW code \in {"INTERNAL", "UNAUTHENTICATED", "ALREADY_EXISTS"},
             Throw(r, code), step[r] = "waiting"
      PROVE  Passes
  BY <1>1 DEF Throw, Passes, tableVars
<1>2. ASSUME NEW r \in Requests, CreateUser(r) PROVE Passes \/ BeginsOne(r)
  BY <1>1, <1>2 DEF CreateUser, Starts, Begins, Reads
<1>3. ASSUME NEW r \in Requests, UpdateUser(r) PROVE BeginsOne(r)
  BY <1>3 DEF UpdateUser, Starts, Begins, Reads, Users
<1>4. ASSUME NEW r \in Requests, Authenticate(r) PROVE Passes \/ BeginsOne(r)
  BY <1>1, <1>4 DEF Authenticate, Starts, Begins, Reads, WithEmail
<1>5. ASSUME NEW r \in Requests, ValidateToken(r)
      PROVE  Passes \/ BeginsOne(r)
  BY <1>1, <1>5 DEF ValidateToken, Starts, Begins, Reads, Tokens
<1>6. ASSUME NEW r \in Requests, Logout(r)
      PROVE  Passes \/ BeginsOne(r)
  BY <1>1, <1>6 DEF Logout, Starts, Begins, Reads, Tokens
<1>7. ASSUME NEW r \in Requests, CommitFails(r) PROVE Passes
  BY <1>7 DEF CommitFails, Finish, Passes, tableVars
<1>8. Crash => Passes
  BY DEF Crash, Passes, Open, tableVars
<1>9. Tick => Passes
  BY DEF Tick, Passes, requestVars, tableVars
<1>10. UNCHANGED vars => Passes
  BY DEF vars, requestVars, tableVars, Passes
<1> HIDE DEF BeginsOne, Typed
<1>11. (\E r \in Requests : BeginsOne(r)) \/ (\E r \in Requests : Commit(r)) \/ Passes
  BY <1>2, <1>3, <1>4, <1>5, <1>6, <1>7, <1>8, <1>9, <1>10 DEF Next
<1> QED BY <1>11 DEF BeginsOne

\* What a commit writes: the row its request is about, as it held it.
WritesUser(r, x) ==
  /\ OpOf[r] \in UserOps /\ OpOf[x] = "createUser"
  /\ IF OpOf[r] = "createUser" THEN x = r /\ WithEmail(EmailOf[r]) = {} ELSE x \in Users
  /\ \E n \in 0 .. commits + 1 :
       /\ users' = [users EXCEPT ![x] = UserRow(EmailOf[x], n)]
       /\ n = IF OpOf[r] = "updateTelefono" THEN entity[r].nombre ELSE commits + 1
  /\ UNCHANGED sessions

WritesSession(r, x) ==
  /\ OpOf[r] \notin UserOps /\ OpOf[x] = "authenticate"
  /\ (OpOf[r] = "authenticate" /\ x = r) \/ sessions[x] # NoRow
  /\ \E u \in Users, t \in Nat, v \in BOOLEAN :
       sessions' = [sessions EXCEPT ![x] = SessionRow(u, t, v)] /\ (OpOf[r] = "logout" => v = TRUE)
  /\ UNCHANGED users

Finishes(r) ==
  /\ step[r] = "open"
  /\ step' = [step EXCEPT ![r] = "done"]
  /\ \E code \in {"OK", "INTERNAL"} : reply' = [reply EXCEPT ![r] = code]
  /\ commits' = commits + 1
  /\ UNCHANGED <<row, entity, overlapped, announced, now>>

LEMMA CommitWrites ==
  ASSUME Base, NEW r \in Requests, Commit(r)
  PROVE  Finishes(r) /\ (WritesUser(r, row[r]) \/ WritesSession(r, row[r]))
<1>1. Finishes(r)
  BY DEF Commit, Write, Finish, Finishes
<1>2. r \in Open /\ row[r] \in Requests /\ Holds(r, row[r], entity[r])
  BY DEF Base, Typed, OpenHolds, Commit, Open
<1>3. PICK x \in Requests : x = row[r]
  BY <1>2
<1>4. PICK e : e = entity[r]
  OBVIOUS
<1>5. commits \in Nat /\ commits + 1 \in 0 .. commits + 1 /\ 0 .. commits \subseteq 0 .. commits + 1
  BY DEF Base, Typed
<1>6. CASE OpOf[r] = "createUser"
  <2>1. x = r /\ e = UserRow(EmailOf[r], 0)
    BY <1>2, <1>3, <1>4, <1>6 DEF Holds
  <2>2. WithEmail(EmailOf[r]) = {}
    BY <1>6 DEF Commit, Conflict
  <2>3. WrittenUser(r) = UserRow(EmailOf[r], commits + 1)
    BY <1>4, <1>6, <2>1 DEF WrittenUser, UserRow
  <2>4. users' = [users EXCEPT ![r] = UserRow(EmailOf[r], commits + 1)] /\ UNCHANGED sessions
    BY <1>3, <1>6, <2>1, <2>3 DEF Commit, Write
  <2> QED BY <1>1, <1>3, <1>5, <1>6, <2>1, <2>2, <2>4 DEF WritesUser, UserOps
<1>7. CASE OpOf[r] \in {"updateNombre", "updateTelefono"}
  <2>1. PICK n \in 0 .. commits : x \in Users /\ e = UserRow(EmailOf[x], n)
    BY <1>2, <1>3, <1>4, <1>7 DEF Holds
  <2>2. PICK m \in 0 .. commits + 1 : m = IF OpOf[r] = "updateTelefono" THEN n ELSE commits + 1
    BY <1>5, <2>1
  <2>3. WrittenUser(r) = UserRow(EmailOf[x], m)
    <3>1. entity[r].email = EmailOf[x]
      BY <1>4, <2>1 DEF UserRow
    <3>2. CASE OpOf[r] = "updateNombre"
      BY <2>2, <3>1, <3>2 DEF WrittenUser
    <3>3. CASE OpOf[r] = "updateTelefono"
      BY <1>4, <2>1, <2>2, <3>3 DEF WrittenUser
    <3> QED BY <1>7, <3>2, <3>3
  <2>4. users' = [users EXCEPT ![x] = UserRow(EmailOf[x], m)] /\ UNCHANGED sessions
    BY <1>3, <1>7, <2>3 DEF Commit, Write
  <2>5. m = IF OpOf[r] = "updateTelefono" THEN entity[r].nombre ELSE commits + 1
    BY <1>4, <2>1, <2>2 DEF UserRow
  <2>6. OpOf[x] = "createUser"
    BY <2>1 DEF Base, StoredRows, Users, NoRow
  <2> QED BY <1>1, <1>3, <1>7, <2>1, <2>4, <2>5, <2>6 DEF WritesUser, UserOps
<1>8. CASE OpOf[r] \in {"authenticate", "validateToken", "logout"}
  <2>1. PICK u \in Users, t \in Nat, v \in BOOLEAN :
          e = SessionRow(u, t, v) /\ (OpOf[r] = "logout" => v = TRUE)
    BY <1>2, <1>3, <1>4, <1>8 DEF Holds
  <2>2. sessions' = [sessions EXCEPT ![x] = SessionRow(u, t, v)] /\ UNCHANGED users
    BY <1>3, <1>4, <1>8, <2>1 DEF Commit, Write
  <2>3. (OpOf[r] = "authenticate" /\ x = r) \/ sessions[x] # NoRow
    BY <1>2, <1>3, <1>4, <1>8 DEF Holds
  <2>4. OpOf[x] = "authenticate"
    BY <2>3 DEF Base, StoredRows
  <2>5. OpOf[r] \notin UserOps
    BY <1>8 DEF UserOps
  <2>6. WritesSession(r, x)
    BY <2>1, <2>2, <2>3, <2>4, <2>5 DEF WritesSession
  <2> QED BY <1>1, <1>3, <2>6
<1>9. OpOf[r] \in Ops
  BY RequestsAssumption DEF RequestsAssumption
<1> QED BY <1>6, <1>7, <1>8, <1>9 DEF Ops

-----------------------------------------------------------------------------
(* The invariant *)

\* Rows and users only come; who holds a row in memory holds it still.
LEMMA HoldsStays ==
  ASSUME NEW r \in Requests, NEW x \in Requests, NEW e, Holds(r, x, e),
         Users \subseteq Users', sessions[x] # NoRow => sessions'[x] # NoRow,
         commits \in Nat, commits' \in {commits, commits + 1}
  PROVE  Holds(r, x, e)'
<1>1. 0 .. commits \subseteq 0 .. commits'
  OBVIOUS
<1> QED BY <1>1 DEF Holds

LEMMA BeginKeepsBase ==
  ASSUME Base, NEW r \in Requests, NEW x \in Requests, NEW e, Begins(r, x, e)
  PROVE  Base'
<1>1. /\ step[r] = "waiting"
      /\ step' = [step EXCEPT ![r] = "open"]
      /\ row' = [row EXCEPT ![r] = x]
      /\ entity' = [entity EXCEPT ![r] = e]
      /\ UNCHANGED <<users, sessions, commits, reply, now>>
  BY DEF Begins, Leave, tableVars
<1>2. Typed'
  BY <1>1 DEF Base, Typed
<1>3. StoredRows'
  BY <1>1 DEF Base, Typed, StoredRows, Users
<1>4. Holds(r, x, e)
  <2>1. CASE OpOf[r] = "createUser"
    BY <2>1 DEF Begins, Reads, Holds
  <2>2. CASE OpOf[r] \in {"updateNombre", "updateTelefono"}
    <3>1. x \in Users /\ e = users[x]
      BY <2>2 DEF Begins, Reads
    <3>2. users[x] # NoRow
      BY <3>1 DEF Users, NoRow
    <3>3. \E n \in 0 .. commits : users[x] = UserRow(EmailOf[x], n)
      BY <3>2 DEF Base, StoredRows
    <3> QED BY <2>2, <3>1, <3>3 DEF Holds
  <2>3. CASE OpOf[r] = "authenticate"
    <3>1. now + Lifetime \in Nat
      BY LifetimeAssumption DEF Base, Typed, LifetimeAssumption
    <3> QED BY <2>3, <3>1 DEF Begins, Reads, Holds
  <2>4. CASE OpOf[r] = "validateToken"
    BY <2>4 DEF Begins, Reads, Holds, Base, StoredRows, Active, NoRow
  <2>5. CASE OpOf[r] = "logout"
    <3>1. sessions[x] # NoRow /\ e = SessionRow(sessions[x].user, sessions[x].expires, TRUE)
      BY <2>5 DEF Begins, Reads, Active, NoRow
    <3>2. PICK u \in Users, t \in Nat, v \in BOOLEAN : sessions[x] = SessionRow(u, t, v)
      BY <3>1 DEF Base, StoredRows
    <3>3. e = SessionRow(u, t, TRUE)
      BY <3>1, <3>2 DEF SessionRow
    <3> QED BY <2>5, <3>1, <3>3 DEF Holds
  <2> QED BY <2>1, <2>2, <2>3, <2>4, <2>5, RequestsAssumption DEF RequestsAssumption, Ops
<1>5. OpenHolds'
  <2> SUFFICES ASSUME NEW s \in Open' PROVE Holds(s, row[s], entity[s])'
    BY DEF OpenHolds
  <2>1. PICK y, f : y = row'[s] /\ f = entity'[s]
    OBVIOUS
  <2>2. s \in Requests /\ y \in Requests /\ Holds(s, y, f)
    BY <1>1, <1>4, <2>1 DEF Base, Typed, OpenHolds, Open
  <2>3. Holds(s, y, f)'
    BY <1>1, <2>2, HoldsStays DEF Base, Typed, Users
  <2> QED BY <2>1, <2>3
<1> QED BY <1>2, <1>3, <1>5 DEF Base

LEMMA PassKeepsBase ==
  ASSUME Base, Passes
  PROVE  Base'
<1>1. Typed' /\ Open' \subseteq Open
  BY DEF Base, Typed, Passes, tableVars, Open
<1>2. StoredRows'
  BY DEF Base, StoredRows, Passes, tableVars, Users
<1>3. OpenHolds'
  <2> SUFFICES ASSUME NEW s \in Open' PROVE Holds(s, row[s], entity[s])'
    BY DEF OpenHolds
  <2>1. PICK y, f : y = row'[s] /\ f = entity'[s]
    OBVIOUS
  <2>2. s \in Requests /\ y \in Requests /\ Holds(s, y, f)
    BY <1>1, <2>1 DEF Base, Typed, OpenHolds, Open, Passes
  <2>3. Holds(s, y, f)'
    BY <2>2, HoldsStays DEF Base, Typed, Users, Passes, tableVars
  <2> QED BY <2>1, <2>3
<1> QED BY <1>1, <1>2, <1>3 DEF Base

LEMMA CommitKeepsBase ==
  ASSUME Base, NEW r \in Requests, Commit(r)
  PROVE  Base' /\ Users \subseteq Users' /\ \A y \in Requests : sessions[y] # NoRow => sessions'[y] # NoRow
<1>1. PICK x \in Requests : x = row[r]
  BY DEF Base, Typed
<1>2. Finishes(r) /\ (WritesUser(r, x) \/ WritesSession(r, x))
  BY <1>1, CommitWrites
<1>3. Users \subseteq Users' /\ \A y \in Requests : sessions[y] # NoRow => sessions'[y] # NoRow
  BY <1>2 DEF WritesUser, WritesSession, Users, UserRow, SessionRow, NoRow, Base, Typed
<1>4. commits \in Nat /\ commits' = commits + 1 /\ 0 .. commits \subseteq 0 .. commits'
  BY <1>2 DEF Finishes, Base, Typed
<1>5. Typed'
  <2>1. users' = [y \in Requests |-> users'[y]] /\ sessions' = [y \in Requests |-> sessions'[y]]
    BY <1>2 DEF WritesUser, WritesSession, Base, Typed
  <2>2. PICK code \in {"OK", "INTERNAL"} : reply' = [reply EXCEPT ![r] = code]
    BY <1>2 DEF Finishes
  <2>3. step' = [step EXCEPT ![r] = "done"] /\ UNCHANGED <<row, entity, now>>
    BY <1>2 DEF Finishes
  <2>4. /\ step' \in [Requests -> {"waiting", "open", "done", "lost"}]
        /\ reply' \in [Requests -> {"none", "OK", "INTERNAL", "UNAUTHENTICATED", "ALREADY_EXISTS"}]
    BY <2>2, <2>3 DEF Base, Typed
  <2>5. \A y \in Requests : reply'[y] = "OK" => step'[y] = "done"
    BY <2>2, <2>3 DEF Base, Typed
  <2>6. commits' \in Nat
    BY <1>4
  <2> QED BY <2>1, <2>3, <2>4, <2>5, <2>6 DEF Base, Typed
<1>6. StoredRows'
  <2> SUFFICES ASSUME NEW y \in Requests
               PROVE  /\ \/ users'[y] = NoRow
                         \/ /\ OpOf[y] = "createUser" /\ step'[y] = "done"
                            /\ \E n \in 0 .. commits' : users'[y] = UserRow(EmailOf[y], n)
                      /\ \/ sessions'[y] = NoRow
                         \/ /\ OpOf[y] = "authenticate" /\ step'[y] = "done"
                            /\ \E u \in Users', t \in Nat, v \in BOOLEAN : sessions'[y] = SessionRow(u, t, v)
    BY DEF StoredRows
  <2>1. step[y] = "done" \/ y = r => step'[y] = "done"
    BY <1>2 DEF Finishes, Base, Typed
  <2>2. \/ users'[y] = NoRow
        \/ /\ OpOf[y] = "createUser" /\ step'[y] = "done"
           /\ \E n \in 0 .. commits' : users'[y] = UserRow(EmailOf[y], n)
    <3>1. CASE users'[y] = users[y]
      BY <1>4, <2>1, <3>1 DEF Base, StoredRows
    <3>2. CASE users'[y] # users[y]
      <4>1. WritesUser(r, x) /\ y = x
        BY <1>2, <3>2 DEF WritesUser, WritesSession, Base, Typed
      <4>2. step[y] = "done" \/ y = r
        BY <4>1 DEF WritesUser, Base, StoredRows, Users, NoRow
      <4>3. \E n \in 0 .. commits' : users'[y] = UserRow(EmailOf[y], n)
        BY <1>4, <4>1 DEF WritesUser, Base, Typed
      <4> QED BY <2>1, <4>1, <4>2, <4>3 DEF WritesUser
    <3> QED BY <3>1, <3>2
  <2>3. \/ sessions'[y] = NoRow
        \/ /\ OpOf[y] = "authenticate" /\ step'[y] = "done"
           /\ \E u \in Users', t \in Nat, v \in BOOLEAN : sessions'[y] = SessionRow(u, t, v)
    <3>1. CASE sessions'[y] = sessions[y]
      BY <1>3, <2>1, <3>1 DEF Base, StoredRows
    <3>2. CASE sessions'[y] # sessions[y]
      <4>1. WritesSession(r, x) /\ y = x
        BY <1>2, <3>2 DEF WritesUser, WritesSession, Base, Typed
      <4>2. step[y] = "done" \/ y = r
        BY <4>1 DEF WritesSession, Base, StoredRows
      <4>3. \E u \in Users', t \in Nat, v \in BOOLEAN : sessions'[y] = SessionRow(u, t, v)
        BY <1>3, <4>1 DEF WritesSession, Base, Typed
      <4> QED BY <2>1, <4>1, <4>2, <4>3 DEF WritesSession
    <3> QED BY <3>1, <3>2
  <2> QED BY <2>2, <2>3
<1>7. OpenHolds'
  <2> SUFFICES ASSUME NEW s \in Open' PROVE Holds(s, row[s], entity[s])'
    BY DEF OpenHolds
  <2>1. PICK y, f : y = row'[s] /\ f = entity'[s]
    OBVIOUS
  <2>2. s \in Requests /\ y \in Requests /\ Holds(s, y, f)
    BY <1>2, <2>1 DEF Base, Typed, OpenHolds, Open, Finishes
  <2>3. Holds(s, y, f)'
    BY <1>3, <1>4, <2>2, HoldsStays
  <2> QED BY <2>1, <2>3
<1> QED BY <1>3, <1>5, <1>6, <1>7 DEF Base

LEMMA BaseHolds == Spec => []Base
<1>1. Init => Base
  BY RequestsAssumption DEF Init, Base, Typed, StoredRows, OpenHolds, Open
<1>2. Base /\ [Next]_vars => Base'
  BY NextSteps, BeginKeepsBase, CommitKeepsBase, PassKeepsBase DEF Base
<1> QED BY <1>1, <1>2, PTL DEF Spec

-----------------------------------------------------------------------------
(* The properties *)

LEMMA UserFields ==
  ASSUME NEW email, NEW n
  PROVE  UserRow(email, n).exists /\ UserRow(email, n).email = email /\ UserRow(email, n).nombre = n
BY DEF UserRow

LEMMA SessionFields ==
  ASSUME NEW u, NEW t, NEW v
  PROVE  SessionRow(u, t, v).exists /\ SessionRow(u, t, v).user = u /\ SessionRow(u, t, v).revoked = v
BY DEF SessionRow

LEMMA NoRowIsNone == ~NoRow.exists
BY DEF NoRow

\* What StoredRows says of the fields.
StoredFields ==
  \A x \in Requests :
    /\ users[x] # NoRow => x \in Users
    /\ x \in Users => users[x] # NoRow /\ users[x].email = EmailOf[x]
    /\ sessions[x] # NoRow => sessions[x].exists /\ sessions[x].user \in Users

LEMMA FieldsOfRows == StoredRows => StoredFields
<1> SUFFICES ASSUME StoredRows, NEW x \in Requests
             PROVE  /\ users[x] # NoRow => x \in Users
                    /\ x \in Users => users[x] # NoRow /\ users[x].email = EmailOf[x]
                    /\ sessions[x] # NoRow => sessions[x].exists /\ sessions[x].user \in Users
  BY DEF StoredFields
<1>1. ASSUME users[x] # NoRow PROVE users[x].exists /\ users[x].email = EmailOf[x]
  <2>1. PICK n \in 0 .. commits : users[x] = UserRow(EmailOf[x], n)
    BY <1>1 DEF StoredRows
  <2> QED BY <2>1, UserFields
<1>2. users[x].exists => users[x] # NoRow
  BY NoRowIsNone
<1>3. ASSUME sessions[x] # NoRow PROVE sessions[x].exists /\ sessions[x].user \in Users
  <2>1. PICK u \in Users, t \in Nat, v \in BOOLEAN : sessions[x] = SessionRow(u, t, v)
    BY <1>3 DEF StoredRows
  <2> QED BY <2>1, SessionFields
<1> QED BY <1>1, <1>2, <1>3 DEF Users

\* However registrations race past existsByEmail(), the index leaves one user
\* to each email, and no update changes the email of another one.
THEOREM OneUserHasAnEmail == Spec => []OneUserPerEmail
<1>1. Init => OneUserPerEmail
  BY DEF Init, OneUserPerEmail, Users, NoRow
<1>2. Base /\ StoredFields /\ StoredFields' /\ OneUserPerEmail /\ [Next]_vars => OneUserPerEmail'
  <2> SUFFICES ASSUME Base, StoredFields, StoredFields', OneUserPerEmail, [Next]_vars
               PROVE  OneUserPerEmail'
    OBVIOUS
  <2>1. CASE UNCHANGED users
    BY <2>1 DEF OneUserPerEmail, Users
  <2>2. ASSUME NEW r \in Requests, Commit(r) PROVE OneUserPerEmail'
    <3>1. PICK x \in Requests : x = row[r]
      BY DEF Base, Typed
    <3>2. WritesUser(r, x) \/ UNCHANGED users
      BY <2>2, <3>1, CommitWrites DEF WritesSession
    <3>3. CASE WritesUser(r, x)
      <4>1. Users' \subseteq Users \cup {x}
        BY <3>3 DEF WritesUser, Users, Base, Typed
      <4>2. \A u \in Users' : users'[u].email = EmailOf[u]
        BY DEF StoredFields, Users
      <4>3. \A u \in Users : users[u].email = EmailOf[u]
        BY DEF StoredFields, Users
      <4>4. x \in Users \/ \A u \in Users : EmailOf[u] # EmailOf[x]
        BY <3>3, <4>3 DEF WritesUser, WithEmail
      <4> QED BY <4>1, <4>2, <4>3, <4>4 DEF OneUserPerEmail
    <3> QED BY <2>1, <3>2, <3>3
  <2>3. ASSUME NEW r \in Requests, NEW x \in Requests, NEW e, Begins(r, x, e) PROVE UNCHANGED users
    BY <2>3 DEF Begins, Leave, tableVars
  <2>4. Passes => UNCHANGED users
    BY DEF Passes, tableVars
  <2> QED BY <2>1, <2>2, <2>3, <2>4, NextSteps DEF Base
<1> QED BY <1>1, <1>2, BaseHolds, FieldsOfRows, PTL DEF Spec, Base

\* What was answered OK is stored and stays, whatever else commits, fails or
\* stops.
THEOREM AnsweredStaysStored == Spec => []AnsweredIsStored
<1>1. Init => AnsweredIsStored
  BY DEF Init, AnsweredIsStored
<1>2. Base /\ StoredFields' /\ AnsweredIsStored /\ [Next]_vars => AnsweredIsStored'
  <2> SUFFICES ASSUME Base, StoredFields', AnsweredIsStored, [Next]_vars
               PROVE  AnsweredIsStored'
    OBVIOUS
  <2>1. ASSUME NEW r \in Requests, Commit(r) PROVE AnsweredIsStored'
    <3>1. PICK x \in Requests : x = row[r]
      BY DEF Base, Typed
    <3>2. Finishes(r) /\ (WritesUser(r, x) \/ WritesSession(r, x))
      BY <2>1, <3>1, CommitWrites
    <3>3. Users \subseteq Users' /\ \A y \in Requests : sessions[y] # NoRow => sessions'[y] # NoRow
      BY <2>1, CommitKeepsBase
    <3>4. ASSUME NEW y \in Requests, reply'[y] = "OK", OpOf[y] = "createUser"
          PROVE  y \in Users'
      <4>1. CASE y = r
        <5>1. WritesUser(r, r)
          BY <3>2, <3>4, <4>1 DEF WritesUser, WritesSession, UserOps
        <5>2. users'[r] # NoRow
          BY <5>1 DEF WritesUser, UserRow, NoRow, Base, Typed
        <5> QED BY <4>1, <5>2 DEF StoredFields
      <4>2. CASE y # r
        <5>1. reply[y] = "OK"
          BY <3>2, <3>4, <4>2 DEF Finishes, Base, Typed
        <5> QED BY <3>3, <3>4, <5>1 DEF AnsweredIsStored
      <4> QED BY <4>1, <4>2
    <3>5. ASSUME NEW y \in Requests, reply'[y] = "OK", OpOf[y] = "authenticate"
          PROVE  sessions'[y].exists /\ sessions'[y].user \in Users'
      <4>1. sessions'[y] # NoRow
        <5>1. CASE y = r
          <6>1. x = r
            BY <2>1, <3>1, <3>5, <5>1 DEF Base, OpenHolds, Open, Holds, Commit
          <6>2. WritesSession(r, r)
            BY <3>2, <3>5, <5>1, <6>1 DEF WritesUser, UserOps
          <6> QED BY <5>1, <6>2 DEF WritesSession, SessionRow, NoRow, Base, Typed
        <5>2. CASE y # r
          <6>1. reply[y] = "OK"
            BY <3>2, <3>5, <5>2 DEF Finishes, Base, Typed
          <6>2. sessions[y].exists
            BY <3>5, <6>1 DEF AnsweredIsStored
          <6> QED BY <3>3, <6>2 DEF NoRow
        <5> QED BY <5>1, <5>2
      <4> QED BY <4>1 DEF StoredFields
    <3> QED BY <3>4, <3>5 DEF AnsweredIsStored
  <2>2. ASSUME NEW r \in Requests, NEW x \in Requests, NEW e, Begins(r, x, e)
        PROVE  AnsweredIsStored'
    BY <2>2 DEF Begins, Leave, tableVars, AnsweredIsStored, Users
  <2>3. ASSUME Passes PROVE AnsweredIsStored'
    BY <2>3 DEF Passes, AnsweredIsStored, Users, tableVars
  <2> QED BY <2>1, <2>2, <2>3, NextSteps DEF Base
<1> QED BY <1>1, <1>2, BaseHolds, FieldsOfRows, PTL DEF Spec, Base

\* Two transactions that are open on one row have both been seen to overlap.
Alone == \A r, s \in Open : r # s /\ row[r] = row[s] => r \in overlapped

LEMMA BeginKeepsAlone ==
  ASSUME Base, Alone, NEW s \in Requests, NEW x \in Requests, NEW e, Begins(s, x, e)
  PROVE  Alone' /\ overlapped \subseteq overlapped'
<1>1. /\ step' = [step EXCEPT ![s] = "open"] /\ row' = [row EXCEPT ![s] = x] /\ step[s] = "waiting"
      /\ overlapped' = overlapped \cup
           (LET others == {r \in Open : row[r] = x} IN others \cup (IF others = {} THEN {} ELSE {s}))
  BY DEF Begins, Leave
<1>2. Open' = Open \cup {s} /\ s \notin Open
  BY <1>1 DEF Open, Base, Typed
<1>3. row'[s] = x /\ \A r \in Open : row'[r] = row[r]
  BY <1>1, <1>2 DEF Open, Base, Typed
<1> QED BY <1>1, <1>2, <1>3 DEF Alone

LEMMA AloneHolds == Spec => []Alone
<1>1. Init => Alone
  BY DEF Init, Alone, Open
<1>2. Base /\ Alone /\ [Next]_vars => Alone'
  <2> SUFFICES ASSUME Base, Alone, [Next]_vars PROVE Alone'
    OBVIOUS
  <2>1. ASSUME NEW r \in Requests, Commit(r) PROVE Open' \subseteq Open /\ UNCHANGED <<row, overlapped>>
    BY <2>1, CommitWrites DEF Finishes, Open, Base, Typed
  <2>2. Passes => Open' \subseteq Open /\ UNCHANGED <<row, overlapped>>
    BY DEF Passes, Open
  <2> QED BY <2>1, <2>2, BeginKeepsAlone, NextSteps DEF Base, Alone
<1> QED BY <1>1, <1>2, BaseHolds, PTL DEF Spec

-----------------------------------------------------------------------------
(* A logout *)

\* A session closed by a logout that overlapped with nothing is closed for
\* good: what is read of it is refused, so no transaction holds it.
ClosedForGood ==
  \A r \in Requests \ overlapped : OpOf[r] = "logout" /\ reply[r] = "OK" =>
    /\ sessions[row[r]] # NoRow /\ sessions[row[r]].revoked
    /\ \A s \in Open : row[s] # row[r]

LEMMA CommitKeepsClosed ==
  ASSUME Base, Alone, ClosedForGood, NEW s \in Requests, Commit(s)
  PROVE  ClosedForGood'
<1>1. PICK x \in Requests : x = row[s]
  BY DEF Base, Typed
<1>2. Finishes(s) /\ (WritesUser(s, x) \/ WritesSession(s, x))
  BY <1>1, CommitWrites
<1>3. Open' \subseteq Open /\ s \notin Open' /\ s \in Open /\ UNCHANGED <<row, overlapped>>
  BY <1>2 DEF Finishes, Open, Base, Typed
<1> SUFFICES ASSUME NEW r \in Requests, r \notin overlapped, OpOf[r] = "logout", reply'[r] = "OK"
             PROVE  /\ sessions'[row[r]] # NoRow /\ sessions'[row[r]].revoked
                    /\ \A q \in Open' : row[q] # row[r]
  BY <1>3 DEF ClosedForGood
<1>4. CASE r = s
  <2>1. WritesSession(s, x)
    BY <1>2, <1>4 DEF WritesUser, UserOps
  <2>2. PICK u \in Users, t \in Nat, v \in BOOLEAN : sessions'[x] = SessionRow(u, t, v) /\ v
    BY <1>4, <2>1 DEF WritesSession, Base, Typed
  <2>3. sessions'[x] # NoRow /\ sessions'[x].revoked
    <3>1. SessionRow(u, t, v).exists /\ SessionRow(u, t, v).revoked = v
      BY SessionFields
    <3>2. sessions'[x].exists /\ sessions'[x].revoked = v
      BY <2>2, <3>1
    <3>3. v
      BY <2>2
    <3>4. sessions'[x] # NoRow
      BY <3>2, NoRowIsNone
    <3> QED BY <3>2, <3>3, <3>4
  <2>4. \A q \in Open' : row[q] # row[r]
    BY <1>3, <1>4 DEF Alone
  <2> QED BY <1>1, <1>4, <2>3, <2>4
<1>5. CASE r # s
  <2>1. reply[r] = "OK"
    BY <1>2, <1>5 DEF Finishes, Base, Typed
  <2>2. /\ sessions[row[r]] # NoRow /\ sessions[row[r]].revoked
        /\ \A q \in Open : row[q] # row[r]
    BY <2>1 DEF ClosedForGood
  <2>3. sessions'[row[r]] = sessions[row[r]]
    BY <1>1, <1>2, <1>3, <2>2 DEF WritesUser, WritesSession, Base, Typed
  <2> QED BY <1>3, <2>2, <2>3
<1> QED BY <1>4, <1>5

LEMMA BeginKeepsClosed ==
  ASSUME Base, Alone, ClosedForGood, NEW s \in Requests, NEW x \in Requests, NEW e, Begins(s, x, e)
  PROVE  ClosedForGood'
<1>1. /\ step' = [step EXCEPT ![s] = "open"] /\ row' = [row EXCEPT ![s] = x] /\ step[s] = "waiting"
      /\ UNCHANGED <<sessions, reply>> /\ overlapped \subseteq overlapped'
  BY BeginKeepsAlone DEF Begins, Leave, tableVars
<1> SUFFICES ASSUME NEW r \in Requests, r \notin overlapped, OpOf[r] = "logout", reply[r] = "OK"
             PROVE  /\ sessions[row'[r]] # NoRow /\ sessions[row'[r]].revoked
                    /\ \A q \in Open' : row'[q] # row'[r]
  BY <1>1 DEF ClosedForGood
<1>2. /\ sessions[row[r]] # NoRow /\ sessions[row[r]].revoked
      /\ \A q \in Open : row[q] # row[r]
  BY DEF ClosedForGood
<1>3. row[r] \in Requests /\ OpOf[row[r]] = "authenticate" /\ step[row[r]] = "done"
  BY <1>2 DEF Base, Typed, StoredRows
<1>4. row'[r] = row[r]
  BY <1>1 DEF Base, Typed
<1>5. x # row[r]
  <2>1. x \in Users => OpOf[x] = "createUser"
    BY NoRowIsNone DEF Base, StoredRows, Users
  <2> QED BY <1>1, <1>2, <1>3, <2>1 DEF Begins, Reads, Active
<1>6. \A q \in Open' : row'[q] # row[r]
  BY <1>1, <1>2, <1>5 DEF Open, Base, Typed
<1> QED BY <1>2, <1>4, <1>6

\* A session stays closed from the OK of its logout on, unless another
\* transaction on it was open at the same time.
THEOREM LogoutHolds == Spec => []LogoutHoldsAlone
<1>1. Init => ClosedForGood
  BY DEF Init, ClosedForGood
<1>2. Base /\ Alone /\ ClosedForGood /\ [Next]_vars => ClosedForGood'
  <2>1. Base /\ ClosedForGood /\ Passes => ClosedForGood'
    BY DEF Passes, ClosedForGood, Open, tableVars
  <2> QED BY <2>1, CommitKeepsClosed, BeginKeepsClosed, NextSteps DEF Base
<1>3. ClosedForGood => LogoutHoldsAlone
  BY DEF ClosedForGood, LogoutHoldsAlone
<1> QED BY <1>1, <1>2, <1>3, BaseHolds, AloneHolds, PTL DEF Spec

-----------------------------------------------------------------------------
(* A change of nombre *)

\* Since a change that overlapped with nothing, who holds the user in memory
\* has read that change or a later one.
ChangeIsRead ==
  \A r \in Requests \ overlapped : OpOf[r] = "updateNombre" /\ reply[r] = "OK" =>
    /\ row[r] \in Users /\ entity[r].nombre \in 0 .. commits
    /\ users[row[r]].nombre \in Nat /\ users[row[r]].nombre > entity[r].nombre
    /\ \A s \in Open : row[s] = row[r] =>
         /\ OpOf[s] \in {"updateNombre", "updateTelefono"}
         /\ entity[s].nombre \in Nat /\ entity[s].nombre > entity[r].nombre

LEMMA CommitKeepsChange ==
  ASSUME Base, Alone, ChangeIsRead, NEW s \in Requests, Commit(s)
  PROVE  ChangeIsRead'
<1>1. PICK x \in Requests : x = row[s]
  BY DEF Base, Typed
<1>2. Finishes(s) /\ (WritesUser(s, x) \/ WritesSession(s, x))
  BY <1>1, CommitWrites
<1>3. Open' \subseteq Open /\ s \notin Open' /\ s \in Open /\ UNCHANGED <<row, overlapped, entity>>
  BY <1>2 DEF Finishes, Open, Base, Typed
<1>4. Users \subseteq Users' /\ commits \in Nat /\ commits' = commits + 1
  BY <1>2, CommitKeepsBase DEF Finishes, Base, Typed
<1> SUFFICES ASSUME NEW r \in Requests, r \notin overlapped, OpOf[r] = "updateNombre", reply'[r] = "OK"
             PROVE  /\ row[r] \in Users' /\ entity[r].nombre \in 0 .. commits'
                    /\ users'[row[r]].nombre \in Nat /\ users'[row[r]].nombre > entity[r].nombre
                    /\ \A q \in Open' : row[q] = row[r] =>
                         /\ OpOf[q] \in {"updateNombre", "updateTelefono"}
                         /\ entity[q].nombre \in Nat /\ entity[q].nombre > entity[r].nombre
  BY <1>3 DEF ChangeIsRead
<1>5. ASSUME WritesUser(s, x), OpOf[s] # "createUser"
      PROVE  \E n \in 0 .. commits + 1 :
               /\ users'[x].nombre = n
               /\ n = IF OpOf[s] = "updateTelefono" THEN entity[s].nombre ELSE commits + 1
  <2>1. PICK n \in 0 .. commits + 1 :
          /\ users' = [users EXCEPT ![x] = UserRow(EmailOf[x], n)]
          /\ n = IF OpOf[s] = "updateTelefono" THEN entity[s].nombre ELSE commits + 1
    BY <1>5 DEF WritesUser
  <2>2. users'[x] = UserRow(EmailOf[x], n)
    BY <2>1 DEF Base, Typed
  <2>3. users'[x].nombre = n
    BY <2>2, UserFields
  <2> QED BY <2>1, <2>3
<1>6. CASE r = s
  <2>1. WritesUser(s, x) /\ OpOf[s] = "updateNombre"
    BY <1>2, <1>6 DEF WritesSession, UserOps
  <2>2. users'[x].nombre = commits + 1
    BY <1>5, <2>1
  <2>3. PICK n \in 0 .. commits : x \in Users /\ entity[s] = UserRow(EmailOf[x], n)
    BY <1>1, <1>3, <2>1 DEF Base, OpenHolds, Holds
  <2>4. entity[s].nombre = n
    BY <2>3, UserFields
  <2>5. \A q \in Open' : row[q] # row[r]
    BY <1>3, <1>6 DEF Alone
  <2> QED BY <1>1, <1>4, <1>6, <2>2, <2>3, <2>4, <2>5
<1>7. CASE r # s
  <2>1. reply[r] = "OK"
    BY <1>2, <1>7 DEF Finishes, Base, Typed
  <2>2. /\ row[r] \in Users /\ entity[r].nombre \in 0 .. commits
        /\ users[row[r]].nombre \in Nat /\ users[row[r]].nombre > entity[r].nombre
        /\ \A q \in Open : row[q] = row[r] =>
             /\ OpOf[q] \in {"updateNombre", "updateTelefono"}
             /\ entity[q].nombre \in Nat /\ entity[q].nombre > entity[r].nombre
    BY <2>1 DEF ChangeIsRead
  <2>3. users'[row[r]].nombre \in Nat /\ users'[row[r]].nombre > entity[r].nombre
    <3>1. CASE x # row[r] \/ UNCHANGED users
      <4>1. users'[row[r]] = users[row[r]]
        BY <1>2, <2>2, <3>1 DEF WritesUser, WritesSession, Base, Typed, Users
      <4> QED BY <2>2, <4>1
    <3>2. CASE x = row[r] /\ WritesUser(s, x)
      <4>1. OpOf[s] \in {"updateNombre", "updateTelefono"} /\ entity[s].nombre > entity[r].nombre
        BY <1>1, <1>3, <2>2, <3>2
      <4>2. PICK n \in 0 .. commits + 1 :
              /\ users'[x].nombre = n
              /\ n = IF OpOf[s] = "updateTelefono" THEN entity[s].nombre ELSE commits + 1
        BY <1>5, <3>2, <4>1
      <4> QED BY <1>4, <2>2, <3>2, <4>1, <4>2
    <3> QED BY <1>2, <3>1, <3>2 DEF WritesSession
  <2>4. entity[r].nombre \in 0 .. commits'
    BY <1>4, <2>2
  <2> QED BY <1>3, <1>4, <2>2, <2>3, <2>4
<1> QED BY <1>6, <1>7

LEMMA BeginKeepsChange ==
  ASSUME Base, Alone, ChangeIsRead, NEW s \in Requests, NEW x \in Requests, NEW e, Begins(s, x, e)
  PROVE  ChangeIsRead'
<1>1. /\ step' = [step EXCEPT ![s] = "open"] /\ row' = [row EXCEPT ![s] = x] /\ step[s] = "waiting"
      /\ entity' = [entity EXCEPT ![s] = e]
      /\ UNCHANGED <<users, commits, reply>> /\ overlapped \subseteq overlapped'
  BY BeginKeepsAlone DEF Begins, Leave, tableVars
<1> SUFFICES ASSUME NEW r \in Requests, r \notin overlapped, OpOf[r] = "updateNombre", reply[r] = "OK"
             PROVE  /\ row'[r] \in Users /\ entity'[r].nombre \in 0 .. commits
                    /\ users[row'[r]].nombre \in Nat /\ users[row'[r]].nombre > entity'[r].nombre
                    /\ \A q \in Open' : row'[q] = row'[r] =>
                         /\ OpOf[q] \in {"updateNombre", "updateTelefono"}
                         /\ entity'[q].nombre \in Nat /\ entity'[q].nombre > entity'[r].nombre
  BY <1>1 DEF ChangeIsRead, Users
<1>2. /\ row[r] \in Users /\ entity[r].nombre \in 0 .. commits
      /\ users[row[r]].nombre \in Nat /\ users[row[r]].nombre > entity[r].nombre
      /\ \A q \in Open : row[q] = row[r] =>
           /\ OpOf[q] \in {"updateNombre", "updateTelefono"}
           /\ entity[q].nombre \in Nat /\ entity[q].nombre > entity[r].nombre
  BY DEF ChangeIsRead
<1>3. row[r] \in Requests /\ OpOf[row[r]] = "createUser" /\ step[row[r]] = "done"
  BY <1>2, NoRowIsNone DEF Base, StoredRows, Users
<1>4. r # s /\ row'[r] = row[r] /\ entity'[r] = entity[r]
  BY <1>1 DEF Base, Typed
<1>5. ASSUME x = row[r]
      PROVE  OpOf[s] \in {"updateNombre", "updateTelefono"} /\ e = users[x]
  <2>1. ~Active(x)
    BY <1>3, <1>5, NoRowIsNone DEF Base, StoredRows, Active
  <2> QED BY <1>1, <1>3, <1>5, <2>1 DEF Begins, Reads
<1>6. ASSUME NEW q \in Open', row'[q] = row[r]
      PROVE  /\ OpOf[q] \in {"updateNombre", "updateTelefono"}
             /\ entity'[q].nombre \in Nat /\ entity'[q].nombre > entity[r].nombre
  <2>1. CASE q = s
    <3>1. x = row[r] /\ entity'[q] = e
      BY <1>1, <1>6, <2>1 DEF Base, Typed
    <3> QED BY <1>2, <1>5, <2>1, <3>1
  <2>2. CASE q # s
    <3>1. q \in Open /\ row[q] = row[r] /\ entity'[q] = entity[q]
      BY <1>1, <1>6, <2>2 DEF Open, Base, Typed
    <3> QED BY <1>2, <3>1
  <2> QED BY <2>1, <2>2
<1> QED BY <1>2, <1>4, <1>6

\* The nombre of a user never goes back to one older than that of a change
\* answered OK, unless another change of that user was open at the same time.
THEOREM ChangeHolds == Spec => []ChangeHoldsAlone
<1>1. Init => ChangeIsRead
  BY DEF Init, ChangeIsRead
<1>2. Base /\ Alone /\ ChangeIsRead /\ [Next]_vars => ChangeIsRead'
  <2>1. Base /\ ChangeIsRead /\ Passes => ChangeIsRead'
    BY DEF Passes, ChangeIsRead, Open, Users, tableVars
  <2> QED BY <2>1, CommitKeepsChange, BeginKeepsChange, NextSteps DEF Base
<1>3. ChangeIsRead => ChangeHoldsAlone
  BY DEF ChangeIsRead, ChangeHoldsAlone
<1> QED BY <1>1, <1>2, <1>3, BaseHolds, AloneHolds, PTL DEF Spec

-----------------------------------------------------------------------------
(* The type of the state *)

Done == {r \in Requests : step[r] = "done"}

\* A transaction commits once, and is done then.
Counted == commits <= Cardinality(Done)

\* What a transaction holds is of the table it will be written to.
EntityType(r) == IF OpOf[r] \in UserOps THEN UserRows ELSE SessionRows

Bounded ==
  /\ now \in 0 .. MaxTime
  /\ sessions \in [Requests -> SessionRows]
  /\ \A r \in Requests : entity[r] \in EntityType(r)
  /\ overlapped \subseteq Requests

LEMMA CountedHolds == IsFiniteSet(Requests) => (Spec => []Counted)
<1> SUFFICES ASSUME IsFiniteSet(Requests) PROVE Spec => []Counted
  OBVIOUS
<1>1. Init => Counted
  <2> SUFFICES ASSUME Init PROVE Counted
    OBVIOUS
  <2>1. Done = {} /\ commits = 0
    BY DEF Init, Done
  <2> QED BY <2>1, FS_EmptySet DEF Counted
<1>2. Base /\ Counted /\ [Next]_vars => Counted'
  <2> SUFFICES ASSUME Base, Counted, [Next]_vars PROVE Counted'
    OBVIOUS
  <2>1. IsFiniteSet(Done) /\ IsFiniteSet(Done')
    BY FS_Subset DEF Done
  <2>2. Cardinality(Done) \in Nat /\ Cardinality(Done') \in Nat /\ commits \in Nat
    BY <2>1, FS_CardinalityType DEF Base, Typed
  <2>3. ASSUME Done \subseteq Done', commits' = commits
        PROVE  Counted'
    BY <2>1, <2>2, <2>3, FS_Subset DEF Counted
  <2>4. ASSUME NEW r \in Requests, NEW x \in Requests, NEW e, Begins(r, x, e)
        PROVE  Counted'
    BY <2>3, <2>4 DEF Begins, Leave, tableVars, Done, Base, Typed
  <2>5. ASSUME NEW r \in Requests, Commit(r)
        PROVE  Counted'
    <3>1. step[r] = "open" /\ step' = [step EXCEPT ![r] = "done"] /\ commits' = commits + 1
      BY <2>5 DEF Commit, Write, Finish
    <3>2. r \notin Done /\ Done' = Done \cup {r}
      BY <3>1 DEF Done, Base, Typed
    <3>3. Cardinality(Done') = Cardinality(Done) + 1
      BY <2>1, <3>2, FS_AddElement
    <3> QED BY <2>2, <3>1, <3>3 DEF Counted
  <2>6. CASE Passes
    BY <2>3, <2>6 DEF Passes, tableVars, Done
  <2> QED BY <2>4, <2>5, <2>6, NextSteps DEF Base
<1> QED BY <1>1, <1>2, BaseHolds, PTL DEF Spec

LEMMA UsersAreTyped ==
  ASSUME IsFiniteSet(Requests), Base, Counted
  PROVE  commits \in 0 .. Cardinality(Requests) /\ users \in [Requests -> UserRows]
<1>1. Cardinality(Done) <= Cardinality(Requests) /\ Cardinality(Requests) \in Nat /\ Cardinality(Done) \in Nat
  <2>1. Done \subseteq Requests /\ IsFiniteSet(Done)
    BY FS_Subset DEF Done
  <2> QED BY <2>1, FS_Subset, FS_CardinalityType
<1>2. commits \in 0 .. Cardinality(Requests)
  BY <1>1 DEF Counted, Base, Typed
<1>3. \A x \in Requests : users[x] \in UserRows
  <2> SUFFICES ASSUME NEW x \in Requests, users[x] # NoRow
               PROVE  \E n \in 0 .. Cardinality(Requests) : users[x] = UserRow(EmailOf[x], n)
    BY DEF UserRows
  <2>1. PICK n \in 0 .. commits : users[x] = UserRow(EmailOf[x], n)
    BY DEF Base, StoredRows
  <2>2. n \in 0 .. Cardinality(Requests)
    BY <1>2, <1>1
  <2> QED BY <2>1, <2>2
<1> QED BY <1>2, <1>3 DEF Base, Typed

\* The row of a session says when it ends, between the first and the last login.
LEMMA SessionOf ==
  ASSUME NEW w \in SessionRows, w # NoRow
  PROVE  \E u \in Requests, x \in Lifetime .. MaxTime + Lifetime, v \in BOOLEAN : w = SessionRow(u, x, v)
  BY DEF SessionRows

LEMMA SessionIsTyped ==
  ASSUME NEW u \in Requests, NEW x \in Lifetime .. MaxTime + Lifetime, NEW v \in BOOLEAN
  PROVE  SessionRow(u, x, v) \in SessionRows
  BY DEF SessionRows

LEMMA BeginKeepsBounded ==
  ASSUME IsFiniteSet(Requests), Base, Counted, Bounded,
         NEW r \in Requests, NEW x \in Requests, NEW e, Begins(r, x, e)
  PROVE  Bounded'
<1>1. /\ entity' = [entity EXCEPT ![r] = e]
      /\ UNCHANGED <<users, sessions, commits, now>>
      /\ overlapped' \subseteq overlapped \cup Open \cup {r}
  BY DEF Begins, Leave, tableVars
<1>2. users \in [Requests -> UserRows] /\ Cardinality(Requests) \in Nat
  BY UsersAreTyped, FS_CardinalityType
<1>3. e \in EntityType(r)
  <2>1. CASE OpOf[r] = "createUser"
    <3>1. e = UserRow(EmailOf[r], 0) /\ 0 \in 0 .. Cardinality(Requests)
      BY <1>2, <2>1 DEF Begins, Reads
    <3> QED BY <2>1, <3>1 DEF EntityType, UserOps, UserRows
  <2>2. CASE OpOf[r] \in {"updateNombre", "updateTelefono"}
    BY <1>2, <2>2 DEF Begins, Reads, EntityType, UserOps, Users
  <2>3. CASE OpOf[r] = "authenticate"
    <3>1. PICK u \in Requests : e = SessionRow(u, now + Lifetime, FALSE)
      BY <2>3 DEF Begins, Reads, Users
    <3>2. now + Lifetime \in Lifetime .. MaxTime + Lifetime
      BY LifetimeAssumption DEF Bounded, LifetimeAssumption
    <3>3. e \in SessionRows
      BY <3>1, <3>2, SessionIsTyped
    <3> QED BY <2>3, <3>3 DEF EntityType, UserOps
  <2>4. CASE OpOf[r] = "validateToken"
    BY <2>4 DEF Begins, Reads, EntityType, UserOps, Bounded
  <2>5. CASE OpOf[r] = "logout"
    <3>1. sessions[x] \in SessionRows /\ sessions[x] # NoRow
      BY <2>5 DEF Begins, Reads, Active, NoRow, Bounded
    <3>2. PICK u \in Requests, t \in Lifetime .. MaxTime + Lifetime, v \in BOOLEAN :
            sessions[x] = SessionRow(u, t, v)
      BY <3>1, SessionOf
    <3>3. e = SessionRow(u, t, TRUE)
      BY <2>5, <3>2 DEF Begins, Reads, SessionRow
    <3>4. e \in SessionRows
      BY <3>3, SessionIsTyped
    <3> QED BY <2>5, <3>4 DEF EntityType, UserOps
  <2> QED BY <2>1, <2>2, <2>3, <2>4, <2>5, RequestsAssumption DEF RequestsAssumption, Ops
<1>4. overlapped' \subseteq Requests
  BY <1>1 DEF Open, Bounded
<1>5. \A s \in Requests : entity'[s] \in EntityType(s)
  BY <1>1, <1>3 DEF Bounded, Base, Typed
<1> QED BY <1>1, <1>4, <1>5 DEF Bounded

LEMMA CommitKeepsBounded ==
  ASSUME Base, Bounded, NEW r \in Requests, Commit(r)
  PROVE  Bounded'
<1>1. UNCHANGED <<now, entity, overlapped>>
  BY DEF Commit, Finish
<1>2. row[r] \in Requests
  BY DEF Base, Typed
<1>3. sessions' = sessions \/ (OpOf[r] \notin UserOps /\ sessions' = [sessions EXCEPT ![row[r]] = entity[r]])
  BY DEF Commit, Write, UserOps
<1>4. sessions' \in [Requests -> SessionRows]
  BY <1>2, <1>3 DEF Bounded, EntityType
<1> QED BY <1>1, <1>4 DEF Bounded

LEMMA TimeIsBounded ==
  ASSUME Bounded, [Next]_vars
  PROVE  now' \in 0 .. MaxTime
<1>1. UNCHANGED now \/ (now < MaxTime /\ now' = now + 1)
  BY DEF Next, CreateUser, UpdateUser, Authenticate, ValidateToken, Logout, Leave, Throw,
         Commit, CommitFails, Finish, Crash, Tick, vars
<1> QED BY <1>1, LifetimeAssumption DEF Bounded, LifetimeAssumption

LEMMA BoundedHolds == IsFiniteSet(Requests) => (Spec => []Bounded)
<1> SUFFICES ASSUME IsFiniteSet(Requests) PROVE Spec => []Bounded
  OBVIOUS
<1>1. Init => Bounded
  <2> SUFFICES ASSUME Init PROVE Bounded
    OBVIOUS
  <2>1. NoRow \in SessionRows /\ \A r \in Requests : NoRow \in EntityType(r)
    BY DEF SessionRows, UserRows, EntityType
  <2>2. 0 \in 0 .. MaxTime
    BY LifetimeAssumption DEF LifetimeAssumption
  <2> QED BY <2>1, <2>2 DEF Init, Bounded
<1>2. Base /\ Counted /\ Bounded /\ [Next]_vars => Bounded'
  <2> SUFFICES ASSUME Base, Counted, Bounded, [Next]_vars PROVE Bounded'
    OBVIOUS
  <2>1. CASE Passes
    <3>1. UNCHANGED <<sessions, entity, overlapped>>
      BY <2>1 DEF Passes, tableVars
    <3> QED BY <3>1, TimeIsBounded DEF Bounded, EntityType
  <2> QED BY <2>1, NextSteps, BeginKeepsBounded, CommitKeepsBounded DEF Base
<1> QED BY <1>1, <1>2, BaseHolds, CountedHolds, PTL DEF Spec

LEMMA AnnouncedHolds ==
  Spec => [](announced \subseteq {"UserCreated", "UserUpdated", "UserLoggedIn"} \X Requests)
<1> DEFINE Good == announced \subseteq {"UserCreated", "UserUpdated", "UserLoggedIn"} \X Requests
<1>1. Init => Good
  BY DEF Init
<1>2. Good /\ [Next]_vars => Good'
  <2> SUFFICES ASSUME Good, [Next]_vars PROVE Good'
    OBVIOUS
  <2>1. ASSUME NEW r \in Requests, NEW x, NEW e,
               NEW events \in SUBSET {"UserCreated", "UserUpdated", "UserLoggedIn"}, Leave(r, x, e, events)
        PROVE  Good'
    BY <2>1 DEF Leave, Announced
  <2>2. CASE UNCHANGED announced
    BY <2>2
  <2>3. ASSUME NEW r \in Requests, CreateUser(r) \/ UpdateUser(r) \/ Authenticate(r) \/ ValidateToken(r) \/ Logout(r)
        PROVE  \/ UNCHANGED announced
               \/ \E x, e : \E events \in SUBSET {"UserCreated", "UserUpdated", "UserLoggedIn"} : Leave(r, x, e, events)
    BY <2>3 DEF CreateUser, UpdateUser, Authenticate, ValidateToken, Logout, Throw
  <2>4. ASSUME NEW r \in Requests, Commit(r) \/ CommitFails(r)
        PROVE  UNCHANGED announced
    BY <2>4 DEF Commit, CommitFails, Finish
  <2>5. Crash \/ Tick \/ UNCHANGED vars => UNCHANGED announced
    BY DEF Crash, Tick, vars
  <2> HIDE DEF Good
  <2> QED BY <2>1, <2>2, <2>3, <2>4, <2>5 DEF Next
<1> QED BY <1>1, <1>2, PTL DEF Spec

\* Of finitely many requests: each is written by one commit at most, what is
\* written is of its table, and a session ends a lifetime after its login
\* (UserServiceImpl.java:60-195).
THEOREM AccountsTypeCorrect == IsFiniteSet(Requests) => (Spec => []TypeOK)
<1> SUFFICES ASSUME IsFiniteSet(Requests) PROVE Spec => []TypeOK
  OBVIOUS
<1>1. Base /\ Counted /\ Bounded
        /\ announced \subseteq {"UserCreated", "UserUpdated", "UserLoggedIn"} \X Requests => TypeOK
  <2> SUFFICES ASSUME Base, Counted, Bounded,
                      announced \subseteq {"UserCreated", "UserUpdated", "UserLoggedIn"} \X Requests
               PROVE  TypeOK
    OBVIOUS
  <2>1. entity \in [Requests -> UserRows \cup SessionRows]
    BY DEF Base, Typed, Bounded, EntityType
  <2>2. commits \in 0 .. Cardinality(Requests) /\ users \in [Requests -> UserRows]
    BY UsersAreTyped
  <2> QED BY <2>1, <2>2 DEF Base, Typed, Bounded, TypeOK
<1> QED BY <1>1, BaseHolds, CountedHolds, BoundedHolds, AnnouncedHolds, PTL

=============================================================================
