---------------------------- MODULE UserAccounts ----------------------------
(***************************************************************************)
(* user-service: the tables users and user_sessions behind the gRPC calls  *)
(* that write them.  A request runs one method of UserServiceImpl in a     *)
(* transaction of its own, READ COMMITTED: its body reads an entity,       *)
(* changes it in memory and publishes its event; Hibernate writes it, every*)
(* column of it as no entity has a @Version or is @DynamicUpdate, when the *)
(* transaction commits.  Other transactions commit in between.             *)
(*                                                                         *)
(* The gateway calls user-service from its event loop, one call at a time, *)
(* but stops waiting after 3 s; that, and callers of port 9090, is what    *)
(* makes two transactions overlap.                                         *)
(*                                                                         *)
(* A user is named by the request that registered it and a session, its    *)
(* token too, by its login.  Passwords are right or wrong.  Time is in     *)
(* ticks of a second or more: the token's exp is expires_at in seconds.    *)
(***************************************************************************)
EXTENDS Naturals, FiniteSets

CONSTANTS
  Requests,
  OpOf,          \* the method each request calls
  EmailOf,       \* the email a registration or a login carries
  Lifetime,      \* expiration-minutes
  MaxTime,       \* bound: the last tick
  KafkaEnabled,  \* kafka.enabled: false by default, true in docker-compose.yml
  Faults         \* the faults a model lets happen

\* commit_failed: the transaction fails and is rolled back.
\* ambiguous_commit: it is committed, but its caller gets INTERNAL.
\* crash: the process stops and is restarted by docker compose.
FaultKinds == {"commit_failed", "ambiguous_commit", "crash"}
Ops == {"createUser", "updateNombre", "updateTelefono", "authenticate", "validateToken", "logout"}

ASSUME RequestsAssumption == OpOf \in [Requests -> Ops]
ASSUME LifetimeAssumption == Lifetime \in Nat \ {0} /\ MaxTime \in Nat
ASSUME KafkaAssumption == KafkaEnabled \in BOOLEAN
ASSUME AccountFaults == Faults \subseteq FaultKinds

VARIABLES
  users,       \* table users: the email and the writer of nombre of each user
  sessions,    \* table user_sessions
  step,        \* of each request: waiting, open (its transaction), done, lost
  row,         \* the user or session an open or finished transaction is about
  entity,      \* the entity as its body leaves it, to be written at commit
  reply,       \* the gRPC status of the answer
  announced,   \* events handed to the KafkaTemplate
  commits,     \* history: how many transactions have committed
  overlapped,  \* history: requests open together with another of their row
  now

tableVars == <<users, sessions, commits>>
requestVars == <<step, row, entity, reply, overlapped>>
vars == <<tableVars, requestVars, announced, now>>

NoRow == [exists |-> FALSE]

\* nombre is named by the number of the commit that wrote it.
UserRow(email, nombre) == [exists |-> TRUE, email |-> email, nombre |-> nombre]
SessionRow(user, expires, revoked) ==
  [exists |-> TRUE, user |-> user, expires |-> expires, revoked |-> revoked]

Users == {u \in Requests : users[u].exists}
WithEmail(e) == {u \in Users : users[u].email = e}

\* Tokens the callers were given.
Tokens == {t \in Requests : OpOf[t] = "authenticate" /\ reply[t] = "OK"}
Open == {r \in Requests : step[r] = "open"}

Init ==
  /\ users = [r \in Requests |-> NoRow]
  /\ sessions = [r \in Requests |-> NoRow]
  /\ step = [r \in Requests |-> "waiting"]
  /\ row = [r \in Requests |-> r]
  /\ entity = [r \in Requests |-> NoRow]
  /\ reply = [r \in Requests |-> "none"]
  /\ announced = {}
  /\ commits = 0
  /\ overlapped = {}
  /\ now = 0

-----------------------------------------------------------------------------
(* The bodies of the methods *)

Starts(r, op) == step[r] = "waiting" /\ OpOf[r] = op

\* publish(): without Kafka nothing is handed over.
Announced(r, events) == IF KafkaEnabled THEN {<<type, r>> : type \in events} ELSE {}

\* The body ends with e about the row x, its event published.
Leave(r, x, e, events) ==
  /\ step' = [step EXCEPT ![r] = "open"]
  /\ row' = [row EXCEPT ![r] = x]
  /\ entity' = [entity EXCEPT ![r] = e]
  /\ announced' = announced \cup Announced(r, events)
  /\ overlapped' = overlapped \cup
       (LET others == {s \in Open : row[s] = x} IN others \cup (IF others = {} THEN {} ELSE {r}))
  /\ UNCHANGED <<tableVars, reply, now>>

\* The body throws: the transaction is rolled back with nothing written.
Throw(r, code) ==
  /\ step' = [step EXCEPT ![r] = "done"]
  /\ reply' = [reply EXCEPT ![r] = code]
  /\ UNCHANGED <<tableVars, row, entity, announced, overlapped, now>>

\* existsByEmail(), and save(): the INSERT waits for the commit.
CreateUser(r) ==
  /\ Starts(r, "createUser")
  /\ IF WithEmail(EmailOf[r]) # {}
       THEN Throw(r, "ALREADY_EXISTS")
       ELSE Leave(r, r, UserRow(EmailOf[r], 0), {"UserCreated"})

\* A blank nombre leaves the one that was read; telefono is written always and
\* read nowhere.
UpdateUser(r) ==
  /\ Starts(r, "updateNombre") \/ Starts(r, "updateTelefono")
  /\ \E u \in Users : Leave(r, u, users[u], {"UserUpdated"})

AuthenticateWithoutLifetime(r) ==  \* mutant: the session expires as it is issued
  /\ Starts(r, "authenticate")
  /\ \/ Throw(r, "UNAUTHENTICATED")
     \/ \E u \in WithEmail(EmailOf[r]) :
          Leave(r, r, SessionRow(u, now, FALSE), {"UserLoggedIn"})

\* findByEmail() and the password; the session is inserted at the commit.
Authenticate(r) ==
  /\ Starts(r, "authenticate")
  /\ \/ Throw(r, "UNAUTHENTICATED")
     \/ \E u \in WithEmail(EmailOf[r]) :
          Leave(r, r, SessionRow(u, now + Lifetime, FALSE), {"UserLoggedIn"})

\* parseAndValidate() and getActiveSession().
Active(t) == sessions[t].exists /\ ~sessions[t].revoked /\ sessions[t].expires > now

ValidateToken(r) ==
  /\ Starts(r, "validateToken")
  /\ \E t \in Tokens :
       IF Active(t) THEN Leave(r, t, sessions[t], {}) ELSE Throw(r, "UNAUTHENTICATED")

Logout(r) ==
  /\ Starts(r, "logout")
  /\ \E t \in Tokens :
       IF Active(t) THEN Leave(r, t, SessionRow(sessions[t].user, sessions[t].expires, TRUE), {})
                    ELSE Throw(r, "UNAUTHENTICATED")

-----------------------------------------------------------------------------
(* The commit *)

ConflictOnIdOnly(r) ==  \* mutant: no unique index on email
  FALSE

\* The unique index on email; token ids are random.
Conflict(r) == OpOf[r] = "createUser" /\ WithEmail(EmailOf[r]) # {}

WrittenBlank(r) ==  \* mutant: a blank nombre is set like any other
  IF OpOf[r] \in {"createUser", "updateNombre"}
    THEN UserRow(entity[r].email, commits + 1)
    ELSE UserRow(entity[r].email, 0)

\* nombre is the commit's own when the request set it.
WrittenUser(r) ==
  IF OpOf[r] \in {"createUser", "updateNombre"}
    THEN UserRow(entity[r].email, commits + 1)
    ELSE entity[r]

\* The INSERT or UPDATE of every column of the entity.
Write(r) ==
  /\ commits' = commits + 1
  /\ IF OpOf[r] \in {"createUser", "updateNombre", "updateTelefono"}
       THEN users' = [users EXCEPT ![row[r]] = WrittenUser(r)] /\ UNCHANGED sessions
       ELSE sessions' = [sessions EXCEPT ![row[r]] = entity[r]] /\ UNCHANGED users

Finish(r, code) ==
  /\ step' = [step EXCEPT ![r] = "done"]
  /\ reply' = [reply EXCEPT ![r] = code]
  /\ UNCHANGED <<row, entity, overlapped, announced, now>>

Commit(r) ==
  /\ step[r] = "open"
  /\ ~Conflict(r)
  /\ Write(r)
  /\ \E code \in {"OK"} \cup (IF "ambiguous_commit" \in Faults THEN {"INTERNAL"} ELSE {}) :
       Finish(r, code)

CommitFailsSilently(r) ==  \* mutant: the flush's exception is swallowed
  /\ step[r] = "open"
  /\ Conflict(r) \/ "commit_failed" \in Faults
  /\ Finish(r, "OK")
  /\ UNCHANGED tableVars

\* The index or the database refuses it: handleGenericException() answers.
CommitFails(r) ==
  /\ step[r] = "open"
  /\ Conflict(r) \/ "commit_failed" \in Faults
  /\ Finish(r, "INTERNAL")
  /\ UNCHANGED tableVars

Crash ==
  /\ "crash" \in Faults
  /\ Open # {}
  /\ step' = [r \in Requests |-> IF r \in Open THEN "lost" ELSE step[r]]
  /\ UNCHANGED <<tableVars, row, entity, reply, announced, overlapped, now>>

Tick ==
  /\ now < MaxTime
  /\ now' = now + 1
  /\ UNCHANGED <<tableVars, requestVars, announced>>

Next ==
  \/ \E r \in Requests :
       \/ CreateUser(r) \/ UpdateUser(r) \/ Authenticate(r) \/ ValidateToken(r) \/ Logout(r)
       \/ Commit(r) \/ CommitFails(r)
  \/ Crash \/ Tick

Spec == Init /\ [][Next]_vars

-----------------------------------------------------------------------------
(* Properties *)

UserRows == {NoRow} \cup {UserRow(EmailOf[r], n) : r \in Requests, n \in 0 .. Cardinality(Requests)}
SessionRows ==
  {NoRow} \cup {SessionRow(u, x, v) : u \in Requests, x \in Lifetime .. MaxTime + Lifetime, v \in BOOLEAN}

TypeOK ==
  /\ users \in [Requests -> UserRows]
  /\ sessions \in [Requests -> SessionRows]
  /\ step \in [Requests -> {"waiting", "open", "done", "lost"}]
  /\ row \in [Requests -> Requests]
  /\ entity \in [Requests -> UserRows \cup SessionRows]
  /\ reply \in [Requests -> {"none", "OK", "INTERNAL", "UNAUTHENTICATED", "ALREADY_EXISTS"}]
  /\ announced \subseteq {"UserCreated", "UserUpdated", "UserLoggedIn"} \X Requests
  /\ commits \in 0 .. Cardinality(Requests)
  /\ overlapped \subseteq Requests
  /\ now \in 0 .. MaxTime

\* However registrations of one email race past existsByEmail(), one user has it.
OneUserPerEmail ==
  \A u, v \in Users : users[u].email = users[v].email => u = v

\* What was answered OK is in the tables, and stays: the user of a
\* registration, and the session of a login with a user that exists; no
\* conflict, crash or later write by another transaction takes it away.
AnsweredIsStored ==
  \A r \in Requests : reply[r] = "OK" =>
    /\ OpOf[r] = "createUser" => r \in Users
    /\ OpOf[r] = "authenticate" => sessions[r].exists /\ sessions[r].user \in Users

\* A session is closed from the OK of a logout on, unless another transaction
\* on that session was open at the same time.
LogoutHoldsAlone ==
  \A r \in Requests \ overlapped :
    OpOf[r] = "logout" /\ reply[r] = "OK" => sessions[row[r]].revoked

\* The nombre of a user never goes back to one older than that of a change
\* answered OK, unless another change of the user was open at the same time.
ChangeHoldsAlone ==
  \A r \in Requests \ overlapped :
    OpOf[r] = "updateNombre" /\ reply[r] = "OK" => users[row[r]].nombre > entity[r].nombre

\* docs/documento-bloque-observabilidad-entrega2.md:92, sessions are kept "para
\* ... hacer logout real": a session that was logged out is not active again.
LogoutIsFinal ==
  \A r \in Requests : OpOf[r] = "logout" /\ reply[r] = "OK" => sessions[row[r]].revoked
=============================================================================
