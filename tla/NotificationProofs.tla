-------------------------- MODULE NotificationProofs --------------------------
(***************************************************************************)
(* Proofs about Notification, for any reservations, number of events,      *)
(* disruptions and faults.                                                 *)
(***************************************************************************)
EXTENDS Notification, TLAPS

\* The worker has an event in hand, and it is a confirmation while it is being
\* processed.
EventInHand ==
  /\ at[Worker] \in InProcess \cup {"commit"} => position \in 1 .. Len(topic)
  /\ at[Worker] \in InProcess => topic[position].type = "ReservationConfirmed"

Base == TypeOK /\ EventInHand

\* What has no row has no email and no NotificationSent.
NoRowNoTrace ==
  \A r \in Reservations : table[r] = "none" =>
    sentEvents[r] = <<>> /\ \A q \in Paths : emails[r][q] = 0

\* A process that is past its check finds no email of its path; past its save,
\* a row.
BeforeEmail ==
  \A p \in Processes :
    /\ at[p] \in {"save", "send"} => emails[Subject(p)][Path(p)] = 0
    /\ at[p] \in {"send", "processed", "duplicate"} => table[Subject(p)] # "none"

\* What the worker processes as new has not been announced.
BeforeTold == at[Worker] \in {"save", "send", "processed"} => sentEvents[Subject(Worker)] = <<>>

Rows == NoRowNoTrace /\ BeforeEmail /\ BeforeTold /\ OneEmailPerPath /\ SentOnce /\ CompletedIsRecorded

-----------------------------------------------------------------------------
\* The steps that both inductions split on.
LEMMA Actions ==
  ASSUME [Next]_vars
  PROVE  \/ \E r \in Reservations :
              \/ Confirm(r) \/ GiveUp(r) \/ Enter(r) \/ Answer(r)
              \/ \E type \in {"ReservationConfirmed", "ReservationCreated"} : Publish(r, type)
         \/ \E p \in Processes :
              CheckDuplicate(p) \/ SaveRow(p) \/ DatabaseError(p) \/ SendEmail(p)
         \/ Connect \/ Poll \/ TellSent \/ SkipDuplicate \/ TellFailed \/ Commit
         \/ Disconnect \/ Crash
         \/ UNCHANGED vars
BY DEF Next, HandlerStep, WorkerStep, Process, Processes

\* What a process works on is a reservation, the worker's the one of its event.
LEMMA SubjectIsReservation ==
  ASSUME Base, NEW p \in Processes, p = Worker => at[p] \in InProcess \cup {"commit"}
  PROVE  Subject(p) \in Reservations
<1>1. CASE p = Worker
  <2>1. position \in 1 .. Len(topic)
    BY <1>1 DEF Base, EventInHand
  <2>2. topic[position] \in Events
    BY <2>1 DEF Base, TypeOK
  <2> QED BY <1>1, <2>2 DEF Subject, Events
<1>2. CASE p # Worker
  BY <1>2 DEF Subject, Processes
<1> QED BY <1>1, <1>2

LEMMA CountedIsNext ==
  ASSUME NEW c \in Nat, NEW fault, NEW n \in Counted(c, fault)
  PROVE  n \in {c, c + 1}
BY DEF Counted

\* Publishing adds one event, however many records of it.
LEMMA PublishedIsNext ==
  ASSUME NEW events \in Seq(0 .. 1 + Retries), NEW next \in Published(events)
  PROVE  /\ next \in Seq(0 .. 1 + Retries)
         /\ next # <<>> /\ Len(next) = Len(events) + 1
<1> USE RetriesAssumption DEF RetriesAssumption
<1> DEFINE Copies == (IF "publish_lost" \in Faults THEN 0 ELSE 1) .. 1 + Retries
<1>1. PICK n \in Copies : next = Append(events, n)
  BY DEF Published
<1>2. n \in 0 .. 1 + Retries
  BY <1>1
<1> HIDE DEF Copies
<1> QED BY <1>1, <1>2

LEMMA EmailsUpdated ==
  ASSUME NEW e \in [Reservations -> [Paths -> Nat]],
         NEW r \in Reservations, NEW q \in Paths, NEW n \in Nat
  PROVE  /\ [e EXCEPT ![r][q] = n] \in [Reservations -> [Paths -> Nat]]
         /\ [e EXCEPT ![r][q] = n][r][q] = n
         /\ \A s \in Reservations, o \in Paths :
              s # r \/ o # q => [e EXCEPT ![r][q] = n][s][o] = e[s][o]
OBVIOUS

-----------------------------------------------------------------------------
LEMMA BaseInit == Init => Base
BY WorkerAssumption, BoundsAssumption
   DEF WorkerAssumption, BoundsAssumption, Init, Base, TypeOK, EventInHand, Processes, HandlerSteps, WorkerSteps, InProcess, Paths, Events

\* What is appended to the topic leaves what was in it where it was.
LEMMA Appended ==
  ASSUME Base, NEW e \in Events, topic' = Append(topic, e)
  PROVE  /\ topic' \in Seq(Events)
         /\ Len(topic') = Len(topic) + 1
         /\ \A i \in 1 .. Len(topic) : topic'[i] = topic[i]
BY DEF Base, TypeOK

LEMMA BaseStep == Base /\ [Next]_vars => Base'
<1> SUFFICES ASSUME Base, [Next]_vars PROVE Base'
  OBVIOUS
<1> USE WorkerAssumption
        DEF WorkerAssumption, Base, TypeOK, EventInHand, Processes, HandlerSteps, WorkerSteps, InProcess, Paths, Goto
<1>1. ASSUME NEW r \in Reservations, Confirm(r) \/ GiveUp(r) \/ Enter(r) \/ Answer(r) PROVE Base'
  <2>1. UNCHANGED <<kafkaVars, effectVars, disruptions>> /\ at'[Worker] = at[Worker]
    BY <1>1 DEF Confirm, GiveUp, Enter, Answer
  <2>2. caller' \in [Reservations -> {"none", "waiting", "ok", "failed"}]
    BY <1>1 DEF Confirm, GiveUp, Enter, Answer
  <2>3. /\ at' \in [Processes -> HandlerSteps \cup WorkerSteps]
        /\ \A s \in Reservations : at'[s] \in HandlerSteps
    <3>1. UNCHANGED at \/ \E step \in HandlerSteps : at' = [at EXCEPT ![r] = step]
      BY <1>1 DEF Confirm, GiveUp, Enter, Answer
    <3>2. CASE UNCHANGED at
      BY <3>2
    <3>3. ASSUME NEW step \in HandlerSteps, at' = [at EXCEPT ![r] = step]
          PROVE  /\ at' \in [Processes -> HandlerSteps \cup WorkerSteps]
                 /\ \A s \in Reservations : at'[s] \in HandlerSteps
      BY <3>3
    <3> QED BY <3>1, <3>2, <3>3
  <2> QED BY <2>1, <2>2, <2>3 DEF kafkaVars, effectVars
<1>2. ASSUME NEW r \in Reservations, NEW type \in {"ReservationConfirmed", "ReservationCreated"},
             Publish(r, type)
      PROVE  Base'
  <2>1. [type |-> type, reservation |-> r] \in Events
    BY DEF Events
  <2>2. /\ topic' \in Seq(Events)
        /\ Len(topic') = Len(topic) + 1
        /\ \A i \in 1 .. Len(topic) : topic'[i] = topic[i]
    BY <1>2, <2>1, Appended DEF Publish
  <2> QED BY <1>2, <2>2 DEF Publish, effectVars
<1>3. ASSUME NEW p \in Processes, CheckDuplicate(p) \/ SaveRow(p) \/ DatabaseError(p) \/ SendEmail(p)
      PROVE  Base'
  <2>1. UNCHANGED <<kafkaVars, caller, sentEvents, failedEvents, disruptions>>
    BY <1>3 DEF CheckDuplicate, SaveRow, DatabaseError, SendEmail, effectVars
  <2>2. at[p] \in InProcess /\ \E step \in InProcess : at' = [at EXCEPT ![p] = step]
    BY <1>3 DEF CheckDuplicate, SaveRow, DatabaseError, SendEmail
  <2>3. table' \in [Reservations -> Paths \cup {"none"}]
    <3>1. UNCHANGED table \/ table' = Inserted(p)
      BY <1>3 DEF CheckDuplicate, SaveRow, DatabaseError, SendEmail, effectVars
    <3>2. Path(p) \in Paths
      BY DEF Path
    <3>3. Inserted(p) \in [Reservations -> Paths \cup {"none"}]
      BY <3>2 DEF Inserted
    <3> QED BY <3>1, <3>3
  <2>4. emails' \in [Reservations -> [Paths -> Nat]]
    <3>1. CASE SendEmail(p)
      <4>1. Subject(p) \in Reservations /\ Path(p) \in Paths
        BY <3>1, SubjectIsReservation DEF SendEmail, Path
      <4>2. emails[Subject(p)] \in [Paths -> Nat] /\ emails[Subject(p)][Path(p)] \in Nat
        BY <4>1
      <4>3. PICK n \in Counted(emails[Subject(p)][Path(p)], "email_lost") :
              emails' = [emails EXCEPT ![Subject(p)][Path(p)] = n]
        BY <3>1 DEF SendEmail
      <4>4. n \in Nat
        BY <4>2, <4>3 DEF Counted
      <4> QED BY <4>1, <4>3, <4>4, EmailsUpdated
    <3>2. CASE ~SendEmail(p)
      BY <1>3, <3>2 DEF CheckDuplicate, SaveRow, DatabaseError, effectVars
    <3> QED BY <3>1, <3>2
  <2> QED BY <2>1, <2>2, <2>3, <2>4 DEF kafkaVars
<1>4. CASE Connect \/ Poll
  <2>1. topic \in Seq(Events) /\ Len(topic) \in Nat
    OBVIOUS
  <2>2. CASE Connect
    BY <1>4, <2>1, <2>2 DEF Connect, effectVars
  <2>3. CASE Poll
    BY <1>4, <2>1, <2>3 DEF Poll, effectVars
  <2> QED BY <1>4, <2>2, <2>3
<1>5. CASE TellSent \/ SkipDuplicate \/ TellFailed
  <2>1. UNCHANGED <<kafkaVars, caller, table, emails, disruptions>>
    BY <1>5 DEF TellSent, SkipDuplicate, TellFailed, effectVars
  <2>2. at[Worker] \in InProcess /\ at' = [at EXCEPT ![Worker] = "commit"]
    BY <1>5 DEF TellSent, SkipDuplicate, TellFailed
  <2>3. /\ sentEvents' \in [Reservations -> Seq(0 .. 1 + Retries)]
        /\ failedEvents' \subseteq Reservations
    <3>1. Subject(Worker) \in Reservations
      BY <2>2, SubjectIsReservation
    <3>2. CASE TellSent
      <4>1. PICK events \in Published(sentEvents[Subject(Worker)]) :
              sentEvents' = [sentEvents EXCEPT ![Subject(Worker)] = events]
        BY <3>2 DEF TellSent
      <4>2. events \in Seq(0 .. 1 + Retries)
        BY <3>1, <4>1, PublishedIsNext
      <4> QED BY <3>2, <4>1, <4>2 DEF TellSent
    <3>3. CASE SkipDuplicate
      BY <3>3 DEF SkipDuplicate, effectVars
    <3>4. CASE TellFailed
      BY <3>1, <3>4 DEF TellFailed
    <3> QED BY <1>5, <3>2, <3>3, <3>4
  <2> QED BY <2>1, <2>2, <2>3 DEF kafkaVars
<1>6. CASE Commit
  BY <1>6 DEF Commit, effectVars
<1>7. CASE Disconnect \/ Crash
  <2>1. disruptions' \in 0 .. MaxDisruptions
    BY <1>7, BoundsAssumption DEF BoundsAssumption, Disconnect, Crash
  <2>2. UNCHANGED <<kafkaVars, caller, effectVars>> /\ at'[Worker] = "down"
    BY <1>7 DEF Disconnect, Crash
  <2>3. /\ at' \in [Processes -> HandlerSteps \cup WorkerSteps]
        /\ \A s \in Reservations : at'[s] \in HandlerSteps
    <3>1. CASE Disconnect
      BY <3>1 DEF Disconnect
    <3>2. CASE Crash
      BY <3>2 DEF Crash
    <3> QED BY <1>7, <3>1, <3>2
  <2> QED BY <2>1, <2>2, <2>3 DEF kafkaVars, effectVars
<1>8. CASE UNCHANGED vars
  BY <1>8 DEF vars, kafkaVars, effectVars
<1> HIDE DEF Base, TypeOK, EventInHand, Processes, HandlerSteps, WorkerSteps, InProcess, Paths, Goto
<1> QED BY <1>1, <1>2, <1>3, <1>4, <1>5, <1>6, <1>7, <1>8, Actions

\* The types of all variables.
THEOREM TypeCorrect == Spec => []TypeOK
<1>1. Base => TypeOK
  BY DEF Base
<1> QED BY <1>1, BaseInit, BaseStep, PTL DEF Spec

-----------------------------------------------------------------------------
LEMMA RowsInit == Init => Rows
<1> SUFFICES ASSUME Init PROVE Rows
  OBVIOUS
<1>1. \A r \in Reservations : table[r] = "none" /\ sentEvents[r] = <<>> /\ caller[r] = "none"
  BY DEF Init
<1>2. \A r \in Reservations, q \in Paths : emails[r][q] = 0
  BY DEF Init
<1>3. \A p \in Processes : at[p] \in {"down", "idle"}
  BY DEF Init
<1>4. NoRowNoTrace /\ OneEmailPerPath /\ SentOnce /\ CompletedIsRecorded
  BY <1>1, <1>2 DEF NoRowNoTrace, OneEmailPerPath, SentOnce, CompletedIsRecorded
<1>5. BeforeEmail /\ BeforeTold
  BY <1>3 DEF BeforeEmail, BeforeTold, Processes
<1> QED BY <1>4, <1>5 DEF Rows

\* Two processes never send the same email: for a path and a reservation there
\* is one process that could.
LEMMA OneSender ==
  ASSUME NEW p \in Processes, NEW o \in Processes, o # p, Path(o) = Path(p)
  PROVE  Subject(o) # Subject(p)
BY DEF Processes, Path, Subject

\* A handler starts, ends, or its caller gives up.
LEMMA RowsHandler ==
  ASSUME Base, Rows, NEW r \in Reservations, Confirm(r) \/ GiveUp(r) \/ Enter(r) \/ Answer(r)
  PROVE  Rows'
<1>1. UNCHANGED <<topic, position, table, emails, sentEvents>>
  BY DEF Confirm, GiveUp, Enter, Answer, kafkaVars, effectVars
<1>2. \A p \in Processes :
        at'[p] = at[p] \/ at'[p] \notin {"save", "send", "processed", "duplicate"}
  BY DEF Confirm, GiveUp, Enter, Answer, Goto, Base, TypeOK, Processes
<1>3. \A p \in Processes : Subject(p)' = Subject(p)
  BY <1>1 DEF Subject
<1>4. NoRowNoTrace' /\ OneEmailPerPath' /\ SentOnce'
  BY <1>1 DEF Rows, NoRowNoTrace, OneEmailPerPath, SentOnce
<1>5. BeforeEmail'
  BY <1>1, <1>2, <1>3 DEF Rows, BeforeEmail
<1>6. BeforeTold'
  BY <1>1, <1>2, <1>3 DEF Rows, BeforeTold, Processes
<1>7. CompletedIsRecorded'
  <2>1. SUFFICES ASSUME NEW s \in Reservations, caller'[s] = "ok" PROVE table[s] # "none"
    BY <1>1 DEF CompletedIsRecorded
  <2>2. CASE caller[s] = "ok"
    BY <2>2 DEF Rows, CompletedIsRecorded
  <2>3. CASE caller[s] # "ok"
    <3>1. s = r /\ at[r] \in {"processed", "duplicate"}
      BY <2>1, <2>3 DEF Confirm, GiveUp, Enter, Answer, Base, TypeOK
    <3> QED BY <3>1, WorkerAssumption DEF WorkerAssumption, Rows, BeforeEmail, Subject, Processes
  <2> QED BY <2>2, <2>3
<1> QED BY <1>4, <1>5, <1>6, <1>7 DEF Rows

\* process_confirmation, up to the email.
LEMMA RowsSave ==
  ASSUME Base, Rows, NEW p \in Processes, CheckDuplicate(p) \/ SaveRow(p) \/ DatabaseError(p)
  PROVE  Rows'
<1>1. UNCHANGED <<topic, position, caller, emails, sentEvents>>
  BY DEF CheckDuplicate, SaveRow, DatabaseError, kafkaVars, effectVars
<1>2. at[p] \in InProcess
  BY DEF CheckDuplicate, SaveRow, DatabaseError, InProcess
<1>3. Subject(p) \in Reservations
  BY <1>2, SubjectIsReservation
<1>4. \A o \in Processes : Subject(o)' = Subject(o)
  BY <1>1 DEF Subject
<1>5. \A r \in Reservations : table'[r] = table[r] \/ (table[r] = "none" /\ table'[r] # "none")
  BY <1>3 DEF CheckDuplicate, SaveRow, DatabaseError, effectVars, Inserted, Path, Base, TypeOK
<1>6. /\ \A o \in Processes : o # p => at'[o] = at[o]
      /\ \/ at'[p] = "duplicate" /\ table'[Subject(p)] # "none"
         \/ at'[p] = "save" /\ table[Subject(p)] = "none"
         \/ at'[p] = "send" /\ at[p] = "save" /\ table'[Subject(p)] # "none"
         \/ at'[p] = "error"
  BY <1>3 DEF CheckDuplicate, SaveRow, DatabaseError, effectVars, Inserted, Path, Goto, Base, TypeOK
<1>7. NoRowNoTrace' /\ OneEmailPerPath' /\ SentOnce' /\ CompletedIsRecorded'
  BY <1>1, <1>5 DEF Rows, NoRowNoTrace, OneEmailPerPath, SentOnce, CompletedIsRecorded
<1>8. BeforeEmail'
  <2>1. SUFFICES ASSUME NEW o \in Processes
                 PROVE  /\ at'[o] \in {"save", "send"} => emails[Subject(o)][Path(o)] = 0
                        /\ at'[o] \in {"send", "processed", "duplicate"} => table'[Subject(o)] # "none"
    BY <1>1, <1>4 DEF BeforeEmail, Path
  <2>2. CASE o = p
    <3>1. Path(p) \in Paths
      BY DEF Path, Paths
    <3> QED BY <2>2, <1>3, <1>6, <3>1 DEF Rows, BeforeEmail, NoRowNoTrace
  <2>3. CASE o # p
    <3>1. at[o] \in {"send", "processed", "duplicate"} => Subject(o) \in Reservations
      BY SubjectIsReservation DEF InProcess
    <3> QED BY <2>3, <1>5, <1>6, <3>1 DEF Rows, BeforeEmail
  <2> QED BY <2>2, <2>3
<1>9. BeforeTold'
  <2>1. Worker \in Processes
    BY DEF Processes
  <2> QED BY <2>1, <1>1, <1>3, <1>4, <1>6 DEF Rows, BeforeTold, NoRowNoTrace
<1> QED BY <1>7, <1>8, <1>9 DEF Rows

\* The email.
LEMMA RowsSend ==
  ASSUME Base, Rows, NEW p \in Processes, SendEmail(p)
  PROVE  Rows'
<1>1. UNCHANGED <<topic, position, caller, table, sentEvents>> /\ at[p] = "send"
  BY DEF SendEmail, kafkaVars
<1>2. Subject(p) \in Reservations /\ Path(p) \in Paths
  BY <1>1, SubjectIsReservation DEF InProcess, Path, Paths
<1>3. \A o \in Processes : Subject(o)' = Subject(o)
  BY <1>1 DEF Subject
<1>4. /\ emails[Subject(p)][Path(p)] = 0
      /\ table[Subject(p)] # "none"
  BY <1>1 DEF Rows, BeforeEmail
<1>5. PICK n \in Counted(emails[Subject(p)][Path(p)], "email_lost") :
        emails' = [emails EXCEPT ![Subject(p)][Path(p)] = n]
  BY DEF SendEmail
<1>6. n \in 0 .. 1
  BY <1>4, <1>5, CountedIsNext
<1>7. /\ emails'[Subject(p)][Path(p)] = n
      /\ \A s \in Reservations, q \in Paths :
           s # Subject(p) \/ q # Path(p) => emails'[s][q] = emails[s][q]
  BY <1>2, <1>5, <1>6, EmailsUpdated DEF Base, TypeOK
<1>8. at' = [at EXCEPT ![p] = "processed"]
  BY DEF SendEmail, Goto
<1>9. /\ at'[p] = "processed"
      /\ \A o \in Processes : o # p => at'[o] = at[o]
  BY <1>8 DEF Base, TypeOK
<1>10. NoRowNoTrace' /\ SentOnce' /\ CompletedIsRecorded'
  BY <1>1, <1>2, <1>4, <1>7 DEF Rows, NoRowNoTrace, SentOnce, CompletedIsRecorded
<1>11. OneEmailPerPath'
  BY <1>2, <1>6, <1>7 DEF Rows, OneEmailPerPath
<1>12. BeforeEmail'
  <2>1. SUFFICES ASSUME NEW o \in Processes
                 PROVE  /\ at'[o] \in {"save", "send"} => emails'[Subject(o)][Path(o)] = 0
                        /\ at'[o] \in {"send", "processed", "duplicate"} => table[Subject(o)] # "none"
    BY <1>1, <1>3 DEF BeforeEmail, Path
  <2>2. CASE o = p
    BY <2>2, <1>4, <1>9
  <2>3. CASE o # p /\ at[o] \in {"save", "send"}
    <3>1. Subject(o) \in Reservations /\ Path(o) \in Paths
      BY <2>3, SubjectIsReservation DEF InProcess, Path, Paths
    <3>2. Subject(o) # Subject(p) \/ Path(o) # Path(p)
      BY <2>3, OneSender
    <3> QED BY <2>3, <3>1, <3>2, <1>7, <1>9 DEF Rows, BeforeEmail
  <2>4. CASE o # p /\ at[o] \notin {"save", "send"}
    BY <2>4, <1>9 DEF Rows, BeforeEmail
  <2> QED BY <2>2, <2>3, <2>4
<1>13. BeforeTold'
  <2>1. Worker \in Processes
    BY DEF Processes
  <2> QED BY <2>1, <1>1, <1>3, <1>9 DEF Rows, BeforeTold
<1> QED BY <1>10, <1>11, <1>12, <1>13 DEF Rows

\* The worker tells what became of the event.
LEMMA RowsTell ==
  ASSUME Base, Rows, TellSent \/ SkipDuplicate \/ TellFailed
  PROVE  Rows'
<1>1. UNCHANGED <<topic, position, caller, table, emails>> /\ at' = [at EXCEPT ![Worker] = "commit"]
  BY DEF TellSent, SkipDuplicate, TellFailed, kafkaVars, effectVars, Goto
<1>2. /\ at'[Worker] = "commit"
      /\ \A o \in Processes : o # Worker => at'[o] = at[o]
  BY <1>1 DEF Base, TypeOK, Processes
<1>3. \A o \in Processes : Subject(o)' = Subject(o)
  BY <1>1 DEF Subject
<1>4. BeforeEmail' /\ OneEmailPerPath' /\ CompletedIsRecorded' /\ BeforeTold'
  BY <1>1, <1>2, <1>3 DEF Rows, BeforeEmail, OneEmailPerPath, CompletedIsRecorded, BeforeTold, Path
<1>5. NoRowNoTrace' /\ SentOnce'
  <2>1. CASE TellSent
    <3>1. Subject(Worker) \in Reservations /\ Worker \in Processes
      BY <2>1, SubjectIsReservation DEF TellSent, InProcess, Processes
    <3>2. PICK events \in Published(sentEvents[Subject(Worker)]) :
            sentEvents' = [sentEvents EXCEPT ![Subject(Worker)] = events]
      BY <2>1 DEF TellSent
    <3>3. sentEvents[Subject(Worker)] = <<>> /\ table[Subject(Worker)] # "none"
      BY <2>1, <3>1 DEF TellSent, Rows, BeforeTold, BeforeEmail
    <3>4. sentEvents[Subject(Worker)] \in Seq(0 .. 1 + Retries)
      BY <3>1 DEF Base, TypeOK
    <3>5. Len(events) = Len(sentEvents[Subject(Worker)]) + 1
      BY <3>2, <3>4, PublishedIsNext
    <3>6. Len(events) = 1
      BY <3>3, <3>5
    <3>7. \A r \in Reservations : sentEvents'[r] = sentEvents[r] \/ (r = Subject(Worker) /\ sentEvents'[r] = events)
      BY <3>1, <3>2 DEF Base, TypeOK
    <3>8. NoRowNoTrace'
      BY <1>1, <3>3, <3>7 DEF Rows, NoRowNoTrace
    <3>9. SentOnce'
      <4> SUFFICES ASSUME NEW r \in Reservations
                   PROVE  Len(sentEvents'[r]) <= 1 /\ (sentEvents'[r] # <<>> => table[r] # "none")
        BY <1>1 DEF SentOnce
      <4>1. CASE sentEvents'[r] = sentEvents[r]
        <5>1. Len(sentEvents[r]) <= 1
          BY DEF Rows, SentOnce
        <5>2. sentEvents[r] # <<>> => table[r] # "none"
          BY DEF Rows, SentOnce
        <5>3. Len(sentEvents'[r]) = Len(sentEvents[r])
          BY <4>1, Zenon
        <5> QED BY <4>1, <5>1, <5>2, <5>3
      <4>2. CASE r = Subject(Worker) /\ sentEvents'[r] = events
        <5>1. Len(sentEvents'[r]) = Len(events)
          BY <4>2, Zenon
        <5>2. Len(sentEvents'[r]) <= 1
          BY <3>6, <5>1
        <5> QED BY <3>3, <4>2, <5>2
      <4> QED BY <3>7, <4>1, <4>2
    <3> QED BY <3>8, <3>9
  <2>2. CASE SkipDuplicate \/ TellFailed
    <3>1. sentEvents' = sentEvents
      BY <2>2 DEF SkipDuplicate, TellFailed, effectVars
    <3> QED BY <1>1, <3>1 DEF Rows, NoRowNoTrace, SentOnce
  <2> QED BY <2>1, <2>2
<1> QED BY <1>4, <1>5 DEF Rows

\* Kafka, and the end of the process: no row, email or event changes, and the
\* worker is not past a check.
LEMMA RowsKafka ==
  ASSUME Base, Rows, Connect \/ Poll \/ Commit \/ Disconnect \/ Crash
  PROVE  Rows'
<1>1. UNCHANGED <<caller, table, emails, sentEvents>>
  BY DEF Connect, Poll, Commit, Disconnect, Crash, effectVars
<1>2. /\ at'[Worker] \notin {"save", "send", "processed", "duplicate"}
      /\ \A r \in Reservations : at'[r] \in {at[r], "crashed"}
  <2>1. CASE Connect \/ Poll \/ Commit \/ Disconnect
    BY <2>1, WorkerAssumption DEF WorkerAssumption, Connect, Poll, Commit, Disconnect, Goto, Base, TypeOK, Processes
  <2>2. CASE Crash
    BY <2>2, WorkerAssumption DEF WorkerAssumption, Crash, Processes
  <2> QED BY <2>1, <2>2
<1>3. \A r \in Reservations : Subject(r)' = r /\ Subject(r) = r
  BY WorkerAssumption DEF WorkerAssumption, Subject
<1>4. NoRowNoTrace' /\ OneEmailPerPath' /\ SentOnce' /\ CompletedIsRecorded' /\ BeforeTold'
  BY <1>1, <1>2 DEF Rows, NoRowNoTrace, OneEmailPerPath, SentOnce, CompletedIsRecorded, BeforeTold
<1>5. BeforeEmail'
  BY <1>1, <1>2, <1>3 DEF Rows, BeforeEmail, Processes, Path
<1> QED BY <1>4, <1>5 DEF Rows

LEMMA RowsPublish ==
  ASSUME Base, Rows, NEW r \in Reservations, NEW type \in {"ReservationConfirmed", "ReservationCreated"},
         Publish(r, type)
  PROVE  Rows'
<1>1. UNCHANGED <<position, at, caller, table, emails, sentEvents>>
  BY DEF Publish, effectVars
<1>2. \A i \in 1 .. Len(topic) : topic'[i] = topic[i]
  <2>1. [type |-> type, reservation |-> r] \in Events
    BY DEF Events
  <2> QED BY <2>1, Appended DEF Publish
<1>3. \A p \in Processes : at[p] \in InProcess => Subject(p)' = Subject(p)
  BY <1>1, <1>2 DEF Subject, Base, EventInHand
<1>4. NoRowNoTrace' /\ OneEmailPerPath' /\ SentOnce' /\ CompletedIsRecorded'
  BY <1>1 DEF Rows, NoRowNoTrace, OneEmailPerPath, SentOnce, CompletedIsRecorded
<1>5. BeforeEmail' /\ BeforeTold'
  BY <1>1, <1>3 DEF Rows, BeforeEmail, BeforeTold, InProcess, Processes, Path
<1> QED BY <1>4, <1>5 DEF Rows

LEMMA RowsStep == Base /\ Rows /\ [Next]_vars => Rows'
<1> SUFFICES ASSUME Base, Rows, [Next]_vars PROVE Rows'
  OBVIOUS
<1>1. CASE UNCHANGED vars
  BY <1>1 DEF vars, kafkaVars, effectVars, Rows, NoRowNoTrace, BeforeEmail, BeforeTold, OneEmailPerPath,
     SentOnce, CompletedIsRecorded, Subject, Path
<1> QED BY <1>1, Actions, RowsHandler, RowsSave, RowsSend, RowsTell, RowsKafka, RowsPublish

LEMMA RowsAlways == Spec => []Rows
BY BaseInit, BaseStep, RowsInit, RowsStep, PTL DEF Spec

\* Each path sends at most one email for a reservation, whatever is redelivered
\* and wherever the process crashes.
THEOREM PathSendsOneEmail == Spec => []OneEmailPerPath
<1>1. Rows => OneEmailPerPath
  BY DEF Rows
<1> QED BY <1>1, RowsAlways, PTL

\* At most one NotificationSent event is made for a reservation, however often
\* the producer writes its record, and never without a row.
THEOREM NotificationSentOnce == Spec => []SentOnce
<1>1. Rows => SentOnce
  BY DEF Rows
<1> QED BY <1>1, RowsAlways, PTL

\* A call that is answered OK has left its row.
THEOREM OkIsRecorded == Spec => []CompletedIsRecorded
<1>1. Rows => CompletedIsRecorded
  BY DEF Rows
<1> QED BY <1>1, RowsAlways, PTL

-----------------------------------------------------------------------------
\* NotificationFailed reaches Kafka.
FailureIsTold == "publish_lost" \notin Faults

\* The event at i asks for nothing, or has left its trace.
Traced(i) ==
  topic[i].type = "ReservationConfirmed" =>
    table[topic[i].reservation] # "none" \/ topic[i].reservation \in failedEvents

\* The events the worker is past, the one in hand excepted while it is processed.
Accounted ==
  /\ \A i \in 1 .. committed : Traced(i)
  /\ at[Worker] # "down" =>
       \A i \in 1 .. position : (at[Worker] \in InProcess /\ i = position) \/ Traced(i)

\* A trace is never removed, and what is appended does not move it.
LEMMA TraceStays ==
  ASSUME Base, [Next]_vars
  PROVE  \A i \in 1 .. Len(topic) : Traced(i) => Traced(i)'
<1>1. /\ Len(topic') >= Len(topic)
      /\ \A i \in 1 .. Len(topic) : topic'[i] = topic[i] /\ topic[i].reservation \in Reservations
  <2>1. \A i \in 1 .. Len(topic) : topic[i].reservation \in Reservations
    <3>1. \A i \in 1 .. Len(topic) : topic[i] \in Events
      BY DEF Base, TypeOK
    <3> QED BY <3>1 DEF Events
  <2>2. CASE topic' = topic
    BY <2>1, <2>2 DEF Base, TypeOK
  <2>3. ASSUME NEW r \in Reservations, NEW type \in {"ReservationConfirmed", "ReservationCreated"},
               Publish(r, type)
        PROVE  Len(topic') >= Len(topic) /\ \A i \in 1 .. Len(topic) : topic'[i] = topic[i]
    <3>1. [type |-> type, reservation |-> r] \in Events
      BY DEF Events
    <3>2. Len(topic) \in Nat
      BY DEF Base, TypeOK
    <3> QED BY <2>3, <3>1, <3>2, Appended DEF Publish
  <2>4. topic' = topic \/ \E r \in Reservations, type \in {"ReservationConfirmed", "ReservationCreated"} :
          Publish(r, type)
    BY Actions DEF Confirm, GiveUp, Enter, Answer, CheckDuplicate, SaveRow, DatabaseError, SendEmail, Connect, Poll,
       TellSent, SkipDuplicate, TellFailed, Commit, Disconnect, Crash, vars, kafkaVars
  <2> QED BY <2>1, <2>2, <2>3, <2>4
<1>2. \A r \in Reservations : table[r] # "none" => table'[r] # "none"
  <2>1. CASE table' = table
    BY <2>1
  <2>2. ASSUME NEW p \in Processes, table' = Inserted(p) PROVE \A r \in Reservations : table[r] # "none" => table'[r] # "none"
    BY <2>2 DEF Inserted, Path, Base, TypeOK
  <2>3. table' = table \/ \E p \in Processes : table' = Inserted(p)
    BY Actions DEF Confirm, Publish, GiveUp, Enter, Answer, CheckDuplicate, SaveRow, DatabaseError, SendEmail, Connect, Poll,
       TellSent, SkipDuplicate, TellFailed, Commit, Disconnect, Crash, vars, effectVars
  <2> QED BY <2>1, <2>2, <2>3
<1>3. failedEvents \subseteq failedEvents'
  BY Actions DEF Confirm, Publish, GiveUp, Enter, Answer, CheckDuplicate, SaveRow, DatabaseError, SendEmail, Connect, Poll,
     TellSent, SkipDuplicate, TellFailed, Commit, Disconnect, Crash, vars, effectVars
<1> QED BY <1>1, <1>2, <1>3 DEF Traced

LEMMA AccountedStep ==
  FailureIsTold /\ Base /\ Base' /\ Rows /\ Accounted /\ [Next]_vars => Accounted'
<1> SUFFICES ASSUME FailureIsTold, Base, Base', Rows, Accounted, [Next]_vars PROVE Accounted'
  OBVIOUS
<1>1. /\ Len(topic) \in Nat /\ committed \in 0 .. Len(topic) /\ position \in 0 .. Len(topic)
      /\ \A i \in 1 .. Len(topic) : Traced(i) => Traced(i)'
  BY TraceStays DEF Base, TypeOK
<1>2. CASE /\ UNCHANGED <<committed, position>>
           /\ \/ at'[Worker] = at[Worker]
              \/ at[Worker] \in InProcess /\ at'[Worker] \in InProcess
              \/ at'[Worker] = "down"
  BY <1>1, <1>2 DEF Accounted, InProcess
<1>3. CASE Connect
  <2>1. position' = committed /\ committed' = committed
    BY <1>3 DEF Connect
  <2> QED BY <1>1, <2>1 DEF Accounted
<1>4. CASE Poll
  <2> PICK next \in Nat : next = position + 1
    BY <1>1
  <2>1. /\ position' = next /\ committed' = committed /\ topic' = topic
        /\ next \in 1 .. Len(topic)
        /\ at[Worker] = "poll"
    BY <1>1, <1>4 DEF Poll
  <2>2. at'[Worker] \in InProcess \/ Traced(next)'
    <3>1. CASE topic[next].type = "ReservationConfirmed"
      BY <1>4, <3>1 DEF Poll, Goto, InProcess, Base, TypeOK, Processes
    <3>2. CASE topic[next].type # "ReservationConfirmed"
      BY <2>1, <3>2 DEF Traced
    <3> QED BY <3>1, <3>2
  <2>3. \A i \in 1 .. position : Traced(i)
    BY <2>1 DEF Accounted, InProcess
  <2>4. \A i \in 1 .. position : Traced(i)'
    BY <1>1, <2>3
  <2>5. \A i \in 1 .. next : i = next \/ i \in 1 .. position
    BY <1>1
  <2>6. \A i \in 1 .. committed : Traced(i)'
    BY <1>1 DEF Accounted
  <2> QED BY <2>1, <2>2, <2>4, <2>5, <2>6 DEF Accounted
<1>5. CASE TellSent \/ SkipDuplicate \/ TellFailed
  <2>1. UNCHANGED <<topic, committed, position, table>> /\ at[Worker] \in {"processed", "duplicate", "error"}
    BY <1>5 DEF TellSent, SkipDuplicate, TellFailed, kafkaVars, effectVars
  <2>2. at'[Worker] = "commit"
    BY <1>5 DEF TellSent, SkipDuplicate, TellFailed, Goto, Base, TypeOK, Processes
  <2>3. Subject(Worker) \in Reservations /\ Subject(Worker) = topic[position].reservation /\ Worker \in Processes
    BY <2>1, SubjectIsReservation DEF InProcess, Subject, Processes
  <2>4. Traced(position)'
    <3>1. CASE TellSent \/ SkipDuplicate
      BY <2>1, <2>3, <3>1 DEF TellSent, SkipDuplicate, Traced, Rows, BeforeEmail
    <3>2. CASE TellFailed
      <4>1. Subject(Worker) \in failedEvents'
        BY <3>2 DEF TellFailed, FailureIsTold
      <4>2. topic'[position'].reservation = Subject(Worker)
        BY <2>1, <2>3
      <4> QED BY <4>1, <4>2 DEF Traced
    <3> QED BY <1>5, <3>1, <3>2
  <2> QED BY <1>1, <2>1, <2>2, <2>4 DEF Accounted
<1>6. CASE Commit
  <2>1. committed' \in {position, committed} /\ position' = position /\ at[Worker] = "commit"
    BY <1>6 DEF Commit
  <2>2. \A i \in 1 .. position : Traced(i)
    BY <2>1 DEF Accounted, InProcess
  <2> QED BY <1>1, <2>1, <2>2 DEF Accounted
<1>7. ASSUME NEW p \in Processes, CheckDuplicate(p) \/ SaveRow(p) \/ DatabaseError(p) \/ SendEmail(p)
      PROVE  Accounted'
  <2>1. UNCHANGED <<committed, position>>
    BY <1>7 DEF CheckDuplicate, SaveRow, DatabaseError, SendEmail, kafkaVars
  <2>2. at[p] \in InProcess /\ \E step \in InProcess : at' = [at EXCEPT ![p] = step]
    BY <1>7 DEF CheckDuplicate, SaveRow, DatabaseError, SendEmail, Goto, InProcess
  <2>3. at'[Worker] = at[Worker] \/ (at[Worker] \in InProcess /\ at'[Worker] \in InProcess)
    BY <2>2 DEF Base, TypeOK, Processes
  <2> QED BY <1>2, <2>1, <2>3
<1>8. ASSUME NEW r \in Reservations,
             \/ Confirm(r) \/ GiveUp(r) \/ Enter(r) \/ Answer(r)
             \/ \E type \in {"ReservationConfirmed", "ReservationCreated"} : Publish(r, type)
      PROVE  Accounted'
  <2>1. UNCHANGED <<committed, position>> /\ at'[Worker] = at[Worker]
    BY <1>8, WorkerAssumption
       DEF WorkerAssumption, Confirm, GiveUp, Enter, Answer, Publish, Goto, kafkaVars, Base, TypeOK, Processes
  <2> QED BY <1>2, <2>1
<1>9. CASE Disconnect \/ Crash
  <2>1. UNCHANGED <<committed, position>> /\ at'[Worker] = "down"
    BY <1>9 DEF Disconnect, Crash, Goto, kafkaVars, Base, TypeOK, Processes
  <2> QED BY <1>2, <2>1
<1>10. CASE UNCHANGED vars
  BY <1>2, <1>10 DEF vars, kafkaVars
<1> QED BY <1>3, <1>4, <1>5, <1>6, <1>7, <1>8, <1>9, <1>10, Actions

\* When NotificationFailed is not lost, the committed offset never passes a
\* confirmation without a trace: not by a crash between any two steps, nor by a
\* commit of a position further on.
THEOREM CommittedHasTrace == FailureIsTold => (Spec => []CommittedIsAccounted)
<1> SUFFICES ASSUME FailureIsTold PROVE Spec => []CommittedIsAccounted
  OBVIOUS
<1>1. Init => Accounted
  BY DEF Init, Accounted, Processes
<1>2. Accounted => CommittedIsAccounted
  BY DEF Accounted, Traced, CommittedIsAccounted
<1>3. Base /\ Base' /\ Rows /\ Accounted /\ [Next]_vars => Accounted'
  BY AccountedStep
<1> QED BY <1>1, <1>2, <1>3, BaseInit, BaseStep, RowsAlways, PTL DEF Spec

=============================================================================
