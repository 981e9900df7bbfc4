------------------------ MODULE ReservationSagaProofs ------------------------
(***************************************************************************)
(* Proofs about the saga, for any number of attempts, keys, rooms, retries *)
(* of compensateInventory and any set of faults.  Each part adds one       *)
(* invariant to those before it:                                           *)
(*   Base             types, and where each execution is when its row and  *)
(*                    its notification are as they are                     *)
(*   Answers          an answered reservation is in the table, once per key*)
(*   RequestsInOrder  which requests exist at each step of the handler     *)
(*   BookedIsDone     an attempt whose row was inserted never compensates  *)
(*   OneRelease       at most one LIBERAR per attempt can take effect      *)
(*   Ledger           stock + rooms locked = initial stock + rooms released*)
(*   FinalIsLast      a final row is left by an execution that is over     *)
(*   Outcomes         row, events and answer by what the table says        *)
(*   CompensationInOrder  what compensation_status says of the LIBERARs    *)
(*   Claims           what of that a row that misses transitions still says*)
(*   RowsInOrder      the row from the BLOQUEAR on, while the handler runs *)
(*   Accounted        what became of the BLOQUEAR of one that is over      *)
(* BookedIsDone and Outcomes need InsertIsReliable, OneRelease and Claims  *)
(* ReleaseIsReliable, CompensationInOrder and Accounted RecordIsReliable   *)
(* too: assumptions about the set of faults, stated with the theorems.     *)
(***************************************************************************)
EXTENDS ReservationSaga, TLAPS, FiniteSetTheorems

\* A write of recordSagaTransition leaves the old status or the new one, in a
\* well-formed row.
LEMMA RecordedRow ==
  ASSUME NEW row \in [status : SagaStatus, compensation : CompensationStatus],
         NEW state \in SagaStatus, NEW gone, NEW new \in Recorded(row, state, gone)
  PROVE  /\ new \in [status : SagaStatus, compensation : CompensationStatus]
         /\ new.status \in {row.status, state}
<1>1. CompensationFor(row, state) \in CompensationStatus
  BY DEF CompensationFor, CompensationStatus
<1>2. new = row \/ new = [status |-> state, compensation |-> CompensationFor(row, state)]
  BY DEF Recorded
<1> QED
  BY <1>1, <1>2

\* The same for two writes in a row.
LEMMA RecordedTwiceRow ==
  ASSUME NEW row \in [status : SagaStatus, compensation : CompensationStatus],
         NEW first \in SagaStatus, NEW gone, NEW second \in SagaStatus,
         NEW new \in RecordedTwice(row, first, gone, second)
  PROVE  /\ new \in [status : SagaStatus, compensation : CompensationStatus]
         /\ new.status \in {row.status, first, second}
<1>1. PICK r \in Recorded(row, first, gone) : new \in Recorded(r, second, FALSE)
  BY DEF RecordedTwice
<1>2. /\ r \in [status : SagaStatus, compensation : CompensationStatus]
      /\ r.status \in {row.status, first}
  BY <1>1, RecordedRow
<1>3. /\ new \in [status : SagaStatus, compensation : CompensationStatus]
      /\ new.status \in {r.status, second}
  <2>1. new \in Recorded(r, second, FALSE)
    BY <1>1
  <2> QED
    BY <1>2, <2>1, RecordedRow
<1> QED
  BY <1>2, <1>3

SagaTyped == saga \in [Attempts -> [status : SagaStatus, compensation : CompensationStatus]]

\* What a single recorded transition does to the table of sagas.
LEMMA SaveRecorded ==
  ASSUME SagaTyped, NEW a \in Attempts, NEW state \in SagaStatus, NEW gone,
         Save(a, Recorded(saga[a], state, gone))
  PROVE  /\ SagaTyped'
         /\ \A b \in Attempts \ {a} : saga'[b] = saga[b]
         /\ saga'[a].status \in {saga[a].status, state}
<1>1. PICK new \in Recorded(saga[a], state, gone) : saga' = [saga EXCEPT ![a] = new]
  BY DEF Save
<1>2. /\ new \in [status : SagaStatus, compensation : CompensationStatus]
      /\ new.status \in {saga[a].status, state}
  BY RecordedRow DEF SagaTyped
<1> QED
  BY <1>1, <1>2 DEF SagaTyped

\* What two recorded transitions do to it.
LEMMA SaveRecordedTwice ==
  ASSUME SagaTyped, NEW a \in Attempts, NEW first \in SagaStatus, NEW gone,
         NEW second \in SagaStatus,
         Save(a, RecordedTwice(saga[a], first, gone, second))
  PROVE  /\ SagaTyped'
         /\ \A b \in Attempts \ {a} : saga'[b] = saga[b]
         /\ saga'[a].status \in {saga[a].status, first, second}
<1>1. PICK new \in RecordedTwice(saga[a], first, gone, second) :
        saga' = [saga EXCEPT ![a] = new]
  BY DEF Save
<1>2. /\ new \in [status : SagaStatus, compensation : CompensationStatus]
      /\ new.status \in {saga[a].status, first, second}
  BY RecordedTwiceRow DEF SagaTyped
<1> QED
  BY <1>1, <1>2 DEF SagaTyped

\* Every step of the handler leaves the table of sagas well-formed.
LEMMA HandleKeepsSagaTyped ==
  ASSUME SagaTyped, NEW a \in Attempts, Handle(a)
  PROVE  SagaTyped'
<1> USE DEF dbVars, Return, Goto
<1>1. CASE Replay(a)
  BY <1>1 DEF Replay, SagaTyped
<1>2. CASE Begin(a)
  BY <1>2 DEF Begin, SagaTyped
<1>3. CASE StartSaga(a)
  BY <1>3 DEF StartSaga, SagaTyped, SagaStatus, CompensationStatus
<1>4. CASE StartSagaFails(a)
  BY <1>4 DEF StartSagaFails, SagaTyped, SagaStatus, CompensationStatus
<1>5. CASE UserValidated(a)
  BY <1>5, SaveRecorded DEF UserValidated, SagaStatus, Final
<1>6. CASE UserRejected(a)
  BY <1>6, SaveRecordedTwice DEF UserRejected, Fail, SagaStatus, Final
<1>7. CASE SendLock(a)
  BY <1>7 DEF SendLock, SagaTyped
<1>8. CASE LockNotSent(a)
  BY <1>8, SaveRecordedTwice DEF LockNotSent, Fail, SagaStatus, Final
<1>9. CASE Locked(a)
  BY <1>9, SaveRecorded DEF Locked, SagaStatus, Final
<1>10. CASE LockRefused(a)
  BY <1>10, SaveRecordedTwice DEF LockRefused, Fail, SagaStatus, Final
<1>11. CASE LockAbandoned(a)
  BY <1>11, SaveRecordedTwice DEF LockAbandoned, Fail, SagaStatus, Final
<1>12. CASE Insert(a)
  BY <1>12 DEF Insert, SagaTyped
<1>13. CASE InsertFails(a)
  BY <1>13, SaveRecordedTwice DEF InsertFails, SagaStatus, Final
<1>14. CASE Confirm(a)
  BY <1>14, SaveRecordedTwice DEF Confirm, SagaStatus, Final
<1>15. CASE SendRelease(a)
  BY <1>15 DEF SendRelease, SagaTyped
<1>16. CASE ReleaseNotSent(a)
  BY <1>16, SaveRecorded DEF ReleaseNotSent, ReleaseFailed, SagaTyped, SagaStatus
<1>17. CASE Released(a)
  BY <1>17, SaveRecorded DEF Released, SagaStatus, Final
<1>18. CASE ReleaseUnsuccessful(a)
  BY <1>18, SaveRecorded DEF ReleaseUnsuccessful, ReleaseFailed, SagaTyped, SagaStatus
<1>19. CASE FinishFailed(a)
  BY <1>19, SaveRecorded DEF FinishFailed, SagaStatus, Final
<1> QED
  BY <1>1, <1>2, <1>3, <1>4, <1>5, <1>6, <1>7, <1>8, <1>9, <1>10, <1>11,
     <1>12, <1>13, <1>14, <1>15, <1>16, <1>17, <1>18, <1>19 DEF Handle

-----------------------------------------------------------------------------
(* Type correctness and where the handler is *)

BeforeInsert == {"idle", "start", "user", "lock", "locking", "insert"}

\* What the handler's position says about its other variables.
Positions ==
  \A a \in Attempts :
    /\ pc[a] = "compensate" => tries[a] < MaxReleases
    /\ pc[a] \in BeforeInsert \cup {"inserted"} => tries[a] = 0
    /\ pc[a] # "done" => reply[a].code = "none"
    /\ pc[a] = "inserted" => a \in reservations
    /\ pc[a] \in BeforeInsert => a \notin reservations
    /\ pc[a] = "releasing" => tries[a] \in 1 .. MaxReleases

\* The types of all the variables but saga and announced.
HandlerTyped ==
  /\ pc \in [Attempts -> Steps]
  /\ cancelled \subseteq Attempts
  /\ tries \in [Attempts -> 0 .. MaxReleases]
  /\ reply \in [Attempts -> [code : Codes, reservation : Attempts]]
  /\ notification \in [Attempts -> {"none", "sending", "finished", "lost"}]
  /\ reservations \subseteq Attempts
  /\ announced \subseteq Attempts \X {"Created", "Confirmed", "Failed"}

InventoryTyped ==
  /\ stock \in Nat
  /\ network \subseteq Requests /\ applied \subseteq Requests /\ refused \subseteq Requests

\* Where a failed LIBERAR leaves the handler.
LEMMA ReleaseFailedGoes ==
  ASSUME NEW a, NEW n, ReleaseFailed(a, n)
  PROVE  \/ n < MaxReleases /\ pc' = [pc EXCEPT ![a] = "compensate"]
         \/ ~(n < MaxReleases) /\ pc' = [pc EXCEPT ![a] = "failing"]
  BY DEF ReleaseFailed, Goto

\* The handler's steps keep the types of its variables.
LEMMA HandleKeepsHandlerTyped ==
  ASSUME HandlerTyped, Positions, NEW a \in Attempts, Handle(a)
  PROVE  HandlerTyped'
<1> USE ReleasesAssumption DEF ReleasesAssumption, HandlerTyped, Positions, dbVars,
    handlerVars, Steps, Codes, Goto, Return, Announce, BeforeInsert
<1>1. CASE Replay(a)
  BY <1>1 DEF Replay, Booked
<1>2. CASE Begin(a)
  BY <1>2 DEF Begin
<1>3. CASE StartSaga(a)
  BY <1>3 DEF StartSaga
<1>4. CASE StartSagaFails(a)
  BY <1>4 DEF StartSagaFails
<1>5. CASE UserValidated(a)
  BY <1>5 DEF UserValidated
<1>6. CASE UserRejected(a)
  BY <1>6 DEF UserRejected, Fail
<1>7. CASE SendLock(a)
  BY <1>7 DEF SendLock
<1>8. CASE LockNotSent(a)
  BY <1>8 DEF LockNotSent, Fail
<1>9. CASE Locked(a)
  BY <1>9 DEF Locked
<1>10. CASE LockRefused(a)
  BY <1>10 DEF LockRefused, Fail
<1>11. CASE LockAbandoned(a)
  BY <1>11 DEF LockAbandoned, Fail
<1>12. CASE Insert(a)
  BY <1>12 DEF Insert
<1>13. CASE InsertFails(a)
  BY <1>13 DEF InsertFails, InsertError
<1>14. CASE Confirm(a)
  BY <1>14 DEF Confirm
<1>15. CASE SendRelease(a)
  BY <1>15 DEF SendRelease
<1>16. CASE ReleaseNotSent(a)
  BY <1>16, ReleaseFailedGoes DEF ReleaseNotSent
<1>17. CASE Released(a)
  BY <1>17 DEF Released
<1>18. CASE ReleaseUnsuccessful(a)
  <2>1. pc' \in [Attempts -> Steps]
    <3>1. ReleaseFailed(a, tries[a])
      BY <1>18 DEF ReleaseUnsuccessful
    <3>2. \E step \in Steps : pc' = [pc EXCEPT ![a] = step]
      BY <3>1, ReleaseFailedGoes
    <3> QED BY <3>2
  <2>2. UNCHANGED <<cancelled, tries, reply, notification, reservations, announced>>
    BY <1>18 DEF ReleaseUnsuccessful
  <2> QED
    BY <2>1, <2>2
<1>19. CASE FinishFailed(a)
  BY <1>19 DEF FinishFailed
<1> QED
  BY <1>1, <1>2, <1>3, <1>4, <1>5, <1>6, <1>7, <1>8, <1>9, <1>10, <1>11,
     <1>12, <1>13, <1>14, <1>15, <1>16, <1>17, <1>18, <1>19 DEF Handle

\* So do its positions.
LEMMA HandleKeepsPositions ==
  ASSUME HandlerTyped, Positions, NEW a \in Attempts, Handle(a)
  PROVE  Positions'
<1> USE ReleasesAssumption DEF ReleasesAssumption, HandlerTyped, Positions, dbVars,
    handlerVars, Steps, Codes, Goto, Return, Announce, BeforeInsert
<1>1. CASE Replay(a)
  BY <1>1 DEF Replay, Booked
<1>2. CASE Begin(a)
  BY <1>2 DEF Begin
<1>3. CASE StartSaga(a)
  BY <1>3 DEF StartSaga
<1>4. CASE StartSagaFails(a)
  BY <1>4 DEF StartSagaFails
<1>5. CASE UserValidated(a)
  BY <1>5 DEF UserValidated
<1>6. CASE UserRejected(a)
  BY <1>6 DEF UserRejected, Fail
<1>7. CASE SendLock(a)
  BY <1>7 DEF SendLock
<1>8. CASE LockNotSent(a)
  BY <1>8 DEF LockNotSent, Fail
<1>9. CASE Locked(a)
  BY <1>9 DEF Locked
<1>10. CASE LockRefused(a)
  BY <1>10 DEF LockRefused, Fail
<1>11. CASE LockAbandoned(a)
  BY <1>11 DEF LockAbandoned, Fail
<1>12. CASE Insert(a)
  BY <1>12 DEF Insert
<1>13. CASE InsertFails(a)
  BY <1>13 DEF InsertFails, InsertError
<1>14. CASE Confirm(a)
  BY <1>14 DEF Confirm
<1>15. CASE SendRelease(a)
  BY <1>15 DEF SendRelease
<1>16. CASE ReleaseNotSent(a)
  BY <1>16, ReleaseFailedGoes DEF ReleaseNotSent
<1>17. CASE Released(a)
  BY <1>17 DEF Released
<1>18. CASE ReleaseUnsuccessful(a)
  BY <1>18, ReleaseFailedGoes DEF ReleaseUnsuccessful
<1>19. CASE FinishFailed(a)
  BY <1>19 DEF FinishFailed
<1> QED
  BY <1>1, <1>2, <1>3, <1>4, <1>5, <1>6, <1>7, <1>8, <1>9, <1>10, <1>11,
     <1>12, <1>13, <1>14, <1>15, <1>16, <1>17, <1>18, <1>19 DEF Handle

\* A handler's step changes only its own positions, counters and answer.
LEMMA HandleIsLocal ==
  ASSUME HandlerTyped, NEW a \in Attempts, Handle(a)
  PROVE  \A b \in Attempts \ {a} :
           pc'[b] = pc[b] /\ tries'[b] = tries[b] /\ reply'[b] = reply[b]
             /\ notification'[b] = notification[b]
<1> USE DEF HandlerTyped, dbVars, handlerVars, Goto, Return
<1>1. CASE Replay(a)
  BY <1>1 DEF Replay, Booked
<1>2. CASE Begin(a)
  BY <1>2 DEF Begin
<1>3. CASE StartSaga(a)
  BY <1>3 DEF StartSaga
<1>4. CASE StartSagaFails(a)
  BY <1>4 DEF StartSagaFails
<1>5. CASE UserValidated(a)
  BY <1>5 DEF UserValidated
<1>6. CASE UserRejected(a)
  BY <1>6 DEF UserRejected, Fail
<1>7. CASE SendLock(a)
  BY <1>7 DEF SendLock
<1>8. CASE LockNotSent(a)
  BY <1>8 DEF LockNotSent, Fail
<1>9. CASE Locked(a)
  BY <1>9 DEF Locked
<1>10. CASE LockRefused(a)
  BY <1>10 DEF LockRefused, Fail
<1>11. CASE LockAbandoned(a)
  BY <1>11 DEF LockAbandoned, Fail
<1>12. CASE Insert(a)
  BY <1>12 DEF Insert
<1>13. CASE InsertFails(a)
  BY <1>13 DEF InsertFails, InsertError
<1>14. CASE Confirm(a)
  BY <1>14 DEF Confirm
<1>15. CASE SendRelease(a)
  BY <1>15 DEF SendRelease
<1>16. CASE ReleaseNotSent(a)
  BY <1>16, ReleaseFailedGoes DEF ReleaseNotSent
<1>17. CASE Released(a)
  BY <1>17 DEF Released
<1>18. CASE ReleaseUnsuccessful(a)
  BY <1>18, ReleaseFailedGoes DEF ReleaseUnsuccessful
<1>19. CASE FinishFailed(a)
  BY <1>19 DEF FinishFailed
<1> QED
  BY <1>1, <1>2, <1>3, <1>4, <1>5, <1>6, <1>7, <1>8, <1>9, <1>10, <1>11,
     <1>12, <1>13, <1>14, <1>15, <1>16, <1>17, <1>18, <1>19 DEF Handle

\* Only three of the handler's steps touch the inventory's variables or the
\* table reservations in a way that matters to the rest of the proof.
LEMMA HandleFrames ==
  ASSUME NEW a \in Attempts, Handle(a)
  PROVE  /\ \/ inventoryVars' = inventoryVars
            \/ SendLock(a) \/ SendRelease(a)
         /\ \/ reservations' = reservations
            \/ Insert(a)
            \/ InsertFails(a) /\ reservations' = reservations \cup {a} /\ Booked(a) = {}
                 /\ "ambiguous_insert" \in Faults
<1> USE DEF dbVars
<1>1. CASE Replay(a)
  BY <1>1 DEF Replay
<1>2. CASE Begin(a)
  BY <1>2 DEF Begin
<1>3. CASE StartSaga(a)
  BY <1>3 DEF StartSaga
<1>4. CASE StartSagaFails(a)
  BY <1>4 DEF StartSagaFails
<1>5. CASE UserValidated(a)
  BY <1>5 DEF UserValidated
<1>6. CASE UserRejected(a)
  BY <1>6 DEF UserRejected
<1>7. CASE SendLock(a)
  BY <1>7 DEF SendLock
<1>8. CASE LockNotSent(a)
  BY <1>8 DEF LockNotSent
<1>9. CASE Locked(a)
  BY <1>9 DEF Locked
<1>10. CASE LockRefused(a)
  BY <1>10 DEF LockRefused
<1>11. CASE LockAbandoned(a)
  BY <1>11 DEF LockAbandoned
<1>12. CASE Insert(a)
  BY <1>12 DEF Insert
<1>13. CASE InsertFails(a)
  BY <1>13 DEF InsertFails, InsertError
<1>14. CASE Confirm(a)
  BY <1>14 DEF Confirm
<1>15. CASE SendRelease(a)
  BY <1>15 DEF SendRelease
<1>16. CASE ReleaseNotSent(a)
  BY <1>16 DEF ReleaseNotSent
<1>17. CASE Released(a)
  BY <1>17 DEF Released
<1>18. CASE ReleaseUnsuccessful(a)
  BY <1>18 DEF ReleaseUnsuccessful
<1>19. CASE FinishFailed(a)
  BY <1>19 DEF FinishFailed
<1> QED
  BY <1>1, <1>2, <1>3, <1>4, <1>5, <1>6, <1>7, <1>8, <1>9, <1>10, <1>11,
     <1>12, <1>13, <1>14, <1>15, <1>16, <1>17, <1>18, <1>19 DEF Handle

-----------------------------------------------------------------------------
(* The steps that are not the handler's *)

\* They keep the types of the handler's variables and the positions.
LEMMA OthersKeepPositions ==
  ASSUME HandlerTyped, Positions,
         \/ \E a \in Attempts : Notified(a) \/ Cancel(a)
         \/ \E r \in Requests : Serve(r)
         \/ Crash
         \/ UNCHANGED vars
  PROVE  HandlerTyped' /\ Positions'
<1> USE DEF HandlerTyped, Positions, BeforeInsert, handlerVars, dbVars
<1>1. ASSUME NEW a \in Attempts, Notified(a)
      PROVE  HandlerTyped' /\ Positions'
  BY <1>1 DEF Notified
<1>2. ASSUME NEW a \in Attempts, Cancel(a)
      PROVE  HandlerTyped' /\ Positions'
  BY <1>2 DEF Cancel
<1>3. ASSUME NEW r \in Requests, Serve(r)
      PROVE  HandlerTyped' /\ Positions'
  BY <1>3 DEF Serve, Apply, Refuse
<1>4. CASE Crash
  <2>1. HandlerTyped'
    BY <1>4 DEF Crash, InProgress, Finished, Steps
  <2>2. \A a \in Attempts : pc'[a] = pc[a] \/ (pc'[a] = "crashed" /\ pc[a] # "done")
    BY <1>4 DEF Crash, InProgress, Finished
  <2>3. UNCHANGED <<tries, reply, reservations>>
    BY <1>4 DEF Crash
  <2>4. Positions'
    BY <2>2, <2>3
  <2> QED
    BY <2>1, <2>4
<1>5. CASE UNCHANGED vars
  BY <1>5 DEF vars
<1> QED
  BY <1>1, <1>2, <1>3, <1>4, <1>5

\* They keep the table of sagas well-formed.
LEMMA OthersKeepSagaTyped ==
  ASSUME SagaTyped,
         \/ \E a \in Attempts : Notified(a) \/ Cancel(a)
         \/ \E r \in Requests : Serve(r)
         \/ Crash
         \/ UNCHANGED vars
  PROVE  SagaTyped'
<1>1. ASSUME NEW a \in Attempts, Notified(a)
      PROVE  SagaTyped'
  BY <1>1, SaveRecorded DEF Notified, SagaStatus, Final
<1>2. CASE UNCHANGED saga
  BY <1>2 DEF SagaTyped
<1> QED
  BY <1>1, <1>2 DEF Cancel, Serve, Apply, Refuse, Crash, dbVars, vars

\* Every step keeps the types of the inventory's variables: an UPDATE never
\* takes the stock below zero.
LEMMA InventoryStaysTyped ==
  ASSUME HandlerTyped, Positions, InventoryTyped, [Next]_vars
  PROVE  InventoryTyped'
<1> USE ReleasesAssumption DEF ReleasesAssumption, HandlerTyped, Positions, InventoryTyped, Requests
<1>1. ASSUME NEW a \in Attempts, Handle(a)
      PROVE  InventoryTyped'
  <2>1. CASE SendLock(a)
    BY <2>1 DEF SendLock, Send
  <2>2. CASE SendRelease(a)
    BY <2>2 DEF SendRelease, Send
  <2>3. CASE inventoryVars' = inventoryVars
    BY <2>3 DEF inventoryVars
  <2> QED
    BY <1>1, <2>1, <2>2, <2>3, HandleFrames
<1>2. ASSUME NEW r \in Requests, Serve(r)
      PROVE  InventoryTyped'
  BY <1>2 DEF Serve, Apply, Refuse
<1>3. CASE UNCHANGED inventoryVars
  BY <1>3 DEF inventoryVars
<1> QED
  BY <1>1, <1>2, <1>3 DEF Next, Notified, Cancel, Crash, vars

Base == SagaTyped /\ HandlerTyped /\ InventoryTyped /\ Positions

\* The types and the positions hold in every reachable state.
THEOREM BaseHolds == Spec => []Base
<1>1. Init => Base
  BY StockAssumption, ReleasesAssumption
  DEF StockAssumption, ReleasesAssumption, Init, Base, SagaTyped, HandlerTyped,
      InventoryTyped, Positions, Steps, Codes, SagaStatus, CompensationStatus, BeforeInsert
<1>2. Base /\ [Next]_vars => Base'
  BY HandleKeepsSagaTyped, HandleKeepsHandlerTyped, HandleKeepsPositions,
     OthersKeepPositions, OthersKeepSagaTyped, InventoryStaysTyped DEF Base, Next
<1> QED
  BY <1>1, <1>2, PTL DEF Spec

\* TypeOK, for any number of attempts and any faults; in particular
\* stock_total never becomes negative.
THEOREM TypeCorrect == Spec => []TypeOK
<1>1. Base => TypeOK
  BY DEF Base, SagaTyped, HandlerTyped, InventoryTyped, TypeOK
<1> QED
  BY <1>1, BaseHolds, PTL

-----------------------------------------------------------------------------
(* The booking seen by the callers *)

\* Keys are unique in the table, and an OK answer names a reservation of the
\* table, the caller's own or the one its key has.
Answers ==
  /\ \A r, s \in reservations : SameKey(r, s) => r = s
  /\ \A a \in Attempts : reply[a].code = "OK" =>
       /\ reply[a].reservation \in reservations
       /\ reply[a].reservation = a \/ SameKey(a, reply[a].reservation)

\* What a step does to the booking: it writes one new reservation whose key is
\* not there, or answers one request, or neither.
BookingStep ==
  \/ \E a \in Attempts :
       /\ Booked(a) = {}
       /\ reservations' = reservations \cup {a}
       /\ UNCHANGED reply
  \/ \E a \in Attempts, r \in reservations :
       /\ reply[a].code # "OK"
       /\ r = a \/ SameKey(a, r)
       /\ reply' = [reply EXCEPT ![a] = [code |-> "OK", reservation |-> r]]
       /\ UNCHANGED reservations
  \/ \E a \in Attempts, code \in Codes \ {"OK"} :
       /\ reply[a].code # "OK"
       /\ reply' = [reply EXCEPT ![a] = [code |-> code, reservation |-> a]]
       /\ UNCHANGED reservations
  \/ UNCHANGED <<reservations, reply>>

\* Every step of the handler is one of these.
LEMMA HandleIsBookingStep ==
  ASSUME Base, NEW a \in Attempts, Handle(a)
  PROVE  BookingStep
<1> USE DEF Base, HandlerTyped, Positions, dbVars, Return, BookingStep, BeforeInsert
<1>1. CASE Replay(a)
  BY <1>1 DEF Replay, Booked
<1>2. CASE Begin(a)
  BY <1>2 DEF Begin
<1>3. CASE StartSaga(a)
  BY <1>3 DEF StartSaga
<1>4. CASE StartSagaFails(a)
  BY <1>4 DEF StartSagaFails, Codes
<1>5. CASE UserValidated(a)
  BY <1>5 DEF UserValidated
<1>6. CASE UserRejected(a)
  <2>1. PICK code \in {"Unauthenticated", "Unavailable"} :
          /\ reply' = [reply EXCEPT ![a] = [code |-> code, reservation |-> a]]
          /\ pc[a] = "user" /\ UNCHANGED reservations
    BY <1>6 DEF UserRejected, Fail
  <2>2. code \in Codes \ {"OK"} /\ reply[a].code # "OK"
    BY <2>1 DEF Codes
  <2> QED BY <2>1, <2>2
<1>7. CASE SendLock(a)
  BY <1>7 DEF SendLock
<1>8. CASE LockNotSent(a)
  BY <1>8 DEF LockNotSent, Fail, Codes
<1>9. CASE Locked(a)
  BY <1>9 DEF Locked
<1>10. CASE LockRefused(a)
  BY <1>10 DEF LockRefused, Fail, Codes
<1>11. CASE LockAbandoned(a)
  BY <1>11 DEF LockAbandoned, Fail, Codes
<1>12. CASE Insert(a)
  BY <1>12 DEF Insert
<1>13. CASE InsertFails(a)
  BY <1>13 DEF InsertFails, InsertError
<1>14. CASE Confirm(a)
  BY <1>14 DEF Confirm
<1>15. CASE SendRelease(a)
  BY <1>15 DEF SendRelease
<1>16. CASE ReleaseNotSent(a)
  BY <1>16 DEF ReleaseNotSent
<1>17. CASE Released(a)
  BY <1>17 DEF Released
<1>18. CASE ReleaseUnsuccessful(a)
  BY <1>18 DEF ReleaseUnsuccessful
<1>19. CASE FinishFailed(a)
  BY <1>19 DEF FinishFailed, Codes
<1> QED
  BY <1>1, <1>2, <1>3, <1>4, <1>5, <1>6, <1>7, <1>8, <1>9, <1>10, <1>11,
     <1>12, <1>13, <1>14, <1>15, <1>16, <1>17, <1>18, <1>19 DEF Handle

\* So is every other step.
LEMMA NextIsBookingStep ==
  ASSUME Base, [Next]_vars
  PROVE  BookingStep
<1>1. CASE UNCHANGED <<reservations, reply>>
  BY <1>1 DEF BookingStep
<1> QED
  BY <1>1, HandleIsBookingStep
  DEF Next, Notified, Cancel, Serve, Apply, Refuse, Crash, vars, handlerVars, dbVars

\* Booking steps keep the keys unique and the answers right.
LEMMA BookingStepKeepsAnswers ==
  ASSUME HandlerTyped, Answers, BookingStep
  PROVE  Answers'
<1> USE DEF HandlerTyped, Answers
<1>1. ASSUME NEW a \in Attempts, Booked(a) = {}, reservations' = reservations \cup {a},
             UNCHANGED reply
      PROVE  Answers'
  BY <1>1 DEF Booked, SameKey
<1>2. ASSUME NEW a \in Attempts, NEW r \in reservations, r = a \/ SameKey(a, r),
             reply' = [reply EXCEPT ![a] = [code |-> "OK", reservation |-> r]],
             UNCHANGED reservations
      PROVE  Answers'
  BY <1>2 DEF SameKey
<1>3. ASSUME NEW a \in Attempts, NEW code \in Codes \ {"OK"},
             reply' = [reply EXCEPT ![a] = [code |-> code, reservation |-> a]],
             UNCHANGED reservations
      PROVE  Answers'
  BY <1>3 DEF SameKey
<1>4. CASE UNCHANGED <<reservations, reply>>
  BY <1>4 DEF SameKey
<1> QED
  BY <1>1, <1>2, <1>3, <1>4 DEF BookingStep

THEOREM AnswersHold == Spec => []Answers
<1>1. Init => Answers
  BY DEF Init, Answers
<1>2. Base /\ Answers /\ [Next]_vars => Answers'
  BY NextIsBookingStep, BookingStepKeepsAnswers DEF Base
<1> QED
  BY <1>1, <1>2, BaseHolds, PTL DEF Spec

\* Two requests with the same key that are answered OK are answered with the
\* same reservation, whatever fails.
THEOREM SameKeyGetsSameAnswer == Spec => []SameKeySameAnswer
<1>1. Base /\ Answers => SameKeySameAnswer
  <2> SUFFICES ASSUME Base, Answers, NEW a \in Attempts, NEW b \in Attempts,
                      SameKey(a, b), reply[a].code = "OK", reply[b].code = "OK"
               PROVE  reply[a].reservation = reply[b].reservation
    BY DEF SameKeySameAnswer, Booking!OneReservationPerKey, Booking!SameKey, SameKey
  <2>1. SameKey(reply[a].reservation, reply[b].reservation)
    BY DEF Answers, SameKey
  <2> QED
    BY <2>1 DEF Answers
<1> QED
  BY <1>1, BaseHolds, AnswersHold, PTL

\* CreateReservation implements the idempotent booking, whatever fails.
THEOREM SagaImplementsBooking == Spec => ImplementsBooking
<1> DEFINE Answer(a) == IF reply[a].code = "OK" THEN {reply[a].reservation} ELSE {}
<1>1. Init => Booking!Init
  BY DEF Init, Booking!Init
<1>2. Base /\ [Next]_vars => [Booking!Next]_<<reservations, [a \in Attempts |-> Answer(a)]>>
  <2> SUFFICES ASSUME Base, BookingStep
               PROVE  \/ Booking!Next
                      \/ UNCHANGED <<reservations, [a \in Attempts |-> Answer(a)]>>
    BY NextIsBookingStep
  <2> USE DEF Base, HandlerTyped
  <2>1. ASSUME NEW a \in Attempts, Booked(a) = {}, reservations' = reservations \cup {a},
               UNCHANGED reply
        PROVE  Booking!Next
    BY <2>1 DEF Booking!Next, Booking!Book, Booking!SameKey, Booked, SameKey
  <2>2. ASSUME NEW a \in Attempts, NEW r \in reservations, reply[a].code # "OK",
               r = a \/ SameKey(a, r),
               reply' = [reply EXCEPT ![a] = [code |-> "OK", reservation |-> r]],
               UNCHANGED reservations
        PROVE  Booking!Next
    <3>1. [b \in Attempts |-> Answer(b)]' = [[b \in Attempts |-> Answer(b)] EXCEPT ![a] = {r}]
      BY <2>2
    <3> QED
      BY <2>2, <3>1 DEF Booking!Next, Booking!Answer, Booking!SameKey, SameKey
  <2>3. ASSUME NEW a \in Attempts, NEW code \in Codes \ {"OK"}, reply[a].code # "OK",
               reply' = [reply EXCEPT ![a] = [code |-> code, reservation |-> a]],
               UNCHANGED reservations
        PROVE  UNCHANGED <<reservations, [b \in Attempts |-> Answer(b)]>>
    BY <2>3
  <2>4. CASE UNCHANGED <<reservations, reply>>
    BY <2>4
  <2> QED
    BY <2>1, <2>2, <2>3, <2>4 DEF BookingStep
<1> QED
  BY <1>1, <1>2, BaseHolds, PTL DEF Spec, ImplementsBooking, Booking!Spec

-----------------------------------------------------------------------------
(* Requests to the inventory *)

\* The requests of an attempt are numbered by its tries and exist once; from
\* the INSERT on, its BLOQUEAR has been applied.
RequestsInOrder ==
  /\ \A a \in Attempts, n \in 0 .. MaxReleases :
       <<a, n>> \in network \cup applied \cup refused =>
         n <= tries[a] /\ pc[a] \notin {"idle", "start", "user", "lock"}
  /\ network \cap (applied \cup refused) = {}
  /\ applied \cap refused = {}
  /\ \A a \in Attempts :
       pc[a] \in {"insert", "inserted", "compensate", "releasing", "failing"} \/ tries[a] > 0
         => <<a, 0>> \in applied

\* The handler keeps them in order.
LEMMA HandleKeepsRequests ==
  ASSUME Base, RequestsInOrder, NEW a \in Attempts, Handle(a)
  PROVE  RequestsInOrder'
<1> USE ReleasesAssumption DEF ReleasesAssumption, Base, HandlerTyped, InventoryTyped, Positions,
    RequestsInOrder, Requests, BeforeInsert
<1>1. CASE SendLock(a)
  <2>1. <<a, 0>> \notin network \cup applied \cup refused
    BY <1>1 DEF SendLock
  <2> QED
    BY <1>1, <2>1 DEF SendLock, Send, Goto
<1>2. CASE SendRelease(a)
  <2>1. tries[a] + 1 \in 0 .. MaxReleases
    BY <1>2 DEF SendRelease
  <2>2. <<a, tries[a] + 1>> \notin network \cup applied \cup refused
    BY <1>2, <2>1 DEF SendRelease
  <2> QED
    BY <1>2, <2>1, <2>2 DEF SendRelease, Send, Goto
<1>3. CASE inventoryVars' = inventoryVars
  <2>1. UNCHANGED <<network, applied, refused>>
    BY <1>3 DEF inventoryVars
  <2>2. \A b \in Attempts \ {a} : pc'[b] = pc[b] /\ tries'[b] = tries[b]
    BY HandleIsLocal
  <2>3. \/ SendLock(a) \/ SendRelease(a)
        \/ /\ tries'[a] = tries[a] \/ (tries'[a] = tries[a] + 1 /\ pc[a] = "compensate")
           /\ pc[a] \in {"idle", "start", "user", "lock"} =>
                tries'[a] = 0 /\ pc'[a] \in {"start", "user", "lock", "done"}
           /\ pc[a] \notin {"idle", "start", "user", "lock"} =>
                pc'[a] \notin {"idle", "start", "user", "lock"}
           /\ pc'[a] \in {"insert", "inserted", "compensate", "releasing", "failing"} =>
                <<a, 0>> \in applied
    <3> HIDE DEF RequestsInOrder
    <3> USE DEF dbVars, handlerVars, Goto, Return, RequestsInOrder
    <3>1. CASE Replay(a)
      BY <3>1 DEF Replay, Booked
    <3>2. CASE Begin(a)
      BY <3>2 DEF Begin
    <3>3. CASE StartSaga(a)
      BY <3>3 DEF StartSaga
    <3>4. CASE StartSagaFails(a)
      BY <3>4 DEF StartSagaFails
    <3>5. CASE UserValidated(a)
      BY <3>5 DEF UserValidated
    <3>6. CASE UserRejected(a)
      BY <3>6 DEF UserRejected, Fail
    <3>7. CASE SendLock(a)
      BY <3>7 DEF SendLock
    <3>8. CASE LockNotSent(a)
      BY <3>8 DEF LockNotSent, Fail
    <3>9. CASE Locked(a)
      BY <3>9 DEF Locked
    <3>10. CASE LockRefused(a)
      BY <3>10 DEF LockRefused, Fail
    <3>11. CASE LockAbandoned(a)
      BY <3>11 DEF LockAbandoned, Fail
    <3>12. CASE Insert(a)
      BY <3>12 DEF Insert
    <3>13. CASE InsertFails(a)
      BY <3>13 DEF InsertFails, InsertError
    <3>14. CASE Confirm(a)
      BY <3>14 DEF Confirm
    <3>15. CASE SendRelease(a)
      BY <3>15 DEF SendRelease
    <3>16. CASE ReleaseNotSent(a)
      BY <3>16, ReleaseFailedGoes DEF ReleaseNotSent
    <3>17. CASE Released(a)
      BY <3>17 DEF Released
    <3>18. CASE ReleaseUnsuccessful(a)
      BY <3>18, ReleaseFailedGoes DEF ReleaseUnsuccessful
    <3>19. CASE FinishFailed(a)
      BY <3>19 DEF FinishFailed
    <3> QED
      BY <3>1, <3>2, <3>3, <3>4, <3>5, <3>6, <3>7, <3>8, <3>9, <3>10, <3>11,
         <3>12, <3>13, <3>14, <3>15, <3>16, <3>17, <3>18, <3>19 DEF Handle
  <2>4. CASE SendLock(a) \/ SendRelease(a)
    BY <1>1, <1>2, <2>4
  <2>5. CASE ~(SendLock(a) \/ SendRelease(a))
    <3>1. ASSUME NEW b \in Attempts, NEW n \in 0 .. MaxReleases,
                 <<b, n>> \in network \cup applied \cup refused
          PROVE  n <= tries'[b] /\ pc'[b] \notin {"idle", "start", "user", "lock"}
      BY <2>2, <2>3, <2>5, <3>1
    <3>2. ASSUME NEW b \in Attempts,
                 pc'[b] \in {"insert", "inserted", "compensate", "releasing", "failing"}
                   \/ tries'[b] > 0
          PROVE  <<b, 0>> \in applied
      BY <2>2, <2>3, <2>5, <3>2
    <3> QED
      BY <2>1, <3>1, <3>2
  <2> QED
    BY <2>4, <2>5
<1> QED
  BY <1>1, <1>2, <1>3, HandleFrames

\* So do the inventory and the other steps.
LEMMA OthersKeepRequests ==
  ASSUME Base, RequestsInOrder,
         \/ \E a \in Attempts : Notified(a) \/ Cancel(a)
         \/ \E r \in Requests : Serve(r)
         \/ Crash
         \/ UNCHANGED vars
  PROVE  RequestsInOrder'
<1> USE DEF Base, HandlerTyped, InventoryTyped, RequestsInOrder
<1>1. ASSUME NEW r \in Requests, Serve(r)
      PROVE  RequestsInOrder'
  BY <1>1 DEF Serve, Apply, Refuse, handlerVars
<1>2. CASE Crash
  <2>1. \A a \in Attempts : pc'[a] = pc[a] \/ (pc'[a] = "crashed" /\ pc[a] # "idle")
    BY <1>2 DEF Crash, InProgress
  <2>2. UNCHANGED <<tries, network, applied, refused>>
    BY <1>2 DEF Crash, inventoryVars
  <2> QED
    BY <2>1, <2>2
<1>3. CASE UNCHANGED <<pc, tries, network, applied, refused>>
  BY <1>3
<1> QED
  BY <1>1, <1>2, <1>3 DEF Notified, Cancel, vars, handlerVars, inventoryVars

THEOREM RequestsHold == Spec => []RequestsInOrder
<1>1. Init => RequestsInOrder
  BY DEF Init, RequestsInOrder
<1>2. Base /\ RequestsInOrder /\ [Next]_vars => RequestsInOrder'
  BY HandleKeepsRequests, OthersKeepRequests DEF Next
<1> QED
  BY <1>1, <1>2, BaseHolds, PTL DEF Spec

-----------------------------------------------------------------------------
(* A confirmed reservation keeps its room *)

\* What an INSERT that reports an error has not committed gives.
InsertIsReliable == "ambiguous_insert" \notin Faults

BookedIsDone ==
  \A a \in reservations :
    pc[a] \in {"inserted", "done", "crashed"} /\ tries[a] = 0 /\ <<a, 0>> \in applied

\* No step starts a compensation for an attempt whose row is in the table.
LEMMA NextKeepsBookedDone ==
  ASSUME InsertIsReliable, Base, RequestsInOrder, BookedIsDone, [Next]_vars
  PROVE  BookedIsDone'
<1> USE DEF Base, HandlerTyped, Positions, BookedIsDone, BeforeInsert
<1>1. ASSUME NEW a \in Attempts, Handle(a)
      PROVE  BookedIsDone'
  <2>1. \A b \in Attempts \ {a} : pc'[b] = pc[b] /\ tries'[b] = tries[b]
    BY <1>1, HandleIsLocal
  <2>2. applied' = applied
    <3>1. CASE SendLock(a) \/ SendRelease(a)
      BY <3>1 DEF SendLock, SendRelease, Send
    <3>2. CASE inventoryVars' = inventoryVars
      BY <3>2 DEF inventoryVars
    <3> QED
      BY <1>1, <3>1, <3>2, HandleFrames
  <2>3. CASE Insert(a)
    <3>1. pc[a] = "insert" /\ tries[a] = 0
      BY <2>3 DEF Insert
    <3>2. <<a, 0>> \in applied
      BY <3>1 DEF RequestsInOrder
    <3>3. pc'[a] = "inserted" /\ tries'[a] = 0 /\ reservations' = reservations \cup {a}
      BY <2>3, <3>1 DEF Insert, Goto
    <3> QED
      BY <2>1, <2>2, <3>2, <3>3
  <2>4. CASE reservations' = reservations
    <3>1. ASSUME a \in reservations
          PROVE  Confirm(a)
      <4>1. pc[a] \in {"inserted", "done", "crashed"}
        BY <3>1
      <4> QED
        BY <1>1, <4>1 DEF Handle, Replay, Begin, StartSaga, StartSagaFails, UserValidated,
           UserRejected, SendLock, LockNotSent, Locked, LockRefused, LockAbandoned, Insert,
           InsertFails, InsertError, SendRelease, ReleaseNotSent, Released,
           ReleaseUnsuccessful, FinishFailed
    <3>2. ASSUME a \in reservations
          PROVE  pc'[a] = "done" /\ tries'[a] = 0 /\ <<a, 0>> \in applied
      BY <3>1, <3>2 DEF Confirm, Return, Goto
    <3> QED
      BY <2>1, <2>2, <2>4, <3>2
  <2> QED
    BY <1>1, <2>3, <2>4, HandleFrames DEF InsertIsReliable
<1>2. ASSUME NEW r \in Requests, Serve(r)
      PROVE  BookedIsDone'
  BY <1>2 DEF Serve, Apply, Refuse, handlerVars, dbVars
<1>3. CASE Crash
  BY <1>3 DEF Crash, InProgress, dbVars, inventoryVars
<1>4. CASE UNCHANGED <<pc, tries, reservations, applied>>
  BY <1>4
<1> QED
  BY <1>1, <1>2, <1>3, <1>4 DEF Next, Notified, Cancel, vars, handlerVars, inventoryVars, dbVars

THEOREM BookedDoneHolds == InsertIsReliable => (Spec => []BookedIsDone)
<1> SUFFICES ASSUME InsertIsReliable PROVE Spec => []BookedIsDone
  OBVIOUS
<1>1. Init => BookedIsDone
  BY DEF Init, BookedIsDone
<1>2. Base /\ RequestsInOrder /\ BookedIsDone /\ [Next]_vars => BookedIsDone'
  BY NextKeepsBookedDone
<1> QED
  BY <1>1, <1>2, BaseHolds, RequestsHold, PTL DEF Spec

\* As long as an INSERT that reports an error has not committed, the room of a
\* confirmed reservation is never given back: not by timeouts, cancellations,
\* lost writes or crashes.
THEOREM BookedKeepsItsRoom == InsertIsReliable => (Spec => []BookedKeepsRoom)
<1> SUFFICES ASSUME InsertIsReliable PROVE Spec => []BookedKeepsRoom
  OBVIOUS
<1>1. Base /\ RequestsInOrder /\ BookedIsDone => BookedKeepsRoom
  <2> SUFFICES ASSUME Base, RequestsInOrder, BookedIsDone,
                      NEW a \in reservations, NEW n \in 1 .. MaxReleases
               PROVE  <<a, 0>> \in applied /\ <<a, n>> \notin network \cup applied
    BY DEF BookedKeepsRoom, BookedIsDone
  <2> QED
    BY ReleasesAssumption DEF ReleasesAssumption, Base, HandlerTyped, RequestsInOrder, BookedIsDone
<1> QED
  BY <1>1, BaseHolds, RequestsHold, BookedDoneHolds, PTL

-----------------------------------------------------------------------------
(* The stock *)

\* A LIBERAR whose caller gave up waiting is not applied.
ReleaseIsReliable == "ambiguous_release" \notin Faults

Lockers == {a \in Attempts : <<a, 0>> \in applied}
Releasers == {a \in Attempts : \E n \in 1 .. MaxReleases : <<a, n>> \in applied}

\* At most one LIBERAR of an attempt is applied or may still be, and while the
\* handler can send another one there is none.
OneRelease ==
  \A a \in Attempts : \A n \in 1 .. MaxReleases :
    <<a, n>> \in network \cup applied =>
      /\ \A m \in 1 .. MaxReleases : <<a, m>> \in network \cup applied => m = n
      /\ pc[a] # "compensate"
      /\ pc[a] = "releasing" => n = tries[a]

\* The stock is what the rooms locked and released make it.
Ledger ==
  /\ IsFiniteSet(Lockers) /\ IsFiniteSet(Releasers)
  /\ stock + Cardinality(Lockers) = InitialStock + Cardinality(Releasers)

LEMMA HandleKeepsOneRelease ==
  ASSUME ReleaseIsReliable, Base, RequestsInOrder, OneRelease, NEW a \in Attempts, Handle(a)
  PROVE  OneRelease'
<1> USE ReleasesAssumption DEF ReleasesAssumption, Base, HandlerTyped, Positions, OneRelease, BeforeInsert
<1>1. CASE SendLock(a)
  <2>1. \A b \in Attempts, n \in 1 .. MaxReleases :
          <<b, n>> \in (network \cup applied)' => <<b, n>> \in network \cup applied
    BY <1>1 DEF SendLock, Send
  <2>2. \A b \in Attempts \ {a} : pc'[b] = pc[b] /\ tries'[b] = tries[b]
    BY HandleIsLocal
  <2>3. pc'[a] = "locking"
    BY <1>1 DEF SendLock, Goto
  <2> QED
    BY <2>1, <2>2, <2>3
<1>2. CASE SendRelease(a)
  <2>1. \A n \in 1 .. MaxReleases : <<a, n>> \notin network \cup applied
    BY <1>2 DEF SendRelease
  <2>2. \A b \in Attempts, n \in 1 .. MaxReleases :
          <<b, n>> \in (network \cup applied)' =>
             <<b, n>> \in network \cup applied \/ (b = a /\ n = tries'[a])
    BY <1>2 DEF SendRelease, Send
  <2>3. \A b \in Attempts \ {a} : pc'[b] = pc[b] /\ tries'[b] = tries[b]
    BY HandleIsLocal
  <2>4. pc'[a] = "releasing"
    BY <1>2 DEF SendRelease, Goto
  <2> QED
    BY <2>1, <2>2, <2>3, <2>4
<1>3. CASE inventoryVars' = inventoryVars
  <2>1. UNCHANGED <<network, applied>>
    BY <1>3 DEF inventoryVars
  <2>2. \A b \in Attempts \ {a} : pc'[b] = pc[b] /\ tries'[b] = tries[b]
    BY HandleIsLocal
  <2>3. CASE pc'[a] \notin {"compensate", "releasing"}
    BY <2>1, <2>2, <2>3
  <2>4. CASE InsertFails(a)
    <3>1. \A n \in 1 .. MaxReleases : <<a, n>> \notin network \cup applied
      BY <2>4 DEF InsertFails, InsertError, RequestsInOrder
    <3> QED
      BY <2>1, <2>2, <3>1
  <2>5. CASE ReleaseNotSent(a)
    <3>1. \A n \in 1 .. MaxReleases : <<a, n>> \notin network \cup applied
      BY <2>5 DEF ReleaseNotSent
    <3> QED
      BY <2>1, <2>2, <3>1
  <2>6. CASE ReleaseUnsuccessful(a)
    <3>1. <<a, tries[a]>> \in refused /\ pc[a] = "releasing"
      BY <2>6 DEF ReleaseUnsuccessful, ReleaseIsReliable
    <3>2. \A n \in 1 .. MaxReleases : <<a, n>> \notin network \cup applied
      BY <3>1 DEF RequestsInOrder
    <3> QED
      BY <2>1, <2>2, <3>2
  <2>7. \/ pc'[a] \notin {"compensate", "releasing"}
        \/ SendLock(a) \/ SendRelease(a)
        \/ InsertFails(a) \/ ReleaseNotSent(a) \/ ReleaseUnsuccessful(a)
    BY DEF Handle, Replay, Begin, StartSaga, StartSagaFails, UserValidated, UserRejected,
       LockNotSent, Locked, LockRefused, LockAbandoned, Insert, Confirm, Released,
       FinishFailed, Fail, Goto, Return
  <2> QED
    BY <1>1, <1>2, <2>3, <2>4, <2>5, <2>6, <2>7
<1> QED
  BY <1>1, <1>2, <1>3, HandleFrames

LEMMA OthersKeepOneRelease ==
  ASSUME Base, RequestsInOrder, OneRelease,
         \/ \E a \in Attempts : Notified(a) \/ Cancel(a)
         \/ \E r \in Requests : Serve(r)
         \/ Crash
         \/ UNCHANGED vars
  PROVE  OneRelease'
<1> USE DEF OneRelease
<1>1. ASSUME NEW r \in Requests, Serve(r)
      PROVE  OneRelease'
  <2>1. (network \cup applied)' \subseteq network \cup applied
    BY <1>1 DEF Serve, Apply, Refuse
  <2> QED
    BY <1>1, <2>1 DEF Serve, Apply, Refuse, handlerVars
<1>2. CASE Crash
  <2>1. \A a \in Attempts : pc'[a] = pc[a] \/ pc'[a] = "crashed"
    BY <1>2 DEF Crash
  <2>2. UNCHANGED <<tries, network, applied>>
    BY <1>2 DEF Crash, inventoryVars
  <2> QED
    BY <2>1, <2>2
<1>3. CASE UNCHANGED <<pc, tries, network, applied>>
  BY <1>3
<1> QED
  BY <1>1, <1>2, <1>3 DEF Notified, Cancel, vars, handlerVars, inventoryVars

\* Applying a request enters it into the ledger; nothing else touches it.
LEMMA NextKeepsLedger ==
  ASSUME Base, RequestsInOrder, OneRelease, Ledger, [Next]_vars
  PROVE  Ledger'
<1>1. ASSUME NEW a \in Attempts, NEW n \in 0 .. MaxReleases, Apply(<<a, n>>)
      PROVE  Ledger'
  <2>1. <<a, n>> \in network /\ <<a, n>> \notin applied /\ applied' = applied \cup {<<a, n>>}
    BY <1>1 DEF Apply, RequestsInOrder
  <2>2. /\ Cardinality(Lockers) \in Nat /\ Cardinality(Releasers) \in Nat
        /\ stock \in Nat /\ InitialStock \in Nat
    BY FS_CardinalityType, StockAssumption DEF StockAssumption, Ledger, Base, InventoryTyped
  <2>3. CASE n = 0
    <3>1. a \notin Lockers /\ Lockers' = Lockers \cup {a} /\ Releasers' = Releasers
      BY <2>1, <2>3 DEF Lockers, Releasers
    <3>2. stock >= 1 /\ stock' = stock - 1
      BY <1>1, <2>3 DEF Apply
    <3>3. IsFiniteSet(Lockers') /\ Cardinality(Lockers') = Cardinality(Lockers) + 1
      BY <3>1, FS_AddElement DEF Ledger
    <3> QED
      BY <2>2, <3>1, <3>2, <3>3 DEF Ledger
  <2>4. CASE n # 0
    <3>1. n \in 1 .. MaxReleases
      BY <2>4, ReleasesAssumption DEF ReleasesAssumption
    <3>2. a \notin Releasers
      <4> SUFFICES ASSUME NEW m \in 1 .. MaxReleases, <<a, m>> \in applied
                   PROVE  FALSE
        BY DEF Releasers
      <4>1. m = n
        BY <2>1, <3>1 DEF OneRelease
      <4> QED
        BY <2>1, <4>1
    <3>3. Releasers' = Releasers \cup {a} /\ Lockers' = Lockers
      BY <2>1, <2>4, <3>1 DEF Lockers, Releasers
    <3>4. stock' = stock + 1
      BY <1>1, <2>4 DEF Apply
    <3>5. IsFiniteSet(Releasers') /\ Cardinality(Releasers') = Cardinality(Releasers) + 1
      BY <3>2, <3>3, FS_AddElement DEF Ledger
    <3> QED
      BY <2>2, <3>3, <3>4, <3>5 DEF Ledger
  <2> QED
    BY <2>3, <2>4
<1>2. ASSUME NEW r \in Requests, Serve(r)
      PROVE  Ledger'
  <2>1. CASE Apply(r)
    BY <1>1, <2>1 DEF Requests
  <2>2. CASE Refuse(r)
    BY <2>2 DEF Refuse, Ledger, Lockers, Releasers
  <2> QED
    BY <1>2, <2>1, <2>2 DEF Serve
<1>3. CASE UNCHANGED <<stock, applied>>
  BY <1>3 DEF Ledger, Lockers, Releasers
<1>4. ASSUME NEW a \in Attempts, Handle(a)
      PROVE  UNCHANGED <<stock, applied>>
  <2>1. CASE SendLock(a) \/ SendRelease(a)
    BY <2>1 DEF SendLock, SendRelease, Send
  <2>2. CASE inventoryVars' = inventoryVars
    BY <2>2 DEF inventoryVars
  <2> QED
    BY <1>4, <2>1, <2>2, HandleFrames
<1> QED
  BY <1>2, <1>3, <1>4 DEF Next, Notified, Cancel, Crash, vars, inventoryVars

THEOREM LedgerHolds == ReleaseIsReliable => (Spec => [](OneRelease /\ Ledger))
<1> SUFFICES ASSUME ReleaseIsReliable PROVE Spec => [](OneRelease /\ Ledger)
  OBVIOUS
<1>1. Init => OneRelease /\ Ledger
  <2> SUFFICES ASSUME Init PROVE OneRelease /\ Ledger
    OBVIOUS
  <2>1. OneRelease
    BY DEF Init, OneRelease
  <2>2. Lockers = {} /\ Releasers = {} /\ stock = InitialStock
    BY DEF Init, Lockers, Releasers
  <2>3. Ledger
    BY <2>2, FS_EmptySet DEF Ledger
  <2> QED
    BY <2>1, <2>3
<1>2. Base /\ RequestsInOrder /\ OneRelease /\ Ledger /\ [Next]_vars => (OneRelease /\ Ledger)'
  <2>1. Base /\ RequestsInOrder /\ OneRelease /\ [Next]_vars => OneRelease'
    BY HandleKeepsOneRelease, OthersKeepOneRelease DEF Next
  <2> QED
    BY <2>1, NextKeepsLedger
<1> QED
  BY <1>1, <1>2, BaseHolds, RequestsHold, PTL DEF Spec

\* As long as no LIBERAR is applied after its caller gave up, and no INSERT
\* commits after reporting an error, the stock never offers a room that a
\* reservation holds, for any number of rooms and concurrent requests.
THEOREM StockStaysAvailable ==
  InsertIsReliable /\ ReleaseIsReliable => (Spec => []StockIsAvailable)
<1> SUFFICES ASSUME InsertIsReliable, ReleaseIsReliable PROVE Spec => []StockIsAvailable
  OBVIOUS
<1>1. Base /\ RequestsInOrder /\ BookedIsDone /\ Ledger => StockIsAvailable
  <2> SUFFICES ASSUME Base, RequestsInOrder, BookedIsDone, Ledger
               PROVE  StockIsAvailable
    OBVIOUS
  <2> USE ReleasesAssumption DEF ReleasesAssumption, Base, HandlerTyped
  <2>1. reservations \subseteq Lockers \ Releasers
    <3>1. \A a \in reservations : a \in Lockers
      BY DEF BookedIsDone, Lockers
    <3>2. \A a \in reservations : a \notin Releasers
      <4> SUFFICES ASSUME NEW a \in reservations, NEW n \in 1 .. MaxReleases, <<a, n>> \in applied
                   PROVE  FALSE
        BY DEF Releasers
      <4>1. a \in Attempts /\ tries[a] = 0
        BY DEF BookedIsDone
      <4>2. n \in 0 .. MaxReleases /\ n > 0
        OBVIOUS
      <4>3. n <= tries[a]
        BY <4>1, <4>2 DEF RequestsInOrder
      <4> QED
        BY <4>1, <4>2, <4>3
    <3> QED
      BY <3>1, <3>2
  <2>2. Releasers \subseteq Lockers
    <3> SUFFICES ASSUME NEW a \in Attempts, NEW n \in 1 .. MaxReleases, <<a, n>> \in applied
                 PROVE  <<a, 0>> \in applied
      BY DEF Lockers, Releasers
    <3>1. tries[a] > 0
      BY DEF RequestsInOrder
    <3> QED
      BY <3>1 DEF RequestsInOrder
  <2>3. /\ IsFiniteSet(Lockers \ Releasers)
        /\ Cardinality(Lockers \ Releasers) = Cardinality(Lockers) - Cardinality(Releasers)
    <3>1. Lockers \cap Releasers = Releasers
      BY <2>2
    <3> QED
      BY <3>1, FS_Difference DEF Ledger
  <2>4. /\ IsFiniteSet(reservations)
        /\ Cardinality(reservations) <= Cardinality(Lockers \ Releasers)
    BY <2>1, <2>3, FS_Subset
  <2>5. /\ Cardinality(reservations) \in Nat /\ Cardinality(Lockers) \in Nat
        /\ Cardinality(Releasers) \in Nat /\ stock \in Nat /\ InitialStock \in Nat
    BY <2>4, FS_CardinalityType, StockAssumption DEF StockAssumption, Ledger, InventoryTyped
  <2> QED
    BY <2>3, <2>4, <2>5 DEF Ledger, StockIsAvailable
<1> QED
  BY <1>1, BaseHolds, RequestsHold, BookedDoneHolds, LedgerHolds, PTL

-----------------------------------------------------------------------------
(* The row of a saga and its events *)

EarlyStatus == {"none", "STARTED", "USER_VALIDATED", "STOCK_LOCKED"}
LateStatus ==
  {"RESERVATION_CREATED", "NOTIFICATION_DISPATCHING", "COMPLETED", "COMPLETED_WITH_NOTIFICATION_FAILURE"}
FailedStatus == SagaStatus \ (EarlyStatus \cup LateStatus)

Sent(a, type) == <<a, type>> \in announced

\* On the way to the INSERT, which may be the step.
Advances(a) ==
  /\ pc[a] \in BeforeInsert /\ pc'[a] \in BeforeInsert \cup {"inserted"}
  /\ saga'[a].status \in {saga[a].status, "STARTED", "USER_VALIDATED", "STOCK_LOCKED"}
  /\ (Sent(a, "Failed")' <=> Sent(a, "Failed")) /\ (Sent(a, "Confirmed")' <=> Sent(a, "Confirmed"))
  /\ reply'[a] = reply[a] /\ notification'[a] = notification[a]
  /\ IF pc'[a] = "inserted" THEN reservations' = reservations \cup {a} ELSE UNCHANGED reservations

\* An error before the INSERT or of it, and the compensation.
FailsOn(a) ==
  /\ pc[a] \in BeforeInsert \cup {"compensate", "releasing", "failing"}
  /\ pc'[a] \in {"compensate", "releasing", "failing", "done"}
  /\ \/ saga'[a].status \in {saga[a].status, "STARTED"}
     \/ saga'[a].status \in FailedStatus /\ (saga'[a].status = "FAILED" => pc'[a] = "done")
  /\ (Sent(a, "Confirmed")' <=> Sent(a, "Confirmed"))
  /\ notification'[a] = notification[a]
  /\ InsertIsReliable => UNCHANGED reservations

Confirms(a) ==
  /\ pc[a] = "inserted" /\ pc'[a] = "done"
  /\ saga'[a].status \in {saga[a].status, "RESERVATION_CREATED", "NOTIFICATION_DISPATCHING"}
  /\ (Sent(a, "Failed")' <=> Sent(a, "Failed"))
  /\ reply'[a].code = "OK"
  /\ UNCHANGED reservations

\* The rows and the events of the other sagas.
OthersStay(a) ==
  \A b \in Attempts \ {a} :
    /\ saga'[b] = saga[b]
    /\ (Sent(b, "Failed")' <=> Sent(b, "Failed")) /\ (Sent(b, "Confirmed")' <=> Sent(b, "Confirmed"))

Replays(a) ==
  /\ pc[a] = "idle" /\ pc'[a] = "done"
  /\ saga'[a] = saga[a] /\ notification'[a] = notification[a]
  /\ UNCHANGED <<reservations, announced>>

LEMMA FailFails ==
  ASSUME HandlerTyped, SagaTyped, NEW a \in Attempts, NEW code,
         NEW state \in {"USER_VALIDATION_FAILED", "STOCK_LOCK_FAILED", "STOCK_UNAVAILABLE"},
         Fail(a, state, code), pc[a] \in BeforeInsert, UNCHANGED <<notification, reservations>>
  PROVE  FailsOn(a) /\ OthersStay(a)
<1>1. /\ \A b \in Attempts \ {a} : saga'[b] = saga[b]
      /\ saga'[a].status \in {saga[a].status, state, "FAILED"}
  BY SaveRecordedTwice DEF Fail, SagaStatus, Final
<1>2. state \in FailedStatus /\ "FAILED" \in FailedStatus /\ state # "FAILED"
  BY DEF FailedStatus, EarlyStatus, LateStatus, SagaStatus, Final
<1>3. announced' = announced \cup {<<a, "Failed">>} /\ pc'[a] = "done"
  BY DEF Fail, Announce, Return, Goto, HandlerTyped
<1> QED BY <1>1, <1>2, <1>3 DEF FailsOn, OthersStay, Sent

\* The row of the saga moves in the compensation.
LEMMA CompensationFails ==
  ASSUME SagaTyped, NEW a \in Attempts, NEW state \in {"COMPENSATION_FAILED", "COMPENSATED", "FAILED"},
         UNCHANGED saga \/ Save(a, Recorded(saga[a], state, FALSE)),
         pc[a] \in {"compensate", "releasing", "failing"},
         pc'[a] \in {"compensate", "releasing", "failing", "done"},
         state = "FAILED" => pc'[a] = "done",
         UNCHANGED <<notification, reservations, announced>>
  PROVE  FailsOn(a) /\ OthersStay(a)
<1>1. /\ \A b \in Attempts \ {a} : saga'[b] = saga[b]
      /\ saga'[a].status \in {saga[a].status, state}
  BY SaveRecorded DEF SagaStatus, Final
<1>2. state \in FailedStatus
  BY DEF FailedStatus, EarlyStatus, LateStatus, SagaStatus, Final
<1> QED BY <1>1, <1>2 DEF FailsOn, OthersStay, Sent

\* Each step of the handler is one of these, and touches the row and the events
\* of its own saga only.
LEMMA HandleMovesOwnRow ==
  ASSUME Base, NEW a \in Attempts, Handle(a)
  PROVE  (Advances(a) \/ FailsOn(a) \/ Confirms(a) \/ Replays(a)) /\ OthersStay(a)
<1>0. HandlerTyped /\ SagaTyped /\ Positions
  BY DEF Base
<1> USE <1>0 DEF HandlerTyped, BeforeInsert, dbVars, handlerVars, Goto, Return
<1>1. CASE Replay(a)
  BY <1>1 DEF Replay, Replays, OthersStay, Sent
<1>2. CASE Begin(a)
  BY <1>2 DEF Begin, Advances, OthersStay, Sent
<1>3. CASE StartSaga(a)
  <2>1. saga' = [saga EXCEPT ![a] = [status |-> "STARTED", compensation |-> "NONE"]]
    BY <1>3 DEF StartSaga
  <2>2. saga'[a].status = "STARTED" /\ \A b \in Attempts \ {a} : saga'[b] = saga[b]
    BY <2>1 DEF SagaTyped
  <2> QED BY <1>3, <2>2 DEF StartSaga, Announce, Advances, OthersStay, Sent
<1>4. CASE StartSagaFails(a)
  <2>1. saga'[a].status \in {saga[a].status, "STARTED"} /\ \A b \in Attempts \ {a} : saga'[b] = saga[b]
    BY <1>4 DEF StartSagaFails, SagaTyped
  <2> QED BY <1>4, <2>1 DEF StartSagaFails, FailsOn, OthersStay, Sent
<1>5. CASE UserValidated(a)
  <2>1. saga'[a].status \in {saga[a].status, "USER_VALIDATED"} /\ \A b \in Attempts \ {a} : saga'[b] = saga[b]
    BY <1>5, SaveRecorded DEF UserValidated, SagaStatus
  <2> QED BY <1>5, <2>1 DEF UserValidated, Advances, OthersStay, Sent
<1>6. CASE UserRejected(a)
  BY <1>6, FailFails DEF UserRejected
<1>7. CASE SendLock(a)
  BY <1>7 DEF SendLock, Advances, OthersStay, Sent
<1>8. CASE LockNotSent(a)
  BY <1>8, FailFails DEF LockNotSent
<1>9. CASE Locked(a)
  <2>1. saga'[a].status \in {saga[a].status, "STOCK_LOCKED"} /\ \A b \in Attempts \ {a} : saga'[b] = saga[b]
    BY <1>9, SaveRecorded DEF Locked, SagaStatus
  <2> QED BY <1>9, <2>1 DEF Locked, Advances, OthersStay, Sent
<1>10. CASE LockRefused(a)
  BY <1>10, FailFails DEF LockRefused
<1>11. CASE LockAbandoned(a)
  BY <1>11, FailFails DEF LockAbandoned
<1>12. CASE Insert(a)
  BY <1>12 DEF Insert, Advances, OthersStay, Sent
<1>13. CASE InsertFails(a)
  <2>1. /\ \A b \in Attempts \ {a} : saga'[b] = saga[b]
        /\ saga'[a].status \in {saga[a].status, "RESERVATION_INSERT_FAILED", "COMPENSATING"}
    BY <1>13, SaveRecordedTwice DEF InsertFails, SagaStatus
  <2>2. {"RESERVATION_INSERT_FAILED", "COMPENSATING"} \subseteq FailedStatus
    BY DEF FailedStatus, EarlyStatus, LateStatus, SagaStatus, Final
  <2>3. /\ pc[a] = "insert" /\ pc'[a] = "compensate" /\ UNCHANGED notification
        /\ announced' = announced \cup {<<a, "Failed">>}
        /\ InsertIsReliable => UNCHANGED reservations
    BY <1>13 DEF InsertFails, InsertError, Announce, InsertIsReliable
  <2> QED BY <2>1, <2>2, <2>3 DEF FailsOn, OthersStay, Sent
<1>14. CASE Confirm(a)
  <2>1. /\ \A b \in Attempts \ {a} : saga'[b] = saga[b]
        /\ saga'[a].status \in {saga[a].status, "RESERVATION_CREATED", "NOTIFICATION_DISPATCHING"}
    BY <1>14, SaveRecordedTwice DEF Confirm, SagaStatus
  <2>2. /\ pc[a] = "inserted" /\ pc'[a] = "done" /\ UNCHANGED reservations
        /\ announced' = announced \cup {<<a, "Confirmed">>}
        /\ reply' = [reply EXCEPT ![a] = [code |-> "OK", reservation |-> a]]
    BY <1>14 DEF Confirm, Announce
  <2>3. reply'[a].code = "OK"
    BY <2>2
  <2> QED BY <2>1, <2>2, <2>3 DEF Confirms, OthersStay, Sent
<1>15. CASE SendRelease(a)
  BY <1>15 DEF SendRelease, FailsOn, OthersStay, Sent
<1>16. CASE ReleaseNotSent(a)
  <2>1. pc[a] = "compensate" /\ ReleaseFailed(a, tries[a] + 1) /\ UNCHANGED <<notification, reservations, announced>>
    BY <1>16 DEF ReleaseNotSent
  <2>2. /\ UNCHANGED saga \/ Save(a, Recorded(saga[a], "COMPENSATION_FAILED", FALSE))
        /\ pc'[a] \in {"compensate", "failing"}
    BY <2>1 DEF ReleaseFailed
  <2> QED BY <2>1, <2>2, CompensationFails
<1>17. CASE Released(a)
  <2>1. pc[a] = "releasing" /\ pc'[a] = "failing" /\ UNCHANGED <<notification, reservations, announced>>
    BY <1>17 DEF Released
  <2>2. Save(a, Recorded(saga[a], "COMPENSATED", FALSE))
    BY <1>17 DEF Released
  <2> QED BY <2>1, <2>2, CompensationFails
<1>18. CASE ReleaseUnsuccessful(a)
  <2>1. pc[a] = "releasing" /\ ReleaseFailed(a, tries[a]) /\ UNCHANGED <<notification, reservations, announced>>
    BY <1>18 DEF ReleaseUnsuccessful
  <2>2. /\ UNCHANGED saga \/ Save(a, Recorded(saga[a], "COMPENSATION_FAILED", FALSE))
        /\ pc'[a] \in {"compensate", "failing"}
    BY <2>1 DEF ReleaseFailed
  <2> QED BY <2>1, <2>2, CompensationFails
<1>19. CASE FinishFailed(a)
  <2>1. pc[a] = "failing" /\ pc'[a] = "done" /\ UNCHANGED <<notification, reservations, announced>>
    BY <1>19 DEF FinishFailed
  <2>2. Save(a, Recorded(saga[a], "FAILED", FALSE))
    BY <1>19 DEF FinishFailed
  <2> QED BY <2>1, <2>2, CompensationFails
<1> QED
  BY <1>1, <1>2, <1>3, <1>4, <1>5, <1>6, <1>7, <1>8, <1>9, <1>10, <1>11,
     <1>12, <1>13, <1>14, <1>15, <1>16, <1>17, <1>18, <1>19 DEF Handle

\* The other steps move one row at most: the notification's.
LEMMA OthersMoveNoRow ==
  ASSUME Base,
         \/ \E a \in Attempts : Cancel(a)
         \/ \E r \in Requests : Serve(r)
         \/ Crash
         \/ UNCHANGED vars
  PROVE  /\ UNCHANGED <<saga, announced, reservations, reply>>
         /\ \A b \in Attempts : pc'[b] = pc[b] \/ (pc'[b] = "crashed" /\ pc[b] \notin Finished)
         /\ \A b \in Attempts : notification'[b] = notification[b]
                                  \/ (notification'[b] = "lost" /\ notification[b] = "sending")
<1>1. CASE Crash
  BY <1>1 DEF Crash, InProgress, Finished, dbVars, Base, HandlerTyped
<1>2. CASE UNCHANGED <<saga, announced, reservations, reply, pc, notification>>
  BY <1>2
<1> QED
  BY <1>1, <1>2 DEF Cancel, Serve, Apply, Refuse, dbVars, handlerVars, vars

LEMMA NotifiedMoves ==
  ASSUME Base, NEW a \in Attempts, Notified(a)
  PROVE  /\ \A b \in Attempts \ {a} : saga'[b] = saga[b] /\ notification'[b] = notification[b]
         /\ notification[a] = "sending" /\ notification'[a] = "finished"
         /\ saga'[a].status \in {saga[a].status, "COMPLETED", "COMPLETED_WITH_NOTIFICATION_FAILURE"}
         /\ UNCHANGED <<pc, announced, reservations, reply>>
<1>1. /\ \A b \in Attempts \ {a} : saga'[b] = saga[b]
      /\ saga'[a].status \in {saga[a].status, "COMPLETED", "COMPLETED_WITH_NOTIFICATION_FAILURE"}
  BY SaveRecorded DEF Notified, SagaStatus, Final, Base
<1> QED BY <1>1 DEF Notified, Base, HandlerTyped

\* Only a handler that is over and a notification that is over leave a final row.
FinalIsLast ==
  \A a \in Attempts :
    /\ saga[a].status \in Final => pc[a] \in Finished /\ notification[a] # "sending"
    /\ notification[a] # "none" => pc[a] \in Finished

LEMMA NextKeepsFinalLast ==
  ASSUME Base, FinalIsLast, [Next]_vars
  PROVE  FinalIsLast' /\ \A b \in Attempts : saga[b].status \in Final => saga'[b] = saga[b]
<1>1. ASSUME NEW a \in Attempts, Handle(a)
      PROVE  FinalIsLast' /\ \A b \in Attempts : saga[b].status \in Final => saga'[b] = saga[b]
  <2>1. (Advances(a) \/ FailsOn(a) \/ Confirms(a) \/ Replays(a)) /\ OthersStay(a)
    BY <1>1, HandleMovesOwnRow
  <2>2. \A b \in Attempts \ {a} :
          pc'[b] = pc[b] /\ notification'[b] = notification[b] /\ saga'[b] = saga[b]
    BY <1>1, <2>1, HandleIsLocal DEF Base, OthersStay
  <2>3. pc[a] \notin Finished
    BY <2>1 DEF Advances, FailsOn, Confirms, Replays, BeforeInsert, Finished
  <2>4. saga[a].status \notin Final /\ notification[a] = "none"
    BY <2>3 DEF FinalIsLast
  <2>5. /\ saga'[a].status \in Final => pc'[a] \in Finished /\ notification'[a] # "sending"
        /\ notification'[a] # "none" => pc'[a] \in Finished
    BY <2>1, <2>4
    DEF Advances, FailsOn, Confirms, Replays, FailedStatus, LateStatus, EarlyStatus, Final, Finished
  <2> QED BY <2>2, <2>4, <2>5 DEF FinalIsLast
<1>2. ASSUME NEW a \in Attempts, Notified(a)
      PROVE  FinalIsLast' /\ \A b \in Attempts : saga[b].status \in Final => saga'[b] = saga[b]
  BY <1>2, NotifiedMoves DEF FinalIsLast
<1>3. ASSUME \/ \E a \in Attempts : Cancel(a)
             \/ \E r \in Requests : Serve(r)
             \/ Crash
             \/ UNCHANGED vars
      PROVE  FinalIsLast' /\ \A b \in Attempts : saga[b].status \in Final => saga'[b] = saga[b]
  BY <1>3, OthersMoveNoRow DEF FinalIsLast, Finished
<1> QED BY <1>1, <1>2, <1>3 DEF Next

LEMMA FinalLastHolds == Spec => []FinalIsLast
<1>1. Init => FinalIsLast
  BY DEF Init, FinalIsLast, Final
<1>2. Base /\ FinalIsLast /\ [Next]_vars => FinalIsLast'
  BY NextKeepsFinalLast
<1> QED BY <1>1, <1>2, BaseHolds, PTL DEF Spec

\* No notification, compensation or retry writes a row that is in a final
\* status, whatever fails.
THEOREM FinalRowsStay == Spec => SagaNeverReopens
<1>1. Base /\ FinalIsLast /\ [Next]_vars
        => [\A a \in Attempts : saga[a].status \in Final => saga'[a] = saga[a]]_vars
  BY NextKeepsFinalLast
<1> QED BY <1>1, BaseHolds, FinalLastHolds, PTL DEF Spec, SagaNeverReopens

\* Row, events and answer of an attempt by whether its reservation is in the
\* table; before the INSERT nothing speaks of a failure.
Outcomes ==
  \A a \in Attempts :
    /\ pc[a] \in BeforeInsert \cup {"inserted"} => saga[a].status \in EarlyStatus /\ ~Sent(a, "Failed")
    /\ a \in reservations =>
         /\ pc[a] \in {"inserted", "done", "crashed"}
         /\ saga[a].status \in EarlyStatus \cup LateStatus
         /\ ~Sent(a, "Failed")
         /\ reply[a].code \in {"none", "OK"}
    /\ saga[a].status \in LateStatus \/ Sent(a, "Confirmed") \/ notification[a] # "none"
         => a \in reservations

LEMMA NextKeepsOutcomes ==
  ASSUME InsertIsReliable, Base, FinalIsLast, Outcomes, [Next]_vars
  PROVE  Outcomes'
<1>1. ASSUME NEW a \in Attempts, Handle(a)
      PROVE  Outcomes'
  <2>1. (Advances(a) \/ FailsOn(a) \/ Confirms(a) \/ Replays(a)) /\ OthersStay(a)
    BY <1>1, HandleMovesOwnRow
  <2>2. \A b \in Attempts \ {a} :
          pc'[b] = pc[b] /\ reply'[b] = reply[b] /\ notification'[b] = notification[b]
    BY <1>1, HandleIsLocal DEF Base
  <2>3. \A b \in Attempts \ {a} : b \in reservations' <=> b \in reservations
    BY <2>1 DEF Advances, FailsOn, Confirms, Replays
  <2>4. ASSUME NEW b \in Attempts \ {a}
        PROVE  /\ pc'[b] \in BeforeInsert \cup {"inserted"} => saga'[b].status \in EarlyStatus /\ ~Sent(b, "Failed")'
               /\ b \in reservations' =>
                    /\ pc'[b] \in {"inserted", "done", "crashed"}
                    /\ saga'[b].status \in EarlyStatus \cup LateStatus
                    /\ ~Sent(b, "Failed")'
                    /\ reply'[b].code \in {"none", "OK"}
               /\ saga'[b].status \in LateStatus \/ Sent(b, "Confirmed")' \/ notification'[b] # "none"
                    => b \in reservations'
    BY <2>1, <2>2, <2>3 DEF OthersStay, Outcomes
  <2> DEFINE Own ==
        /\ pc'[a] \in BeforeInsert \cup {"inserted"} => saga'[a].status \in EarlyStatus /\ ~Sent(a, "Failed")'
        /\ a \in reservations' =>
             /\ pc'[a] \in {"inserted", "done", "crashed"}
             /\ saga'[a].status \in EarlyStatus \cup LateStatus
             /\ ~Sent(a, "Failed")'
             /\ reply'[a].code \in {"none", "OK"}
        /\ saga'[a].status \in LateStatus \/ Sent(a, "Confirmed")' \/ notification'[a] # "none"
             => a \in reservations'
  <2>5. ASSUME Advances(a) PROVE Own
    <3>1. a \notin reservations /\ reply[a].code = "none"
      BY <2>5 DEF Advances, Base, Positions, BeforeInsert
    <3>2. saga[a].status \in EarlyStatus /\ ~Sent(a, "Failed") /\ ~Sent(a, "Confirmed") /\ notification[a] = "none"
      BY <2>5, <3>1 DEF Advances, Outcomes
    <3>3. saga'[a].status \in EarlyStatus /\ saga'[a].status \notin LateStatus
      BY <2>5, <3>2 DEF Advances, EarlyStatus, LateStatus
    <3> QED BY <2>5, <3>1, <3>2, <3>3 DEF Advances, BeforeInsert
  <2>6. ASSUME FailsOn(a) PROVE Own
    <3>1. a \notin reservations /\ UNCHANGED reservations
      BY <2>6 DEF FailsOn, Outcomes, Base, Positions, BeforeInsert
    <3>2. saga[a].status \notin LateStatus /\ ~Sent(a, "Confirmed") /\ notification[a] = "none"
      BY <3>1 DEF Outcomes
    <3>3. saga'[a].status \notin LateStatus
      BY <2>6, <3>2 DEF FailsOn, FailedStatus, LateStatus
    <3> QED BY <2>6, <3>1, <3>2, <3>3 DEF FailsOn, BeforeInsert
  <2>7. ASSUME Confirms(a) PROVE Own
    <3>1. a \in reservations /\ a \in reservations'
      BY <2>7 DEF Confirms, Base, Positions
    <3>2. saga'[a].status \in EarlyStatus \cup LateStatus /\ ~Sent(a, "Failed")'
      BY <2>7, <3>1 DEF Confirms, Outcomes, EarlyStatus, LateStatus
    <3> QED BY <2>7, <3>1, <3>2 DEF Confirms, BeforeInsert
  <2>8. ASSUME Replays(a) PROVE Own
    <3>1. a \notin reservations
      BY <2>8 DEF Replays, Base, Positions, BeforeInsert
    <3> QED BY <2>8, <3>1 DEF Replays, Outcomes, BeforeInsert, Sent
  <2>9. Own
    BY <2>1, <2>5, <2>6, <2>7, <2>8
  <2> QED BY <2>4, <2>9 DEF Outcomes
<1>2. ASSUME NEW a \in Attempts, Notified(a)
      PROVE  Outcomes'
  <2>1. a \in reservations
    BY <1>2, NotifiedMoves DEF Outcomes
  <2>2. saga'[a].status \in EarlyStatus \cup LateStatus
    BY <1>2, <2>1, NotifiedMoves DEF Outcomes, LateStatus
  <2>3. pc[a] \notin BeforeInsert \cup {"inserted"}
    BY <1>2, NotifiedMoves DEF FinalIsLast, Finished, BeforeInsert
  <2>4. /\ \A b \in Attempts \ {a} : saga'[b] = saga[b] /\ notification'[b] = notification[b]
        /\ UNCHANGED <<pc, announced, reservations, reply>>
    BY <1>2, NotifiedMoves
  <2>5. \A b \in Attempts : Sent(b, "Failed")' = Sent(b, "Failed") /\ Sent(b, "Confirmed")' = Sent(b, "Confirmed")
    BY <2>4 DEF Sent
  <2> QED BY <2>1, <2>2, <2>3, <2>4, <2>5 DEF Outcomes
<1>3. ASSUME \/ \E a \in Attempts : Cancel(a)
             \/ \E r \in Requests : Serve(r)
             \/ Crash
             \/ UNCHANGED vars
      PROVE  Outcomes'
  BY <1>3, OthersMoveNoRow DEF Outcomes, Finished, BeforeInsert, Sent
<1> QED BY <1>1, <1>2, <1>3 DEF Next

LEMMA OutcomesHold == InsertIsReliable => (Spec => []Outcomes)
<1> SUFFICES ASSUME InsertIsReliable PROVE Spec => []Outcomes
  OBVIOUS
<1>1. Init => Outcomes
  BY DEF Init, Outcomes, EarlyStatus, LateStatus, Sent
<1>2. Base /\ FinalIsLast /\ Outcomes /\ [Next]_vars => Outcomes'
  BY NextKeepsOutcomes
<1> QED BY <1>1, <1>2, BaseHolds, FinalLastHolds, PTL DEF Spec

\* Unless an INSERT that reports an error has committed, the row of a saga, its
\* events and its answers tell the outcome that the table reservations has.
THEOREM OutcomeIsOne == InsertIsReliable => (Spec => []OneOutcome)
<1>1. Outcomes => OneOutcome
  BY DEF Outcomes, OneOutcome, EarlyStatus, LateStatus, Sent, Final
<1> QED BY <1>1, OutcomesHold, PTL

-----------------------------------------------------------------------------
(* The compensation and its row *)

\* Every write of recordSagaTransition that is not cancelled succeeds.
RecordIsReliable == "record_lost" \notin Faults

\* compensation_status by where the handler is, and what it says of the
\* LIBERARs: DONE of one that was applied, FAILED that none is or will be.
CompensationOf(a) ==
  /\ pc[a] = "failing" => tries[a] > 0
  /\ pc[a] \in {"compensate", "releasing"} => saga[a].compensation = "RUNNING"
  /\ pc[a] \in {"failing", "done"} /\ tries[a] > 0 => saga[a].compensation \in {"DONE", "FAILED"}
  /\ pc[a] \notin {"compensate", "crashed"} /\ tries[a] = 0 => saga[a].compensation = "NONE"
  /\ saga[a].compensation = "DONE" => \E n \in 1 .. MaxReleases : <<a, n>> \in applied
  /\ saga[a].compensation = "FAILED" =>
       /\ pc[a] \notin {"compensate", "releasing"}
       /\ \A n \in 1 .. MaxReleases : <<a, n>> \notin network \cup applied

CompensationInOrder == \A a \in Attempts : CompensationOf(a)

\* What a recorded transition does to compensation_status.
LEMMA SaveCompensation ==
  ASSUME SagaTyped, NEW a \in Attempts, NEW state \in SagaStatus, NEW gone,
         Save(a, Recorded(saga[a], state, gone))
  PROVE  /\ saga'[a].compensation \in {saga[a].compensation, CompensationFor(saga[a], state)}
         /\ RecordIsReliable /\ ~gone => saga'[a].compensation = CompensationFor(saga[a], state)
<1>1. PICK new \in Recorded(saga[a], state, gone) : saga' = [saga EXCEPT ![a] = new]
  BY DEF Save
<1>2. saga'[a] = new
  BY <1>1 DEF SagaTyped
<1>3. \/ new = saga[a] /\ (gone \/ ~RecordIsReliable)
      \/ new = [status |-> state, compensation |-> CompensationFor(saga[a], state)]
  BY DEF Recorded, RecordIsReliable
<1> QED BY <1>2, <1>3

\* What two of them do when neither is about the compensation.
LEMMA SaveTwiceKeepsCompensation ==
  ASSUME SagaTyped, NEW a \in Attempts, NEW first \in SagaStatus, NEW gone, NEW second \in SagaStatus,
         {first, second} \cap {"COMPENSATING", "COMPENSATED", "COMPENSATION_FAILED"} = {},
         Save(a, RecordedTwice(saga[a], first, gone, second))
  PROVE  saga'[a].compensation = saga[a].compensation
<1>1. PICK new \in RecordedTwice(saga[a], first, gone, second) : saga' = [saga EXCEPT ![a] = new]
  BY DEF Save
<1>2. PICK r \in Recorded(saga[a], first, gone) : new \in Recorded(r, second, FALSE)
  BY DEF RecordedTwice
<1>3. r.compensation = saga[a].compensation
  <2>1. CompensationFor(saga[a], first) = saga[a].compensation
    BY DEF CompensationFor
  <2> QED BY <2>1 DEF Recorded
<1>4. new.compensation = r.compensation
  <2>1. CompensationFor(r, second) = r.compensation
    BY DEF CompensationFor
  <2> QED BY <1>2, <2>1 DEF Recorded
<1>5. saga'[a] = new
  BY <1>1 DEF SagaTyped
<1> QED BY <1>3, <1>4, <1>5

\* The failed INSERT leaves the row COMPENSATING and RUNNING.
LEMMA InsertFailsRuns ==
  ASSUME RecordIsReliable, SagaTyped, NEW a \in Attempts, InsertFails(a)
  PROVE  saga'[a] = [status |-> "COMPENSATING", compensation |-> "RUNNING"]
<1>1. PICK new \in RecordedTwice(saga[a], "RESERVATION_INSERT_FAILED", FALSE, "COMPENSATING") :
        saga' = [saga EXCEPT ![a] = new]
  BY DEF InsertFails, Save
<1>2. PICK r \in Recorded(saga[a], "RESERVATION_INSERT_FAILED", FALSE) :
        new \in Recorded(r, "COMPENSATING", FALSE)
  BY DEF RecordedTwice
<1>3. new = [status |-> "COMPENSATING", compensation |-> "RUNNING"]
  BY <1>2 DEF Recorded, CompensationFor, RecordIsReliable
<1>4. saga'[a] = new
  BY <1>1 DEF SagaTyped
<1> QED BY <1>3, <1>4

\* A LIBERAR that failed for good leaves the row FAILED; before that, RUNNING.
LEMMA ReleaseFailedTells ==
  ASSUME RecordIsReliable, SagaTyped, pc \in [Attempts -> Steps], NEW a \in Attempts, NEW n,
         ReleaseFailed(a, n)
  PROVE  \/ pc'[a] = "compensate" /\ saga' = saga
         \/ pc'[a] = "failing" /\ saga'[a].compensation = "FAILED"
<1>1. CASE n < MaxReleases
  BY <1>1 DEF ReleaseFailed, Goto
<1>2. CASE ~(n < MaxReleases)
  <2>1. pc'[a] = "failing" /\ Save(a, Recorded(saga[a], "COMPENSATION_FAILED", FALSE))
    BY <1>2 DEF ReleaseFailed, Goto
  <2>2. CompensationFor(saga[a], "COMPENSATION_FAILED") = "FAILED"
    BY DEF CompensationFor
  <2> QED BY <2>1, <2>2, SaveCompensation DEF SagaStatus
<1> QED BY <1>1, <1>2

\* A handler's step sends at most one request, its own, and applies none.
LEMMA HandleSends ==
  ASSUME NEW a \in Attempts, Handle(a)
  PROVE  /\ applied' = applied
         /\ \/ network' = network
            \/ SendLock(a) /\ network' = network \cup {<<a, 0>>}
            \/ SendRelease(a) /\ network' = network \cup {<<a, tries[a] + 1>>}
<1>1. CASE SendLock(a)
  BY <1>1 DEF SendLock, Send
<1>2. CASE SendRelease(a)
  BY <1>2 DEF SendRelease, Send
<1>3. CASE inventoryVars' = inventoryVars
  BY <1>3 DEF inventoryVars
<1> QED BY <1>1, <1>2, <1>3, HandleFrames

\* No step of the handler cancels a context.
LEMMA HandleKeepsCancelled ==
  ASSUME NEW a \in Attempts, Handle(a)
  PROVE  cancelled' = cancelled
  BY DEF Handle, Replay, Begin, StartSaga, StartSagaFails, UserValidated, UserRejected, SendLock,
         LockNotSent, Locked, LockRefused, LockAbandoned, Insert, InsertFails, InsertError, Confirm,
         SendRelease, ReleaseNotSent, Released, ReleaseUnsuccessful, FinishFailed

\* The handler's step keeps its own row in order.
LEMMA HandleKeepsOwnCompensation ==
  ASSUME RecordIsReliable, ReleaseIsReliable, Base, RequestsInOrder, OneRelease,
         NEW a \in Attempts, CompensationOf(a), Handle(a)
  PROVE  CompensationOf(a)'
<1>0. HandlerTyped /\ SagaTyped /\ Positions
  BY DEF Base
<1>s. /\ applied' = applied
      /\ \/ network' = network
         \/ SendLock(a) /\ network' = network \cup {<<a, 0>>}
         \/ SendRelease(a) /\ network' = network \cup {<<a, tries[a] + 1>>}
  BY HandleSends
\* A step outside the compensation, which leaves the row's column as it is.
<1>a. ASSUME pc[a] \in BeforeInsert \cup {"inserted"}, pc'[a] \in BeforeInsert \cup {"inserted", "done"},
             tries'[a] = tries[a], saga'[a].compensation \in {saga[a].compensation, "NONE"}
      PROVE  CompensationOf(a)'
  <2>1. tries[a] = 0 /\ saga[a].compensation = "NONE"
    BY <1>0, <1>a DEF Positions, CompensationOf, BeforeInsert
  <2> QED BY <1>a, <2>1 DEF CompensationOf, BeforeInsert
<1>b. ASSUME NEW code, NEW state \in {"USER_VALIDATION_FAILED", "STOCK_LOCK_FAILED", "STOCK_UNAVAILABLE"},
             Fail(a, state, code), pc[a] \in BeforeInsert, tries' = tries
      PROVE  CompensationOf(a)'
  <2>1. pc'[a] = "done"
    BY <1>0, <1>b DEF Fail, Return, Goto, HandlerTyped
  <2>2. saga'[a].compensation = saga[a].compensation
    BY <1>0, <1>b, SaveTwiceKeepsCompensation DEF Fail, SagaStatus, Final
  <2> QED BY <1>a, <1>b, <2>1, <2>2
<1> USE <1>0 DEF HandlerTyped, dbVars, Goto, Return
<1>1. CASE Replay(a)
  <2>1. pc[a] = "idle" /\ pc'[a] = "done" /\ tries'[a] = tries[a] /\ saga'[a] = saga[a]
    BY <1>1 DEF Replay
  <2> QED BY <1>a, <2>1 DEF BeforeInsert
<1>2. CASE Begin(a)
  <2>1. pc[a] = "idle" /\ pc'[a] = "start" /\ tries'[a] = tries[a] /\ saga'[a] = saga[a]
    BY <1>2 DEF Begin
  <2> QED BY <1>a, <2>1 DEF BeforeInsert
<1>3. CASE StartSaga(a)
  <2>1. pc[a] = "start" /\ pc'[a] = "user" /\ tries'[a] = tries[a]
    BY <1>3 DEF StartSaga
  <2>2. saga'[a].compensation = "NONE"
    BY <1>3 DEF StartSaga, SagaTyped
  <2> QED BY <1>a, <2>1, <2>2 DEF BeforeInsert
<1>4. CASE StartSagaFails(a)
  <2>1. pc[a] = "start" /\ pc'[a] = "done" /\ tries'[a] = tries[a]
    BY <1>4 DEF StartSagaFails
  <2>2. saga'[a].compensation \in {saga[a].compensation, "NONE"}
    BY <1>4 DEF StartSagaFails, SagaTyped
  <2> QED BY <1>a, <2>1, <2>2 DEF BeforeInsert
<1>5. CASE UserValidated(a)
  <2>1. pc[a] = "user" /\ pc'[a] = "lock" /\ tries'[a] = tries[a]
    BY <1>5 DEF UserValidated
  <2>2. saga'[a].compensation = saga[a].compensation
    <3>1. Save(a, Recorded(saga[a], "USER_VALIDATED", a \in cancelled))
      BY <1>5 DEF UserValidated
    <3>2. CompensationFor(saga[a], "USER_VALIDATED") = saga[a].compensation
      BY DEF CompensationFor
    <3>3. "USER_VALIDATED" \in SagaStatus
      BY DEF SagaStatus, Final
    <3> QED BY <3>1, <3>2, <3>3, SaveCompensation
  <2> QED BY <1>a, <2>1, <2>2 DEF BeforeInsert
<1>6. CASE UserRejected(a)
  BY <1>6, <1>b DEF UserRejected, BeforeInsert
<1>7. CASE SendLock(a)
  <2>1. pc[a] = "lock" /\ pc'[a] = "locking" /\ tries'[a] = tries[a] /\ saga'[a] = saga[a]
    BY <1>7 DEF SendLock
  <2> QED BY <1>a, <2>1 DEF BeforeInsert
<1>8. CASE LockNotSent(a)
  BY <1>8, <1>b DEF LockNotSent, BeforeInsert
<1>9. CASE Locked(a)
  <2>1. pc[a] = "locking" /\ pc'[a] = "insert" /\ tries'[a] = tries[a]
    BY <1>9 DEF Locked
  <2>2. saga'[a].compensation = saga[a].compensation
    <3>1. Save(a, Recorded(saga[a], "STOCK_LOCKED", a \in cancelled))
      BY <1>9 DEF Locked
    <3>2. CompensationFor(saga[a], "STOCK_LOCKED") = saga[a].compensation
      BY DEF CompensationFor
    <3>3. "STOCK_LOCKED" \in SagaStatus
      BY DEF SagaStatus, Final
    <3> QED BY <3>1, <3>2, <3>3, SaveCompensation
  <2> QED BY <1>a, <2>1, <2>2 DEF BeforeInsert
<1>10. CASE LockRefused(a)
  BY <1>10, <1>b DEF LockRefused, BeforeInsert
<1>11. CASE LockAbandoned(a)
  BY <1>11, <1>b DEF LockAbandoned, BeforeInsert
<1>12. CASE Insert(a)
  <2>1. pc[a] = "insert" /\ pc'[a] = "inserted" /\ tries'[a] = tries[a] /\ saga'[a] = saga[a]
    BY <1>12 DEF Insert
  <2> QED BY <1>a, <2>1 DEF BeforeInsert
<1>13. CASE InsertFails(a)
  <2>1. pc'[a] = "compensate"
    BY <1>13 DEF InsertFails
  <2>2. saga'[a] = [status |-> "COMPENSATING", compensation |-> "RUNNING"]
    BY <1>13, InsertFailsRuns
  <2> QED BY <2>1, <2>2 DEF CompensationOf
<1>14. CASE Confirm(a)
  <2>1. pc[a] = "inserted" /\ pc'[a] = "done" /\ tries'[a] = tries[a]
    BY <1>14 DEF Confirm
  <2>2. saga'[a].compensation = saga[a].compensation
    <3>1. Save(a, RecordedTwice(saga[a], "RESERVATION_CREATED", a \in cancelled, "NOTIFICATION_DISPATCHING"))
      BY <1>14 DEF Confirm
    <3> QED BY <3>1, SaveTwiceKeepsCompensation DEF SagaStatus
  <2> QED BY <1>a, <2>1, <2>2
<1>15. CASE SendRelease(a)
  <2>1. /\ pc[a] = "compensate" /\ pc'[a] = "releasing" /\ saga' = saga
        /\ tries'[a] = tries[a] + 1 /\ tries[a] \in Nat
    BY <1>15 DEF SendRelease
  <2> QED BY <2>1 DEF CompensationOf
<1>16. CASE ReleaseNotSent(a)
  <2>1. pc[a] = "compensate" /\ tries'[a] = tries[a] + 1 /\ tries[a] \in Nat
    BY <1>16 DEF ReleaseNotSent
  <2>2. \/ pc'[a] = "compensate" /\ saga' = saga
        \/ pc'[a] = "failing" /\ saga'[a].compensation = "FAILED"
    BY <1>16, ReleaseFailedTells DEF ReleaseNotSent
  <2>3. \A n \in 1 .. MaxReleases : <<a, n>> \notin network \cup applied
    BY <2>1 DEF OneRelease
  <2>4. network' = network
    BY <1>16 DEF ReleaseNotSent, inventoryVars
  <2> QED BY <1>s, <2>1, <2>2, <2>3, <2>4 DEF CompensationOf
<1>17. CASE Released(a)
  <2>1. /\ pc[a] = "releasing" /\ pc'[a] = "failing" /\ tries'[a] = tries[a]
        /\ tries[a] \in 1 .. MaxReleases /\ <<a, tries[a]>> \in applied
    BY <1>17 DEF Released, Positions
  <2>2. saga'[a].compensation = "DONE"
    <3>1. Save(a, Recorded(saga[a], "COMPENSATED", FALSE))
      BY <1>17 DEF Released
    <3>2. CompensationFor(saga[a], "COMPENSATED") = "DONE"
      BY DEF CompensationFor
    <3>3. "COMPENSATED" \in SagaStatus
      BY DEF SagaStatus, Final
    <3> QED BY <3>1, <3>2, <3>3, SaveCompensation
  <2>3. tries[a] > 0
    BY <2>1, ReleasesAssumption DEF ReleasesAssumption
  <2> QED BY <1>s, <2>1, <2>2, <2>3 DEF CompensationOf
<1>18. CASE ReleaseUnsuccessful(a)
  <2>1. /\ pc[a] = "releasing" /\ tries'[a] = tries[a] /\ tries[a] \in 1 .. MaxReleases
        /\ <<a, tries[a]>> \in refused
    BY <1>18 DEF ReleaseUnsuccessful, Positions, ReleaseIsReliable
  <2>2. \/ pc'[a] = "compensate" /\ saga' = saga
        \/ pc'[a] = "failing" /\ saga'[a].compensation = "FAILED"
    BY <1>18, ReleaseFailedTells DEF ReleaseUnsuccessful
  <2>3. \A n \in 1 .. MaxReleases : <<a, n>> \notin network \cup applied
    BY <2>1 DEF OneRelease, RequestsInOrder
  <2>4. network' = network
    BY <1>18 DEF ReleaseUnsuccessful, inventoryVars
  <2>5. tries[a] > 0
    BY <2>1, ReleasesAssumption DEF ReleasesAssumption
  <2> QED BY <1>s, <2>1, <2>2, <2>3, <2>4, <2>5 DEF CompensationOf
<1>19. CASE FinishFailed(a)
  <2>1. pc[a] = "failing" /\ pc'[a] = "done" /\ tries'[a] = tries[a] /\ network' = network
    BY <1>19 DEF FinishFailed, inventoryVars
  <2>2. saga'[a].compensation = saga[a].compensation
    <3>1. Save(a, Recorded(saga[a], "FAILED", FALSE))
      BY <1>19 DEF FinishFailed
    <3>2. CompensationFor(saga[a], "FAILED") = saga[a].compensation
      BY DEF CompensationFor
    <3>3. "FAILED" \in SagaStatus
      BY DEF SagaStatus, Final
    <3> QED BY <3>1, <3>2, <3>3, SaveCompensation
  <2> QED BY <1>s, <2>1, <2>2 DEF CompensationOf
<1> QED
  BY <1>1, <1>2, <1>3, <1>4, <1>5, <1>6, <1>7, <1>8, <1>9, <1>10, <1>11,
     <1>12, <1>13, <1>14, <1>15, <1>16, <1>17, <1>18, <1>19 DEF Handle

\* No step puts a row out of order.
LEMMA NextKeepsCompensation ==
  ASSUME RecordIsReliable, ReleaseIsReliable, Base, RequestsInOrder, OneRelease,
         CompensationInOrder, [Next]_vars
  PROVE  CompensationInOrder'
<1>1. ASSUME NEW a \in Attempts, Handle(a)
      PROVE  CompensationInOrder'
  <2>1. CompensationOf(a)'
    BY <1>1, HandleKeepsOwnCompensation DEF CompensationInOrder
  <2>2. ASSUME NEW b \in Attempts \ {a}
        PROVE  CompensationOf(b)'
    <3>1. pc'[b] = pc[b] /\ tries'[b] = tries[b] /\ saga'[b] = saga[b]
      BY <1>1, HandleIsLocal, HandleMovesOwnRow DEF Base, OthersStay
    <3>2. applied' = applied /\ \A n \in 1 .. MaxReleases : <<b, n>> \in network' => <<b, n>> \in network
      BY <1>1, HandleSends
    <3> QED BY <3>1, <3>2 DEF CompensationOf, CompensationInOrder
  <2> QED BY <2>1, <2>2 DEF CompensationInOrder
<1>2. ASSUME NEW a \in Attempts, Notified(a)
      PROVE  CompensationInOrder'
  <2>1. saga'[a].compensation = saga[a].compensation
    <3>1. PICK state \in {"COMPLETED", "COMPLETED_WITH_NOTIFICATION_FAILURE"} :
            Save(a, Recorded(saga[a], state, FALSE))
      BY <1>2 DEF Notified
    <3>2. CompensationFor(saga[a], state) = saga[a].compensation
      BY DEF CompensationFor
    <3> QED BY <3>1, <3>2, SaveCompensation DEF Base, SagaStatus, Final
  <2>2. \A b \in Attempts \ {a} : saga'[b] = saga[b]
    BY <1>2, NotifiedMoves
  <2>3. UNCHANGED <<pc, tries, network, applied>>
    BY <1>2 DEF Notified, inventoryVars
  <2> QED BY <2>1, <2>2, <2>3 DEF CompensationInOrder, CompensationOf
<1>3. ASSUME NEW r \in Requests, Serve(r)
      PROVE  CompensationInOrder'
  <2>1. UNCHANGED <<pc, tries, saga>> /\ applied \subseteq applied' /\ (network \cup applied)' \subseteq network \cup applied
    BY <1>3 DEF Serve, Apply, Refuse, handlerVars, dbVars
  <2> QED BY <2>1 DEF CompensationInOrder, CompensationOf
<1>4. CASE Crash
  <2>1. \A b \in Attempts : pc'[b] = pc[b] \/ (pc'[b] = "crashed" /\ pc[b] \notin Finished)
    BY <1>4, OthersMoveNoRow
  <2>2. UNCHANGED <<tries, saga, network, applied>>
    BY <1>4 DEF Crash, dbVars, inventoryVars
  <2> QED BY <2>1, <2>2 DEF CompensationInOrder, CompensationOf
<1>5. CASE UNCHANGED <<pc, tries, saga, network, applied>>
  BY <1>5 DEF CompensationInOrder, CompensationOf
<1> QED
  BY <1>1, <1>2, <1>3, <1>4, <1>5 DEF Next, Cancel, vars, handlerVars, inventoryVars, dbVars

LEMMA CompensationHolds ==
  RecordIsReliable /\ ReleaseIsReliable => (Spec => []CompensationInOrder)
<1> SUFFICES ASSUME RecordIsReliable, ReleaseIsReliable PROVE Spec => []CompensationInOrder
  OBVIOUS
<1>1. Init => CompensationInOrder
  BY DEF Init, CompensationInOrder, CompensationOf
<1>2. Base /\ RequestsInOrder /\ OneRelease /\ CompensationInOrder /\ [Next]_vars => CompensationInOrder'
  BY NextKeepsCompensation
<1> QED BY <1>1, <1>2, BaseHolds, RequestsHold, LedgerHolds, PTL DEF Spec

\* compensation_status tells the truth about the room, however the LIBERARs
\* fail, as long as the saga's transitions are recorded and no LIBERAR is
\* applied after its caller gave up.
THEOREM CompensationIsTold ==
  RecordIsReliable /\ ReleaseIsReliable => (Spec => []CompensationTold)
<1>1. CompensationInOrder => CompensationTold
  BY DEF CompensationInOrder, CompensationOf, CompensationTold
<1> QED BY <1>1, CompensationHolds, PTL

-----------------------------------------------------------------------------
(* What compensation_status claims *)

\* DONE is said of a LIBERAR that was applied, FAILED when none is or will be,
\* also by a row that misses transitions.
ClaimOf(a) ==
  /\ saga[a].compensation = "DONE" => \E n \in 1 .. MaxReleases : <<a, n>> \in applied
  /\ saga[a].compensation = "FAILED" =>
       /\ pc[a] \in {"failing", "done", "crashed"}
       /\ \A n \in 1 .. MaxReleases : <<a, n>> \notin network \cup applied

Claims == \A a \in Attempts : ClaimOf(a)

\* The failed INSERT leaves the column as it is or RUNNING.
LEMMA InsertFailsClaims ==
  ASSUME SagaTyped, NEW a \in Attempts, InsertFails(a)
  PROVE  saga'[a].compensation \in {saga[a].compensation, "RUNNING"}
<1>1. PICK new \in RecordedTwice(saga[a], "RESERVATION_INSERT_FAILED", FALSE, "COMPENSATING") :
        saga' = [saga EXCEPT ![a] = new]
  BY DEF InsertFails, Save
<1>2. PICK r \in Recorded(saga[a], "RESERVATION_INSERT_FAILED", FALSE) :
        new \in Recorded(r, "COMPENSATING", FALSE)
  BY DEF RecordedTwice
<1>3. r.compensation = saga[a].compensation
  BY <1>2 DEF Recorded, CompensationFor
<1>4. new.compensation \in {r.compensation, "RUNNING"}
  BY <1>2 DEF Recorded, CompensationFor
<1>5. saga'[a] = new
  BY <1>1 DEF SagaTyped
<1> QED BY <1>3, <1>4, <1>5

\* A LIBERAR that failed claims nothing before the last of them.
LEMMA ReleaseFailedClaims ==
  ASSUME SagaTyped, pc \in [Attempts -> Steps], NEW a \in Attempts, NEW n, ReleaseFailed(a, n)
  PROVE  \/ pc'[a] = "compensate" /\ saga' = saga
         \/ pc'[a] = "failing" /\ saga'[a].compensation \in {saga[a].compensation, "FAILED"}
<1>1. CASE n < MaxReleases
  BY <1>1 DEF ReleaseFailed, Goto
<1>2. CASE ~(n < MaxReleases)
  <2>1. pc'[a] = "failing" /\ Save(a, Recorded(saga[a], "COMPENSATION_FAILED", FALSE))
    BY <1>2 DEF ReleaseFailed, Goto
  <2>2. CompensationFor(saga[a], "COMPENSATION_FAILED") = "FAILED"
    BY DEF CompensationFor
  <2> QED BY <2>1, <2>2, SaveCompensation DEF SagaStatus
<1> QED BY <1>1, <1>2

LEMMA HandleKeepsOwnClaim ==
  ASSUME ReleaseIsReliable, Base, RequestsInOrder, OneRelease, NEW a \in Attempts, ClaimOf(a), Handle(a)
  PROVE  ClaimOf(a)'
<1>0. HandlerTyped /\ SagaTyped /\ Positions
  BY DEF Base
<1>s. /\ applied' = applied
      /\ \/ network' = network
         \/ SendLock(a) /\ network' = network \cup {<<a, 0>>}
         \/ SendRelease(a) /\ network' = network \cup {<<a, tries[a] + 1>>}
  BY HandleSends
\* A step before the end of a compensation, which claims nothing.
<1>a. ASSUME pc[a] \in BeforeInsert \cup {"inserted", "compensate", "releasing"},
             saga'[a].compensation \in {saga[a].compensation, "NONE", "RUNNING"}
      PROVE  ClaimOf(a)'
  <2>1. saga[a].compensation # "FAILED"
    BY <1>a DEF ClaimOf, BeforeInsert
  <2> QED BY <1>a, <1>s, <2>1 DEF ClaimOf
<1>b. ASSUME NEW code, NEW state \in {"USER_VALIDATION_FAILED", "STOCK_LOCK_FAILED", "STOCK_UNAVAILABLE"},
             Fail(a, state, code), pc[a] \in BeforeInsert
      PROVE  ClaimOf(a)'
  <2>1. saga'[a].compensation = saga[a].compensation
    BY <1>0, <1>b, SaveTwiceKeepsCompensation DEF Fail, SagaStatus, Final
  <2> QED BY <1>a, <1>b, <2>1
<1>c. ASSUME NEW state \in SagaStatus \ {"COMPENSATING", "COMPENSATED", "COMPENSATION_FAILED"}, NEW gone,
             Save(a, Recorded(saga[a], state, gone))
      PROVE  saga'[a].compensation = saga[a].compensation
  <2>1. CompensationFor(saga[a], state) = saga[a].compensation
    BY DEF CompensationFor
  <2> QED BY <1>0, <1>c, <2>1, SaveCompensation
<1> USE <1>0 DEF HandlerTyped, dbVars, Goto, Return
<1>1. CASE Replay(a) \/ Begin(a) \/ SendLock(a) \/ Insert(a) \/ SendRelease(a)
  <2>1. saga' = saga /\ pc[a] \in BeforeInsert \cup {"compensate"}
    BY <1>1 DEF Replay, Begin, SendLock, Insert, SendRelease, BeforeInsert
  <2> QED BY <1>a, <2>1
<1>2. CASE StartSaga(a) \/ StartSagaFails(a)
  <2>1. pc[a] = "start" /\ saga'[a].compensation \in {saga[a].compensation, "NONE"}
    BY <1>2 DEF StartSaga, StartSagaFails, SagaTyped
  <2> QED BY <1>a, <2>1 DEF BeforeInsert
<1>3. CASE UserValidated(a)
  <2>1. pc[a] = "user" /\ Save(a, Recorded(saga[a], "USER_VALIDATED", a \in cancelled))
    BY <1>3 DEF UserValidated
  <2> QED BY <1>a, <1>c, <2>1 DEF BeforeInsert, SagaStatus, Final
<1>4. CASE Locked(a)
  <2>1. pc[a] = "locking" /\ Save(a, Recorded(saga[a], "STOCK_LOCKED", a \in cancelled))
    BY <1>4 DEF Locked
  <2> QED BY <1>a, <1>c, <2>1 DEF BeforeInsert, SagaStatus, Final
<1>5. CASE UserRejected(a) \/ LockNotSent(a) \/ LockRefused(a) \/ LockAbandoned(a)
  BY <1>5, <1>b DEF UserRejected, LockNotSent, LockRefused, LockAbandoned, BeforeInsert
<1>6. CASE InsertFails(a)
  <2>1. pc[a] \in BeforeInsert \cup {"inserted", "compensate", "releasing"}
    BY <1>6 DEF InsertFails, InsertError, BeforeInsert
  <2> QED BY <1>6, <1>a, <2>1, InsertFailsClaims
<1>7. CASE Confirm(a)
  <2>1. /\ pc[a] = "inserted"
        /\ Save(a, RecordedTwice(saga[a], "RESERVATION_CREATED", a \in cancelled, "NOTIFICATION_DISPATCHING"))
    BY <1>7 DEF Confirm
  <2>2. saga'[a].compensation = saga[a].compensation
    BY <2>1, SaveTwiceKeepsCompensation DEF SagaStatus
  <2> QED BY <1>a, <2>1, <2>2
\* The last LIBERAR failed: none was applied, and none is on its way.
<1>8. ASSUME NEW n, ReleaseFailed(a, n), pc[a] \in {"compensate", "releasing"}, network' = network,
             \A m \in 1 .. MaxReleases : <<a, m>> \notin network \cup applied
      PROVE  ClaimOf(a)'
  <2>1. CASE pc'[a] = "compensate" /\ saga' = saga
    BY <1>8, <1>a, <2>1
  <2>2. CASE pc'[a] = "failing" /\ saga'[a].compensation \in {saga[a].compensation, "FAILED"}
    BY <1>8, <1>s, <2>2 DEF ClaimOf
  <2> QED BY <1>8, <2>1, <2>2, ReleaseFailedClaims
<1>9. CASE ReleaseNotSent(a)
  <2>1. /\ pc[a] = "compensate" /\ network' = network
        /\ \A m \in 1 .. MaxReleases : <<a, m>> \notin network \cup applied
    BY <1>9 DEF ReleaseNotSent, OneRelease, inventoryVars
  <2> QED BY <1>8, <1>9, <2>1 DEF ReleaseNotSent
<1>10. CASE ReleaseUnsuccessful(a)
  <2>1. /\ pc[a] = "releasing" /\ network' = network /\ tries[a] \in 1 .. MaxReleases
        /\ <<a, tries[a]>> \in refused
    BY <1>10 DEF ReleaseUnsuccessful, Positions, ReleaseIsReliable, inventoryVars
  <2>2. \A m \in 1 .. MaxReleases : <<a, m>> \notin network \cup applied
    BY <2>1 DEF OneRelease, RequestsInOrder
  <2> QED BY <1>8, <1>10, <2>1, <2>2 DEF ReleaseUnsuccessful
<1>11. CASE Released(a)
  <2>1. pc[a] = "releasing" /\ pc'[a] = "failing" /\ tries[a] \in 1 .. MaxReleases /\ <<a, tries[a]>> \in applied
    BY <1>11 DEF Released, Positions
  <2>2. saga'[a].compensation \in {saga[a].compensation, "DONE"}
    <3>1. Save(a, Recorded(saga[a], "COMPENSATED", FALSE))
      BY <1>11 DEF Released
    <3>2. CompensationFor(saga[a], "COMPENSATED") = "DONE"
      BY DEF CompensationFor
    <3>3. "COMPENSATED" \in SagaStatus
      BY DEF SagaStatus, Final
    <3> QED BY <3>1, <3>2, <3>3, SaveCompensation
  <2> QED BY <1>s, <2>1, <2>2 DEF ClaimOf
<1>12. CASE FinishFailed(a)
  <2>1. /\ pc[a] = "failing" /\ pc'[a] = "done" /\ network' = network
        /\ Save(a, Recorded(saga[a], "FAILED", FALSE))
    BY <1>12 DEF FinishFailed, inventoryVars
  <2>2. saga'[a].compensation = saga[a].compensation
    BY <1>c, <2>1 DEF SagaStatus, Final
  <2> QED BY <1>s, <2>1, <2>2 DEF ClaimOf
<1> QED
  BY <1>1, <1>2, <1>3, <1>4, <1>5, <1>6, <1>7, <1>9, <1>10, <1>11, <1>12 DEF Handle

LEMMA NextKeepsClaims ==
  ASSUME ReleaseIsReliable, Base, RequestsInOrder, OneRelease, Claims, [Next]_vars
  PROVE  Claims'
<1>1. ASSUME NEW a \in Attempts, Handle(a)
      PROVE  Claims'
  <2>1. ClaimOf(a)'
    BY <1>1, HandleKeepsOwnClaim DEF Claims
  <2>2. ASSUME NEW b \in Attempts \ {a}
        PROVE  ClaimOf(b)'
    <3>1. pc'[b] = pc[b] /\ saga'[b] = saga[b]
      BY <1>1, HandleIsLocal, HandleMovesOwnRow DEF Base, OthersStay
    <3>2. applied' = applied /\ \A n \in 1 .. MaxReleases : <<b, n>> \in network' => <<b, n>> \in network
      BY <1>1, HandleSends
    <3> QED BY <3>1, <3>2 DEF ClaimOf, Claims
  <2> QED BY <2>1, <2>2 DEF Claims
<1>2. ASSUME NEW a \in Attempts, Notified(a)
      PROVE  Claims'
  <2>1. saga'[a].compensation = saga[a].compensation
    <3>1. PICK state \in {"COMPLETED", "COMPLETED_WITH_NOTIFICATION_FAILURE"} :
            Save(a, Recorded(saga[a], state, FALSE))
      BY <1>2 DEF Notified
    <3>2. CompensationFor(saga[a], state) = saga[a].compensation
      BY DEF CompensationFor
    <3> QED BY <3>1, <3>2, SaveCompensation DEF Base, SagaStatus, Final
  <2>2. \A b \in Attempts \ {a} : saga'[b] = saga[b]
    BY <1>2, NotifiedMoves
  <2>3. UNCHANGED <<pc, network, applied>>
    BY <1>2 DEF Notified, inventoryVars
  <2> QED BY <2>1, <2>2, <2>3 DEF Claims, ClaimOf
<1>3. ASSUME NEW r \in Requests, Serve(r)
      PROVE  Claims'
  <2>1. UNCHANGED <<pc, saga>> /\ applied \subseteq applied' /\ (network \cup applied)' \subseteq network \cup applied
    BY <1>3 DEF Serve, Apply, Refuse, handlerVars, dbVars
  <2> QED BY <2>1 DEF Claims, ClaimOf
<1>4. CASE Crash
  <2>1. \A b \in Attempts : pc'[b] = pc[b] \/ pc'[b] = "crashed"
    BY <1>4, OthersMoveNoRow
  <2>2. UNCHANGED <<saga, network, applied>>
    BY <1>4 DEF Crash, dbVars, inventoryVars
  <2> QED BY <2>1, <2>2 DEF Claims, ClaimOf
<1>5. CASE UNCHANGED <<pc, saga, network, applied>>
  BY <1>5 DEF Claims, ClaimOf
<1> QED
  BY <1>1, <1>2, <1>3, <1>4, <1>5 DEF Next, Cancel, vars, handlerVars, inventoryVars, dbVars

\* Also when transitions are lost, a row never says DONE of a room that was not
\* given back, nor FAILED of one that was (main.go:309-340): what somebody who
\* repairs the stock by hand goes by.
ClaimsAreTrue ==
  \A a \in Attempts :
    /\ saga[a].compensation = "DONE" => \E n \in 1 .. MaxReleases : <<a, n>> \in applied
    /\ saga[a].compensation = "FAILED" => \A n \in 1 .. MaxReleases : <<a, n>> \notin applied

\* Whatever is recorded of a compensation is true, if no LIBERAR is applied after
\* its caller gave up; no write need succeed.
THEOREM CompensationNeverLies == ReleaseIsReliable => (Spec => []ClaimsAreTrue)
<1> SUFFICES ASSUME ReleaseIsReliable PROVE Spec => []ClaimsAreTrue
  OBVIOUS
<1>1. Init => Claims
  BY DEF Init, Claims, ClaimOf
<1>2. Base /\ RequestsInOrder /\ OneRelease /\ Claims /\ [Next]_vars => Claims'
  BY NextKeepsClaims
<1>3. Claims => ClaimsAreTrue
  BY DEF Claims, ClaimOf, ClaimsAreTrue
<1> QED BY <1>1, <1>2, <1>3, BaseHolds, RequestsHold, LedgerHolds, PTL DEF Spec

-----------------------------------------------------------------------------
(* Where the rooms are *)

\* The row from the BLOQUEAR on, while the handler runs.
RowOf(a) ==
  /\ pc[a] = "lock" /\ a \notin cancelled => saga[a].status = "USER_VALIDATED"
  /\ pc[a] = "locking" => saga[a].status = "USER_VALIDATED"
  /\ pc[a] = "insert" => saga[a].status \in {"USER_VALIDATED", "STOCK_LOCKED"}
  /\ pc[a] \in {"compensate", "releasing"} => saga[a].status = "COMPENSATING"

RowsInOrder == \A a \in Attempts : RowOf(a)

\* A transition that is written is the status of the row.
LEMMA SaveStatus ==
  ASSUME RecordIsReliable, SagaTyped, NEW a \in Attempts, NEW state \in SagaStatus, NEW gone,
         Save(a, Recorded(saga[a], state, gone))
  PROVE  /\ saga'[a].status \in {saga[a].status, state}
         /\ ~gone => saga'[a].status = state
<1>1. PICK new \in Recorded(saga[a], state, gone) : saga' = [saga EXCEPT ![a] = new]
  BY DEF Save
<1>2. saga'[a] = new
  BY <1>1 DEF SagaTyped
<1>3. \/ new = saga[a] /\ gone
      \/ new = [status |-> state, compensation |-> CompensationFor(saga[a], state)]
  BY DEF Recorded, RecordIsReliable
<1> QED BY <1>2, <1>3

\* The handler's step keeps the status of its own row in order.
LEMMA HandleKeepsOwnRow ==
  ASSUME RecordIsReliable, Base, NEW a \in Attempts, RowOf(a), Handle(a)
  PROVE  RowOf(a)'
<1>0. HandlerTyped /\ SagaTyped
  BY DEF Base
<1> USE <1>0 DEF HandlerTyped, dbVars, Goto, Return
<1>1. CASE \/ Replay(a) \/ Begin(a) \/ StartSaga(a) \/ StartSagaFails(a) \/ UserRejected(a)
           \/ LockNotSent(a) \/ LockRefused(a) \/ LockAbandoned(a) \/ Insert(a) \/ Confirm(a)
           \/ Released(a) \/ FinishFailed(a)
  <2>1. pc'[a] \in {"start", "user", "inserted", "failing", "done"}
    BY <1>1 DEF Replay, Begin, StartSaga, StartSagaFails, UserRejected, LockNotSent, LockRefused,
                LockAbandoned, Insert, Confirm, Released, FinishFailed, Fail
  <2> QED BY <2>1 DEF RowOf
<1>2. CASE UserValidated(a)
  <2>1. pc'[a] = "lock" /\ cancelled' = cancelled
    BY <1>2 DEF UserValidated
  <2>2. a \notin cancelled => saga'[a].status = "USER_VALIDATED"
    <3> SUFFICES ASSUME a \notin cancelled
                 PROVE  saga'[a].status = "USER_VALIDATED"
      OBVIOUS
    <3>1. Save(a, Recorded(saga[a], "USER_VALIDATED", FALSE))
      BY <1>2 DEF UserValidated, Recorded, Save
    <3>2. "USER_VALIDATED" \in SagaStatus
      BY DEF SagaStatus
    <3> QED BY <3>1, <3>2, SaveStatus
  <2> QED BY <2>1, <2>2 DEF RowOf
<1>3. CASE SendLock(a)
  BY <1>3 DEF SendLock, RowOf
<1>4. CASE Locked(a)
  <2>1. pc[a] = "locking" /\ pc'[a] = "insert"
    BY <1>4 DEF Locked
  <2>2. saga'[a].status \in {saga[a].status, "STOCK_LOCKED"}
    BY <1>4, SaveRecorded DEF Locked, SagaStatus
  <2> QED BY <2>1, <2>2 DEF RowOf
<1>5. CASE InsertFails(a)
  <2>1. pc'[a] = "compensate"
    BY <1>5 DEF InsertFails
  <2>2. saga'[a] = [status |-> "COMPENSATING", compensation |-> "RUNNING"]
    BY <1>5, InsertFailsRuns
  <2> QED BY <2>1, <2>2 DEF RowOf
<1>6. CASE SendRelease(a)
  BY <1>6 DEF SendRelease, RowOf
<1>7. CASE ReleaseNotSent(a) \/ ReleaseUnsuccessful(a)
  <2>1. pc[a] \in {"compensate", "releasing"}
    BY <1>7 DEF ReleaseNotSent, ReleaseUnsuccessful
  <2>2. (pc'[a] = "compensate" /\ saga' = saga) \/ pc'[a] = "failing"
    BY <1>7, ReleaseFailedTells DEF ReleaseNotSent, ReleaseUnsuccessful
  <2> QED BY <2>1, <2>2 DEF RowOf
<1> QED BY <1>1, <1>2, <1>3, <1>4, <1>5, <1>6, <1>7 DEF Handle

\* So does every step.
LEMMA NextKeepsRows ==
  ASSUME RecordIsReliable, Base, FinalIsLast, RowsInOrder, [Next]_vars
  PROVE  RowsInOrder'
<1>1. ASSUME NEW a \in Attempts, Handle(a)
      PROVE  RowsInOrder'
  <2>1. RowOf(a)'
    BY <1>1, HandleKeepsOwnRow DEF RowsInOrder
  <2>2. ASSUME NEW b \in Attempts \ {a}
        PROVE  RowOf(b)'
    <3>1. pc'[b] = pc[b] /\ saga'[b] = saga[b]
      BY <1>1, HandleIsLocal, HandleMovesOwnRow DEF Base, OthersStay
    <3>2. cancelled' = cancelled
      BY <1>1, HandleKeepsCancelled
    <3> QED BY <3>1, <3>2 DEF RowOf, RowsInOrder
  <2> QED BY <2>1, <2>2 DEF RowsInOrder
<1>2. ASSUME NEW a \in Attempts, Notified(a)
      PROVE  RowsInOrder'
  <2>1. pc[a] \in Finished /\ pc' = pc /\ \A b \in Attempts \ {a} : saga'[b] = saga[b]
    BY <1>2, NotifiedMoves DEF FinalIsLast
  <2>2. cancelled' = cancelled
    BY <1>2 DEF Notified
  <2> QED BY <2>1, <2>2 DEF RowsInOrder, RowOf, Finished
<1>3. ASSUME \/ \E a \in Attempts : Cancel(a)
             \/ \E r \in Requests : Serve(r)
             \/ Crash
             \/ UNCHANGED vars
      PROVE  RowsInOrder'
  <2>1. UNCHANGED saga /\ \A b \in Attempts : pc'[b] = pc[b] \/ pc'[b] = "crashed"
    BY <1>3, OthersMoveNoRow
  <2>2. cancelled \subseteq cancelled'
    BY <1>3 DEF Cancel, Serve, Apply, Refuse, Crash, vars, handlerVars
  <2> QED BY <2>1, <2>2 DEF RowsInOrder, RowOf
<1> QED BY <1>1, <1>2, <1>3 DEF Next

LEMMA RowsHold == RecordIsReliable => (Spec => []RowsInOrder)
<1> SUFFICES ASSUME RecordIsReliable PROVE Spec => []RowsInOrder
  OBVIOUS
<1>1. Init => RowsInOrder
  BY DEF Init, RowsInOrder, RowOf
<1>2. Base /\ FinalIsLast /\ RowsInOrder /\ [Next]_vars => RowsInOrder'
  BY NextKeepsRows
<1> QED BY <1>1, <1>2, BaseHolds, FinalLastHolds, PTL DEF Spec

\* What became of the BLOQUEAR of an execution that is over: it has none
\* anywhere, a reservation, a compensation, an answer that says it gave up on it,
\* or a row that a stop left on the way.
AccountOf(a) ==
  /\ pc[a] = "done" /\ tries[a] = 0 /\ <<a, 0>> \in network \cup applied =>
       a \in reservations \/ reply[a].code = "ResourceExhausted"
  /\ pc[a] = "crashed" /\ <<a, 0>> \in network \cup applied =>
       \/ a \in reservations
       \/ saga[a].status \in Interrupted
       \/ saga[a].compensation \in {"DONE", "FAILED"}

Accounted == \A a \in Attempts : AccountOf(a)

\* The handler's step leaves its own execution accounted for.
LEMMA HandleKeepsOwnAccount ==
  ASSUME Base, RequestsInOrder, NEW a \in Attempts, CompensationOf(a), AccountOf(a), Handle(a)
  PROVE  AccountOf(a)'
<1>0. HandlerTyped /\ Positions
  BY DEF Base
<1> USE <1>0 DEF HandlerTyped, Positions, BeforeInsert, dbVars, handlerVars, Goto, Return
\* An answer given before the BLOQUEAR, or one that gives up on it.
<1>a. ASSUME pc[a] \in {"idle", "start", "user", "lock"} \/ reply'[a].code = "ResourceExhausted",
             pc[a] \in BeforeInsert, pc'[a] = "done", tries' = tries, network' = network
      PROVE  AccountOf(a)'
  <2>1. tries'[a] = 0
    BY <1>a
  <2>2. CASE pc[a] \in {"idle", "start", "user", "lock"}
    <3>1. <<a, 0>> \notin network \cup applied
      BY <2>2, ReleasesAssumption DEF ReleasesAssumption, RequestsInOrder
    <3>2. applied' = applied
      BY HandleSends
    <3> QED BY <1>a, <2>1, <3>1, <3>2 DEF AccountOf
  <2>3. CASE reply'[a].code = "ResourceExhausted"
    BY <1>a, <2>1, <2>3 DEF AccountOf
  <2> QED BY <1>a, <2>2, <2>3
\* A step that answers nothing.
<1>b. ASSUME pc'[a] \notin {"done", "crashed"}
      PROVE  AccountOf(a)'
  BY <1>b DEF AccountOf
<1>1. CASE Replay(a)
  BY <1>1, <1>a DEF Replay, inventoryVars
<1>2. CASE Begin(a)
  BY <1>2, <1>b DEF Begin
<1>3. CASE StartSaga(a)
  BY <1>3, <1>b DEF StartSaga
<1>4. CASE StartSagaFails(a)
  BY <1>4, <1>a DEF StartSagaFails, inventoryVars
<1>5. CASE UserValidated(a)
  BY <1>5, <1>b DEF UserValidated
<1>6. CASE UserRejected(a)
  BY <1>6, <1>a DEF UserRejected, Fail, inventoryVars
<1>7. CASE SendLock(a)
  BY <1>7, <1>b DEF SendLock
<1>8. CASE LockNotSent(a)
  BY <1>8, <1>a DEF LockNotSent, Fail, inventoryVars
<1>9. CASE Locked(a)
  BY <1>9, <1>b DEF Locked
<1>10. CASE LockRefused(a)
  BY <1>10, <1>a DEF LockRefused, Fail, inventoryVars
<1>11. CASE LockAbandoned(a)
  BY <1>11, <1>a DEF LockAbandoned, Fail, inventoryVars
<1>12. CASE Insert(a)
  BY <1>12, <1>b DEF Insert
<1>13. CASE InsertFails(a)
  BY <1>13, <1>b DEF InsertFails, InsertError
<1>14. CASE Confirm(a)
  <2>1. pc[a] = "inserted" /\ pc'[a] = "done" /\ a \in reservations'
    BY <1>14 DEF Confirm
  <2> QED BY <2>1 DEF AccountOf
<1>15. CASE SendRelease(a)
  BY <1>15, <1>b DEF SendRelease
<1>16. CASE ReleaseNotSent(a)
  BY <1>16, <1>b, ReleaseFailedGoes DEF ReleaseNotSent
<1>17. CASE Released(a)
  BY <1>17, <1>b DEF Released
<1>18. CASE ReleaseUnsuccessful(a)
  BY <1>18, <1>b, ReleaseFailedGoes DEF ReleaseUnsuccessful
<1>19. CASE FinishFailed(a)
  <2>1. pc[a] = "failing" /\ pc'[a] = "done" /\ tries'[a] = tries[a]
    BY <1>19 DEF FinishFailed
  <2> QED BY <2>1 DEF AccountOf, CompensationOf
<1> QED
  BY <1>1, <1>2, <1>3, <1>4, <1>5, <1>6, <1>7, <1>8, <1>9, <1>10, <1>11,
     <1>12, <1>13, <1>14, <1>15, <1>16, <1>17, <1>18, <1>19 DEF Handle

\* A stop leaves every execution accounted for, by where it interrupts it.
LEMMA CrashKeepsAccounts ==
  ASSUME Base, RequestsInOrder, CompensationInOrder, RowsInOrder, Accounted, Crash
  PROVE  Accounted'
<1>0. HandlerTyped /\ Positions
  BY DEF Base
<1>1. UNCHANGED <<tries, reply, saga, reservations, network, applied>>
  BY DEF Crash, dbVars, inventoryVars
<1>2. ASSUME NEW b \in Attempts
      PROVE  AccountOf(b)'
  <2>1. CASE pc'[b] = pc[b]
    BY <1>1, <2>1 DEF Accounted, AccountOf
  <2>2. CASE pc'[b] = "crashed" /\ pc[b] \notin Finished
    <3> SUFFICES ASSUME <<b, 0>> \in network \cup applied
                 PROVE  \/ b \in reservations
                        \/ saga[b].status \in Interrupted
                        \/ saga[b].compensation \in {"DONE", "FAILED"}
      BY <1>1, <2>2 DEF AccountOf
    <3>1. pc[b] \notin {"idle", "start", "user", "lock"}
      BY ReleasesAssumption DEF ReleasesAssumption, RequestsInOrder
    <3>2. pc[b] \in {"locking", "insert", "inserted", "compensate", "releasing", "failing"}
      BY <1>0, <2>2, <3>1 DEF HandlerTyped, Steps, Finished
    <3>3. CASE pc[b] \in {"locking", "insert", "compensate", "releasing"}
      BY <3>3 DEF RowsInOrder, RowOf, Interrupted
    <3>4. CASE pc[b] = "inserted"
      BY <1>0, <3>4 DEF Positions
    <3>5. CASE pc[b] = "failing"
      BY <3>5 DEF CompensationInOrder, CompensationOf
    <3> QED BY <3>2, <3>3, <3>4, <3>5
  <2> QED BY <2>1, <2>2, OthersMoveNoRow
<1> QED BY <1>2 DEF Accounted

\* So does every step: a reservation stays in the table, and a late BLOQUEAR was
\* in the network before.
LEMMA NextKeepsAccounts ==
  ASSUME Base, RequestsInOrder, FinalIsLast, CompensationInOrder, RowsInOrder, Outcomes,
         Accounted, [Next]_vars
  PROVE  Accounted'
<1>1. ASSUME NEW a \in Attempts, Handle(a)
      PROVE  Accounted'
  <2>1. AccountOf(a)'
    BY <1>1, HandleKeepsOwnAccount DEF CompensationInOrder, Accounted
  <2>2. ASSUME NEW b \in Attempts \ {a}
        PROVE  AccountOf(b)'
    <3>1. pc'[b] = pc[b] /\ tries'[b] = tries[b] /\ reply'[b] = reply[b] /\ saga'[b] = saga[b]
      BY <1>1, HandleIsLocal, HandleMovesOwnRow DEF Base, OthersStay
    <3>2. applied' = applied /\ (<<b, 0>> \in network' => <<b, 0>> \in network)
      BY <1>1, HandleSends
    <3>3. b \in reservations => b \in reservations'
      BY <1>1, HandleFrames DEF Insert
    <3> QED BY <3>1, <3>2, <3>3 DEF AccountOf, Accounted
  <2> QED BY <2>1, <2>2 DEF Accounted
<1>2. ASSUME NEW a \in Attempts, Notified(a)
      PROVE  Accounted'
  <2>1. a \in reservations
    BY <1>2, NotifiedMoves DEF Outcomes
  <2>2. UNCHANGED <<pc, tries, reply, reservations, network, applied>>
    BY <1>2 DEF Notified, inventoryVars
  <2>3. \A b \in Attempts \ {a} : saga'[b] = saga[b]
    BY <1>2, NotifiedMoves
  <2> QED BY <2>1, <2>2, <2>3 DEF Accounted, AccountOf
<1>3. ASSUME NEW r \in Requests, Serve(r)
      PROVE  Accounted'
  <2>1. /\ UNCHANGED <<pc, tries, reply, saga, reservations>>
        /\ (network \cup applied)' \subseteq network \cup applied
    BY <1>3 DEF Serve, Apply, Refuse, handlerVars, dbVars
  <2> QED BY <2>1 DEF Accounted, AccountOf
<1>4. CASE UNCHANGED <<pc, tries, reply, saga, reservations, network, applied>>
  BY <1>4 DEF Accounted, AccountOf
<1> QED
  BY <1>1, <1>2, <1>3, <1>4, CrashKeepsAccounts
  DEF Next, Cancel, vars, handlerVars, inventoryVars, dbVars

LEMMA AccountsHold ==
  RecordIsReliable /\ InsertIsReliable /\ ReleaseIsReliable => (Spec => []Accounted)
<1> SUFFICES ASSUME RecordIsReliable, InsertIsReliable, ReleaseIsReliable PROVE Spec => []Accounted
  OBVIOUS
<1>1. Init => Accounted
  BY DEF Init, Accounted, AccountOf
<1>2. Base /\ RequestsInOrder /\ FinalIsLast /\ CompensationInOrder /\ RowsInOrder /\ Outcomes
        /\ Accounted /\ [Next]_vars => Accounted'
  BY NextKeepsAccounts
<1> QED BY <1>1, <1>2, BaseHolds, RequestsHold, FinalLastHolds, CompensationHolds, RowsHold,
           OutcomesHold, PTL DEF Spec

\* Two disjoint finite sets.
LEMMA DisjointUnion ==
  ASSUME NEW S, NEW T, IsFiniteSet(S), IsFiniteSet(T), S \cap T = {}
  PROVE  /\ IsFiniteSet(S \cup T) /\ Cardinality(S) \in Nat /\ Cardinality(T) \in Nat
         /\ Cardinality(S \cup T) = Cardinality(S) + Cardinality(T)
<1>1. /\ IsFiniteSet(S \cup T)
      /\ Cardinality(S \cup T) = Cardinality(S) + Cardinality(T) - Cardinality(S \cap T)
  BY FS_Union
<1>2. Cardinality(S \cap T) = 0
  BY FS_EmptySet
<1>3. Cardinality(S) \in Nat /\ Cardinality(T) \in Nat
  BY FS_CardinalityType
<1> QED BY <1>1, <1>2, <1>3

Holders == {a \in Attempts : Holds(a)}

\* The rooms held are those locked and not released, and only a room that was
\* locked is released.
LEMMA LockersSplit ==
  ASSUME Base, RequestsInOrder
  PROVE  Lockers = Holders \cup Releasers /\ Holders \cap Releasers = {}
<1>1. ASSUME NEW a \in Releasers
      PROVE  a \in Lockers
  <2>1. PICK n \in 1 .. MaxReleases : <<a, n>> \in applied /\ a \in Attempts
    BY DEF Releasers
  <2>2. n <= tries[a] /\ tries[a] \in Nat
    BY <2>1, ReleasesAssumption DEF ReleasesAssumption, RequestsInOrder, Base, HandlerTyped
  <2>3. tries[a] > 0
    BY <2>2, ReleasesAssumption DEF ReleasesAssumption
  <2>4. <<a, 0>> \in applied
    BY <2>1, <2>3 DEF RequestsInOrder
  <2> QED BY <2>1, <2>4 DEF Lockers
<1> QED BY <1>1 DEF Lockers, Holders, Releasers, Holds

\* A room that is held is a reservation's, a running execution's, a saga's that
\* is marked, or a BLOQUEAR's whose caller gave up or was stopped.
LEMMA HoldersExplained ==
  ASSUME Base, RequestsInOrder, CompensationInOrder, Accounted, NEW a \in Attempts, Holds(a)
  PROVE  \/ a \in reservations \/ InProgress(a)
         \/ saga[a].compensation = "FAILED" \/ reply[a].code = "ResourceExhausted"
         \/ pc[a] = "crashed" /\ saga[a].status \in Interrupted
<1>1. <<a, 0>> \in applied /\ saga[a].compensation # "DONE"
  BY DEF Holds, CompensationInOrder, CompensationOf
<1>2. pc[a] # "idle"
  BY <1>1, ReleasesAssumption DEF ReleasesAssumption, RequestsInOrder
<1>3. CASE pc[a] = "done"
  <2>1. CASE tries[a] = 0
    BY <1>1, <1>3, <2>1 DEF Accounted, AccountOf
  <2>2. CASE tries[a] > 0
    BY <1>1, <1>3, <2>2 DEF CompensationInOrder, CompensationOf
  <2>3. tries[a] \in 0 .. MaxReleases
    BY DEF Base, HandlerTyped
  <2> QED BY <2>1, <2>2, <2>3, ReleasesAssumption DEF ReleasesAssumption
<1>4. CASE pc[a] = "crashed"
  BY <1>1, <1>4 DEF Accounted, AccountOf
<1> QED BY <1>2, <1>3, <1>4 DEF InProgress, Finished

\* No room is lost without a trace, in every state, also after a stop in the
\* middle of a saga: the stock misses the rooms held and no other, and each of
\* these has its reservation, its running execution, its mark in the table of
\* sagas or the answer of a caller that gave up; for any number of rooms,
\* requests and retries, as long as transitions are recorded, no INSERT commits
\* after reporting an error and no LIBERAR is applied after its caller gave up.
THEOREM NoRoomIsLost ==
  RecordIsReliable /\ InsertIsReliable /\ ReleaseIsReliable => (Spec => []EveryRoomExplained)
<1> SUFFICES ASSUME RecordIsReliable, InsertIsReliable, ReleaseIsReliable
             PROVE  Spec => []EveryRoomExplained
  OBVIOUS
<1>1. Base /\ RequestsInOrder /\ CompensationInOrder /\ Accounted /\ Ledger => EveryRoomExplained
  <2> SUFFICES ASSUME Base, RequestsInOrder, CompensationInOrder, Accounted, Ledger
               PROVE  EveryRoomExplained
    OBVIOUS
  <2>1. Lockers = Holders \cup Releasers /\ Holders \cap Releasers = {}
    BY LockersSplit
  <2>2. IsFiniteSet(Holders) /\ IsFiniteSet(Releasers)
    BY <2>1, FS_Subset DEF Ledger
  <2>3. /\ Cardinality(Holders) \in Nat /\ Cardinality(Releasers) \in Nat
        /\ Cardinality(Lockers) = Cardinality(Holders) + Cardinality(Releasers)
    BY <2>1, <2>2, DisjointUnion
  <2>4. stock \in Nat /\ InitialStock \in Nat
    BY StockAssumption DEF StockAssumption, Base, InventoryTyped
  <2>5. stock + Cardinality(Lockers) = InitialStock + Cardinality(Releasers)
    BY DEF Ledger
  <2>6. stock + Cardinality(Holders) = InitialStock
    BY <2>3, <2>4, <2>5
  <2> QED BY <2>6, HoldersExplained DEF EveryRoomExplained, Holders
<1> QED
  BY <1>1, BaseHolds, RequestsHold, CompensationHolds, AccountsHold, LedgerHolds, PTL
==============================================================================
