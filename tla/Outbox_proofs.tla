---------------------------- MODULE Outbox_proofs ----------------------------
(***************************************************************************)
(* Theorems about what leaves the machine.                                 *)
(*                                                                         *)
(* The outbox, for every set of accounts and drafts and every bound: IInv  *)
(* is the inductive invariant, the safety properties of Outbox and four    *)
(* facts about a drain that make them inductive.                           *)
(*                                                                         *)
(* The send queue, for any number of messages, attempts and crashes, with  *)
(* SendInv.                                                                *)
(***************************************************************************)
EXTENDS MCOutbox, TLAPS

(* A drain that waits for an answer has its row in flight, and only then   *)
(* it has a row.                                                           *)
JobMatchesPc ==
  \A a \in Accounts :
    IF pc[a] \in {"call", "applied"}
    THEN job[a] \in RowIds /\ status[job[a]] = "inflight" /\ owner[job[a]] = a
    ELSE job[a] = 0

(* A run is under way only in a live process, with room in its batch. *)
RunsOnlyWhileUp ==
  \A a \in Accounts :
    /\ pc[a] # "off" => up
    /\ pc[a] \in {"call", "applied"} => count[a] < MaxBatch

(* Every row was written for an account, and Gmail has applied only rows   *)
(* that were written.                                                      *)
RowsAreMade ==
  /\ \A i \in RowIds : status[i] # "absent" => owner[i] \in Accounts
  /\ \A a \in Accounts : tip[a] # 0 => status[tip[a]] # "absent"

(* A row goes into flight only when the rows before it are settled.  This  *)
(* holds through a crash too, when the row has no drain any more.          *)
InflightIsFirst ==
  \A i, j \in RowIds :
    status[i] = "inflight" /\ j < i /\ owner[j] = owner[i] => ~Open(j)

(* What Gmail applied last is the row whose answer is under way. *)
AppliedIsTip == \A a \in Accounts : pc[a] = "applied" => tip[a] = job[a]

(* An acknowledged row stays done. *)
AckedIsDone == \A i \in acked : status[i] = "done"

IInv ==
  /\ TypeOK
  /\ JobMatchesPc
  /\ RunsOnlyWhileUp
  /\ RowsAreMade
  /\ InflightIsHeld
  /\ InflightIsFirst
  /\ MaskedWhileOpen
  /\ NeverOvertaken
  /\ AppliedIsTip
  /\ AckedIsDone

-----------------------------------------------------------------------------

(* The initial states satisfy the invariant. *)
LEMMA InitIInv == Init => IInv
<1> SUFFICES ASSUME Init PROVE IInv
  OBVIOUS
<1> USE AccountsAssumption, DraftsAssumption, BoundsAssumption DEF RowIds
<1>1. TypeOK
  BY DEF Init, TypeOK, Statuses
<1>2. QED
  BY <1>1 DEF Init, IInv, JobMatchesPc, RunsOnlyWhileUp, RowsAreMade,
     InflightIsHeld, InflightIsFirst, MaskedWhileOpen, NeverOvertaken,
     AppliedIsTip, AckedIsDone, Open, OpenStatuses

(* No step changes the type of a variable. *)
LEMMA TypeStep == IInv /\ [Next]_vars => TypeOK'
<1> SUFFICES ASSUME IInv, [Next]_vars PROVE TypeOK'
  OBVIOUS
<1> USE AccountsAssumption, DraftsAssumption, BoundsAssumption
      DEF RowIds, TypeOK, Statuses, store
<1>0. TypeOK /\ JobMatchesPc /\ RunsOnlyWhileUp
  BY DEF IInv
<1>1. ASSUME NEW a \in Accounts, ChangeThread(a) PROVE TypeOK'
  BY <1>0, <1>1 DEF ChangeThread, Insert
<1>2. ASSUME NEW d \in Drafts, SaveDraft(d) PROVE TypeOK'
  BY <1>0, <1>2 DEF SaveDraft, Insert
<1>3. ASSUME NEW d \in Drafts, RemoveDraft(d) PROVE TypeOK'
  BY <1>0, <1>3 DEF RemoveDraft
<1>4. ASSUME NEW i \in RowIds, BecomeDue(i) PROVE TypeOK'
  BY <1>0, <1>4 DEF BecomeDue
<1>5. ASSUME NEW a \in Accounts, StartDrain(a) PROVE TypeOK'
  BY <1>0, <1>5 DEF StartDrain
<1>6. ASSUME NEW a \in Accounts, TakeNext(a) PROVE TypeOK'
  BY <1>0, <1>6 DEF TakeNext
<1>7. ASSUME NEW a \in Accounts, EndDrain(a) PROVE TypeOK'
  BY <1>0, <1>7 DEF EndDrain
<1>8. ASSUME NEW a \in Accounts, GmailApplies(a) PROVE TypeOK'
  BY <1>0, <1>8 DEF GmailApplies, JobMatchesPc
<1>9. ASSUME NEW a \in Accounts, Ack(a) PROVE TypeOK'
  <2>1. status' \in [RowIds -> Statuses]
    BY <1>0, <1>9 DEF Ack
  <2>2. job' \in [Accounts -> 0..MaxRows] /\ pc' \in [Accounts -> {"off", "next", "call", "applied"}]
    BY <1>0, <1>9 DEF Ack
  <2>3. count' \in [Accounts -> 0..MaxBatch]
    BY <1>0, <1>9 DEF Ack, Answered, RunsOnlyWhileUp
  <2>4. mask' \in SUBSET RowIds /\ acked' \in SUBSET RowIds /\ due' \in [RowIds -> BOOLEAN]
    BY <1>0, <1>9 DEF Ack, Answered, JobMatchesPc, LiftMask
  <2>5. auth' \in [Accounts -> {"ok", "expired"}]
    BY <1>0, <1>9 DEF Ack
  <2>6. QED
    BY <1>0, <1>9, <2>1, <2>2, <2>3, <2>4, <2>5 DEF Ack
<1>10. ASSUME NEW a \in Accounts, FailRetry(a) PROVE TypeOK'
  <2>1. status' \in [RowIds -> Statuses]
    BY <1>0, <1>10 DEF FailRetry
  <2>2. job' \in [Accounts -> 0..MaxRows] /\ pc' \in [Accounts -> {"off", "next", "call", "applied"}]
    BY <1>0, <1>10 DEF FailRetry
  <2>3. count' \in [Accounts -> 0..MaxBatch]
    BY <1>0, <1>10 DEF FailRetry, Answered, RunsOnlyWhileUp
  <2>4. mask' \in SUBSET RowIds /\ acked' \in SUBSET RowIds /\ due' \in [RowIds -> BOOLEAN]
    BY <1>0, <1>10 DEF FailRetry, Answered, JobMatchesPc, LiftMask
  <2>5. auth' \in [Accounts -> {"ok", "expired"}]
    BY <1>0, <1>10 DEF FailRetry
  <2>6. QED
    BY <1>0, <1>10, <2>1, <2>2, <2>3, <2>4, <2>5 DEF FailRetry
<1>11. ASSUME NEW a \in Accounts, FailTerminal(a) PROVE TypeOK'
  <2>1. status' \in [RowIds -> Statuses]
    BY <1>0, <1>11 DEF FailTerminal
  <2>2. job' \in [Accounts -> 0..MaxRows] /\ pc' \in [Accounts -> {"off", "next", "call", "applied"}]
    BY <1>0, <1>11 DEF FailTerminal
  <2>3. count' \in [Accounts -> 0..MaxBatch]
    BY <1>0, <1>11 DEF FailTerminal, Answered, RunsOnlyWhileUp
  <2>4. mask' \in SUBSET RowIds /\ acked' \in SUBSET RowIds /\ due' \in [RowIds -> BOOLEAN]
    BY <1>0, <1>11 DEF FailTerminal, Answered, JobMatchesPc, LiftMask
  <2>5. auth' \in [Accounts -> {"ok", "expired"}]
    BY <1>0, <1>11 DEF FailTerminal
  <2>6. QED
    BY <1>0, <1>11, <2>1, <2>2, <2>3, <2>4, <2>5 DEF FailTerminal
<1>12. ASSUME NEW a \in Accounts, FailAuth(a) PROVE TypeOK'
  <2>1. status' \in [RowIds -> Statuses]
    BY <1>0, <1>12 DEF FailAuth
  <2>2. job' \in [Accounts -> 0..MaxRows] /\ pc' \in [Accounts -> {"off", "next", "call", "applied"}]
    BY <1>0, <1>12 DEF FailAuth
  <2>3. count' \in [Accounts -> 0..MaxBatch]
    BY <1>0, <1>12 DEF FailAuth, Answered, RunsOnlyWhileUp
  <2>4. mask' \in SUBSET RowIds /\ acked' \in SUBSET RowIds /\ due' \in [RowIds -> BOOLEAN]
    BY <1>0, <1>12 DEF FailAuth, Answered, JobMatchesPc, LiftMask
  <2>5. auth' \in [Accounts -> {"ok", "expired"}]
    BY <1>0, <1>12 DEF FailAuth
  <2>6. QED
    BY <1>0, <1>12, <2>1, <2>2, <2>3, <2>4, <2>5 DEF FailAuth
<1>13. ASSUME NEW a \in Accounts, SignIn(a) PROVE TypeOK'
  BY <1>0, <1>13 DEF SignIn
<1>14. CASE Crash
  <2>1. pc' \in [Accounts -> {"off", "next", "call", "applied"}]
    BY <1>14 DEF Crash
  <2>2. job' \in [Accounts -> 0..MaxRows]
    BY <1>14 DEF Crash
  <2>3. crashes' \in 0..MaxCrashes
    <3>1. crashes \in 0..MaxCrashes /\ crashes < MaxCrashes /\ crashes' = crashes + 1
      BY <1>0, <1>14 DEF Crash
    <3>2. QED
      BY <3>1
  <2>4. up' \in BOOLEAN
    BY <1>14 DEF Crash
  <2>5. QED
    BY <1>0, <1>14, <2>1, <2>2, <2>3, <2>4 DEF Crash
<1>15. CASE Restart
  <2>1. \A i \in RowIds : AfterRestart(status[i]) \in Statuses
    BY <1>0 DEF AfterRestart
  <2>2. status' \in [RowIds -> Statuses]
    BY <1>15, <2>1 DEF Restart
  <2>3. QED
    BY <1>0, <1>15, <2>2 DEF Restart
<1>16. CASE UNCHANGED vars
  BY <1>0, <1>16 DEF vars
<1> HIDE DEF RowIds, TypeOK, Statuses, store
<1>17. ASSUME NEW a \in Accounts, Drain(a) PROVE TypeOK'
  BY <1>5, <1>6, <1>7, <1>8, <1>9, <1>10, <1>11, <1>12, <1>17 DEF Drain
<1>18. QED
  BY <1>1, <1>2, <1>3, <1>4, <1>13, <1>14, <1>15, <1>16, <1>17 DEF Next

(* Every step preserves the rest of the invariant. *)
LEMMA StepIInv == IInv /\ [Next]_vars => IInv'
<1> SUFFICES ASSUME IInv, [Next]_vars PROVE IInv'
  OBVIOUS
<1> USE AccountsAssumption, DraftsAssumption, BoundsAssumption DEF RowIds, store, Statuses
<1>t. TypeOK'
  BY TypeStep
<1>1. ASSUME NEW a \in Accounts, ChangeThread(a) PROVE IInv'
  <2>a. PICK i \in RowIds : Insert(a, NoDraft, i)
    BY <1>1 DEF ChangeThread
  <2>b. status[i] = "absent" /\ status'[i] = "pending" /\ owner'[i] \in Accounts /\ draft'[i] = NoDraft
    BY <2>a DEF Insert, IsNewRow, IInv, TypeOK
  <2>c. \A k \in RowIds : k # i => status'[k] = status[k] /\ owner'[k] = owner[k] /\ draft'[k] = draft[k]
    BY <2>a DEF Insert, IInv, TypeOK
  <2>d. \A b \in Accounts : tip[b] < i
    <3> SUFFICES ASSUME NEW b \in Accounts PROVE tip[b] < i
      OBVIOUS
    <3>1. CASE tip[b] = 0
      BY <3>1
    <3>2. CASE tip[b] # 0
      <4>1. tip[b] \in RowIds /\ status[tip[b]] # "absent"
        BY <3>2 DEF IInv, TypeOK, RowsAreMade
      <4>2. QED
        BY <2>a, <4>1 DEF Insert, IsNewRow
    <3>3. QED
      BY <3>1, <3>2
  <2>e. tip' = tip
    BY <1>1 DEF ChangeThread
  <2>1. JobMatchesPc'
    BY <1>1 DEF IInv, ChangeThread, Insert, IsNewRow, JobMatchesPc, TypeOK, InflightIsHeld
  <2>2. RunsOnlyWhileUp'
    BY <1>1 DEF IInv, ChangeThread, Insert, IsNewRow, RunsOnlyWhileUp, TypeOK, JobMatchesPc
  <2>3. RowsAreMade'
    BY <1>1 DEF IInv, ChangeThread, Insert, IsNewRow, RowsAreMade, TypeOK, JobMatchesPc, NeverOvertaken
  <2>4. InflightIsHeld'
    BY <1>1 DEF IInv, ChangeThread, Insert, IsNewRow, InflightIsHeld, JobMatchesPc, RunsOnlyWhileUp, TypeOK, RowsAreMade
  <2>5. InflightIsFirst'
    BY <1>1 DEF IInv, ChangeThread, Insert, IsNewRow, InflightIsFirst, Open, OpenStatuses, TypeOK, InflightIsHeld, JobMatchesPc, RunsOnlyWhileUp, RowsAreMade
  <2>6. MaskedWhileOpen'
    BY <1>1 DEF IInv, ChangeThread, Insert, IsNewRow, MaskedWhileOpen, Open, OpenStatuses, TypeOK, JobMatchesPc
  <2>7. NeverOvertaken'
    <3> SUFFICES ASSUME NEW b \in Accounts, NEW k \in RowIds, owner'[k] = b, Open(k)'
                 PROVE  tip[b] <= k
      BY <2>e DEF NeverOvertaken
    <3>1. CASE k = i
      BY <2>d, <3>1 DEF IInv, TypeOK
    <3>2. CASE k # i
      BY <2>c, <3>2 DEF IInv, NeverOvertaken, Open
    <3>3. QED
      BY <3>1, <3>2
  <2>8. AppliedIsTip'
    BY <1>1 DEF IInv, ChangeThread, Insert, IsNewRow, AppliedIsTip, JobMatchesPc, TypeOK
  <2>9. AckedIsDone'
    BY <1>1, <2>b, <2>c DEF IInv, ChangeThread, AckedIsDone, TypeOK
  <2>10. QED
    BY <1>t, <2>1, <2>2, <2>3, <2>4, <2>5, <2>6, <2>7, <2>8, <2>9 DEF IInv
<1>2. ASSUME NEW d \in Drafts, SaveDraft(d) PROVE IInv'
  <2>a. PICK i \in RowIds : Insert(HomeOf[d], d, i)
    BY <1>2 DEF SaveDraft
  <2>b. status[i] = "absent" /\ status'[i] = "pending" /\ owner'[i] \in Accounts /\ draft'[i] = d
    BY <2>a DEF Insert, IsNewRow, IInv, TypeOK
  <2>c. \A k \in RowIds : k # i => status'[k] = status[k] /\ owner'[k] = owner[k] /\ draft'[k] = draft[k]
    BY <2>a DEF Insert, IInv, TypeOK
  <2>d. \A b \in Accounts : tip[b] < i
    <3> SUFFICES ASSUME NEW b \in Accounts PROVE tip[b] < i
      OBVIOUS
    <3>1. CASE tip[b] = 0
      BY <3>1
    <3>2. CASE tip[b] # 0
      <4>1. tip[b] \in RowIds /\ status[tip[b]] # "absent"
        BY <3>2 DEF IInv, TypeOK, RowsAreMade
      <4>2. QED
        BY <2>a, <4>1 DEF Insert, IsNewRow
    <3>3. QED
      BY <3>1, <3>2
  <2>e. tip' = tip
    BY <1>2 DEF SaveDraft
  <2>1. JobMatchesPc'
    BY <1>2 DEF IInv, SaveDraft, Insert, IsNewRow, JobMatchesPc, TypeOK, InflightIsHeld
  <2>2. RunsOnlyWhileUp'
    BY <1>2 DEF IInv, SaveDraft, Insert, IsNewRow, RunsOnlyWhileUp, TypeOK, JobMatchesPc
  <2>3. RowsAreMade'
    BY <1>2 DEF IInv, SaveDraft, Insert, IsNewRow, RowsAreMade, TypeOK, JobMatchesPc, NeverOvertaken
  <2>4. InflightIsHeld'
    BY <1>2 DEF IInv, SaveDraft, Insert, IsNewRow, InflightIsHeld, JobMatchesPc, RunsOnlyWhileUp, TypeOK, RowsAreMade
  <2>5. InflightIsFirst'
    BY <1>2 DEF IInv, SaveDraft, Insert, IsNewRow, InflightIsFirst, Open, OpenStatuses, TypeOK, InflightIsHeld, JobMatchesPc, RunsOnlyWhileUp, RowsAreMade
  <2>6. MaskedWhileOpen'
    <3>1. mask' = mask /\ i \notin mask
      BY <1>2, <2>b DEF SaveDraft, IInv, MaskedWhileOpen, Open, OpenStatuses
    <3>2. QED
      BY <2>b, <2>c, <3>1 DEF IInv, MaskedWhileOpen, Open, OpenStatuses
  <2>7. NeverOvertaken'
    <3> SUFFICES ASSUME NEW b \in Accounts, NEW k \in RowIds, owner'[k] = b, Open(k)'
                 PROVE  tip[b] <= k
      BY <2>e DEF NeverOvertaken
    <3>1. CASE k = i
      BY <2>d, <3>1 DEF IInv, TypeOK
    <3>2. CASE k # i
      BY <2>c, <3>2 DEF IInv, NeverOvertaken, Open
    <3>3. QED
      BY <3>1, <3>2
  <2>8. AppliedIsTip'
    BY <1>2 DEF IInv, SaveDraft, Insert, IsNewRow, AppliedIsTip, JobMatchesPc, TypeOK
  <2>9. AckedIsDone'
    BY <1>2, <2>b, <2>c DEF IInv, SaveDraft, AckedIsDone, TypeOK
  <2>10. QED
    BY <1>t, <2>1, <2>2, <2>3, <2>4, <2>5, <2>6, <2>7, <2>8, <2>9 DEF IInv
<1>3. ASSUME NEW d \in Drafts, RemoveDraft(d) PROVE IInv'
  <2>1. JobMatchesPc'
    BY <1>3 DEF IInv, RemoveDraft, JobMatchesPc, TypeOK, InflightIsHeld
  <2>2. RunsOnlyWhileUp'
    BY <1>3 DEF IInv, RemoveDraft, RunsOnlyWhileUp, TypeOK, JobMatchesPc
  <2>3. RowsAreMade'
    BY <1>3 DEF IInv, RemoveDraft, RowsAreMade, TypeOK, JobMatchesPc, NeverOvertaken
  <2>4. InflightIsHeld'
    BY <1>3 DEF IInv, RemoveDraft, InflightIsHeld, JobMatchesPc, RunsOnlyWhileUp, TypeOK, RowsAreMade
  <2>5. InflightIsFirst'
    BY <1>3 DEF IInv, RemoveDraft, InflightIsFirst, Open, OpenStatuses, TypeOK, InflightIsHeld, JobMatchesPc, RunsOnlyWhileUp, RowsAreMade
  <2>6. MaskedWhileOpen'
    BY <1>3 DEF IInv, RemoveDraft, MaskedWhileOpen, Open, OpenStatuses, TypeOK, JobMatchesPc
  <2>7. NeverOvertaken'
    BY <1>3 DEF IInv, RemoveDraft, NeverOvertaken, Open, OpenStatuses, TypeOK, RowsAreMade, JobMatchesPc, InflightIsFirst
  <2>8. AppliedIsTip'
    BY <1>3 DEF IInv, RemoveDraft, AppliedIsTip, JobMatchesPc, TypeOK
  <2>9. AckedIsDone'
    BY <1>3 DEF IInv, RemoveDraft, AckedIsDone, TypeOK, JobMatchesPc
  <2>10. QED
    BY <1>t, <2>1, <2>2, <2>3, <2>4, <2>5, <2>6, <2>7, <2>8, <2>9 DEF IInv
<1>4. ASSUME NEW i \in RowIds, BecomeDue(i) PROVE IInv'
  <2>1. JobMatchesPc'
    BY <1>4 DEF IInv, BecomeDue, JobMatchesPc, TypeOK, InflightIsHeld
  <2>2. RunsOnlyWhileUp'
    BY <1>4 DEF IInv, BecomeDue, RunsOnlyWhileUp, TypeOK, JobMatchesPc
  <2>3. RowsAreMade'
    BY <1>4 DEF IInv, BecomeDue, RowsAreMade, TypeOK, JobMatchesPc, NeverOvertaken
  <2>4. InflightIsHeld'
    BY <1>4 DEF IInv, BecomeDue, InflightIsHeld, JobMatchesPc, RunsOnlyWhileUp, TypeOK, RowsAreMade
  <2>5. InflightIsFirst'
    BY <1>4 DEF IInv, BecomeDue, InflightIsFirst, Open, OpenStatuses, TypeOK, InflightIsHeld, JobMatchesPc, RunsOnlyWhileUp, RowsAreMade
  <2>6. MaskedWhileOpen'
    BY <1>4 DEF IInv, BecomeDue, MaskedWhileOpen, Open, OpenStatuses, TypeOK, JobMatchesPc
  <2>7. NeverOvertaken'
    BY <1>4 DEF IInv, BecomeDue, NeverOvertaken, Open, OpenStatuses, TypeOK, RowsAreMade, JobMatchesPc, InflightIsFirst
  <2>8. AppliedIsTip'
    BY <1>4 DEF IInv, BecomeDue, AppliedIsTip, JobMatchesPc, TypeOK
  <2>9. AckedIsDone'
    BY <1>4 DEF IInv, BecomeDue, AckedIsDone, TypeOK, JobMatchesPc
  <2>10. QED
    BY <1>t, <2>1, <2>2, <2>3, <2>4, <2>5, <2>6, <2>7, <2>8, <2>9 DEF IInv
<1>5. ASSUME NEW a \in Accounts, StartDrain(a) PROVE IInv'
  <2>1. JobMatchesPc'
    BY <1>5 DEF IInv, StartDrain, JobMatchesPc, TypeOK, InflightIsHeld
  <2>2. RunsOnlyWhileUp'
    BY <1>5 DEF IInv, StartDrain, RunsOnlyWhileUp, TypeOK, JobMatchesPc
  <2>3. RowsAreMade'
    BY <1>5 DEF IInv, StartDrain, RowsAreMade, TypeOK, JobMatchesPc, NeverOvertaken
  <2>4. InflightIsHeld'
    BY <1>5 DEF IInv, StartDrain, InflightIsHeld, JobMatchesPc, RunsOnlyWhileUp, TypeOK, RowsAreMade
  <2>5. InflightIsFirst'
    BY <1>5 DEF IInv, StartDrain, InflightIsFirst, Open, OpenStatuses, TypeOK, InflightIsHeld, JobMatchesPc, RunsOnlyWhileUp, RowsAreMade
  <2>6. MaskedWhileOpen'
    BY <1>5 DEF IInv, StartDrain, MaskedWhileOpen, Open, OpenStatuses, TypeOK, JobMatchesPc
  <2>7. NeverOvertaken'
    BY <1>5 DEF IInv, StartDrain, NeverOvertaken, Open, OpenStatuses, TypeOK, RowsAreMade, JobMatchesPc, InflightIsFirst
  <2>8. AppliedIsTip'
    BY <1>5 DEF IInv, StartDrain, AppliedIsTip, JobMatchesPc, TypeOK
  <2>9. AckedIsDone'
    BY <1>5 DEF IInv, StartDrain, AckedIsDone, TypeOK, JobMatchesPc
  <2>10. QED
    BY <1>t, <2>1, <2>2, <2>3, <2>4, <2>5, <2>6, <2>7, <2>8, <2>9 DEF IInv
<1>6. ASSUME NEW a \in Accounts, TakeNext(a) PROVE IInv'
  <2>a. up /\ pc[a] = "next" /\ job[a] = 0
    BY <1>6 DEF TakeNext, IInv, JobMatchesPc, RunsOnlyWhileUp
  <2>b. \A k \in RowIds : owner[k] = a => status[k] # "inflight"
    BY <2>a DEF IInv, InflightIsHeld, TypeOK
  <2>c. \A k \in Skipped(a) : k \in RowIds /\ owner[k] = a /\ status[k] = "pending" /\ draft[k] \in gone
    BY DEF Skipped, NothingToMirror, IInv, TypeOK
  <2>d. PICK i \in RowIds :
          /\ Taken(a, i)
          /\ status' = [k \in RowIds |-> IF k = i THEN "inflight"
                                         ELSE IF k \in Skipped(a) THEN "done"
                                         ELSE status[k]]
          /\ job' = [job EXCEPT ![a] = i]
    BY <1>6 DEF TakeNext
  <2>e. owner[i] = a /\ status[i] = "pending" /\ i \notin Skipped(a)
    BY <2>d DEF Taken, Skipped, NothingToMirror
  <2>f. status'[i] = "inflight" /\ job'[a] = i
    BY <2>d DEF IInv, TypeOK
  <2>g. \A k \in RowIds : k # i =>
          IF k \in Skipped(a) THEN status'[k] = "done" ELSE status'[k] = status[k]
    BY <2>d
  <2>h. \A b \in Accounts : b # a => job'[b] = job[b]
    BY <2>d DEF IInv, TypeOK
  <2>k. owner' = owner /\ up' = up /\ acked' = acked
    BY <1>6 DEF TakeNext
  <2>1. JobMatchesPc'
    BY <1>6 DEF IInv, TakeNext, BatchOpen, Taken, Skipped, NothingToMirror, JobMatchesPc, TypeOK, InflightIsHeld
  <2>2. RunsOnlyWhileUp'
    BY <1>6 DEF IInv, TakeNext, BatchOpen, Taken, Skipped, NothingToMirror, RunsOnlyWhileUp, TypeOK, JobMatchesPc
  <2>3. RowsAreMade'
    BY <1>6 DEF IInv, TakeNext, BatchOpen, Taken, Skipped, NothingToMirror, RowsAreMade, TypeOK, JobMatchesPc, NeverOvertaken
  <2>4. InflightIsHeld'
    <3> SUFFICES ASSUME NEW k \in RowIds
                 PROVE  status'[k] = "inflight" <=> \E b \in Accounts : job'[b] = k /\ owner[k] = b
      BY <2>k DEF InflightIsHeld
    <3>1. status[k] = "inflight" <=> \E b \in Accounts : job[b] = k /\ owner[k] = b
      BY <2>a DEF IInv, InflightIsHeld
    <3>2. CASE k = i
      BY <2>e, <2>f, <3>2
    <3>3. CASE k # i
      <4>1. status'[k] = "inflight" <=> status[k] = "inflight"
        BY <2>c, <2>g, <3>3
      <4>2. (\E b \in Accounts : job'[b] = k /\ owner[k] = b)
            <=> (\E b \in Accounts : job[b] = k /\ owner[k] = b)
        BY <2>a, <2>f, <2>h, <3>3
      <4>3. QED
        BY <3>1, <4>1, <4>2
    <3>4. QED
      BY <3>2, <3>3
  <2>5. InflightIsFirst'
    <3> SUFFICES ASSUME NEW x \in RowIds, NEW y \in RowIds,
                        status'[x] = "inflight", y < x, owner[y] = owner[x]
                 PROVE  status'[y] \notin OpenStatuses
      BY <2>k DEF InflightIsFirst, Open
    <3>1. CASE x = i
      <4>1. status[y] = "pending" => y \in Skipped(a)
        BY <2>d, <2>e, <3>1 DEF Taken, Skipped
      <4>2. y # i /\ status[y] # "inflight"
        BY <2>b, <2>e, <3>1
      <4>3. QED
        BY <2>c, <2>g, <4>1, <4>2 DEF OpenStatuses
    <3>2. CASE x # i
      <4>1. status[x] = "inflight" /\ owner[x] # a
        BY <2>b, <2>c, <2>g, <3>2
      <4>2. y # i /\ y \notin Skipped(a)
        BY <2>c, <2>e, <4>1
      <4>3. ~Open(y)
        BY <4>1 DEF IInv, InflightIsFirst
      <4>4. QED
        BY <2>g, <4>2, <4>3 DEF Open
    <3>3. QED
      BY <3>1, <3>2
  <2>6. MaskedWhileOpen'
    BY <1>6 DEF IInv, TakeNext, BatchOpen, Taken, Skipped, NothingToMirror, MaskedWhileOpen, Open, OpenStatuses, TypeOK, JobMatchesPc
  <2>7. NeverOvertaken'
    BY <1>6 DEF IInv, TakeNext, BatchOpen, Taken, Skipped, NothingToMirror, NeverOvertaken, Open, OpenStatuses, TypeOK, RowsAreMade, JobMatchesPc, InflightIsFirst
  <2>8. AppliedIsTip'
    BY <1>6 DEF IInv, TakeNext, BatchOpen, Taken, Skipped, NothingToMirror, AppliedIsTip, JobMatchesPc, TypeOK
  <2>9. AckedIsDone'
    BY <2>c, <2>e, <2>g, <2>k DEF IInv, AckedIsDone, TypeOK
  <2>10. QED
    BY <1>t, <2>1, <2>2, <2>3, <2>4, <2>5, <2>6, <2>7, <2>8, <2>9 DEF IInv
<1>7. ASSUME NEW a \in Accounts, EndDrain(a) PROVE IInv'
  <2>a. up /\ pc[a] = "next" /\ job[a] = 0
    BY <1>7 DEF EndDrain, IInv, JobMatchesPc, RunsOnlyWhileUp
  <2>b. \A k \in RowIds : owner[k] = a => status[k] # "inflight"
    BY <2>a DEF IInv, InflightIsHeld, TypeOK
  <2>c. \A k \in Skipped(a) : k \in RowIds /\ owner[k] = a /\ status[k] = "pending" /\ draft[k] \in gone
    BY DEF Skipped, NothingToMirror, IInv, TypeOK
  <2>d. \A k \in RowIds : status'[k] = status[k] \/ (k \in Skipped(a) /\ status'[k] = "done")
    BY <1>7 DEF EndDrain, IInv, TypeOK
  <2>k. owner' = owner /\ up' = up /\ job' = job /\ tip' = tip
    BY <1>7 DEF EndDrain
  <2>1. JobMatchesPc'
    BY <1>7 DEF IInv, EndDrain, BatchOpen, Taken, Skipped, NothingToMirror, JobMatchesPc, TypeOK, InflightIsHeld
  <2>2. RunsOnlyWhileUp'
    BY <1>7 DEF IInv, EndDrain, BatchOpen, Taken, Skipped, NothingToMirror, RunsOnlyWhileUp, TypeOK, JobMatchesPc
  <2>3. RowsAreMade'
    <3>1. \A k \in RowIds : status'[k] # "absent" <=> status[k] # "absent"
      BY <2>c, <2>d
    <3>2. \A b \in Accounts : tip[b] # 0 => tip[b] \in RowIds
      BY DEF IInv, TypeOK
    <3>3. QED
      BY <2>k, <3>1, <3>2 DEF IInv, RowsAreMade
  <2>4. InflightIsHeld'
    BY <2>b, <2>c, <2>d, <2>k DEF IInv, InflightIsHeld, TypeOK
  <2>5. InflightIsFirst'
    BY <2>c, <2>d, <2>k DEF IInv, InflightIsFirst, Open, OpenStatuses
  <2>6. MaskedWhileOpen'
    <3>1. mask' = mask /\ draft' = draft
      BY <1>7 DEF EndDrain
    <3>2. \A k \in Skipped(a) : draft[k] # NoDraft
      BY DraftsAssumption DEF Skipped, NothingToMirror, IInv, TypeOK
    <3>3. \A k \in RowIds : draft[k] = NoDraft => status'[k] = status[k]
      BY <2>d, <3>2
    <3>4. QED
      BY <3>1, <3>3 DEF IInv, MaskedWhileOpen, Open, OpenStatuses
  <2>7. NeverOvertaken'
    BY <1>7 DEF IInv, EndDrain, BatchOpen, Taken, Skipped, NothingToMirror, NeverOvertaken, Open, OpenStatuses, TypeOK, RowsAreMade, JobMatchesPc, InflightIsFirst
  <2>8. AppliedIsTip'
    BY <1>7 DEF IInv, EndDrain, BatchOpen, Taken, Skipped, NothingToMirror, AppliedIsTip, JobMatchesPc, TypeOK
  <2>9. AckedIsDone'
    BY <1>7 DEF IInv, EndDrain, BatchOpen, Taken, Skipped, NothingToMirror, AckedIsDone, TypeOK, JobMatchesPc
  <2>10. QED
    BY <1>t, <2>1, <2>2, <2>3, <2>4, <2>5, <2>6, <2>7, <2>8, <2>9 DEF IInv
<1>8. ASSUME NEW a \in Accounts, GmailApplies(a) PROVE IInv'
  <2>1. JobMatchesPc'
    BY <1>8 DEF IInv, GmailApplies, JobMatchesPc, TypeOK, InflightIsHeld
  <2>2. RunsOnlyWhileUp'
    BY <1>8 DEF IInv, GmailApplies, RunsOnlyWhileUp, TypeOK, JobMatchesPc
  <2>3. RowsAreMade'
    BY <1>8 DEF IInv, GmailApplies, RowsAreMade, TypeOK, JobMatchesPc, NeverOvertaken
  <2>4. InflightIsHeld'
    BY <1>8 DEF IInv, GmailApplies, InflightIsHeld, JobMatchesPc, RunsOnlyWhileUp, TypeOK, RowsAreMade
  <2>5. InflightIsFirst'
    BY <1>8 DEF IInv, GmailApplies, InflightIsFirst, Open, OpenStatuses, TypeOK, InflightIsHeld, JobMatchesPc, RunsOnlyWhileUp, RowsAreMade
  <2>6. MaskedWhileOpen'
    BY <1>8 DEF IInv, GmailApplies, MaskedWhileOpen, Open, OpenStatuses, TypeOK, JobMatchesPc
  <2>7. NeverOvertaken'
    BY <1>8 DEF IInv, GmailApplies, NeverOvertaken, Open, OpenStatuses, TypeOK, RowsAreMade, JobMatchesPc, InflightIsFirst
  <2>8. AppliedIsTip'
    BY <1>8 DEF IInv, GmailApplies, AppliedIsTip, JobMatchesPc, TypeOK
  <2>9. AckedIsDone'
    BY <1>8 DEF IInv, GmailApplies, AckedIsDone, TypeOK, JobMatchesPc
  <2>10. QED
    BY <1>t, <2>1, <2>2, <2>3, <2>4, <2>5, <2>6, <2>7, <2>8, <2>9 DEF IInv
<1>9. ASSUME NEW a \in Accounts, Ack(a) PROVE IInv'
  <2>1. JobMatchesPc'
    BY <1>9 DEF IInv, Ack, Answered, LiftMask, JobMatchesPc, TypeOK, InflightIsHeld
  <2>2. RunsOnlyWhileUp'
    BY <1>9 DEF IInv, Ack, Answered, LiftMask, RunsOnlyWhileUp, TypeOK, JobMatchesPc
  <2>3. RowsAreMade'
    BY <1>9 DEF IInv, Ack, Answered, LiftMask, RowsAreMade, TypeOK, JobMatchesPc, NeverOvertaken
  <2>4. InflightIsHeld'
    BY <1>9 DEF IInv, Ack, Answered, LiftMask, InflightIsHeld, JobMatchesPc, RunsOnlyWhileUp, TypeOK, RowsAreMade
  <2>5. InflightIsFirst'
    BY <1>9 DEF IInv, Ack, Answered, LiftMask, InflightIsFirst, Open, OpenStatuses, TypeOK, InflightIsHeld, JobMatchesPc, RunsOnlyWhileUp, RowsAreMade
  <2>6. MaskedWhileOpen'
    BY <1>9 DEF IInv, Ack, Answered, LiftMask, MaskedWhileOpen, Open, OpenStatuses, TypeOK, JobMatchesPc
  <2>7. NeverOvertaken'
    BY <1>9 DEF IInv, Ack, Answered, LiftMask, NeverOvertaken, Open, OpenStatuses, TypeOK, RowsAreMade, JobMatchesPc, InflightIsFirst
  <2>8. AppliedIsTip'
    BY <1>9 DEF IInv, Ack, Answered, LiftMask, AppliedIsTip, JobMatchesPc, TypeOK
  <2>9. AckedIsDone'
    BY <1>9 DEF IInv, Ack, Answered, LiftMask, AckedIsDone, TypeOK, JobMatchesPc
  <2>10. QED
    BY <1>t, <2>1, <2>2, <2>3, <2>4, <2>5, <2>6, <2>7, <2>8, <2>9 DEF IInv
<1>10. ASSUME NEW a \in Accounts, FailRetry(a) PROVE IInv'
  <2>1. JobMatchesPc'
    BY <1>10 DEF IInv, FailRetry, JobMatchesPc, TypeOK, InflightIsHeld
  <2>2. RunsOnlyWhileUp'
    BY <1>10 DEF IInv, FailRetry, RunsOnlyWhileUp, TypeOK, JobMatchesPc
  <2>3. RowsAreMade'
    BY <1>10 DEF IInv, FailRetry, RowsAreMade, TypeOK, JobMatchesPc, NeverOvertaken
  <2>4. InflightIsHeld'
    BY <1>10 DEF IInv, FailRetry, InflightIsHeld, JobMatchesPc, RunsOnlyWhileUp, TypeOK, RowsAreMade
  <2>5. InflightIsFirst'
    BY <1>10 DEF IInv, FailRetry, InflightIsFirst, Open, OpenStatuses, TypeOK, InflightIsHeld, JobMatchesPc, RunsOnlyWhileUp, RowsAreMade
  <2>6. MaskedWhileOpen'
    BY <1>10 DEF IInv, FailRetry, MaskedWhileOpen, Open, OpenStatuses, TypeOK, JobMatchesPc
  <2>7. NeverOvertaken'
    BY <1>10 DEF IInv, FailRetry, NeverOvertaken, Open, OpenStatuses, TypeOK, RowsAreMade, JobMatchesPc, InflightIsFirst
  <2>8. AppliedIsTip'
    BY <1>10 DEF IInv, FailRetry, AppliedIsTip, JobMatchesPc, TypeOK
  <2>9. AckedIsDone'
    BY <1>10 DEF IInv, FailRetry, AckedIsDone, TypeOK, JobMatchesPc
  <2>10. QED
    BY <1>t, <2>1, <2>2, <2>3, <2>4, <2>5, <2>6, <2>7, <2>8, <2>9 DEF IInv
<1>11. ASSUME NEW a \in Accounts, FailTerminal(a) PROVE IInv'
  <2>1. JobMatchesPc'
    BY <1>11 DEF IInv, FailTerminal, LiftMask, JobMatchesPc, TypeOK, InflightIsHeld
  <2>2. RunsOnlyWhileUp'
    BY <1>11 DEF IInv, FailTerminal, LiftMask, RunsOnlyWhileUp, TypeOK, JobMatchesPc
  <2>3. RowsAreMade'
    BY <1>11 DEF IInv, FailTerminal, LiftMask, RowsAreMade, TypeOK, JobMatchesPc, NeverOvertaken
  <2>4. InflightIsHeld'
    BY <1>11 DEF IInv, FailTerminal, LiftMask, InflightIsHeld, JobMatchesPc, RunsOnlyWhileUp, TypeOK, RowsAreMade
  <2>5. InflightIsFirst'
    BY <1>11 DEF IInv, FailTerminal, LiftMask, InflightIsFirst, Open, OpenStatuses, TypeOK, InflightIsHeld, JobMatchesPc, RunsOnlyWhileUp, RowsAreMade
  <2>6. MaskedWhileOpen'
    BY <1>11 DEF IInv, FailTerminal, LiftMask, MaskedWhileOpen, Open, OpenStatuses, TypeOK, JobMatchesPc
  <2>7. NeverOvertaken'
    BY <1>11 DEF IInv, FailTerminal, LiftMask, NeverOvertaken, Open, OpenStatuses, TypeOK, RowsAreMade, JobMatchesPc, InflightIsFirst
  <2>8. AppliedIsTip'
    BY <1>11 DEF IInv, FailTerminal, LiftMask, AppliedIsTip, JobMatchesPc, TypeOK
  <2>9. AckedIsDone'
    BY <1>11 DEF IInv, FailTerminal, LiftMask, AckedIsDone, TypeOK, JobMatchesPc
  <2>10. QED
    BY <1>t, <2>1, <2>2, <2>3, <2>4, <2>5, <2>6, <2>7, <2>8, <2>9 DEF IInv
<1>12. ASSUME NEW a \in Accounts, FailAuth(a) PROVE IInv'
  <2>1. JobMatchesPc'
    BY <1>12 DEF IInv, FailAuth, LiftMask, JobMatchesPc, TypeOK, InflightIsHeld
  <2>2. RunsOnlyWhileUp'
    BY <1>12 DEF IInv, FailAuth, LiftMask, RunsOnlyWhileUp, TypeOK, JobMatchesPc
  <2>3. RowsAreMade'
    BY <1>12 DEF IInv, FailAuth, LiftMask, RowsAreMade, TypeOK, JobMatchesPc, NeverOvertaken
  <2>4. InflightIsHeld'
    BY <1>12 DEF IInv, FailAuth, LiftMask, InflightIsHeld, JobMatchesPc, RunsOnlyWhileUp, TypeOK, RowsAreMade
  <2>5. InflightIsFirst'
    BY <1>12 DEF IInv, FailAuth, LiftMask, InflightIsFirst, Open, OpenStatuses, TypeOK, InflightIsHeld, JobMatchesPc, RunsOnlyWhileUp, RowsAreMade
  <2>6. MaskedWhileOpen'
    BY <1>12 DEF IInv, FailAuth, LiftMask, MaskedWhileOpen, Open, OpenStatuses, TypeOK, JobMatchesPc
  <2>7. NeverOvertaken'
    BY <1>12 DEF IInv, FailAuth, LiftMask, NeverOvertaken, Open, OpenStatuses, TypeOK, RowsAreMade, JobMatchesPc, InflightIsFirst
  <2>8. AppliedIsTip'
    BY <1>12 DEF IInv, FailAuth, LiftMask, AppliedIsTip, JobMatchesPc, TypeOK
  <2>9. AckedIsDone'
    BY <1>12 DEF IInv, FailAuth, LiftMask, AckedIsDone, TypeOK, JobMatchesPc
  <2>10. QED
    BY <1>t, <2>1, <2>2, <2>3, <2>4, <2>5, <2>6, <2>7, <2>8, <2>9 DEF IInv
<1>13. ASSUME NEW a \in Accounts, SignIn(a) PROVE IInv'
  <2>1. JobMatchesPc'
    BY <1>13 DEF IInv, SignIn, JobMatchesPc, TypeOK, InflightIsHeld
  <2>2. RunsOnlyWhileUp'
    BY <1>13 DEF IInv, SignIn, RunsOnlyWhileUp, TypeOK, JobMatchesPc
  <2>3. RowsAreMade'
    BY <1>13 DEF IInv, SignIn, RowsAreMade, TypeOK, JobMatchesPc, NeverOvertaken
  <2>4. InflightIsHeld'
    BY <1>13 DEF IInv, SignIn, InflightIsHeld, JobMatchesPc, RunsOnlyWhileUp, TypeOK, RowsAreMade
  <2>5. InflightIsFirst'
    BY <1>13 DEF IInv, SignIn, InflightIsFirst, Open, OpenStatuses, TypeOK, InflightIsHeld, JobMatchesPc, RunsOnlyWhileUp, RowsAreMade
  <2>6. MaskedWhileOpen'
    BY <1>13 DEF IInv, SignIn, MaskedWhileOpen, Open, OpenStatuses, TypeOK, JobMatchesPc
  <2>7. NeverOvertaken'
    BY <1>13 DEF IInv, SignIn, NeverOvertaken, Open, OpenStatuses, TypeOK, RowsAreMade, JobMatchesPc, InflightIsFirst
  <2>8. AppliedIsTip'
    BY <1>13 DEF IInv, SignIn, AppliedIsTip, JobMatchesPc, TypeOK
  <2>9. AckedIsDone'
    BY <1>13 DEF IInv, SignIn, AckedIsDone, TypeOK, JobMatchesPc
  <2>10. QED
    BY <1>t, <2>1, <2>2, <2>3, <2>4, <2>5, <2>6, <2>7, <2>8, <2>9 DEF IInv
<1>14. CASE Crash
  <2>1. JobMatchesPc'
    BY <1>14 DEF IInv, Crash, JobMatchesPc, TypeOK, InflightIsHeld
  <2>2. RunsOnlyWhileUp'
    BY <1>14 DEF IInv, Crash, RunsOnlyWhileUp, TypeOK, JobMatchesPc
  <2>3. RowsAreMade'
    BY <1>14 DEF IInv, Crash, RowsAreMade, TypeOK, JobMatchesPc, NeverOvertaken
  <2>4. InflightIsHeld'
    BY <1>14 DEF IInv, Crash, InflightIsHeld, JobMatchesPc, RunsOnlyWhileUp, TypeOK, RowsAreMade
  <2>5. InflightIsFirst'
    BY <1>14 DEF IInv, Crash, InflightIsFirst, Open, OpenStatuses, TypeOK, InflightIsHeld, JobMatchesPc, RunsOnlyWhileUp, RowsAreMade
  <2>6. MaskedWhileOpen'
    BY <1>14 DEF IInv, Crash, MaskedWhileOpen, Open, OpenStatuses, TypeOK, JobMatchesPc
  <2>7. NeverOvertaken'
    BY <1>14 DEF IInv, Crash, NeverOvertaken, Open, OpenStatuses, TypeOK, RowsAreMade, JobMatchesPc, InflightIsFirst
  <2>8. AppliedIsTip'
    BY <1>14 DEF IInv, Crash, AppliedIsTip, JobMatchesPc, TypeOK
  <2>9. AckedIsDone'
    BY <1>14 DEF IInv, Crash, AckedIsDone, TypeOK, JobMatchesPc
  <2>10. QED
    BY <1>t, <2>1, <2>2, <2>3, <2>4, <2>5, <2>6, <2>7, <2>8, <2>9 DEF IInv
<1>15. CASE Restart
  <2>a. \A b \in Accounts : pc[b] = "off" /\ job[b] = 0
    BY <1>15 DEF Restart, IInv, RunsOnlyWhileUp, JobMatchesPc
  <2>b. \A k \in RowIds : status'[k] = AfterRestart(status[k]) /\ status'[k] # "inflight"
    BY <1>15 DEF Restart, AfterRestart
  <2>c. pc' = pc /\ job' = job
    BY <1>15 DEF Restart
  <2>1. JobMatchesPc'
    BY <2>a, <2>c DEF JobMatchesPc
  <2>2. RunsOnlyWhileUp'
    BY <1>15 DEF IInv, Restart, AfterRestart, RunsOnlyWhileUp, TypeOK, JobMatchesPc
  <2>3. RowsAreMade'
    BY <1>15 DEF IInv, Restart, AfterRestart, RowsAreMade, TypeOK, JobMatchesPc, NeverOvertaken
  <2>4. InflightIsHeld'
    BY <2>a, <2>b, <2>c DEF InflightIsHeld
  <2>5. InflightIsFirst'
    BY <1>15 DEF IInv, Restart, AfterRestart, InflightIsFirst, Open, OpenStatuses, TypeOK, InflightIsHeld, JobMatchesPc, RunsOnlyWhileUp, RowsAreMade
  <2>6. MaskedWhileOpen'
    BY <1>15 DEF IInv, Restart, AfterRestart, MaskedWhileOpen, Open, OpenStatuses, TypeOK, JobMatchesPc
  <2>7. NeverOvertaken'
    BY <1>15 DEF IInv, Restart, AfterRestart, NeverOvertaken, Open, OpenStatuses, TypeOK, RowsAreMade, JobMatchesPc, InflightIsFirst
  <2>8. AppliedIsTip'
    BY <1>15 DEF IInv, Restart, AfterRestart, AppliedIsTip, JobMatchesPc, TypeOK
  <2>9. AckedIsDone'
    BY <1>15 DEF IInv, Restart, AfterRestart, AckedIsDone, TypeOK, JobMatchesPc
  <2>10. QED
    BY <1>t, <2>1, <2>2, <2>3, <2>4, <2>5, <2>6, <2>7, <2>8, <2>9 DEF IInv
<1>16. CASE UNCHANGED vars
  BY <1>t, <1>16 DEF vars, IInv, JobMatchesPc, RunsOnlyWhileUp, RowsAreMade, InflightIsHeld,
     InflightIsFirst, MaskedWhileOpen, NeverOvertaken, AppliedIsTip, AckedIsDone, Open
<1> HIDE DEF RowIds, store, Statuses
<1>17. ASSUME NEW a \in Accounts, Drain(a) PROVE IInv'
  BY <1>5, <1>6, <1>7, <1>8, <1>9, <1>10, <1>11, <1>12, <1>17 DEF Drain
<1>18. QED
  BY <1>1, <1>2, <1>3, <1>4, <1>13, <1>14, <1>15, <1>16, <1>17 DEF Next

-----------------------------------------------------------------------------

(* The invariant holds in every reachable state. *)
THEOREM Invariance == Spec => []IInv
<1>1. Init => IInv
  BY InitIInv
<1>2. IInv /\ [Next]_vars => IInv'
  BY StepIInv
<1>3. QED
  BY <1>1, <1>2, PTL DEF Spec

(* Every variable keeps its type. *)
THEOREM TypeCorrect == Spec => []TypeOK
<1>1. IInv => TypeOK
  BY DEF IInv
<1>2. QED
  BY <1>1, Invariance, PTL

(* A thread is masked exactly while a change of it is open: the mask and   *)
(* the row live and die together through answers, refusals and crashes.    *)
THEOREM MaskCorrect == Spec => []MaskedWhileOpen
<1>1. IInv => MaskedWhileOpen
  BY DEF IInv
<1>2. QED
  BY <1>1, Invariance, PTL

(* No row stays in flight without a drain that answers for it. *)
THEOREM NoLostRow == Spec => []InflightIsHeld
<1>1. IInv => InflightIsHeld
  BY DEF IInv
<1>2. QED
  BY <1>1, Invariance, PTL

(* An earlier change is never overtaken by a later one of its account. *)
THEOREM Order == Spec => []NeverOvertaken
<1>1. IInv => NeverOvertaken
  BY DEF IInv
<1>2. QED
  BY <1>1, Invariance, PTL

(* Gmail never goes back to an older change.  Only GmailApplies moves tip, *)
(* and the row in flight is open, so NeverOvertaken bounds tip by it.      *)
THEOREM NoRegression == Spec => NeverGoesBack
<1>1. IInv /\ [Next]_vars => [\A a \in Accounts : tip'[a] >= tip[a]]_vars
  <2> SUFFICES ASSUME IInv, [Next]_vars, NEW b \in Accounts
               PROVE  tip'[b] >= tip[b]
    OBVIOUS
  <2>0. tip[b] >= tip[b]
    BY BoundsAssumption DEF IInv, TypeOK
  <2>1. ASSUME NEW a \in Accounts, GmailApplies(a) PROVE tip'[b] >= tip[b]
    <3>1. job[a] \in RowIds /\ owner[job[a]] = a /\ Open(job[a])
      BY <2>1 DEF IInv, JobMatchesPc, GmailApplies, Open, OpenStatuses
    <3>2. tip[a] <= job[a]
      BY <3>1 DEF IInv, NeverOvertaken
    <3>3. tip'[b] = IF b = a THEN job[a] ELSE tip[b]
      BY <2>1 DEF GmailApplies, IInv, TypeOK
    <3>4. QED
      BY <2>0, <3>1, <3>2, <3>3, BoundsAssumption DEF IInv, TypeOK, RowIds
  <2>2. CASE tip' = tip
    BY <2>0, <2>2
  <2>3. tip' = tip \/ \E a \in Accounts : GmailApplies(a)
    BY DEF Next, Drain, ChangeThread, SaveDraft, RemoveDraft, BecomeDue, StartDrain,
       TakeNext, EndDrain, Ack, FailRetry, FailTerminal, FailAuth, SignIn, Crash, Restart, vars
  <2>4. QED
    BY <2>1, <2>2, <2>3
<1>2. QED
  BY <1>1, Invariance, PTL DEF Spec, NeverGoesBack

-----------------------------------------------------------------------------

(* The abstract phase of a row, read off its status. *)
LEMMA PhaseFacts ==
  ASSUME NEW i \in RowIds, TypeOK
  PROVE  /\ PhaseOf(i) = "unmade" <=> status[i] = "absent"
         /\ PhaseOf(i) = "open" <=> Open(i)
         /\ PhaseOf(i) = "refused" <=> status[i] = "failed"
         /\ PhaseOf(i) = "delivered" <=> status[i] \in {"done", "deleted"} /\ i \in acked
         /\ PhaseOf(i) = "withdrawn" <=> status[i] \in {"done", "deleted"} /\ i \notin acked
<1>1. status[i] \in Statuses
  BY DEF TypeOK
<1>2. QED
  BY <1>1 DEF PhaseOf, Open, OpenStatuses, Statuses

(* Only a row whose status changed, or that was acknowledged, can change   *)
(* its phase.                                                              *)
LEMMA SamePhase ==
  ASSUME NEW i \in RowIds, status'[i] = status[i], i \in acked' <=> i \in acked
  PROVE  PhaseOf(i)' = PhaseOf(i)
BY DEF PhaseOf, Open

(* A row in flight is the first open change of its account. *)
LEMMA InflightFirstOpen ==
  ASSUME IInv, NEW a \in Accounts, pc[a] \in {"call", "applied"}
  PROVE  job[a] \in RowIds /\ Abstract!FirstOpen(a, job[a])
<1>1. job[a] \in RowIds /\ status[job[a]] = "inflight" /\ owner[job[a]] = a
  BY DEF IInv, JobMatchesPc
<1>2. \A j \in RowIds : j < job[a] /\ owner[j] = a => ~Open(j)
  BY <1>1 DEF IInv, InflightIsFirst
<1>3. \A j \in RowIds : PhaseOf(j) = "open" <=> Open(j)
  BY PhaseFacts DEF IInv
<1>4. QED
  BY <1>1, <1>2, <1>3 DEF Abstract!FirstOpen, Abstract!RowIds, RowIds, Open, OpenStatuses

(* A step of the outbox is a step of ordered delivery, or none. *)
LEMMA StepRefines ==
  ASSUME IInv, IInv', [Next]_vars
  PROVE  [Abstract!Next]_(Abstract!vars)
<1> DEFINE phase == [i \in RowIds |-> PhaseOf(i)]
<1> USE DEF Abstract!RowIds
<1>0. TypeOK /\ TypeOK'
  BY DEF IInv
<1>s. ASSUME owner' = owner, tip' = tip, status' = status, acked' = acked
      PROVE  UNCHANGED Abstract!vars
  <2>1. \A i \in RowIds : PhaseOf(i)' = PhaseOf(i)
    BY <1>s, SamePhase
  <2>2. QED
    BY <1>s, <2>1 DEF Abstract!vars, RowIds
<1>i. ASSUME NEW a \in Accounts, NEW d, NEW i \in RowIds, Insert(a, d, i), tip' = tip, acked' = acked
      PROVE  Abstract!Next
  <2>1. status[i] = "absent" /\ status'[i] = "pending" /\ owner' = [owner EXCEPT ![i] = a]
    <3>1. status[i] = "absent"
      BY <1>i, BoundsAssumption DEF Insert, IsNewRow, RowIds
    <3>2. QED
      BY <1>i, <1>0, <3>1 DEF Insert, TypeOK
  <2>2. \A k \in RowIds : k # i => PhaseOf(k)' = PhaseOf(k)
    <3>1. \A k \in RowIds : k # i => status'[k] = status[k]
      BY <1>i, <1>0 DEF Insert, TypeOK
    <3>2. QED
      BY <1>i, <3>1, SamePhase
  <2>3. PhaseOf(i) = "unmade" /\ PhaseOf(i)' = "open"
    BY <2>1 DEF PhaseOf, Open, OpenStatuses
  <2>4. phase' = [phase EXCEPT ![i] = "open"]
    BY <2>2, <2>3 DEF RowIds
  <2>5. \A j \in RowIds : j < i <=> PhaseOf(j) # "unmade"
    BY <1>i, <1>0, PhaseFacts DEF Insert, IsNewRow
  <2>6. Abstract!Submit(a, i)
    BY <1>i, <2>1, <2>3, <2>4, <2>5 DEF Abstract!Submit, RowIds
  <2>7. QED
    BY <2>6 DEF Abstract!Next, RowIds
<1>w. ASSUME NEW S \in SUBSET RowIds, owner' = owner, tip' = tip, acked' = acked,
             \A k \in S : status[k] = "pending" /\ status'[k] \in {"done", "deleted"},
             \A k \in RowIds \ S : PhaseOf(k)' = PhaseOf(k)
      PROVE  Abstract!Next
  <2>1. \A k \in S : PhaseOf(k) = "open" /\ PhaseOf(k)' = "withdrawn"
    <3> SUFFICES ASSUME NEW k \in S PROVE PhaseOf(k) = "open" /\ PhaseOf(k)' = "withdrawn"
      OBVIOUS
    <3>1. k \notin acked
      BY <1>w DEF IInv, AckedIsDone
    <3>2. QED
      BY <1>w, <3>1 DEF PhaseOf, Open, OpenStatuses
  <2>2. phase' = [k \in RowIds |-> IF k \in S THEN "withdrawn" ELSE phase[k]]
    BY <1>w, <2>1 DEF RowIds
  <2>3. Abstract!Withdraw(S)
    BY <1>w, <2>1, <2>2 DEF Abstract!Withdraw, RowIds
  <2>4. QED
    BY <2>3 DEF Abstract!Next, RowIds
<1>j. ASSUME NEW i \in RowIds, NEW p,
             \A k \in RowIds : k # i => status'[k] = status[k] /\ (k \in acked' <=> k \in acked),
             PhaseOf(i)' = p
      PROVE  phase' = [phase EXCEPT ![i] = p]
  <2>1. \A k \in RowIds : k # i => PhaseOf(k)' = PhaseOf(k)
    BY <1>j, SamePhase
  <2>2. QED
    BY <1>j, <2>1 DEF RowIds
<1>1. ASSUME NEW a \in Accounts, ChangeThread(a) PROVE Abstract!Next
  BY <1>1, <1>i DEF ChangeThread
<1>2. ASSUME NEW d \in Drafts, SaveDraft(d) PROVE Abstract!Next
  BY <1>2, <1>i, DraftsAssumption DEF SaveDraft
<1>3. ASSUME NEW d \in Drafts, RemoveDraft(d) PROVE Abstract!Next
  <2> DEFINE S == {i \in RowIds : draft[i] = d /\ status[i] = "pending"}
  <2>1. \A k \in S : status[k] = "pending" /\ status'[k] = "deleted"
    BY <1>3 DEF RemoveDraft
  <2>2. \A k \in RowIds \ S : PhaseOf(k)' = PhaseOf(k)
    BY <1>3, SamePhase DEF RemoveDraft
  <2>3. QED
    BY <1>3, <1>w, <2>1, <2>2 DEF RemoveDraft
<1>4. ASSUME NEW i \in RowIds, BecomeDue(i) PROVE UNCHANGED Abstract!vars
  BY <1>4, <1>s DEF BecomeDue
<1>5. ASSUME NEW a \in Accounts, StartDrain(a) PROVE UNCHANGED Abstract!vars
  BY <1>5, <1>s DEF StartDrain, store
<1>6. ASSUME NEW a \in Accounts, TakeNext(a) PROVE Abstract!Next
  <2>1. PICK i \in RowIds :
          /\ Taken(a, i)
          /\ status' = [k \in RowIds |-> IF k = i THEN "inflight"
                                         ELSE IF k \in Skipped(a) THEN "done"
                                         ELSE status[k]]
    BY <1>6 DEF TakeNext
  <2>2. i \notin Skipped(a) /\ status[i] = "pending" /\ status'[i] = "inflight"
    BY <2>1, BoundsAssumption DEF Taken, Skipped, NothingToMirror, RowIds
  <2>3. PhaseOf(i)' = PhaseOf(i)
    BY <2>2 DEF PhaseOf, Open, OpenStatuses
  <2>4. \A k \in Skipped(a) : k \in RowIds /\ status[k] = "pending" /\ status'[k] = "done"
    BY <2>1, <2>2 DEF Skipped
  <2>5. \A k \in RowIds \ Skipped(a) : PhaseOf(k)' = PhaseOf(k)
    BY <1>6, <2>1, <2>3, SamePhase DEF TakeNext
  <2>6. QED
    BY <1>6, <1>w, <2>4, <2>5 DEF TakeNext
<1>7. ASSUME NEW a \in Accounts, EndDrain(a)
      PROVE  Abstract!Next \/ UNCHANGED Abstract!vars
  <2>1. CASE status' = status
    BY <1>7, <1>s, <2>1 DEF EndDrain
  <2>2. CASE status' = [k \in RowIds |-> IF k \in Skipped(a) THEN "done" ELSE status[k]]
    <3>1. \A k \in Skipped(a) : k \in RowIds /\ status[k] = "pending" /\ status'[k] = "done"
      BY <2>2 DEF Skipped
    <3>2. \A k \in RowIds \ Skipped(a) : PhaseOf(k)' = PhaseOf(k)
      BY <1>7, <2>2, SamePhase DEF EndDrain
    <3>3. QED
      BY <1>7, <1>w, <3>1, <3>2 DEF EndDrain
  <2>3. QED
    BY <1>7, <2>1, <2>2 DEF EndDrain
<1>8. ASSUME NEW a \in Accounts, GmailApplies(a) PROVE Abstract!Next
  <2>1. job[a] \in RowIds /\ Abstract!FirstOpen(a, job[a])
    BY <1>8, InflightFirstOpen DEF GmailApplies
  <2>2. \A k \in RowIds : PhaseOf(k)' = PhaseOf(k)
    BY <1>8, SamePhase DEF GmailApplies, store
  <2>3. Abstract!Deliver(a, job[a])
    BY <1>8, <2>1, <2>2 DEF GmailApplies, Abstract!Deliver, store, RowIds
  <2>4. QED
    BY <2>1, <2>3 DEF Abstract!Next, RowIds
<1>9. ASSUME NEW a \in Accounts, Ack(a) PROVE Abstract!Next
  <2>1. PICK i \in RowIds : i = job[a] /\ Abstract!FirstOpen(a, i)
    BY <1>9, InflightFirstOpen DEF Ack, Answered
  <2>2. tip[a] = i
    BY <1>9, <2>1 DEF Ack, Answered, IInv, AppliedIsTip
  <2>3. status'[i] = "done" /\ i \in acked'
    BY <1>0, <1>9, <2>1 DEF Ack, TypeOK
  <2>4. \A k \in RowIds : k # i => status'[k] = status[k] /\ (k \in acked' <=> k \in acked)
    BY <1>0, <1>9, <2>1 DEF Ack, TypeOK
  <2>5. PhaseOf(i)' = "delivered"
    BY <2>3 DEF PhaseOf, Open, OpenStatuses
  <2>6. phase' = [phase EXCEPT ![i] = "delivered"]
    BY <1>j, <2>4, <2>5
  <2>7. Abstract!Confirm(a, i)
    BY <1>9, <2>1, <2>2, <2>6 DEF Ack, Abstract!Confirm, RowIds
  <2>8. QED
    BY <2>1, <2>7 DEF Abstract!Next, RowIds
<1>10. ASSUME NEW a \in Accounts, FailRetry(a) PROVE UNCHANGED Abstract!vars
  <2>1. PICK i \in RowIds : i = job[a] /\ status[i] = "inflight" /\ status'[i] = "pending"
    BY <1>0, <1>10 DEF FailRetry, IInv, JobMatchesPc, TypeOK
  <2>2. \A k \in RowIds : k # i => status'[k] = status[k]
    BY <1>0, <1>10, <2>1 DEF FailRetry, TypeOK
  <2>3. \A k \in RowIds : k # i => PhaseOf(k)' = PhaseOf(k)
    BY <1>10, <2>2, SamePhase DEF FailRetry
  <2>4. PhaseOf(i)' = PhaseOf(i)
    BY <2>1 DEF PhaseOf, Open, OpenStatuses
  <2>5. QED
    BY <1>10, <2>3, <2>4 DEF FailRetry, Abstract!vars, RowIds
<1>11. ASSUME NEW a \in Accounts, FailTerminal(a) \/ FailAuth(a) PROVE Abstract!Next
  <2>0. /\ pc[a] \in {"call", "applied"}
        /\ status' = [status EXCEPT ![job[a]] = "failed"]
        /\ owner' = owner /\ tip' = tip /\ acked' = acked
    BY <1>11 DEF FailTerminal, FailAuth
  <2>1. PICK i \in RowIds : i = job[a] /\ Abstract!FirstOpen(a, i)
    BY <2>0, InflightFirstOpen
  <2>2. status'[i] = "failed"
    BY <1>0, <2>0, <2>1 DEF TypeOK
  <2>3. \A k \in RowIds : k # i => status'[k] = status[k] /\ (k \in acked' <=> k \in acked)
    BY <1>0, <2>0, <2>1 DEF TypeOK
  <2>4. PhaseOf(i)' = "refused"
    BY <2>2 DEF PhaseOf, Open, OpenStatuses
  <2>5. phase' = [phase EXCEPT ![i] = "refused"]
    BY <1>j, <2>3, <2>4
  <2>6. Abstract!Refuse(a, i)
    BY <2>0, <2>1, <2>5 DEF Abstract!Refuse, RowIds
  <2>7. QED
    BY <2>1, <2>6 DEF Abstract!Next, RowIds
<1>12. ASSUME NEW a \in Accounts, SignIn(a) PROVE UNCHANGED Abstract!vars
  BY <1>12, <1>s DEF SignIn
<1>13. CASE Crash
  BY <1>13, <1>s DEF Crash, store
<1>14. CASE Restart
  <2>1. \A k \in RowIds : PhaseOf(k)' = PhaseOf(k)
    BY <1>14 DEF Restart, AfterRestart, PhaseOf, Open, OpenStatuses
  <2>2. QED
    BY <1>14, <2>1 DEF Restart, Abstract!vars, RowIds
<1>15. CASE UNCHANGED vars
  BY <1>15, <1>s DEF vars
<1>16. ASSUME NEW a \in Accounts, Drain(a) PROVE Abstract!Next \/ UNCHANGED Abstract!vars
  BY <1>5, <1>6, <1>7, <1>8, <1>9, <1>10, <1>11, <1>16 DEF Drain
<1>17. QED
  BY <1>1, <1>2, <1>3, <1>4, <1>12, <1>13, <1>14, <1>15, <1>16 DEF Next

(* The outbox implements ordered delivery: every behaviour of the table    *)
(* and its drains is one of the abstract specification.                    *)
THEOREM Refinement == Spec => ImplementsOrderedDelivery
<1>1. Init => Abstract!Init
  BY DEF Init, Abstract!Init, Abstract!RowIds, RowIds, PhaseOf
<1>2. IInv /\ IInv' /\ [Next]_vars => [Abstract!Next]_(Abstract!vars)
  BY StepRefines
<1>3. QED
  BY <1>1, <1>2, Invariance, PTL DEF Spec, ImplementsOrderedDelivery, Abstract!Spec

-----------------------------------------------------------------------------
(* The send queue. *)

(* What makes the properties inductive is Settled and OnItsWay: a message  *)
(* that waits carries no acceptance that was not lost, and the one on its  *)
(* way carries at most that of the request under way.  InTurn says the     *)
(* rest: what a turn has yet to write is about messages it has settled.    *)

(* Only a live process ticks, has a message on its way, and a turn.        *)
OnlyWhileAwake ==
  ~awake => current = NoSend /\ ~ticking /\ deaths > 0 /\ dropping = {} /\ returning = {}

(* The rows of a batch have attempts left, in the bound of the model. *)
BatchHasTries == \A s \in batch : tries[s] < MaxTries

(* A message that waits, or was undone, carries no fresh acceptance. *)
Settled ==
  \A s \in Sends :
    /\ lost[s] <= accepted[s]
    /\ state[s] \in {"none", "queued", "cancelled"} => accepted[s] = lost[s]

(* What is on its way carries at most the acceptance of this request. *)
OnItsWay ==
  /\ taken => current \in Sends
  /\ \A s \in Sends :
       current = s => accepted[s] = IF taken THEN lost[s] + 1 ELSE lost[s]

(* A turn drops a receipt before it puts the draft back; what it has yet   *)
(* to put back, and what a death kept it from, is out of the queue; and    *)
(* nothing is put back once a death has come between.                      *)
InTurn ==
  /\ dropping \subseteq returning
  /\ returning \cap torn = {}
  /\ \A s \in returning \cup torn : state[s] \in Queue!Returned
  /\ \A s \in doubtful : state[s] = "failed"

SendInv ==
  /\ Queue!TypeOK
  /\ OnItsWay
  /\ OnlyWhileAwake
  /\ BatchHasTries
  /\ Settled
  /\ InTurn
  /\ Queue!SendingIsHeld
  /\ Queue!DuplicateOnlyAfterLostAnswer
  /\ Queue!UndoneIsUnsent
  /\ Queue!TextInOnePlace
  /\ Queue!ReceiptFollowsMessage

(* The initial states satisfy the invariant. *)
LEMMA SendInvInit == Queue!Init => SendInv
<1> SUFFICES ASSUME Queue!Init PROVE SendInv
  OBVIOUS
<1> USE QueueAssumption DEF Queue!SendQueueAssumption
<1>1. Queue!TypeOK
  <2>1. state \in [Sends -> Queue!Statuses]
    BY DEF Queue!Init, Queue!Statuses
  <2>2. /\ ripe \in [Sends -> BOOLEAN] /\ tries \in [Sends -> 0..MaxTries]
        /\ restored \in [Sends -> 0..1]
        /\ accepted \in [Sends -> 0..MaxTries] /\ lost \in [Sends -> 0..MaxTries]
    BY DEF Queue!Init
  <2>3. receipt \in SUBSET Armed /\ batch \in SUBSET Sends /\ current \in Sends \cup {NoSend}
    BY DEF Queue!Init
  <2>4. awake \in BOOLEAN /\ ticking \in BOOLEAN /\ taken \in BOOLEAN
    BY DEF Queue!Init
  <2>5. deaths \in 0..MaxDeaths
    BY DEF Queue!Init
  <2>6. /\ dropping \in SUBSET Sends /\ returning \in SUBSET Sends
        /\ torn \in SUBSET Sends /\ doubtful \in SUBSET Sends
    BY DEF Queue!Init
  <2>7. QED
    BY <2>1, <2>2, <2>3, <2>4, <2>5, <2>6 DEF Queue!TypeOK
<1>2. QED
  BY <1>1 DEF Queue!Init, SendInv, OnItsWay, OnlyWhileAwake, BatchHasTries, Settled, InTurn, Queue!SendingIsHeld,
     Queue!DuplicateOnlyAfterLostAnswer, Queue!UndoneIsUnsent, Queue!TextInOnePlace,
     Queue!ReceiptFollowsMessage, Queue!Returned

(* Every step preserves the invariant. *)
LEMMA SendInvStep == SendInv /\ [Queue!Next]_(Queue!vars) => SendInv'
<1> SUFFICES ASSUME SendInv, [Queue!Next]_(Queue!vars) PROVE SendInv'
  OBVIOUS
<1> USE QueueAssumption DEF Queue!SendQueueAssumption, Queue!queue, Queue!turn, Queue!tick, Queue!past
<1>1. ASSUME NEW s \in Sends, Queue!QueueSend(s) PROVE SendInv'
  <2>1. Queue!TypeOK'
    BY <1>1 DEF SendInv, Queue!QueueSend, Queue!TypeOK, Queue!Statuses, Queue!SendingIsHeld, Queue!TextInOnePlace, Queue!Returned, OnlyWhileAwake, BatchHasTries, OnItsWay, InTurn
  <2>2. OnlyWhileAwake'
    BY <1>1 DEF SendInv, Queue!QueueSend, OnlyWhileAwake, Queue!TypeOK, InTurn
  <2>3. BatchHasTries'
    BY <1>1 DEF SendInv, Queue!QueueSend, BatchHasTries, Queue!TypeOK
  <2>4. Settled'
    BY <1>1 DEF SendInv, Queue!QueueSend, Settled, Queue!TypeOK, Queue!SendingIsHeld, OnlyWhileAwake, OnItsWay
  <2>5. InTurn'
    BY <1>1 DEF SendInv, Queue!QueueSend, InTurn, Queue!TypeOK, Queue!SendingIsHeld, OnlyWhileAwake, Queue!Returned
  <2>6. Queue!SendingIsHeld'
    BY <1>1 DEF SendInv, Queue!QueueSend, Queue!SendingIsHeld, Queue!TypeOK, OnlyWhileAwake, InTurn, Queue!Returned
  <2>7. Queue!DuplicateOnlyAfterLostAnswer'
    BY <1>1 DEF SendInv, Queue!QueueSend, Queue!DuplicateOnlyAfterLostAnswer, Queue!TypeOK, Settled, OnItsWay
  <2>8. Queue!UndoneIsUnsent'
    BY <1>1 DEF SendInv, Queue!QueueSend, Queue!UndoneIsUnsent, Queue!TypeOK, Settled, Queue!SendingIsHeld, OnlyWhileAwake, OnItsWay
  <2>9. Queue!TextInOnePlace'
    BY <1>1 DEF SendInv, Queue!QueueSend, Queue!TextInOnePlace, Queue!TypeOK, Queue!SendingIsHeld, OnlyWhileAwake, Queue!Returned, InTurn
  <2>10. Queue!ReceiptFollowsMessage'
    BY <1>1 DEF SendInv, Queue!QueueSend, Queue!ReceiptFollowsMessage, Queue!TypeOK, Queue!SendingIsHeld, OnlyWhileAwake, Queue!Returned, InTurn
  <2>11. OnItsWay'
    BY <1>1 DEF SendInv, Queue!QueueSend, OnItsWay, Settled, Queue!SendingIsHeld, OnlyWhileAwake, Queue!TypeOK
  <2>12. QED
    BY <2>1, <2>2, <2>3, <2>4, <2>5, <2>6, <2>7, <2>8, <2>9, <2>10, <2>11 DEF SendInv
<1>2. ASSUME NEW s \in Sends, Queue!UndoSend(s) PROVE SendInv'
  <2>1. Queue!TypeOK'
    BY <1>2 DEF SendInv, Queue!UndoSend, Queue!Free, Queue!Cancellable, Queue!TypeOK, Queue!Statuses, Queue!SendingIsHeld, Queue!TextInOnePlace, Queue!Returned, OnlyWhileAwake, BatchHasTries, OnItsWay, InTurn
  <2>2. OnlyWhileAwake'
    BY <1>2 DEF SendInv, Queue!UndoSend, Queue!Free, Queue!Cancellable, OnlyWhileAwake, Queue!TypeOK, InTurn
  <2>3. BatchHasTries'
    BY <1>2 DEF SendInv, Queue!UndoSend, Queue!Free, Queue!Cancellable, BatchHasTries, Queue!TypeOK
  <2>4. Settled'
    BY <1>2 DEF SendInv, Queue!UndoSend, Queue!Free, Queue!Cancellable, Settled, Queue!TypeOK, Queue!SendingIsHeld, OnlyWhileAwake, OnItsWay
  <2>5. InTurn'
    BY <1>2 DEF SendInv, Queue!UndoSend, Queue!Free, Queue!Cancellable, InTurn, Queue!TypeOK, Queue!SendingIsHeld, OnlyWhileAwake, Queue!Returned
  <2>6. Queue!SendingIsHeld'
    BY <1>2 DEF SendInv, Queue!UndoSend, Queue!Free, Queue!Cancellable, Queue!SendingIsHeld, Queue!TypeOK, OnlyWhileAwake, InTurn, Queue!Returned
  <2>7. Queue!DuplicateOnlyAfterLostAnswer'
    BY <1>2 DEF SendInv, Queue!UndoSend, Queue!Free, Queue!Cancellable, Queue!DuplicateOnlyAfterLostAnswer, Queue!TypeOK, Settled, OnItsWay
  <2>8. Queue!UndoneIsUnsent'
    BY <1>2 DEF SendInv, Queue!UndoSend, Queue!Free, Queue!Cancellable, Queue!UndoneIsUnsent, Queue!TypeOK, Settled, Queue!SendingIsHeld, OnlyWhileAwake, OnItsWay
  <2>9. Queue!TextInOnePlace'
    BY <1>2 DEF SendInv, Queue!UndoSend, Queue!Free, Queue!Cancellable, Queue!TextInOnePlace, Queue!TypeOK, Queue!SendingIsHeld, OnlyWhileAwake, Queue!Returned, InTurn
  <2>10. Queue!ReceiptFollowsMessage'
    BY <1>2 DEF SendInv, Queue!UndoSend, Queue!Free, Queue!Cancellable, Queue!ReceiptFollowsMessage, Queue!TypeOK, Queue!SendingIsHeld, OnlyWhileAwake, Queue!Returned, InTurn
  <2>11. OnItsWay'
    BY <1>2 DEF SendInv, Queue!UndoSend, Queue!Free, Queue!Cancellable, OnItsWay, Settled, Queue!SendingIsHeld, OnlyWhileAwake, Queue!TypeOK
  <2>12. QED
    BY <2>1, <2>2, <2>3, <2>4, <2>5, <2>6, <2>7, <2>8, <2>9, <2>10, <2>11 DEF SendInv
<1>3. ASSUME NEW s \in Sends, Queue!DropReceipt(s) PROVE SendInv'
  <2>1. Queue!TypeOK'
    BY <1>3 DEF SendInv, Queue!DropReceipt, Queue!TypeOK, Queue!Statuses, Queue!SendingIsHeld, Queue!TextInOnePlace, Queue!Returned, OnlyWhileAwake, BatchHasTries, OnItsWay, InTurn
  <2>2. OnlyWhileAwake'
    BY <1>3 DEF SendInv, Queue!DropReceipt, OnlyWhileAwake, Queue!TypeOK, InTurn
  <2>3. BatchHasTries'
    BY <1>3 DEF SendInv, Queue!DropReceipt, BatchHasTries, Queue!TypeOK
  <2>4. Settled'
    BY <1>3 DEF SendInv, Queue!DropReceipt, Settled, Queue!TypeOK, Queue!SendingIsHeld, OnlyWhileAwake, OnItsWay
  <2>5. InTurn'
    BY <1>3 DEF SendInv, Queue!DropReceipt, InTurn, Queue!TypeOK, Queue!SendingIsHeld, OnlyWhileAwake, Queue!Returned
  <2>6. Queue!SendingIsHeld'
    BY <1>3 DEF SendInv, Queue!DropReceipt, Queue!SendingIsHeld, Queue!TypeOK, OnlyWhileAwake, InTurn, Queue!Returned
  <2>7. Queue!DuplicateOnlyAfterLostAnswer'
    BY <1>3 DEF SendInv, Queue!DropReceipt, Queue!DuplicateOnlyAfterLostAnswer, Queue!TypeOK, Settled, OnItsWay
  <2>8. Queue!UndoneIsUnsent'
    BY <1>3 DEF SendInv, Queue!DropReceipt, Queue!UndoneIsUnsent, Queue!TypeOK, Settled, Queue!SendingIsHeld, OnlyWhileAwake, OnItsWay
  <2>9. Queue!TextInOnePlace'
    BY <1>3 DEF SendInv, Queue!DropReceipt, Queue!TextInOnePlace, Queue!TypeOK, Queue!SendingIsHeld, OnlyWhileAwake, Queue!Returned, InTurn
  <2>10. Queue!ReceiptFollowsMessage'
    BY <1>3 DEF SendInv, Queue!DropReceipt, Queue!ReceiptFollowsMessage, Queue!TypeOK, Queue!SendingIsHeld, OnlyWhileAwake, Queue!Returned, InTurn
  <2>11. OnItsWay'
    BY <1>3 DEF SendInv, Queue!DropReceipt, OnItsWay, Settled, Queue!SendingIsHeld, OnlyWhileAwake, Queue!TypeOK
  <2>12. QED
    BY <2>1, <2>2, <2>3, <2>4, <2>5, <2>6, <2>7, <2>8, <2>9, <2>10, <2>11 DEF SendInv
<1>4. ASSUME NEW s \in Sends, Queue!PutDraftBack(s) PROVE SendInv'
  <2>1. Queue!TypeOK'
    <3>1. restored[s] = 0 /\ s \in Sends
      BY <1>4 DEF Queue!PutDraftBack, SendInv, Queue!TypeOK, Queue!TextInOnePlace
    <3>2. restored' \in [Sends -> 0..1]
      BY <1>4, <3>1 DEF Queue!PutDraftBack, SendInv, Queue!TypeOK
    <3>3. QED
      BY <1>4, <3>2 DEF Queue!PutDraftBack, SendInv, Queue!TypeOK
  <2>2. OnlyWhileAwake'
    BY <1>4 DEF SendInv, Queue!PutDraftBack, OnlyWhileAwake, Queue!TypeOK, InTurn
  <2>3. BatchHasTries'
    BY <1>4 DEF SendInv, Queue!PutDraftBack, BatchHasTries, Queue!TypeOK
  <2>4. Settled'
    BY <1>4 DEF SendInv, Queue!PutDraftBack, Settled, Queue!TypeOK, Queue!SendingIsHeld, OnlyWhileAwake, OnItsWay
  <2>5. InTurn'
    BY <1>4 DEF SendInv, Queue!PutDraftBack, InTurn, Queue!TypeOK, Queue!SendingIsHeld, OnlyWhileAwake, Queue!Returned
  <2>6. Queue!SendingIsHeld'
    BY <1>4 DEF SendInv, Queue!PutDraftBack, Queue!SendingIsHeld, Queue!TypeOK, OnlyWhileAwake, InTurn, Queue!Returned
  <2>7. Queue!DuplicateOnlyAfterLostAnswer'
    BY <1>4 DEF SendInv, Queue!PutDraftBack, Queue!DuplicateOnlyAfterLostAnswer, Queue!TypeOK, Settled, OnItsWay
  <2>8. Queue!UndoneIsUnsent'
    BY <1>4 DEF SendInv, Queue!PutDraftBack, Queue!UndoneIsUnsent, Queue!TypeOK, Settled, Queue!SendingIsHeld, OnlyWhileAwake, OnItsWay
  <2>9. Queue!TextInOnePlace'
    BY <1>4 DEF SendInv, Queue!PutDraftBack, Queue!TextInOnePlace, Queue!TypeOK, Queue!SendingIsHeld, OnlyWhileAwake, Queue!Returned, InTurn
  <2>10. Queue!ReceiptFollowsMessage'
    BY <1>4 DEF SendInv, Queue!PutDraftBack, Queue!ReceiptFollowsMessage, Queue!TypeOK, Queue!SendingIsHeld, OnlyWhileAwake, Queue!Returned, InTurn
  <2>11. OnItsWay'
    BY <1>4 DEF SendInv, Queue!PutDraftBack, OnItsWay, Settled, Queue!SendingIsHeld, OnlyWhileAwake, Queue!TypeOK
  <2>12. QED
    BY <2>1, <2>2, <2>3, <2>4, <2>5, <2>6, <2>7, <2>8, <2>9, <2>10, <2>11 DEF SendInv
<1>5. ASSUME NEW s \in Sends, Queue!BecomeDue(s) PROVE SendInv'
  <2>1. Queue!TypeOK'
    BY <1>5 DEF SendInv, Queue!BecomeDue, Queue!TypeOK, Queue!Statuses, Queue!SendingIsHeld, Queue!TextInOnePlace, Queue!Returned, OnlyWhileAwake, BatchHasTries, OnItsWay, InTurn
  <2>2. OnlyWhileAwake'
    BY <1>5 DEF SendInv, Queue!BecomeDue, OnlyWhileAwake, Queue!TypeOK, InTurn
  <2>3. BatchHasTries'
    BY <1>5 DEF SendInv, Queue!BecomeDue, BatchHasTries, Queue!TypeOK
  <2>4. Settled'
    BY <1>5 DEF SendInv, Queue!BecomeDue, Settled, Queue!TypeOK, Queue!SendingIsHeld, OnlyWhileAwake, OnItsWay
  <2>5. InTurn'
    BY <1>5 DEF SendInv, Queue!BecomeDue, InTurn, Queue!TypeOK, Queue!SendingIsHeld, OnlyWhileAwake, Queue!Returned
  <2>6. Queue!SendingIsHeld'
    BY <1>5 DEF SendInv, Queue!BecomeDue, Queue!SendingIsHeld, Queue!TypeOK, OnlyWhileAwake, InTurn, Queue!Returned
  <2>7. Queue!DuplicateOnlyAfterLostAnswer'
    BY <1>5 DEF SendInv, Queue!BecomeDue, Queue!DuplicateOnlyAfterLostAnswer, Queue!TypeOK, Settled, OnItsWay
  <2>8. Queue!UndoneIsUnsent'
    BY <1>5 DEF SendInv, Queue!BecomeDue, Queue!UndoneIsUnsent, Queue!TypeOK, Settled, Queue!SendingIsHeld, OnlyWhileAwake, OnItsWay
  <2>9. Queue!TextInOnePlace'
    BY <1>5 DEF SendInv, Queue!BecomeDue, Queue!TextInOnePlace, Queue!TypeOK, Queue!SendingIsHeld, OnlyWhileAwake, Queue!Returned, InTurn
  <2>10. Queue!ReceiptFollowsMessage'
    BY <1>5 DEF SendInv, Queue!BecomeDue, Queue!ReceiptFollowsMessage, Queue!TypeOK, Queue!SendingIsHeld, OnlyWhileAwake, Queue!Returned, InTurn
  <2>11. OnItsWay'
    BY <1>5 DEF SendInv, Queue!BecomeDue, OnItsWay, Settled, Queue!SendingIsHeld, OnlyWhileAwake, Queue!TypeOK
  <2>12. QED
    BY <2>1, <2>2, <2>3, <2>4, <2>5, <2>6, <2>7, <2>8, <2>9, <2>10, <2>11 DEF SendInv
<1>6. ASSUME NEW s \in Sends, Queue!Visit(s) PROVE SendInv'
  <2>1. Queue!TypeOK'
    <3>1. tries' \in [Sends -> 0..MaxTries]
      <4>1. tries[s] \in 0..MaxTries /\ tries[s] < MaxTries
        BY <1>6 DEF Queue!Visit, SendInv, Queue!TypeOK, BatchHasTries
      <4>2. tries[s] + 1 \in 0..MaxTries
        BY <4>1
      <4>3. QED
        BY <1>6, <4>2 DEF Queue!Visit, SendInv, Queue!TypeOK
    <3>2. state' \in [Sends -> Queue!Statuses] /\ ripe' \in [Sends -> BOOLEAN]
      BY <1>6 DEF Queue!Visit, SendInv, Queue!TypeOK, Queue!Statuses
    <3>3. batch' \in SUBSET Sends /\ current' \in Sends \cup {NoSend}
      BY <1>6 DEF Queue!Visit, SendInv, Queue!TypeOK
    <3>4. QED
      BY <1>6, <3>1, <3>2, <3>3 DEF Queue!Visit, SendInv, Queue!TypeOK
  <2>2. OnlyWhileAwake'
    BY <1>6 DEF SendInv, Queue!Visit, Queue!StillQueued, OnlyWhileAwake, Queue!TypeOK, InTurn
  <2>3. BatchHasTries'
    BY <1>6 DEF SendInv, Queue!Visit, Queue!StillQueued, BatchHasTries, Queue!TypeOK
  <2>4. Settled'
    BY <1>6 DEF SendInv, Queue!Visit, Queue!StillQueued, Settled, Queue!TypeOK, Queue!SendingIsHeld, OnlyWhileAwake, OnItsWay
  <2>5. InTurn'
    BY <1>6 DEF SendInv, Queue!Visit, Queue!StillQueued, InTurn, Queue!TypeOK, Queue!SendingIsHeld, OnlyWhileAwake, Queue!Returned
  <2>6. Queue!SendingIsHeld'
    BY <1>6 DEF SendInv, Queue!Visit, Queue!StillQueued, Queue!SendingIsHeld, Queue!TypeOK, OnlyWhileAwake, InTurn, Queue!Returned
  <2>7. Queue!DuplicateOnlyAfterLostAnswer'
    BY <1>6 DEF SendInv, Queue!Visit, Queue!StillQueued, Queue!DuplicateOnlyAfterLostAnswer, Queue!TypeOK, Settled, OnItsWay
  <2>8. Queue!UndoneIsUnsent'
    BY <1>6 DEF SendInv, Queue!Visit, Queue!StillQueued, Queue!UndoneIsUnsent, Queue!TypeOK, Settled, Queue!SendingIsHeld, OnlyWhileAwake, OnItsWay
  <2>9. Queue!TextInOnePlace'
    BY <1>6 DEF SendInv, Queue!Visit, Queue!StillQueued, Queue!TextInOnePlace, Queue!TypeOK, Queue!SendingIsHeld, OnlyWhileAwake, Queue!Returned, InTurn
  <2>10. Queue!ReceiptFollowsMessage'
    BY <1>6 DEF SendInv, Queue!Visit, Queue!StillQueued, Queue!ReceiptFollowsMessage, Queue!TypeOK, Queue!SendingIsHeld, OnlyWhileAwake, Queue!Returned, InTurn
  <2>11. OnItsWay'
    BY <1>6 DEF SendInv, Queue!Visit, Queue!StillQueued, OnItsWay, Settled, Queue!SendingIsHeld, OnlyWhileAwake, Queue!TypeOK
  <2>12. QED
    BY <2>1, <2>2, <2>3, <2>4, <2>5, <2>6, <2>7, <2>8, <2>9, <2>10, <2>11 DEF SendInv
<1>7. ASSUME NEW s \in Sends, Queue!Delivered(s) PROVE SendInv'
  <2>1. Queue!TypeOK'
    BY <1>7 DEF SendInv, Queue!Delivered, Queue!Free, Queue!TypeOK, Queue!Statuses, Queue!SendingIsHeld, Queue!TextInOnePlace, Queue!Returned, OnlyWhileAwake, BatchHasTries, OnItsWay, InTurn
  <2>2. OnlyWhileAwake'
    BY <1>7 DEF SendInv, Queue!Delivered, Queue!Free, OnlyWhileAwake, Queue!TypeOK, InTurn
  <2>3. BatchHasTries'
    BY <1>7 DEF SendInv, Queue!Delivered, Queue!Free, BatchHasTries, Queue!TypeOK
  <2>4. Settled'
    BY <1>7 DEF SendInv, Queue!Delivered, Queue!Free, Settled, Queue!TypeOK, Queue!SendingIsHeld, OnlyWhileAwake, OnItsWay
  <2>5. InTurn'
    BY <1>7 DEF SendInv, Queue!Delivered, Queue!Free, InTurn, Queue!TypeOK, Queue!SendingIsHeld, OnlyWhileAwake, Queue!Returned
  <2>6. Queue!SendingIsHeld'
    BY <1>7 DEF SendInv, Queue!Delivered, Queue!Free, Queue!SendingIsHeld, Queue!TypeOK, OnlyWhileAwake, InTurn, Queue!Returned
  <2>7. Queue!DuplicateOnlyAfterLostAnswer'
    BY <1>7 DEF SendInv, Queue!Delivered, Queue!Free, Queue!DuplicateOnlyAfterLostAnswer, Queue!TypeOK, Settled, OnItsWay
  <2>8. Queue!UndoneIsUnsent'
    BY <1>7 DEF SendInv, Queue!Delivered, Queue!Free, Queue!UndoneIsUnsent, Queue!TypeOK, Settled, Queue!SendingIsHeld, OnlyWhileAwake, OnItsWay
  <2>9. Queue!TextInOnePlace'
    BY <1>7 DEF SendInv, Queue!Delivered, Queue!Free, Queue!TextInOnePlace, Queue!TypeOK, Queue!SendingIsHeld, OnlyWhileAwake, Queue!Returned, InTurn
  <2>10. Queue!ReceiptFollowsMessage'
    BY <1>7 DEF SendInv, Queue!Delivered, Queue!Free, Queue!ReceiptFollowsMessage, Queue!TypeOK, Queue!SendingIsHeld, OnlyWhileAwake, Queue!Returned, InTurn
  <2>11. OnItsWay'
    BY <1>7 DEF SendInv, Queue!Delivered, Queue!Free, OnItsWay, Settled, Queue!SendingIsHeld, OnlyWhileAwake, Queue!TypeOK
  <2>12. QED
    BY <2>1, <2>2, <2>3, <2>4, <2>5, <2>6, <2>7, <2>8, <2>9, <2>10, <2>11 DEF SendInv
<1>8. ASSUME NEW s \in Sends, Queue!Rejected(s) PROVE SendInv'
  <2>1. Queue!TypeOK'
    BY <1>8 DEF SendInv, Queue!Rejected, Queue!Free, Queue!TypeOK, Queue!Statuses, Queue!SendingIsHeld, Queue!TextInOnePlace, Queue!Returned, OnlyWhileAwake, BatchHasTries, OnItsWay, InTurn
  <2>2. OnlyWhileAwake'
    BY <1>8 DEF SendInv, Queue!Rejected, Queue!Free, OnlyWhileAwake, Queue!TypeOK, InTurn
  <2>3. BatchHasTries'
    BY <1>8 DEF SendInv, Queue!Rejected, Queue!Free, BatchHasTries, Queue!TypeOK
  <2>4. Settled'
    BY <1>8 DEF SendInv, Queue!Rejected, Queue!Free, Settled, Queue!TypeOK, Queue!SendingIsHeld, OnlyWhileAwake, OnItsWay
  <2>5. InTurn'
    BY <1>8 DEF SendInv, Queue!Rejected, Queue!Free, InTurn, Queue!TypeOK, Queue!SendingIsHeld, OnlyWhileAwake, Queue!Returned
  <2>6. Queue!SendingIsHeld'
    BY <1>8 DEF SendInv, Queue!Rejected, Queue!Free, Queue!SendingIsHeld, Queue!TypeOK, OnlyWhileAwake, InTurn, Queue!Returned
  <2>7. Queue!DuplicateOnlyAfterLostAnswer'
    BY <1>8 DEF SendInv, Queue!Rejected, Queue!Free, Queue!DuplicateOnlyAfterLostAnswer, Queue!TypeOK, Settled, OnItsWay
  <2>8. Queue!UndoneIsUnsent'
    BY <1>8 DEF SendInv, Queue!Rejected, Queue!Free, Queue!UndoneIsUnsent, Queue!TypeOK, Settled, Queue!SendingIsHeld, OnlyWhileAwake, OnItsWay
  <2>9. Queue!TextInOnePlace'
    BY <1>8 DEF SendInv, Queue!Rejected, Queue!Free, Queue!TextInOnePlace, Queue!TypeOK, Queue!SendingIsHeld, OnlyWhileAwake, Queue!Returned, InTurn
  <2>10. Queue!ReceiptFollowsMessage'
    BY <1>8 DEF SendInv, Queue!Rejected, Queue!Free, Queue!ReceiptFollowsMessage, Queue!TypeOK, Queue!SendingIsHeld, OnlyWhileAwake, Queue!Returned, InTurn
  <2>11. OnItsWay'
    BY <1>8 DEF SendInv, Queue!Rejected, Queue!Free, OnItsWay, Settled, Queue!SendingIsHeld, OnlyWhileAwake, Queue!TypeOK
  <2>12. QED
    BY <2>1, <2>2, <2>3, <2>4, <2>5, <2>6, <2>7, <2>8, <2>9, <2>10, <2>11 DEF SendInv
<1>9. ASSUME NEW s \in Sends, Queue!Retried(s) PROVE SendInv'
  <2>1. Queue!TypeOK'
    BY <1>9 DEF SendInv, Queue!Retried, Queue!Free, Queue!AfterError, Queue!TypeOK, Queue!Statuses, Queue!SendingIsHeld, Queue!TextInOnePlace, Queue!Returned, OnlyWhileAwake, BatchHasTries, OnItsWay, InTurn
  <2>2. OnlyWhileAwake'
    BY <1>9 DEF SendInv, Queue!Retried, Queue!Free, Queue!AfterError, OnlyWhileAwake, Queue!TypeOK, InTurn
  <2>3. BatchHasTries'
    BY <1>9 DEF SendInv, Queue!Retried, Queue!Free, Queue!AfterError, BatchHasTries, Queue!TypeOK
  <2>4. Settled'
    BY <1>9 DEF SendInv, Queue!Retried, Queue!Free, Queue!AfterError, Settled, Queue!TypeOK, Queue!SendingIsHeld, OnlyWhileAwake, OnItsWay
  <2>5. InTurn'
    BY <1>9 DEF SendInv, Queue!Retried, Queue!Free, Queue!AfterError, InTurn, Queue!TypeOK, Queue!SendingIsHeld, OnlyWhileAwake, Queue!Returned
  <2>6. Queue!SendingIsHeld'
    BY <1>9 DEF SendInv, Queue!Retried, Queue!Free, Queue!AfterError, Queue!SendingIsHeld, Queue!TypeOK, OnlyWhileAwake, InTurn, Queue!Returned
  <2>7. Queue!DuplicateOnlyAfterLostAnswer'
    BY <1>9 DEF SendInv, Queue!Retried, Queue!Free, Queue!AfterError, Queue!DuplicateOnlyAfterLostAnswer, Queue!TypeOK, Settled, OnItsWay
  <2>8. Queue!UndoneIsUnsent'
    BY <1>9 DEF SendInv, Queue!Retried, Queue!Free, Queue!AfterError, Queue!UndoneIsUnsent, Queue!TypeOK, Settled, Queue!SendingIsHeld, OnlyWhileAwake, OnItsWay
  <2>9. Queue!TextInOnePlace'
    BY <1>9 DEF SendInv, Queue!Retried, Queue!Free, Queue!AfterError, Queue!TextInOnePlace, Queue!TypeOK, Queue!SendingIsHeld, OnlyWhileAwake, Queue!Returned, InTurn
  <2>10. Queue!ReceiptFollowsMessage'
    BY <1>9 DEF SendInv, Queue!Retried, Queue!Free, Queue!AfterError, Queue!ReceiptFollowsMessage, Queue!TypeOK, Queue!SendingIsHeld, OnlyWhileAwake, Queue!Returned, InTurn
  <2>11. OnItsWay'
    BY <1>9 DEF SendInv, Queue!Retried, Queue!Free, Queue!AfterError, OnItsWay, Settled, Queue!SendingIsHeld, OnlyWhileAwake, Queue!TypeOK
  <2>12. QED
    BY <2>1, <2>2, <2>3, <2>4, <2>5, <2>6, <2>7, <2>8, <2>9, <2>10, <2>11 DEF SendInv
<1>10. ASSUME NEW s \in Sends, Queue!GmailAccepts(s) PROVE SendInv'
  <2>1. Queue!TypeOK'
    BY <1>10 DEF SendInv, Queue!GmailAccepts, Queue!TypeOK, Queue!Statuses, Queue!SendingIsHeld, Queue!TextInOnePlace, Queue!Returned, OnlyWhileAwake, BatchHasTries, OnItsWay, InTurn
  <2>2. OnlyWhileAwake'
    BY <1>10 DEF SendInv, Queue!GmailAccepts, OnlyWhileAwake, Queue!TypeOK, InTurn
  <2>3. BatchHasTries'
    BY <1>10 DEF SendInv, Queue!GmailAccepts, BatchHasTries, Queue!TypeOK
  <2>4. Settled'
    BY <1>10 DEF SendInv, Queue!GmailAccepts, Settled, Queue!TypeOK, Queue!SendingIsHeld, OnlyWhileAwake, OnItsWay
  <2>5. InTurn'
    BY <1>10 DEF SendInv, Queue!GmailAccepts, InTurn, Queue!TypeOK, Queue!SendingIsHeld, OnlyWhileAwake, Queue!Returned
  <2>6. Queue!SendingIsHeld'
    BY <1>10 DEF SendInv, Queue!GmailAccepts, Queue!SendingIsHeld, Queue!TypeOK, OnlyWhileAwake, InTurn, Queue!Returned
  <2>7. Queue!DuplicateOnlyAfterLostAnswer'
    BY <1>10 DEF SendInv, Queue!GmailAccepts, Queue!DuplicateOnlyAfterLostAnswer, Queue!TypeOK, Settled, OnItsWay
  <2>8. Queue!UndoneIsUnsent'
    BY <1>10 DEF SendInv, Queue!GmailAccepts, Queue!UndoneIsUnsent, Queue!TypeOK, Settled, Queue!SendingIsHeld, OnlyWhileAwake, OnItsWay
  <2>9. Queue!TextInOnePlace'
    BY <1>10 DEF SendInv, Queue!GmailAccepts, Queue!TextInOnePlace, Queue!TypeOK, Queue!SendingIsHeld, OnlyWhileAwake, Queue!Returned, InTurn
  <2>10. Queue!ReceiptFollowsMessage'
    BY <1>10 DEF SendInv, Queue!GmailAccepts, Queue!ReceiptFollowsMessage, Queue!TypeOK, Queue!SendingIsHeld, OnlyWhileAwake, Queue!Returned, InTurn
  <2>11. OnItsWay'
    BY <1>10 DEF SendInv, Queue!GmailAccepts, OnItsWay, Settled, Queue!SendingIsHeld, OnlyWhileAwake, Queue!TypeOK
  <2>12. QED
    BY <2>1, <2>2, <2>3, <2>4, <2>5, <2>6, <2>7, <2>8, <2>9, <2>10, <2>11 DEF SendInv
<1>11. ASSUME NEW s \in Sends, Queue!AskAgain(s) PROVE SendInv'
  <2>1. Queue!TypeOK'
    BY <1>11 DEF SendInv, Queue!AskAgain, Queue!TypeOK, Queue!Statuses, Queue!SendingIsHeld, Queue!TextInOnePlace, Queue!Returned, OnlyWhileAwake, BatchHasTries, OnItsWay, InTurn
  <2>2. OnlyWhileAwake'
    BY <1>11 DEF SendInv, Queue!AskAgain, OnlyWhileAwake, Queue!TypeOK, InTurn
  <2>3. BatchHasTries'
    BY <1>11 DEF SendInv, Queue!AskAgain, BatchHasTries, Queue!TypeOK
  <2>4. Settled'
    BY <1>11 DEF SendInv, Queue!AskAgain, Settled, Queue!TypeOK, Queue!SendingIsHeld, OnlyWhileAwake, OnItsWay
  <2>5. InTurn'
    BY <1>11 DEF SendInv, Queue!AskAgain, InTurn, Queue!TypeOK, Queue!SendingIsHeld, OnlyWhileAwake, Queue!Returned
  <2>6. Queue!SendingIsHeld'
    BY <1>11 DEF SendInv, Queue!AskAgain, Queue!SendingIsHeld, Queue!TypeOK, OnlyWhileAwake, InTurn, Queue!Returned
  <2>7. Queue!DuplicateOnlyAfterLostAnswer'
    BY <1>11 DEF SendInv, Queue!AskAgain, Queue!DuplicateOnlyAfterLostAnswer, Queue!TypeOK, Settled, OnItsWay
  <2>8. Queue!UndoneIsUnsent'
    BY <1>11 DEF SendInv, Queue!AskAgain, Queue!UndoneIsUnsent, Queue!TypeOK, Settled, Queue!SendingIsHeld, OnlyWhileAwake, OnItsWay
  <2>9. Queue!TextInOnePlace'
    BY <1>11 DEF SendInv, Queue!AskAgain, Queue!TextInOnePlace, Queue!TypeOK, Queue!SendingIsHeld, OnlyWhileAwake, Queue!Returned, InTurn
  <2>10. Queue!ReceiptFollowsMessage'
    BY <1>11 DEF SendInv, Queue!AskAgain, Queue!ReceiptFollowsMessage, Queue!TypeOK, Queue!SendingIsHeld, OnlyWhileAwake, Queue!Returned, InTurn
  <2>11. OnItsWay'
    BY <1>11 DEF SendInv, Queue!AskAgain, OnItsWay, Settled, Queue!SendingIsHeld, OnlyWhileAwake, Queue!TypeOK
  <2>12. QED
    BY <2>1, <2>2, <2>3, <2>4, <2>5, <2>6, <2>7, <2>8, <2>9, <2>10, <2>11 DEF SendInv
<1>12. CASE Queue!StartTick
  <2>1. Queue!TypeOK'
    BY <1>12 DEF SendInv, Queue!StartTick, Queue!MayTick, Queue!Free, Queue!TypeOK, Queue!Statuses, Queue!SendingIsHeld, Queue!TextInOnePlace, Queue!Returned, OnlyWhileAwake, BatchHasTries, OnItsWay, InTurn
  <2>2. OnlyWhileAwake'
    BY <1>12 DEF SendInv, Queue!StartTick, Queue!MayTick, Queue!Free, OnlyWhileAwake, Queue!TypeOK, InTurn
  <2>3. BatchHasTries'
    BY <1>12 DEF SendInv, Queue!StartTick, Queue!MayTick, Queue!Free, BatchHasTries, Queue!TypeOK
  <2>4. Settled'
    BY <1>12 DEF SendInv, Queue!StartTick, Queue!MayTick, Queue!Free, Settled, Queue!TypeOK, Queue!SendingIsHeld, OnlyWhileAwake, OnItsWay
  <2>5. InTurn'
    BY <1>12 DEF SendInv, Queue!StartTick, Queue!MayTick, Queue!Free, InTurn, Queue!TypeOK, Queue!SendingIsHeld, OnlyWhileAwake, Queue!Returned
  <2>6. Queue!SendingIsHeld'
    BY <1>12 DEF SendInv, Queue!StartTick, Queue!MayTick, Queue!Free, Queue!SendingIsHeld, Queue!TypeOK, OnlyWhileAwake, InTurn, Queue!Returned
  <2>7. Queue!DuplicateOnlyAfterLostAnswer'
    BY <1>12 DEF SendInv, Queue!StartTick, Queue!MayTick, Queue!Free, Queue!DuplicateOnlyAfterLostAnswer, Queue!TypeOK, Settled, OnItsWay
  <2>8. Queue!UndoneIsUnsent'
    BY <1>12 DEF SendInv, Queue!StartTick, Queue!MayTick, Queue!Free, Queue!UndoneIsUnsent, Queue!TypeOK, Settled, Queue!SendingIsHeld, OnlyWhileAwake, OnItsWay
  <2>9. Queue!TextInOnePlace'
    BY <1>12 DEF SendInv, Queue!StartTick, Queue!MayTick, Queue!Free, Queue!TextInOnePlace, Queue!TypeOK, Queue!SendingIsHeld, OnlyWhileAwake, Queue!Returned, InTurn
  <2>10. Queue!ReceiptFollowsMessage'
    BY <1>12 DEF SendInv, Queue!StartTick, Queue!MayTick, Queue!Free, Queue!ReceiptFollowsMessage, Queue!TypeOK, Queue!SendingIsHeld, OnlyWhileAwake, Queue!Returned, InTurn
  <2>11. OnItsWay'
    BY <1>12 DEF SendInv, Queue!StartTick, Queue!MayTick, Queue!Free, OnItsWay, Settled, Queue!SendingIsHeld, OnlyWhileAwake, Queue!TypeOK
  <2>12. QED
    BY <2>1, <2>2, <2>3, <2>4, <2>5, <2>6, <2>7, <2>8, <2>9, <2>10, <2>11 DEF SendInv
<1>13. CASE Queue!EndTick
  <2>1. Queue!TypeOK'
    BY <1>13 DEF SendInv, Queue!EndTick, Queue!TypeOK, Queue!Statuses, Queue!SendingIsHeld, Queue!TextInOnePlace, Queue!Returned, OnlyWhileAwake, BatchHasTries, OnItsWay, InTurn
  <2>2. OnlyWhileAwake'
    BY <1>13 DEF SendInv, Queue!EndTick, OnlyWhileAwake, Queue!TypeOK, InTurn
  <2>3. BatchHasTries'
    BY <1>13 DEF SendInv, Queue!EndTick, BatchHasTries, Queue!TypeOK
  <2>4. Settled'
    BY <1>13 DEF SendInv, Queue!EndTick, Settled, Queue!TypeOK, Queue!SendingIsHeld, OnlyWhileAwake, OnItsWay
  <2>5. InTurn'
    BY <1>13 DEF SendInv, Queue!EndTick, InTurn, Queue!TypeOK, Queue!SendingIsHeld, OnlyWhileAwake, Queue!Returned
  <2>6. Queue!SendingIsHeld'
    BY <1>13 DEF SendInv, Queue!EndTick, Queue!SendingIsHeld, Queue!TypeOK, OnlyWhileAwake, InTurn, Queue!Returned
  <2>7. Queue!DuplicateOnlyAfterLostAnswer'
    BY <1>13 DEF SendInv, Queue!EndTick, Queue!DuplicateOnlyAfterLostAnswer, Queue!TypeOK, Settled, OnItsWay
  <2>8. Queue!UndoneIsUnsent'
    BY <1>13 DEF SendInv, Queue!EndTick, Queue!UndoneIsUnsent, Queue!TypeOK, Settled, Queue!SendingIsHeld, OnlyWhileAwake, OnItsWay
  <2>9. Queue!TextInOnePlace'
    BY <1>13 DEF SendInv, Queue!EndTick, Queue!TextInOnePlace, Queue!TypeOK, Queue!SendingIsHeld, OnlyWhileAwake, Queue!Returned, InTurn
  <2>10. Queue!ReceiptFollowsMessage'
    BY <1>13 DEF SendInv, Queue!EndTick, Queue!ReceiptFollowsMessage, Queue!TypeOK, Queue!SendingIsHeld, OnlyWhileAwake, Queue!Returned, InTurn
  <2>11. OnItsWay'
    BY <1>13 DEF SendInv, Queue!EndTick, OnItsWay, Settled, Queue!SendingIsHeld, OnlyWhileAwake, Queue!TypeOK
  <2>12. QED
    BY <2>1, <2>2, <2>3, <2>4, <2>5, <2>6, <2>7, <2>8, <2>9, <2>10, <2>11 DEF SendInv
<1>14. CASE Queue!Crash
  <2>1. Queue!TypeOK'
    <3>1. deaths' \in 0..MaxDeaths
      <4>1. deaths \in 0..MaxDeaths /\ deaths < MaxDeaths /\ deaths' = deaths + 1
        BY <1>14 DEF Queue!Crash, SendInv, Queue!TypeOK
      <4>2. QED
        BY <4>1
    <3>2. QED
      BY <1>14, <3>1 DEF SendInv, Queue!Crash, Queue!TypeOK
  <2>2. OnlyWhileAwake'
    BY <1>14 DEF SendInv, Queue!Crash, OnlyWhileAwake, Queue!TypeOK, InTurn
  <2>3. BatchHasTries'
    BY <1>14 DEF SendInv, Queue!Crash, BatchHasTries, Queue!TypeOK
  <2>4. Settled'
    BY <1>14 DEF SendInv, Queue!Crash, Settled, Queue!TypeOK, Queue!SendingIsHeld, OnlyWhileAwake, OnItsWay
  <2>5. InTurn'
    BY <1>14 DEF SendInv, Queue!Crash, InTurn, Queue!TypeOK, Queue!SendingIsHeld, OnlyWhileAwake, Queue!Returned
  <2>6. Queue!SendingIsHeld'
    BY <1>14 DEF SendInv, Queue!Crash, Queue!SendingIsHeld, Queue!TypeOK, OnlyWhileAwake, InTurn, Queue!Returned
  <2>7. Queue!DuplicateOnlyAfterLostAnswer'
    BY <1>14 DEF SendInv, Queue!Crash, Queue!DuplicateOnlyAfterLostAnswer, Queue!TypeOK, Settled, OnItsWay
  <2>8. Queue!UndoneIsUnsent'
    BY <1>14 DEF SendInv, Queue!Crash, Queue!UndoneIsUnsent, Queue!TypeOK, Settled, Queue!SendingIsHeld, OnlyWhileAwake, OnItsWay
  <2>9. Queue!TextInOnePlace'
    BY <1>14 DEF SendInv, Queue!Crash, Queue!TextInOnePlace, Queue!TypeOK, Queue!SendingIsHeld, OnlyWhileAwake, Queue!Returned, InTurn
  <2>10. Queue!ReceiptFollowsMessage'
    BY <1>14 DEF SendInv, Queue!Crash, Queue!ReceiptFollowsMessage, Queue!TypeOK, Queue!SendingIsHeld, OnlyWhileAwake, Queue!Returned, InTurn
  <2>11. OnItsWay'
    BY <1>14 DEF SendInv, Queue!Crash, OnItsWay, Settled, Queue!SendingIsHeld, OnlyWhileAwake, Queue!TypeOK
  <2>12. QED
    BY <2>1, <2>2, <2>3, <2>4, <2>5, <2>6, <2>7, <2>8, <2>9, <2>10, <2>11 DEF SendInv
<1>15. CASE Queue!Restart
  <2>1. Queue!TypeOK'
    BY <1>15 DEF SendInv, Queue!Restart, Queue!Interrupted, Queue!InterruptedSends, Queue!TypeOK, Queue!Statuses, Queue!SendingIsHeld, Queue!TextInOnePlace, Queue!Returned, OnlyWhileAwake, BatchHasTries, OnItsWay, InTurn
  <2>2. OnlyWhileAwake'
    BY <1>15 DEF SendInv, Queue!Restart, Queue!Interrupted, Queue!InterruptedSends, OnlyWhileAwake, Queue!TypeOK, InTurn
  <2>3. BatchHasTries'
    BY <1>15 DEF SendInv, Queue!Restart, Queue!Interrupted, Queue!InterruptedSends, BatchHasTries, Queue!TypeOK
  <2>4. Settled'
    BY <1>15 DEF SendInv, Queue!Restart, Queue!Interrupted, Queue!InterruptedSends, Settled, Queue!TypeOK, Queue!SendingIsHeld, OnlyWhileAwake, OnItsWay
  <2>5. InTurn'
    BY <1>15 DEF SendInv, Queue!Restart, Queue!Interrupted, Queue!InterruptedSends, InTurn, Queue!TypeOK, Queue!SendingIsHeld, OnlyWhileAwake, Queue!Returned
  <2>6. Queue!SendingIsHeld'
    BY <1>15 DEF SendInv, Queue!Restart, Queue!Interrupted, Queue!InterruptedSends, Queue!SendingIsHeld, Queue!TypeOK, OnlyWhileAwake, InTurn, Queue!Returned
  <2>7. Queue!DuplicateOnlyAfterLostAnswer'
    BY <1>15 DEF SendInv, Queue!Restart, Queue!Interrupted, Queue!InterruptedSends, Queue!DuplicateOnlyAfterLostAnswer, Queue!TypeOK, Settled, OnItsWay
  <2>8. Queue!UndoneIsUnsent'
    BY <1>15 DEF SendInv, Queue!Restart, Queue!Interrupted, Queue!InterruptedSends, Queue!UndoneIsUnsent, Queue!TypeOK, Settled, Queue!SendingIsHeld, OnlyWhileAwake, OnItsWay
  <2>9. Queue!TextInOnePlace'
    BY <1>15 DEF SendInv, Queue!Restart, Queue!Interrupted, Queue!InterruptedSends, Queue!TextInOnePlace, Queue!TypeOK, Queue!SendingIsHeld, OnlyWhileAwake, Queue!Returned, InTurn
  <2>10. Queue!ReceiptFollowsMessage'
    BY <1>15 DEF SendInv, Queue!Restart, Queue!Interrupted, Queue!InterruptedSends, Queue!ReceiptFollowsMessage, Queue!TypeOK, Queue!SendingIsHeld, OnlyWhileAwake, Queue!Returned, InTurn
  <2>11. OnItsWay'
    BY <1>15 DEF SendInv, Queue!Restart, Queue!Interrupted, Queue!InterruptedSends, OnItsWay, Settled, Queue!SendingIsHeld, OnlyWhileAwake, Queue!TypeOK
  <2>12. QED
    BY <2>1, <2>2, <2>3, <2>4, <2>5, <2>6, <2>7, <2>8, <2>9, <2>10, <2>11 DEF SendInv
<1>16. CASE UNCHANGED Queue!vars
  BY <1>16 DEF Queue!vars, SendInv, Queue!TypeOK, OnItsWay, OnlyWhileAwake, BatchHasTries, Settled, InTurn, Queue!SendingIsHeld,
     Queue!DuplicateOnlyAfterLostAnswer, Queue!UndoneIsUnsent, Queue!TextInOnePlace, Queue!ReceiptFollowsMessage
<1> HIDE DEF Queue!queue, Queue!turn, Queue!tick, Queue!past
<1>17. QED
  BY <1>1, <1>2, <1>3, <1>4, <1>5, <1>6, <1>7, <1>8, <1>9, <1>10, <1>11, <1>12, <1>13, <1>14, <1>15, <1>16
     DEF Queue!Next, Queue!User, Queue!Scheduler, Queue!TurnGoesOn

-----------------------------------------------------------------------------

(* The invariant holds in every reachable state. *)
THEOREM SendInvariance == Queue!Spec => []SendInv
<1>1. Queue!Init => SendInv
  BY SendInvInit
<1>2. SendInv /\ [Queue!Next]_(Queue!vars) => SendInv'
  BY SendInvStep
<1>3. QED
  BY <1>1, <1>2, PTL DEF Queue!Spec

(* The run takes the two together: a step is one of one of them. *)
LEMMA SendsAlone == AllSpec => Queue!Spec
<1>1. AllInit => Queue!Init
  BY DEF AllInit
<1>2. [AllNext]_<<part, outbox, sending>> => [Queue!Next]_(Queue!vars)
  BY DEF AllNext, sending, Queue!vars
<1>3. QED
  BY <1>1, <1>2, PTL DEF AllSpec, Queue!Spec

(* Every variable keeps its type. *)
THEOREM SendTypes == Queue!Spec => []Queue!TypeOK
<1>1. SendInv => Queue!TypeOK
  BY DEF SendInv
<1>2. QED
  BY <1>1, SendInvariance, PTL

(* A message goes out again only after an answer was lost: crashes,        *)
(* restarts, late undos and stale ticks never duplicate it.                *)
THEOREM NoDuplicate == AllSpec => []DuplicateOnlyAfterLostAnswer
<1>1. SendInv => DuplicateOnlyAfterLostAnswer
  BY DEF SendInv, DuplicateOnlyAfterLostAnswer
<1>2. QED
  BY <1>1, SendsAlone, SendInvariance, PTL

(* A message that was undone is not out, save for an answer lost before.   *)
THEOREM UndoWorks == Queue!Spec => []Queue!UndoneIsUnsent
<1>1. SendInv => Queue!UndoneIsUnsent
  BY DEF SendInv
<1>2. QED
  BY <1>1, SendInvariance, PTL

(* A text is never both in Drafts and in the queue.  It is in neither only *)
(* while the turn that puts it back has yet to write it, and after a death *)
(* in that turn.                                                           *)
THEOREM TextKept == AllSpec => []TextInOnePlace
<1>1. SendInv => TextInOnePlace
  BY DEF SendInv, TextInOnePlace
<1>2. QED
  BY <1>1, SendsAlone, SendInvariance, PTL

(* A message in sending is the one the tick holds: no undo and no second   *)
(* tick takes it away, and no tick leaves one behind.                      *)
THEOREM NoStuckSend == Queue!Spec => []Queue!SendingIsHeld
<1>1. SendInv => Queue!SendingIsHeld
  BY DEF SendInv
<1>2. QED
  BY <1>1, SendInvariance, PTL

(* A receipt belongs to a message that may be delivered or be out, unless  *)
(* the turn that drops it has yet to do so or the process died in it.      *)
THEOREM Receipts == Queue!Spec => []Queue!ReceiptFollowsMessage
<1>1. SendInv => Queue!ReceiptFollowsMessage
  BY DEF SendInv
<1>2. QED
  BY <1>1, SendInvariance, PTL

(* What is sent, failed or cancelled stays so. *)
THEOREM Final == Queue!Spec => Queue!SettledForGood
<1>1. SendInv /\ [Queue!Next]_(Queue!vars) =>
        [\A s \in Sends : state[s] \in {"sent"} \cup Queue!Returned => state'[s] = state[s]]_(Queue!vars)
  <2> SUFFICES ASSUME SendInv, [Queue!Next]_(Queue!vars), NEW t \in Sends, state[t] \in {"sent"} \cup Queue!Returned
               PROVE  state'[t] = state[t]
    OBVIOUS
  <2>1. state[t] \notin {"none", "queued", "sending"}
    BY DEF Queue!Returned
  <2>2. current # t
    BY <2>1, QueueAssumption DEF Queue!SendQueueAssumption, SendInv, Queue!SendingIsHeld, OnlyWhileAwake
  <2>3. ASSUME NEW s \in Sends, Queue!QueueSend(s) \/ Queue!UndoSend(s) \/ Queue!BecomeDue(s) \/ Queue!Visit(s)
        PROVE  state'[t] = state[t]
    BY <2>1, <2>3 DEF Queue!QueueSend, Queue!UndoSend, Queue!BecomeDue, Queue!Visit, Queue!Cancellable, Queue!StillQueued, SendInv, Queue!TypeOK
  <2>4. ASSUME NEW s \in Sends,
               Queue!Delivered(s) \/ Queue!Rejected(s) \/ Queue!Retried(s) \/ Queue!GmailAccepts(s) \/ Queue!AskAgain(s)
        PROVE  state'[t] = state[t]
    BY <2>2, <2>4 DEF Queue!Delivered, Queue!Rejected, Queue!Retried, Queue!GmailAccepts, Queue!AskAgain, Queue!queue, SendInv, Queue!TypeOK
  <2>5. CASE Queue!StartTick \/ Queue!EndTick \/ Queue!TurnGoesOn \/ Queue!Crash \/ UNCHANGED Queue!vars
    BY <2>5 DEF Queue!StartTick, Queue!EndTick, Queue!TurnGoesOn, Queue!DropReceipt, Queue!PutDraftBack, Queue!Crash, Queue!vars, Queue!queue
  <2>6. CASE Queue!Restart
    BY <2>1, <2>6 DEF Queue!Restart, Queue!InterruptedSends
  <2>7. QED
    BY <2>3, <2>4, <2>5, <2>6 DEF Queue!Next, Queue!User, Queue!Scheduler
<1>2. QED
  BY <1>1, SendInvariance, PTL DEF Queue!Spec, Queue!SettledForGood
=============================================================================
