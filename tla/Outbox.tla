------------------------------- MODULE Outbox -------------------------------
(***************************************************************************)
(* The outbox: every change made here waits in a row of the outbox table   *)
(* until a serial drain, one per account, has carried it to Gmail.         *)
(*                                                                         *)
(*   packages/store/src/queries/outbox.ts   the table and its operations   *)
(*   packages/gmail/src/outbox.ts           drainAccount, executeOutboxOp  *)
(*   apps/desktop/electron/sync.ts          drain: next, ack, fail         *)
(*                                                                         *)
(* A row is a change of a thread's labels (it holds a mask on the thread's *)
(* history while it is open) or the mirror of a draft.  The content of a   *)
(* row is left out here: LabelSync.tla has the labels, DraftMirror.tla the *)
(* drafts.  What Gmail does with a request is split from what the program  *)
(* learns of it, so that an answer can be lost after the change is made.   *)
(*                                                                         *)
(* The drain of the code goes from an answer straight to the next row; the *)
(* user may act between the two here, which only adds behaviours.          *)
(***************************************************************************)
EXTENDS Naturals

CONSTANTS
  Accounts,    \* The signed-in mail accounts.
  NoAccount,   \* The owner of a row that does not exist yet.
  Drafts,      \* The local drafts.
  NoDraft,     \* The draft of a row that changes a thread.
  HomeOf,      \* The account a draft belongs to.
  MaxRows,     \* Bound: rows ever inserted.
  MaxBatch,    \* opts.max of drainAccount, 50 in the code.
  MaxCrashes   \* Bound: times the process dies.

ASSUME AccountsAssumption == NoAccount \notin Accounts
ASSUME DraftsAssumption == NoDraft \notin Drafts /\ HomeOf \in [Drafts -> Accounts]
ASSUME BoundsAssumption ==
  MaxRows \in Nat /\ MaxBatch \in Nat \ {0} /\ MaxCrashes \in Nat

RowIds == 1..MaxRows

VARIABLES
  owner,    \* owner[i]: outbox.account_id.
  draft,    \* draft[i]: the draftId of a draftUpsert payload.
  status,   \* status[i]: outbox.status; "absent" before the insert, "deleted" after.
  due,      \* due[i]: next_attempt_at has passed.
  mask,     \* The rows with a line in thread_labels_pending.
  gone,     \* The drafts whose local row was sent, discarded or dropped.
  auth,     \* auth[a]: accounts.auth_state.
  up,       \* The process is running.
  pc,       \* pc[a]: where the drain of account a stands.
  job,      \* job[a]: the row in flight, 0 if none.
  count,    \* count[a]: rows this drain has settled.
  tip,      \* tip[a]: the last row of account a that Gmail applied, 0 if none.
  acked,    \* History: the rows marked done by an answer, not by a skip.
  crashes   \* How often the process died.

store == <<owner, draft, status, due, mask, gone, auth>>
vars == <<owner, draft, status, due, mask, gone, auth, up, pc, job, count, tip, acked, crashes>>

Statuses == {"absent", "pending", "inflight", "done", "failed", "deleted"}
OpenStatuses == {"pending", "inflight"}

Open(i) == status[i] \in OpenStatuses

(* The insert takes the next id of the table. *)
IsNewRow(i) == \A j \in RowIds : j < i <=> status[j] # "absent"

(* A row whose draft is gone has nothing left to mirror. *)
NothingToMirror(i) == draft[i] \in gone

(* Row i is the one the select of nextOutbox returns, and it is due.  The  *)
(* rows before it that mirror a draft that is gone have been skipped.      *)
Taken(a, i) ==
  /\ owner[i] = a
  /\ status[i] = "pending"
  /\ due[i]
  /\ ~NothingToMirror(i)
  /\ \A j \in RowIds :
        j < i /\ owner[j] = a /\ status[j] = "pending" => due[j] /\ NothingToMirror(j)

(* The rows the loop of next() marks done on its way: each is the oldest   *)
(* pending row when its turn comes.                                        *)
Skipped(a) ==
  {i \in RowIds :
     /\ owner[i] = a
     /\ status[i] = "pending"
     /\ \A j \in RowIds :
          j <= i /\ owner[j] = a /\ status[j] = "pending" => due[j] /\ NothingToMirror(j)}

(* The loop of drainAccount has an attempt left. *)
BatchOpen(a) == count[a] < MaxBatch

(* clearPendingMask *)
LiftMask(i) == mask' = mask \ {i}

(* A fault: a lost answer is taken for an acknowledgement. *)
FaultyAnswered(a) == pc[a] \in {"call", "applied"}

(* The request of account a was carried out and answered. *)
Answered(a) == pc[a] = "applied"

(* A fault: start does not put interrupted rows back. *)
FaultyAfterRestart(s) == s

(* resetInflightOutbox, for one row. *)
AfterRestart(s) == IF s = "inflight" THEN "pending" ELSE s

-----------------------------------------------------------------------------

Init ==
  /\ owner = [i \in RowIds |-> NoAccount]
  /\ draft = [i \in RowIds |-> NoDraft]
  /\ status = [i \in RowIds |-> "absent"]
  /\ due = [i \in RowIds |-> FALSE]
  /\ mask = {}
  /\ gone = {}
  /\ auth = [a \in Accounts |-> "ok"]
  /\ up = TRUE
  /\ pc = [a \in Accounts |-> "off"]
  /\ job = [a \in Accounts |-> 0]
  /\ count = [a \in Accounts |-> 0]
  /\ tip = [a \in Accounts |-> 0]
  /\ acked = {}
  /\ crashes = 0

(* enqueueOutbox: the row is due at once. *)
Insert(a, d, i) ==
  /\ IsNewRow(i)
  /\ owner' = [owner EXCEPT ![i] = a]
  /\ draft' = [draft EXCEPT ![i] = d]
  /\ status' = [status EXCEPT ![i] = "pending"]
  /\ due' = [due EXCEPT ![i] = TRUE]

(* changeThreadLabels: the row and its mask are written together. *)
ChangeThread(a) ==
  /\ up
  /\ \E i \in RowIds :
       /\ Insert(a, NoDraft, i)
       /\ mask' = mask \cup {i}
  /\ UNCHANGED <<gone, auth, up, pc, job, count, tip, acked, crashes>>

(* enqueueDraftUpsert: a pending row of the draft is replaced, and then    *)
(* nothing this module looks at changes.                                   *)
SaveDraft(d) ==
  /\ up
  /\ d \notin gone
  /\ \A i \in RowIds : draft[i] = d => status[i] # "pending"
  /\ \E i \in RowIds : Insert(HomeOf[d], d, i)
  /\ UNCHANGED <<mask, gone, auth, up, pc, job, count, tip, acked, crashes>>

(* detachDraftForSend and discardDraft: the pending mirrors of the draft   *)
(* are deleted; one that is in flight is not.                              *)
RemoveDraft(d) ==
  /\ up
  /\ d \notin gone
  /\ gone' = gone \cup {d}
  /\ status' = [i \in RowIds |-> IF draft[i] = d /\ status[i] = "pending"
                                 THEN "deleted" ELSE status[i]]
  /\ UNCHANGED <<owner, draft, due, mask, auth, up, pc, job, count, tip, acked, crashes>>

(* Time passes next_attempt_at. *)
BecomeDue(i) ==
  /\ status[i] = "pending"
  /\ ~due[i]
  /\ due' = [due EXCEPT ![i] = TRUE]
  /\ UNCHANGED <<owner, draft, status, mask, gone, auth, up, pc, job, count, tip, acked, crashes>>

-----------------------------------------------------------------------------

(* A sync run gets as far as its drain; there is one run per account. *)
StartDrain(a) ==
  /\ up
  /\ auth[a] = "ok"
  /\ pc[a] = "off"
  /\ pc' = [pc EXCEPT ![a] = "next"]
  /\ count' = [count EXCEPT ![a] = 0]
  /\ UNCHANGED <<store, up, job, tip, acked, crashes>>

(* source.next() and markInflight. *)
TakeNext(a) ==
  /\ pc[a] = "next"
  /\ BatchOpen(a)
  /\ \E i \in RowIds :
       /\ Taken(a, i)
       /\ status' = [k \in RowIds |-> IF k = i THEN "inflight"
                                      ELSE IF k \in Skipped(a) THEN "done"
                                      ELSE status[k]]
       /\ job' = [job EXCEPT ![a] = i]
  /\ pc' = [pc EXCEPT ![a] = "call"]
  /\ UNCHANGED <<owner, draft, due, mask, gone, auth, up, count, tip, acked, crashes>>

(* source.next() returns null, or the batch is full: the drain is over. *)
EndDrain(a) ==
  /\ pc[a] = "next"
  /\ \/ /\ BatchOpen(a)
        /\ \A i \in RowIds : ~Taken(a, i)
        /\ status' = [k \in RowIds |-> IF k \in Skipped(a) THEN "done" ELSE status[k]]
     \/ /\ ~BatchOpen(a)
        /\ UNCHANGED status
  /\ pc' = [pc EXCEPT ![a] = "off"]
  /\ UNCHANGED <<owner, draft, due, mask, gone, auth, up, job, count, tip, acked, crashes>>

(* The request of executeOutboxOp reaches Gmail, which makes the change. *)
GmailApplies(a) ==
  /\ pc[a] = "call"
  /\ tip' = [tip EXCEPT ![a] = job[a]]
  /\ pc' = [pc EXCEPT ![a] = "applied"]
  /\ UNCHANGED <<store, up, job, count, acked, crashes>>

(* markOutboxDone: the answer arrives, the mask is lifted. *)
Ack(a) ==
  /\ Answered(a)
  /\ status' = [status EXCEPT ![job[a]] = "done"]
  /\ LiftMask(job[a])
  /\ count' = [count EXCEPT ![a] = @ + 1]
  /\ job' = [job EXCEPT ![a] = 0]
  /\ pc' = [pc EXCEPT ![a] = "next"]
  /\ acked' = acked \cup {job[a]}
  /\ UNCHANGED <<owner, draft, due, gone, auth, up, tip, crashes>>

(* markOutboxFailed with a retry time: a rate limit, a server error, no    *)
(* network, or an answer that never came.  The drain stops here.           *)
FailRetry(a) ==
  /\ pc[a] \in {"call", "applied"}
  /\ status' = [status EXCEPT ![job[a]] = "pending"]
  /\ due' = [due EXCEPT ![job[a]] = FALSE]
  /\ job' = [job EXCEPT ![a] = 0]
  /\ pc' = [pc EXCEPT ![a] = "off"]
  /\ UNCHANGED <<owner, draft, mask, gone, auth, up, count, tip, acked, crashes>>

(* markOutboxFailed with no retry time: Gmail refuses the request (400,    *)
(* 403, 404).  The drain goes on with the next row.  A request repeated by *)
(* the client after a server error may be refused though Gmail applied it. *)
FailTerminal(a) ==
  /\ pc[a] \in {"call", "applied"}
  /\ status' = [status EXCEPT ![job[a]] = "failed"]
  /\ LiftMask(job[a])
  /\ count' = [count EXCEPT ![a] = @ + 1]
  /\ job' = [job EXCEPT ![a] = 0]
  /\ pc' = [pc EXCEPT ![a] = "next"]
  /\ UNCHANGED <<owner, draft, due, gone, auth, up, tip, acked, crashes>>

(* The token is refused: the row fails for good, the drain stops, and      *)
(* runOnce marks the account expired.                                      *)
FailAuth(a) ==
  /\ pc[a] \in {"call", "applied"}
  /\ status' = [status EXCEPT ![job[a]] = "failed"]
  /\ LiftMask(job[a])
  /\ auth' = [auth EXCEPT ![a] = "expired"]
  /\ job' = [job EXCEPT ![a] = 0]
  /\ pc' = [pc EXCEPT ![a] = "off"]
  /\ UNCHANGED <<owner, draft, due, gone, up, count, tip, acked, crashes>>

SignIn(a) ==
  /\ up
  /\ auth[a] = "expired"
  /\ auth' = [auth EXCEPT ![a] = "ok"]
  /\ UNCHANGED <<owner, draft, status, due, mask, gone, up, pc, job, count, tip, acked, crashes>>

(* The process dies; the database is what is left. *)
Crash ==
  /\ up
  /\ crashes < MaxCrashes
  /\ crashes' = crashes + 1
  /\ up' = FALSE
  /\ pc' = [a \in Accounts |-> "off"]
  /\ job' = [a \in Accounts |-> 0]
  /\ UNCHANGED <<store, count, tip, acked>>

(* SyncManager.start: resetInflightOutbox. *)
Restart ==
  /\ ~up
  /\ up' = TRUE
  /\ status' = [i \in RowIds |-> AfterRestart(status[i])]
  /\ UNCHANGED <<owner, draft, due, mask, gone, auth, pc, job, count, tip, acked, crashes>>

Drain(a) ==
  \/ StartDrain(a) \/ TakeNext(a) \/ EndDrain(a) \/ GmailApplies(a)
  \/ Ack(a) \/ FailRetry(a) \/ FailTerminal(a) \/ FailAuth(a)

Next ==
  \/ \E a \in Accounts : Drain(a) \/ ChangeThread(a) \/ SignIn(a)
  \/ \E d \in Drafts : SaveDraft(d) \/ RemoveDraft(d)
  \/ \E i \in RowIds : BecomeDue(i)
  \/ Crash
  \/ Restart

Spec == Init /\ [][Next]_vars

(* The poll timer starts a run again and again, a run goes on by itself,   *)
(* time passes, and a dead process is started again.  Strong fairness says *)
(* that of ever repeated attempts one reaches Gmail, and one is answered:  *)
(* the network is not down forever.                                        *)
Fairness ==
  /\ \A a \in Accounts :
       /\ WF_vars(StartDrain(a))
       /\ WF_vars(TakeNext(a))
       /\ WF_vars(EndDrain(a))
       /\ SF_vars(GmailApplies(a))
       /\ SF_vars(Ack(a))
  /\ \A i \in RowIds : WF_vars(BecomeDue(i))
  /\ WF_vars(Restart)

FairSpec == Spec /\ Fairness

-----------------------------------------------------------------------------

(* Every variable has its type. *)
TypeOK ==
  /\ owner \in [RowIds -> Accounts \cup {NoAccount}]
  /\ draft \in [RowIds -> Drafts \cup {NoDraft}]
  /\ status \in [RowIds -> Statuses]
  /\ due \in [RowIds -> BOOLEAN]
  /\ mask \in SUBSET RowIds
  /\ gone \in SUBSET Drafts
  /\ auth \in [Accounts -> {"ok", "expired"}]
  /\ up \in BOOLEAN
  /\ pc \in [Accounts -> {"off", "next", "call", "applied"}]
  /\ job \in [Accounts -> 0..MaxRows]
  /\ count \in [Accounts -> 0..MaxBatch]
  /\ tip \in [Accounts -> 0..MaxRows]
  /\ acked \in SUBSET RowIds
  /\ crashes \in 0..MaxCrashes

(* A thread's history is masked exactly while a change of the thread is    *)
(* open: a mask that stays would hide Gmail's changes for good, a mask     *)
(* lifted early would let history undo the change made here.               *)
MaskedWhileOpen ==
  \A i \in RowIds : i \in mask <=> Open(i) /\ draft[i] = NoDraft

(* A row in flight is the row its account's drain is working on, so that   *)
(* no row is left in flight with nobody to answer for it.                  *)
InflightIsHeld ==
  up => \A i \in RowIds :
          status[i] = "inflight" <=> \E a \in Accounts : job[a] = i /\ owner[i] = a

(* No change is overtaken: once a change has reached Gmail, every earlier  *)
(* change of the account is settled, through retries, crashes and restarts. *)
NeverOvertaken ==
  \A a \in Accounts, i \in RowIds : owner[i] = a /\ Open(i) => tip[a] <= i

(* Gmail's state never goes back to an older change: it may see the last   *)
(* change again, never one before it.                                      *)
NeverGoesBack == [][\A a \in Accounts : tip'[a] >= tip[a]]_vars

(* A change is settled in the end if its account stays signed in: neither  *)
(* a crash, a full batch nor a failing network leaves it behind.           *)
SettledInTheEnd ==
  \A a \in Accounts :
    <>[](auth[a] = "ok") => \A i \in RowIds : [](owner[i] = a /\ Open(i) => <>~Open(i))

-----------------------------------------------------------------------------

(* What became of row i, in the words of the abstract specification. *)
PhaseOf(i) ==
  IF status[i] = "absent" THEN "unmade"
  ELSE IF Open(i) THEN "open"
  ELSE IF status[i] = "failed" THEN "refused"
  ELSE IF i \in acked THEN "delivered"
  ELSE "withdrawn"

Abstract == INSTANCE OrderedDelivery WITH phase <- [i \in RowIds |-> PhaseOf(i)]

(* The outbox is an ordered delivery: rows reach Gmail in the order they   *)
(* were written, and a row is acknowledged only after it reached Gmail.    *)
ImplementsOrderedDelivery == Abstract!Spec
=============================================================================
