----------------------------- MODULE SendQueue -----------------------------
(***************************************************************************)
(* The send queue: a message waits out its undo window (or its send-later  *)
(* time), a scheduler tick picks it up, and it goes out or comes back.     *)
(*                                                                         *)
(*   packages/store/src/queries/scheduler.ts    send_queue                 *)
(*   apps/desktop/electron/scheduler.ts         tick, releaseSends,        *)
(*                                              recoverInterruptedSends    *)
(*   apps/desktop/electron/compose/queue.ts     queueSend, undoSend        *)
(*                                                                         *)
(* The user may undo at any moment, a tick may find the row it read a      *)
(* moment ago already moved, an answer of Gmail may be lost, and the       *)
(* process may die at any moment, also within a turn that has written the  *)
(* new status of a message and has yet to drop its receipt or to put its   *)
(* draft back.  The draft a message came from and its Gmail copy are in    *)
(* DraftMirror.tla; here a draft only comes back or does not.              *)
(***************************************************************************)
EXTENDS Naturals

CONSTANTS
  Sends,       \* The messages ever queued.
  NoSend,      \* Stands for no message.
  Armed,       \* The messages whose writer armed a read receipt.
  MaxTries,    \* Bound: times one message is picked up.
  MaxCrashes   \* Bound: times the process dies.

SendQueueAssumption ==
  /\ NoSend \notin Sends /\ Armed \subseteq Sends
  /\ MaxTries \in Nat /\ MaxCrashes \in Nat

VARIABLES
  status,    \* status[s]: send_queue.status; "none" before enqueueSend.
  due,       \* due[s]: send_at has passed.
  tries,     \* tries[s]: send_queue.attempts.
  receipt,   \* The messages with a row in read_receipts.
  restored,  \* restored[s]: how often the draft of s came back to Drafts.
  dropping,  \* The messages whose receipt this turn has yet to drop.
  returning, \* The messages whose draft this turn has yet to put back.
  up,        \* The process is running.
  ticking,   \* Scheduler.ticking
  batch,     \* The rows this tick read from releasableSends and has yet to visit.
  current,   \* The row whose sendRaw is awaited.
  taken,     \* Gmail took the message with the request now under way.
  accepted,  \* accepted[s]: how often Gmail took the message.
  lost,      \* lost[s]: how often Gmail took it and a live process was told otherwise.
  torn,      \* History: the messages during whose return the process died.
  doubtful,  \* History: the messages a start found in sending.
  crashes    \* How often the process died.

queue == <<status, due, tries, receipt, restored>>
turn == <<dropping, returning>>
tick == <<ticking, batch, current, taken>>
past == <<torn, doubtful, crashes>>
vars == <<status, due, tries, receipt, restored, dropping, returning, up, ticking, batch, current, taken,
          accepted, lost, torn, doubtful, crashes>>

Statuses == {"none", "queued", "sending", "sent", "failed", "cancelled"}

(* The statuses a message leaves for good, with its draft put back. *)
Returned == {"failed", "cancelled"}

Init ==
  /\ status = [s \in Sends |-> "none"]
  /\ due = [s \in Sends |-> FALSE]
  /\ tries = [s \in Sends |-> 0]
  /\ receipt = {}
  /\ restored = [s \in Sends |-> 0]
  /\ dropping = {}
  /\ returning = {}
  /\ up = TRUE
  /\ ticking = FALSE
  /\ batch = {}
  /\ current = NoSend
  /\ taken = FALSE
  /\ accepted = [s \in Sends |-> 0]
  /\ lost = [s \in Sends |-> 0]
  /\ torn = {}
  /\ doubtful = {}
  /\ crashes = 0

(* The main process is between two turns: it has made every write of the   *)
(* last one.  Nothing of its own comes in between, but its death.          *)
Free == up /\ dropping = {} /\ returning = {}

(* queueSend: the row and, if the writer armed one, the receipt.  The pixel *)
(* service may refuse the receipt, or the process die behind the row; the  *)
(* message is queued all the same.                                         *)
QueueSend(s) ==
  /\ Free
  /\ status[s] = "none"
  /\ status' = [status EXCEPT ![s] = "queued"]
  /\ receipt' \in {receipt, receipt \cup ({s} \cap Armed)}
  /\ UNCHANGED <<due, tries, restored, turn, up, tick, accepted, lost, past>>

(* Time passes send_at. *)
BecomeDue(s) ==
  /\ status[s] = "queued"
  /\ ~due[s]
  /\ due' = [due EXCEPT ![s] = TRUE]
  /\ UNCHANGED <<status, tries, receipt, restored, turn, up, tick, accepted, lost, past>>

(* A fault: the update forgets AND status = 'queued'. *)
FaultyCancellable(s) == status[s] \in {"queued", "sending"}

(* cancelSend only takes a row that is still queued. *)
Cancellable(s) == status[s] = "queued"

(* undoSend, whose handler goes on to restoreDraft. *)
UndoSend(s) ==
  /\ Free
  /\ Cancellable(s)
  /\ status' = [status EXCEPT ![s] = "cancelled"]
  /\ dropping' = {s}
  /\ returning' = {s}
  /\ UNCHANGED <<due, tries, receipt, restored, up, tick, accepted, lost, past>>

(* deleteReceiptForSend *)
DropReceipt(s) ==
  /\ s \in dropping
  /\ dropping' = dropping \ {s}
  /\ receipt' = receipt \ {s}
  /\ UNCHANGED <<status, due, tries, restored, returning, up, tick, accepted, lost, past>>

(* restoreDraft, as far as its saveDraft: the same turn as the status. *)
PutDraftBack(s) ==
  /\ s \in returning \ dropping
  /\ returning' = returning \ {s}
  /\ restored' = [restored EXCEPT ![s] = @ + 1]
  /\ UNCHANGED <<status, due, tries, receipt, dropping, up, tick, accepted, lost, past>>

-----------------------------------------------------------------------------

(* One tick at a time. *)
MayTick == Free /\ ~ticking

(* tick: releaseSends reads the due rows once. *)
StartTick ==
  /\ MayTick
  /\ ticking' = TRUE
  /\ batch' = {s \in Sends : status[s] = "queued" /\ due[s] /\ tries[s] < MaxTries}
  /\ UNCHANGED <<queue, turn, up, current, taken, accepted, lost, past>>

(* markSending is a conditional update. *)
StillQueued(s) == status[s] = "queued"

(* The next row of the batch: an undone row is passed over; a row whose    *)
(* account has no client goes back; the others are sent.                   *)
Visit(s) ==
  /\ Free /\ ticking
  /\ current = NoSend
  /\ s \in batch
  /\ batch' = batch \ {s}
  /\ \/ /\ ~StillQueued(s)
        /\ UNCHANGED <<status, due, tries, current>>
     \/ /\ StillQueued(s)
        /\ tries' = [tries EXCEPT ![s] = @ + 1]
        /\ \/ /\ status' = [status EXCEPT ![s] = "sending"]
              /\ current' = s
              /\ UNCHANGED due
           \/ /\ status' = [status EXCEPT ![s] = "queued"]
              /\ due' = [due EXCEPT ![s] = FALSE]
              /\ UNCHANGED current
  /\ UNCHANGED <<receipt, restored, turn, up, ticking, taken, accepted, lost, past>>

(* The request reaches Gmail and the message goes out. *)
GmailAccepts(s) ==
  /\ current = s
  /\ s \in Sends
  /\ ~taken
  /\ accepted[s] < MaxTries
  /\ accepted' = [accepted EXCEPT ![s] = @ + 1]
  /\ taken' = TRUE
  /\ UNCHANGED <<queue, turn, up, ticking, batch, current, lost, past>>

(* GmailClient.request: Gmail took the message and answered with a server  *)
(* error; the client waits and asks again within the same attempt.         *)
AskAgain(s) ==
  /\ Free
  /\ current = s
  /\ s \in Sends
  /\ taken
  /\ lost' = [lost EXCEPT ![s] = @ + 1]
  /\ taken' = FALSE
  /\ UNCHANGED <<queue, turn, up, ticking, batch, current, accepted, past>>

(* markSent: the answer arrives.  The receipt now has its message. *)
Delivered(s) ==
  /\ Free
  /\ current = s
  /\ s \in Sends
  /\ taken
  /\ status' = [status EXCEPT ![s] = "sent"]
  /\ current' = NoSend
  /\ taken' = FALSE
  /\ UNCHANGED <<due, tries, receipt, restored, turn, up, ticking, batch, accepted, lost, past>>

(* A terminal error (isTerminalSendError): the row fails; what is left of  *)
(* the turn drops the receipt and puts the draft back.  Gmail did not take *)
(* the message.                                                            *)
Rejected(s) ==
  /\ Free
  /\ current = s
  /\ s \in Sends
  /\ ~taken
  /\ status' = [status EXCEPT ![s] = "failed"]
  /\ current' = NoSend
  /\ dropping' = {s}
  /\ returning' = {s}
  /\ UNCHANGED <<due, tries, receipt, restored, up, ticking, batch, taken, accepted, lost, past>>

(* A fault: the row is left where it was. *)
FaultyAfterError(s) == "sending"

(* What markSendFailed with a retry time makes of the row. *)
AfterError(s) == "queued"

(* Any other error: the row is queued again for later.  Gmail may have     *)
(* taken the message and the answer been lost on the way.                  *)
Retried(s) ==
  /\ Free
  /\ current = s
  /\ s \in Sends
  /\ status' = [status EXCEPT ![s] = AfterError(s)]
  /\ due' = [due EXCEPT ![s] = FALSE]
  /\ current' = NoSend
  /\ lost' = IF taken THEN [lost EXCEPT ![s] = @ + 1] ELSE lost
  /\ taken' = FALSE
  /\ UNCHANGED <<tries, receipt, restored, turn, up, ticking, batch, accepted, past>>

EndTick ==
  /\ Free /\ ticking
  /\ batch = {}
  /\ current = NoSend
  /\ ticking' = FALSE
  /\ UNCHANGED <<queue, turn, up, batch, current, taken, accepted, lost, past>>

-----------------------------------------------------------------------------

(* The process dies, between two turns or between two writes of one: what  *)
(* the turn had yet to write is nowhere on disk.                           *)
Crash ==
  /\ up
  /\ crashes < MaxCrashes
  /\ crashes' = crashes + 1
  /\ up' = FALSE
  /\ torn' = torn \cup dropping \cup returning
  /\ dropping' = {}
  /\ returning' = {}
  /\ ticking' = FALSE
  /\ batch' = {}
  /\ current' = NoSend
  /\ taken' = FALSE
  /\ UNCHANGED <<queue, accepted, lost, doubtful>>

(* A fault: an interrupted message goes back to the queue. *)
FaultyInterrupted(s) == "queued"

(* What failInterruptedSends makes of a row left in sending. *)
Interrupted(s) == "failed"

(* A fault: every message that ever failed is put back. *)
FaultyInterruptedSends == {s \in Sends : status[s] \in {"sending", "failed"}}

(* The rows failInterruptedSends returns. *)
InterruptedSends == {s \in Sends : status[s] = "sending"}

(* Scheduler.start: recoverInterruptedSends.  One transaction fails the    *)
(* rows, then the drafts are put back one by one.  The receipts stay: the  *)
(* messages may be out.                                                    *)
Restart ==
  /\ ~up
  /\ up' = TRUE
  /\ status' = [s \in Sends |-> IF s \in InterruptedSends THEN Interrupted(s) ELSE status[s]]
  /\ returning' = InterruptedSends
  /\ doubtful' = doubtful \cup InterruptedSends
  /\ UNCHANGED <<due, tries, receipt, restored, dropping, tick, accepted, lost, torn, crashes>>

User == \E s \in Sends : QueueSend(s) \/ UndoSend(s)

Scheduler ==
  \/ StartTick
  \/ EndTick
  \/ \E s \in Sends : Visit(s) \/ Delivered(s) \/ Rejected(s) \/ Retried(s)

(* The turn goes on with its writes. *)
TurnGoesOn == \E s \in Sends : DropReceipt(s) \/ PutDraftBack(s)

Next ==
  \/ User
  \/ Scheduler
  \/ TurnGoesOn
  \/ \E s \in Sends : BecomeDue(s) \/ GmailAccepts(s) \/ AskAgain(s)
  \/ Crash
  \/ Restart

Spec == Init /\ [][Next]_vars

(* The interval timer keeps ticking, a started tick goes on, a turn runs   *)
(* to its end, transport gives up on a silent server after 30 seconds, and *)
(* time passes.                                                            *)
Fairness ==
  /\ WF_vars(TurnGoesOn)
  /\ WF_vars(StartTick)
  /\ WF_vars(EndTick)
  /\ WF_vars(Restart)
  /\ \A s \in Sends :
       /\ WF_vars(BecomeDue(s))
       /\ WF_vars(Visit(s))
       /\ WF_vars(Delivered(s) \/ Rejected(s) \/ Retried(s))

FairSpec == Spec /\ Fairness

-----------------------------------------------------------------------------

(* Every variable has its type. *)
TypeOK ==
  /\ status \in [Sends -> Statuses]
  /\ due \in [Sends -> BOOLEAN]
  /\ tries \in [Sends -> 0..MaxTries]
  /\ receipt \in SUBSET Armed
  /\ restored \in [Sends -> 0..1]
  /\ dropping \in SUBSET Sends
  /\ returning \in SUBSET Sends
  /\ up \in BOOLEAN
  /\ ticking \in BOOLEAN
  /\ batch \in SUBSET Sends
  /\ current \in Sends \cup {NoSend}
  /\ taken \in BOOLEAN
  /\ accepted \in [Sends -> 0..MaxTries]
  /\ lost \in [Sends -> 0..MaxTries]
  /\ torn \in SUBSET Sends
  /\ doubtful \in SUBSET Sends
  /\ crashes \in 0..MaxCrashes

(* A row is in sending for the tick that took it and for nobody else; only *)
(* a dead process leaves one behind.                                       *)
SendingIsHeld ==
  up => \A s \in Sends : status[s] = "sending" <=> current = s

(* A message goes out twice only if an answer was lost in between: neither *)
(* a crash, nor an undo that comes late, nor two ticks send it again.      *)
DuplicateOnlyAfterLostAnswer ==
  \A s \in Sends : accepted[s] <= lost[s] + 1

(* A message that was undone did not go out, unless Gmail took it and said *)
(* otherwise before the undo.                                              *)
UndoneIsUnsent ==
  \A s \in Sends : status[s] = "cancelled" => accepted[s] = lost[s]

(* The text is in one place: the draft is back exactly when the message    *)
(* will never go out from the queue, and it comes back once, whatever was  *)
(* undone, refused or interrupted, how often.  It is nowhere while the     *)
(* turn that gives it back has yet to write it, and for good where the     *)
(* process died in that turn (UndoSend, Rejected, Restart, PutDraftBack).  *)
TextInOnePlace ==
  \A s \in Sends :
    restored[s] = IF status[s] \in Returned /\ s \notin returning \cup torn THEN 1 ELSE 0

(* A receipt outlives its message only where the message may be out, or    *)
(* where the process died before the receipt was dropped: after an undo    *)
(* that was carried through there is none.                                 *)
ReceiptFollowsMessage ==
  \A s \in receipt :
    \/ status[s] \in {"queued", "sending", "sent"}
    \/ s \in dropping \cup torn \cup doubtful

(* What is sent, failed or cancelled stays so. *)
SettledForGood ==
  [][\A s \in Sends : status[s] \in {"sent"} \cup Returned => status'[s] = status[s]]_vars

(* A message does not wait in the queue for ever: it goes out, fails, is   *)
(* undone, or has used up the attempts this model allows.                  *)
LeavesTheQueue ==
  \A s \in Sends :
    status[s] \in {"queued", "sending"}
      ~> status[s] \in {"sent"} \cup Returned \/ tries[s] = MaxTries

-----------------------------------------------------------------------------

(* The text of a message that will not go out is under Drafts, whatever    *)
(* happened ("fail them, put the drafts back", electron/scheduler.ts:119). *)
(* The code does not keep it: the status is on disk before the draft is,   *)
(* and no start looks at a row that is already failed or cancelled.        *)
DraftIsBack == Free => \A s \in Sends : status[s] \in Returned => restored[s] = 1

(* A duplicate mail is never sent.  The code does not promise it: an       *)
(* answer can be lost (isTerminalSendError).                               *)
NeverSentTwice == \A s \in Sends : accepted[s] <= 1
=============================================================================
