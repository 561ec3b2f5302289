------------------------------ MODULE MCOutbox ------------------------------
(***************************************************************************)
(* What leaves the machine, for TLC: the outbox, on an instance of one     *)
(* account with a draft, and the send queue with two messages, one of them *)
(* with a read receipt, each picked up at most twice, and two deaths, so   *)
(* that the second may fall into the recovery.  They share no state        *)
(* here (what joins them is in DraftMirror), so a behaviour is one of one  *)
(* of them, the other standing still: part says whose.                     *)
(***************************************************************************)
EXTENDS Outbox

CONSTANTS a1, d1, s1, s2, Sends, NoSend, Armed, MaxTries, MaxDeaths

VARIABLES
  part,
  state, ripe, tries, receipt, restored, dropping, returning, awake, ticking, batch, current, taken,
  accepted, lost, torn, doubtful, deaths

outbox == vars
sending == <<state, ripe, tries, receipt, restored, dropping, returning, awake, ticking, batch, current, taken,
             accepted, lost, torn, doubtful, deaths>>

Queue == INSTANCE SendQueue WITH
  status <- state, due <- ripe, up <- awake, crashes <- deaths, MaxCrashes <- MaxDeaths

ASSUME QueueAssumption == Queue!SendQueueAssumption

MCHomeOf == [d \in {d1} |-> a1]
-----------------------------------------------------------------------------
AllInit == part \in {"outbox", "sends"} /\ Init /\ Queue!Init

AllNext ==
  \/ part = "outbox" /\ Next /\ UNCHANGED <<part, sending>>
  \/ part = "sends" /\ Queue!Next /\ UNCHANGED <<part, outbox>>

(* The fairness of each, for its part. *)
AllSpec ==
  /\ AllInit /\ [][AllNext]_<<part, outbox, sending>>
  /\ \A a \in Accounts :
       /\ WF_outbox(part = "outbox" /\ StartDrain(a))
       /\ WF_outbox(part = "outbox" /\ TakeNext(a))
       /\ WF_outbox(part = "outbox" /\ EndDrain(a))
       /\ SF_outbox(part = "outbox" /\ GmailApplies(a))
       /\ SF_outbox(part = "outbox" /\ Ack(a))
  /\ \A i \in RowIds : WF_outbox(part = "outbox" /\ BecomeDue(i))
  /\ WF_outbox(part = "outbox" /\ Restart)
  /\ WF_sending(part = "sends" /\ Queue!StartTick)
  /\ WF_sending(part = "sends" /\ Queue!EndTick)
  /\ WF_sending(part = "sends" /\ Queue!Restart)
  /\ WF_sending(part = "sends" /\ Queue!TurnGoesOn)
  /\ \A s \in Sends :
       /\ WF_sending(part = "sends" /\ Queue!BecomeDue(s))
       /\ WF_sending(part = "sends" /\ Queue!Visit(s))
       /\ WF_sending(part = "sends" /\ (Queue!Delivered(s) \/ Queue!Rejected(s) \/ Queue!Retried(s)))

-----------------------------------------------------------------------------
(* SendQueue: a message goes out twice only if an answer was lost between, *)
(* whatever was undone, ended or ticked twice.                             *)
DuplicateOnlyAfterLostAnswer == Queue!DuplicateOnlyAfterLostAnswer

(* SendQueue: a text is a draft again exactly when its message will not go *)
(* out from the queue, unless the process died in the turn that puts it    *)
(* back.                                                                   *)
TextInOnePlace == Queue!TextInOnePlace

(* SendQueue: a message does not wait for ever. *)
LeavesTheQueue == Queue!LeavesTheQueue
=============================================================================
