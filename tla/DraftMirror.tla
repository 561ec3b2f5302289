---------------------------- MODULE DraftMirror ----------------------------
(***************************************************************************)
(* Drafts live in one list with Gmail's: a draft written here is mirrored  *)
(* to users.drafts through the outbox, a draft written in Gmail is         *)
(* imported, a draft that is sent leaves both.                             *)
(*                                                                         *)
(*   apps/desktop/electron/drafts/mirror.ts   the mirror and the reconcile *)
(*   packages/store/src/queries/drafts.ts     the drafts table             *)
(*   packages/store/src/queries/outbox.ts     the draft rows of the outbox *)
(*   packages/gmail/src/outbox.ts             draftUpsert, draftDelete     *)
(*   apps/desktop/electron/compose/queue.ts   queueSend, undoSend          *)
(*                                                                         *)
(* One account.  A text is a number: every edit, here or in Gmail, writes  *)
(* a new one.  The message id behind a Gmail draft changes with every      *)
(* write; rev counts the writes.  The rows of the outbox that are settled  *)
(* are left out, so the row in flight is the first one (InflightIsFirst in *)
(* Outbox_proofs.tla).  Building the message of a draft is one step with   *)
(* queueing it.  A drain and a reconcile belong to the one run of the      *)
(* account, so they exclude each other; the user does not wait for either. *)
(***************************************************************************)
EXTENDS Naturals, Sequences, SequencesExt, FiniteSetsExt, Functions

CONSTANTS
  MaxDrafts,  \* Bound: local drafts ever made.
  MaxGmail,   \* Bound: Gmail drafts ever made.
  MaxTexts,   \* Bound: texts ever written.
  MaxRows,    \* Bound: open rows of the outbox.
  MaxSends,   \* Bound: messages ever sent from a draft.
  MaxLists,   \* Bound: reconciles.
  MaxRemote,  \* Bound: changes made in Gmail.
  MaxFaults,  \* Bound: faults of any kind.
  Faults      \* The kinds of fault that may happen.

ASSUME FaultsAssumption ==
  Faults \subseteq {"error", "refused", "auth", "crash", "attachment"}

VARIABLES
  drafts,  \* The drafts table: text, gid, rev, state, recent for each local id.
  armed,   \* The drafts whose debounce has yet to fire.
  rows,    \* The open rows of the outbox, oldest first.
  gmail,   \* users.drafts: text and rev for each Gmail draft id.
  sends,   \* The send queue: status, text and gid of each message.
  run,     \* What the account's run is doing.
  job,     \* The call under way: op, draft, text, gid.
  answer,  \* What Gmail did with it: gid, rev, gone.
  seen,    \* The reconcile: what it read of Gmail, the drafts and the queue.
  todo,    \* The Gmail drafts it has yet to visit.
  lastDraft, lastGmail, lastText, lists, remote,  \* Counters.
  faults,  \* The faults that happened.
  owed,    \* History: the texts written here that nobody replaced or discarded.
  theirs,  \* History: the texts written in Gmail.
  stray    \* History: the Gmail drafts made there, or left behind by a fault.

table == <<drafts, armed>>
box == <<rows, job, answer>>
reconcile == <<seen, todo, lists>>
counters == <<lastDraft, lastGmail, lastText, remote>>
history == <<owed, theirs, stray>>
vars == <<drafts, armed, rows, gmail, sends, run, job, answer, seen, todo,
          lastDraft, lastGmail, lastText, lists, remote, faults, owed, theirs, stray>>

None == 0
NoJob == [op |-> "none", draft |-> None, text |-> None, gid |-> None]
NoAnswer == [gid |-> None, rev |-> None, gone |-> FALSE]
NoSeen == [gmail |-> <<>>, drafts |-> <<>>, at |-> None, fetched |-> <<>>]

Here(d) == d \in DOMAIN drafts

-----------------------------------------------------------------------------
(* The outbox rows of drafts. *)

UpsertRow(d, t) == [op |-> "upsert", draft |-> d, text |-> t, gid |-> None, due |-> TRUE, inflight |-> FALSE]
DeleteRow(g) == [op |-> "delete", draft |-> None, text |-> None, gid |-> g, due |-> TRUE, inflight |-> FALSE]

IsUpsert(r, d) == r.op = "upsert" /\ r.draft = d

(* A fault: a row in flight takes the text as well. *)
FaultyWaiting(rs, d) == {i \in DOMAIN rs : IsUpsert(rs[i], d)}

(* pendingDraftUpsert: waiting, not in flight. *)
Waiting(rs, d) == {i \in DOMAIN rs : IsUpsert(rs[i], d) /\ ~rs[i].inflight}

(* hasOpenDraftUpsert *)
HasOpenUpsert(rs, d) == \E i \in DOMAIN rs : IsUpsert(rs[i], d)

(* enqueueDraftUpsert: the oldest waiting row of the draft gets the text. *)
EnqueueUpsert(rs, d, t) ==
  LET w == Waiting(rs, d)
  IN  IF w = {} THEN Append(rs, UpsertRow(d, t)) ELSE [rs EXCEPT ![Min(w)].text = t]

(* The rows at the places of is, in order: SelectSeq, as a function the    *)
(* provers can unfold.                                                     *)
RowsAt(rs, is) ==
  LET upTo[n \in 0 .. Len(rs)] ==
        IF n = 0 THEN <<>> ELSE IF n \in is THEN Append(upTo[n - 1], rs[n]) ELSE upTo[n - 1]
  IN  upTo[Len(rs)]

(* dropPendingDraftUpserts, for each of ds. *)
DropAll(rs, ds) == RowsAt(rs, {i \in DOMAIN rs : rs[i].inflight \/ ~\E d \in ds : IsUpsert(rs[i], d)})
DropUpserts(rs, d) == DropAll(rs, {d})

EnqueueDelete(rs, g) == IF g = None THEN rs ELSE Append(rs, DeleteRow(g))

Without(f, x) == Restrict(f, DOMAIN f \ {x})
With(f, x, v) == [y \in DOMAIN f \cup {x} |-> IF y = x THEN v ELSE f[y]]

(* A draft typed here: saved, waiting for its mirror. *)
Typed(t, g, v) == [text |-> t, gid |-> g, rev |-> v, state |-> "pending", recent |-> TRUE]

-----------------------------------------------------------------------------

Init ==
  /\ drafts = <<>>
  /\ armed = {}
  /\ rows = <<>>
  /\ gmail = <<>>
  /\ sends = <<>>
  /\ run = "idle"
  /\ job = NoJob
  /\ answer = NoAnswer
  /\ seen = NoSeen
  /\ todo = {}
  /\ lastDraft = 0 /\ lastGmail = 0 /\ lastText = 0
  /\ lists = 0 /\ remote = 0 /\ faults = <<>>
  /\ owed = {} /\ theirs = {} /\ stray = {}

Fault(kind) ==
  /\ kind \in Faults
  /\ Len(faults) < MaxFaults
  /\ faults' = Append(faults, kind)

Happened(kind) == kind \in ToSet(faults)

NewText ==
  /\ lastText < MaxTexts
  /\ lastText' = lastText + 1

(* saveDraft without an id, then DraftMirror.touch. *)
NewDraft ==
  /\ lastDraft < MaxDrafts
  /\ NewText
  /\ lastDraft' = lastDraft + 1
  /\ drafts' = With(drafts, lastDraft', Typed(lastText', None, None))
  /\ armed' = armed \cup {lastDraft'}
  /\ owed' = owed \cup {lastText'}
  /\ UNCHANGED <<box, gmail, sends, run, reconcile, lastGmail, remote, faults, theirs, stray>>

(* saveDraft with an id, then touch: the row keeps its Gmail draft. *)
EditDraft(d) ==
  /\ Here(d)
  /\ NewText
  /\ drafts' = [drafts EXCEPT ![d] = Typed(lastText', @.gid, @.rev)]
  /\ armed' = armed \cup {d}
  /\ owed' = (owed \ {drafts[d].text}) \cup {lastText'}
  /\ UNCHANGED <<box, gmail, sends, run, reconcile, lastDraft, lastGmail, remote, faults, theirs, stray>>

(* A minute passes; the debounce of two seconds has fired by then. *)
Age(d) ==
  /\ Here(d)
  /\ drafts[d].recent
  /\ d \notin armed
  /\ drafts' = [drafts EXCEPT ![d].recent = FALSE]
  /\ UNCHANGED <<armed, box, gmail, sends, run, reconcile, counters, faults, history>>

(* DraftMirror.fire: mirrorDraft, if the draft is still there. *)
Fire(d) ==
  /\ d \in armed
  /\ armed' = armed \ {d}
  /\ IF Here(d)
     THEN /\ Len(rows) < MaxRows
          /\ rows' = EnqueueUpsert(rows, d, drafts[d].text)
          /\ drafts' = [drafts EXCEPT ![d].state = "pending"]
     ELSE UNCHANGED <<rows, drafts>>
  /\ UNCHANGED <<gmail, sends, run, job, answer, reconcile, counters, faults, history>>

(* discardDraft: the row goes, its waiting mirror goes, and the Gmail      *)
(* draft is deleted through the outbox.                                    *)
Discard(d) ==
  /\ Here(d)
  /\ Len(rows) < MaxRows
  /\ armed' = armed \ {d}
  /\ drafts' = Without(drafts, d)
  /\ rows' = EnqueueDelete(DropUpserts(rows, d), drafts[d].gid)
  /\ owed' = owed \ {drafts[d].text}
  /\ UNCHANGED <<gmail, sends, run, job, answer, reconcile, counters, faults, theirs, stray>>

-----------------------------------------------------------------------------
(* Sending a draft.  Of the send queue only what the mirror sees of it is  *)
(* here: "composing" is the time sendDraft awaits the receipt service and  *)
(* the message, "queued" stands for queued and sending, "sent" lasts       *)
(* SENT_GRACE_MS; "refused" is a send that never reached the queue.        *)

Some(g) == {g} \ {None}

(* sendDraft, its first half: detachDraftForSend. *)
Detach(d) ==
  /\ Here(d)
  /\ Len(sends) < MaxSends
  /\ armed' = armed \ {d}
  /\ drafts' = Without(drafts, d)
  /\ rows' = DropUpserts(rows, d)
  /\ sends' = Append(sends, [status |-> "composing", text |-> drafts[d].text, gid |-> drafts[d].gid])
  /\ UNCHANGED <<gmail, run, job, answer, reconcile, counters, faults, history>>

(* Its second half: queueSend. *)
QueueSend(s) ==
  /\ sends[s].status = "composing"
  /\ sends' = [sends EXCEPT ![s].status = "queued"]
  /\ UNCHANGED <<table, box, gmail, run, reconcile, counters, faults, history>>

(* readAttachments throws: nothing is queued, and nothing puts the row back. *)
RefuseSend(s) ==
  /\ sends[s].status = "composing"
  /\ Fault("attachment")
  /\ sends' = [sends EXCEPT ![s].status = "refused"]
  /\ stray' = stray \cup Some(sends[s].gid)
  /\ UNCHANGED <<table, box, gmail, run, reconcile, counters, owed, theirs>>

(* An undone or failed send: restoreDraft saves a new row tied to the Gmail *)
(* draft and queues its mirror.                                            *)
ReturnDraft(s) ==
  /\ sends[s].status = "queued"
  /\ lastDraft < MaxDrafts
  /\ Len(rows) < MaxRows
  /\ sends' = [sends EXCEPT ![s].status = "returned"]
  /\ lastDraft' = lastDraft + 1
  /\ drafts' = With(drafts, lastDraft', Typed(sends[s].text, sends[s].gid, None))
  /\ rows' = EnqueueUpsert(rows, lastDraft', sends[s].text)
  /\ UNCHANGED <<armed, gmail, run, job, answer, reconcile, lastGmail, lastText, remote, faults, history>>

(* releaseSends, the message is out: its Gmail draft is to be deleted. *)
Release(s) ==
  /\ sends[s].status = "queued"
  /\ Len(rows) < MaxRows
  /\ sends' = [sends EXCEPT ![s].status = "sent"]
  /\ rows' = EnqueueDelete(rows, sends[s].gid)
  /\ UNCHANGED <<table, gmail, run, job, answer, reconcile, counters, faults, history>>

(* SENT_GRACE_MS after a send, recentlySentGmailDraftIds forgets it. *)
GraceEnds(s) ==
  /\ sends[s].status = "sent"
  /\ sends' = [sends EXCEPT ![s].status = "old"]
  /\ UNCHANGED <<table, box, gmail, run, reconcile, counters, faults, history>>

-----------------------------------------------------------------------------
(* The drain: one call at a time, the oldest row first. *)

StartDrain ==
  /\ run = "idle"
  /\ run' = "drain"
  /\ UNCHANGED <<table, box, gmail, sends, reconcile, counters, faults, history>>

HeadIsDue == rows # <<>> /\ rows[1].due

HeadIsMoot == rows[1].op = "upsert" /\ ~Here(rows[1].draft)

(* next: a mirror whose draft was sent or discarded meanwhile is done. *)
SkipMoot ==
  /\ run = "drain"
  /\ HeadIsDue /\ HeadIsMoot
  /\ rows' = Tail(rows)
  /\ UNCHANGED <<table, gmail, sends, run, job, answer, reconcile, counters, faults, history>>

(* next and markInflight: the text is the row's, the Gmail draft is the    *)
(* one the draft is tied to by now.                                        *)
TakeNext ==
  /\ run = "drain"
  /\ HeadIsDue /\ ~HeadIsMoot
  /\ LET r == rows[1]
     IN  job' = [op |-> r.op, draft |-> r.draft, text |-> r.text,
                 gid |-> IF r.op = "upsert" THEN drafts[r.draft].gid ELSE r.gid]
  /\ rows' = [rows EXCEPT ![1].inflight = TRUE]
  /\ run' = "call"
  /\ UNCHANGED <<table, gmail, sends, answer, reconcile, counters, faults, history>>

EndDrain ==
  /\ run = "drain"
  /\ ~HeadIsDue
  /\ run' = "idle"
  /\ UNCHANGED <<table, box, gmail, sends, reconcile, counters, faults, history>>

Writes(g, t, rev) == gmail' = With(gmail, g, [text |-> t, rev |-> rev])

(* drafts.create *)
GmailCreates ==
  /\ run = "call" /\ job.op = "upsert" /\ job.gid = None
  /\ lastGmail < MaxGmail
  /\ lastGmail' = lastGmail + 1
  /\ Writes(lastGmail', job.text, 1)
  /\ answer' = [gid |-> lastGmail', rev |-> 1, gone |-> FALSE]
  /\ run' = "applied"
  /\ UNCHANGED <<table, rows, job, sends, reconcile, lastDraft, lastText, remote, faults, history>>

(* drafts.update; a draft that is not there any more is an answer too. *)
GmailUpdates ==
  /\ run = "call" /\ job.op = "upsert" /\ job.gid # None
  /\ IF job.gid \in DOMAIN gmail
     THEN /\ Writes(job.gid, job.text, gmail[job.gid].rev + 1)
          /\ answer' = [gid |-> job.gid, rev |-> gmail[job.gid].rev + 1, gone |-> FALSE]
     ELSE /\ answer' = [gid |-> job.gid, rev |-> None, gone |-> TRUE]
          /\ UNCHANGED gmail
  /\ run' = "applied"
  /\ UNCHANGED <<table, rows, job, sends, reconcile, counters, faults, history>>

(* drafts.delete; one that is already gone is the outcome that was wanted. *)
GmailDeletes ==
  /\ run = "call" /\ job.op = "delete"
  /\ gmail' = Without(gmail, job.gid)
  /\ run' = "applied"
  /\ UNCHANGED <<table, rows, job, answer, sends, reconcile, counters, faults, history>>

CallOver == job' = NoJob /\ answer' = NoAnswer

(* A fault: the copy Gmail made of a draft that is gone here stays there. *)
FaultyOrphan(rs) == rs

(* Sent or discarded while the call was in flight: the copy goes. *)
Orphan(rs) == EnqueueDelete(rs, answer.gid)

(* A fault: the message Gmail made of the draft is not written down. *)
FaultyRecorded == None

(* setDraftMirror: gmail_message_id *)
Recorded == answer.rev

(* Another edit waiting behind this one keeps the row Saving. *)
StateAfter(rs, d) == IF HasOpenUpsert(rs, d) THEN "pending" ELSE "synced"

(* ack: markOutboxDone, then applyDraftUpsertAck. *)
Ack ==
  /\ run = "applied"
  /\ run' = "drain"
  /\ CallOver
  /\ LET d == job.draft
         rest == Tail(rows)
     IN \/ /\ job.op = "delete"
           /\ rows' = rest
           /\ UNCHANGED drafts
        \/ /\ job.op = "upsert" /\ answer.gone
           /\ rows' = IF Here(d) THEN DropUpserts(rest, d) ELSE rest
           /\ drafts' = Without(drafts, d)
        \/ /\ job.op = "upsert" /\ ~answer.gone /\ ~Here(d)
           /\ rows' = Orphan(rest)
           /\ UNCHANGED drafts
        \/ /\ job.op = "upsert" /\ ~answer.gone /\ Here(d)
           /\ rows' = rest
           /\ drafts' = [drafts EXCEPT ![d].gid = answer.gid, ![d].rev = Recorded,
                                       ![d].state = StateAfter(rest, d)]
  /\ UNCHANGED <<armed, gmail, sends, reconcile, counters, faults, history>>

(* applyDraftUpsertFail *)
MirrorState(d, state) ==
  drafts' = IF Here(d) THEN [drafts EXCEPT ![d].state = state] ELSE drafts

(* What a call that was never acknowledged may leave in Gmail. *)
Unanswered == IF run = "applied" /\ job.op = "upsert" /\ job.gid = None THEN {answer.gid} ELSE {}

(* What a delete that is given up leaves in Gmail. *)
Undeleted == IF job.op = "delete" THEN {job.gid} ELSE {}

(* fail with a retry: the row waits again, and the drain stops at it. *)
FailRetry ==
  /\ run \in {"call", "applied"}
  /\ Fault("error")
  /\ rows' = [rows EXCEPT ![1].inflight = FALSE, ![1].due = FALSE]
  /\ MirrorState(job.draft, "pending")
  /\ stray' = stray \cup Unanswered
  /\ run' = "idle"
  /\ CallOver
  /\ UNCHANGED <<armed, gmail, sends, reconcile, counters, owed, theirs>>

(* fail for good: Gmail will never accept the row. *)
FailTerminal ==
  /\ run = "call"
  /\ Fault("refused")
  /\ rows' = Tail(rows)
  /\ MirrorState(job.draft, "failed")
  /\ stray' = stray \cup Undeleted
  /\ run' = "drain"
  /\ CallOver
  /\ UNCHANGED <<armed, gmail, sends, reconcile, counters, owed, theirs>>

(* fail on a dead token: the row fails, the run stops, the account signs   *)
(* in again later.                                                         *)
FailAuth ==
  /\ run = "call"
  /\ Fault("auth")
  /\ rows' = Tail(rows)
  /\ MirrorState(job.draft, "pending")
  /\ stray' = stray \cup Undeleted
  /\ run' = "idle"
  /\ CallOver
  /\ UNCHANGED <<armed, gmail, sends, reconcile, counters, owed, theirs>>

(* The backoff of a row passes. *)
BecomeDue ==
  /\ \E i \in DOMAIN rows :
       /\ ~rows[i].due
       /\ rows' = [rows EXCEPT ![i].due = TRUE]
  /\ UNCHANGED <<table, gmail, sends, run, job, answer, reconcile, counters, faults, history>>

-----------------------------------------------------------------------------
(* Gmail's own side: the web, the phone. *)

RemoteChange ==
  /\ remote < MaxRemote
  /\ remote' = remote + 1

GmailNew ==
  /\ RemoteChange
  /\ lastGmail < MaxGmail
  /\ NewText
  /\ lastGmail' = lastGmail + 1
  /\ Writes(lastGmail', lastText', 1)
  /\ theirs' = theirs \cup {lastText'}
  /\ stray' = stray \cup {lastGmail'}
  /\ UNCHANGED <<table, box, sends, run, reconcile, lastDraft, faults, owed>>

GmailEdit(g) ==
  /\ RemoteChange
  /\ g \in DOMAIN gmail
  /\ NewText
  /\ Writes(g, lastText', gmail[g].rev + 1)
  /\ theirs' = theirs \cup {lastText'}
  /\ UNCHANGED <<table, box, sends, run, reconcile, lastDraft, lastGmail, faults, owed, stray>>

GmailDelete(g) ==
  /\ RemoteChange
  /\ g \in DOMAIN gmail
  /\ gmail' = Without(gmail, g)
  /\ UNCHANGED <<table, box, sends, run, reconcile, lastDraft, lastGmail, lastText, faults, history>>

-----------------------------------------------------------------------------
(* reconcileGmailDrafts.  The run may call it whenever history touched a   *)
(* draft, and once after every start; here it may at any time.             *)

Tied(ds) == {d \in DOMAIN ds : ds[d].gid # None}

(* queuedGmailDraftIds and recentlySentGmailDraftIds *)
Leaving == {sends[s].gid : s \in {s \in DOMAIN sends : sends[s].status \in {"queued", "sent"}}}

(* What the reconcile uses of the row of a draft. *)
AsListed(r) == [gid |-> r.gid, rev |-> r.rev, recent |-> r.recent]

(* drafts.list is answered: what is gone there goes here, the rest is to   *)
(* be visited.                                                             *)
List ==
  /\ run = "idle"
  /\ lists < MaxLists
  /\ lists' = lists + 1
  /\ LET gone == {d \in Tied(drafts) : drafts[d].gid \notin DOMAIN gmail}
     IN  /\ drafts' = Restrict(drafts, DOMAIN drafts \ gone)
         /\ rows' = DropAll(rows, gone)
  /\ seen' = [NoSeen EXCEPT !.gmail = [g \in DOMAIN gmail |-> gmail[g].rev],
                            !.drafts = [d \in Tied(drafts) |-> AsListed(drafts[d])]]
  /\ todo' = DOMAIN gmail \ Leaving
  /\ run' = "visit"
  /\ UNCHANGED <<armed, gmail, sends, job, answer, counters, faults, history>>

(* localByGmail: the row tied to g when the list was read, the last if two. *)
LocalOf(g) ==
  LET ds == {d \in DOMAIN seen.drafts : seen.drafts[d].gid = g}
  IN  IF ds = {} THEN None ELSE Max(ds)

Unchanged(g) == LocalOf(g) # None /\ seen.drafts[LocalOf(g)].rev = seen.gmail[g]

(* Typed here within LOCAL_WINS_MS, as the list was read. *)
LocalWins(g) == LocalOf(g) # None /\ seen.drafts[LocalOf(g)].recent

VisitUnchanged(g) ==
  /\ run = "visit" /\ g \in todo
  /\ Unchanged(g)
  /\ todo' = todo \ {g}
  /\ UNCHANGED <<table, box, gmail, sends, run, seen, lists, counters, faults, history>>

(* What was typed here goes up: mirrorDraft, which reads the row again. *)
VisitPush(g) ==
  /\ run = "visit" /\ g \in todo
  /\ ~Unchanged(g) /\ LocalWins(g)
  /\ todo' = todo \ {g}
  /\ LET d == LocalOf(g)
     IN  IF Here(d)
         THEN /\ Len(rows) < MaxRows
              /\ rows' = EnqueueUpsert(rows, d, drafts[d].text)
              /\ MirrorState(d, "pending")
         ELSE UNCHANGED <<rows, drafts>>
  /\ UNCHANGED <<armed, gmail, sends, run, job, answer, seen, lists, counters, faults, history>>

(* getGmailDraft is asked for the rest. *)
VisitFetch(g) ==
  /\ run = "visit" /\ g \in todo
  /\ ~Unchanged(g) /\ ~LocalWins(g)
  /\ todo' = todo \ {g}
  /\ seen' = [seen EXCEPT !.at = g]
  /\ run' = "fetch"
  /\ UNCHANGED <<table, box, gmail, sends, lists, counters, faults, history>>

(* Its answer: the waiting mirror of the row is dropped, and the files are *)
(* fetched.                                                                *)
Fetched ==
  /\ run = "fetch"
  /\ seen.at \in DOMAIN gmail
  /\ seen' = [seen EXCEPT !.fetched = gmail[seen.at]]
  /\ rows' = DropUpserts(rows, LocalOf(seen.at))
  /\ run' = "stage"
  /\ UNCHANGED <<table, gmail, sends, job, answer, todo, lists, counters, faults, history>>

(* upsertGmailDraft: the row now tied to g, or a new one. *)
RowFor(g) ==
  LET ds == {d \in DOMAIN drafts : drafts[d].gid = g}
  IN  IF ds = {} THEN lastDraft + 1 ELSE Min(ds)

Import ==
  /\ run = "stage"
  /\ LET g == seen.at
         d == RowFor(g)
     IN  /\ drafts' = With(drafts, d,
              [text |-> seen.fetched.text, gid |-> g, rev |-> seen.fetched.rev, state |-> "synced",
               recent |-> IF Here(d) THEN drafts[d].recent ELSE FALSE])
         /\ lastDraft' = IF Here(d) THEN lastDraft ELSE d
  /\ seen' = [seen EXCEPT !.at = None, !.fetched = <<>>]
  /\ run' = "visit"
  /\ UNCHANGED <<armed, box, gmail, sends, todo, lists, lastGmail, lastText, remote, faults, history>>

ReconcileOver == seen' = NoSeen /\ todo' = {} /\ run' = "idle"

EndReconcile ==
  /\ run = "visit" /\ todo = {}
  /\ ReconcileOver
  /\ UNCHANGED <<table, box, gmail, sends, lists, counters, faults, history>>

(* A draft that went since the list is a 404, which ends the reconcile. *)
ReconcileMisses ==
  /\ run = "fetch" /\ seen.at \notin DOMAIN gmail
  /\ ReconcileOver
  /\ UNCHANGED <<table, box, gmail, sends, lists, counters, faults, history>>

(* So does any other error. *)
ReconcileFails ==
  /\ run = "fetch"
  /\ Fault("error")
  /\ ReconcileOver
  /\ UNCHANGED <<table, box, gmail, sends, lists, counters, history>>

-----------------------------------------------------------------------------

(* A fault: after a restart the drafts left Saving stay as they are. *)
FaultyRecovered(rs) == {}

(* DraftMirror.recover: pending, and no row behind it. *)
Recovered(rs) == {d \in DOMAIN drafts : drafts[d].state = "pending" /\ ~HasOpenUpsert(rs, d)}

(* The process dies and starts again: resetInflightOutbox, recover.  A     *)
(* message that was not in the queue yet is lost.                          *)
Crash ==
  /\ Fault("crash")
  /\ rows' = [i \in DOMAIN rows |-> [rows[i] EXCEPT !.inflight = FALSE]]
  /\ armed' = Recovered(rows)
  /\ sends' = [s \in DOMAIN sends |->
                 IF sends[s].status = "composing" THEN [sends[s] EXCEPT !.status = "refused"] ELSE sends[s]]
  /\ stray' = stray \cup Unanswered
                \cup UNION {Some(sends[s].gid) : s \in {s \in DOMAIN sends : sends[s].status = "composing"}}
  /\ ReconcileOver
  /\ CallOver
  /\ UNCHANGED <<drafts, gmail, lists, counters, owed, theirs>>

-----------------------------------------------------------------------------

User ==
  \/ NewDraft
  \/ \E d \in DOMAIN drafts : EditDraft(d) \/ Discard(d) \/ Detach(d)
  \/ \E s \in DOMAIN sends : ReturnDraft(s)

Remote ==
  \/ GmailNew
  \/ \E g \in DOMAIN gmail : GmailEdit(g) \/ GmailDelete(g)

Clock ==
  \/ \E d \in DOMAIN drafts : Age(d)
  \/ \E s \in DOMAIN sends : GraceEnds(s)
  \/ BecomeDue

Mirror == \E d \in armed : Fire(d)

Sending == \E s \in DOMAIN sends : QueueSend(s) \/ RefuseSend(s) \/ Release(s)

Drain ==
  \/ StartDrain \/ SkipMoot \/ TakeNext \/ EndDrain
  \/ GmailCreates \/ GmailUpdates \/ GmailDeletes
  \/ Ack \/ FailRetry \/ FailTerminal \/ FailAuth

Reconcile ==
  \/ \E g \in todo : VisitUnchanged(g) \/ VisitPush(g) \/ VisitFetch(g)
  \/ Fetched \/ Import \/ EndReconcile \/ ReconcileMisses

Next ==
  User \/ Remote \/ Clock \/ Mirror \/ Sending \/ Drain \/ List \/ Reconcile \/ ReconcileFails \/ Crash

Spec == Init /\ [][Next]_vars

(* The debounce timer fires, the run comes round and finishes its work,    *)
(* and a backoff passes.                                                   *)
FairSpec ==
  /\ Spec
  /\ WF_vars(Mirror)
  /\ WF_vars(StartDrain \/ SkipMoot \/ TakeNext \/ EndDrain)
  /\ WF_vars(GmailCreates \/ GmailUpdates \/ GmailDeletes)
  /\ WF_vars(Ack)
  /\ WF_vars(Reconcile)
  /\ WF_vars(BecomeDue)

-----------------------------------------------------------------------------

Texts == 1 .. MaxTexts
States == {"pending", "synced", "failed"}
SendStates == {"composing", "refused", "queued", "returned", "sent", "old"}

(* The variables have their types; what is under way has what it needs.    *)
(* An outbox row in flight is the first of the open ones.                  *)
TypeOK ==
  /\ \A d \in DOMAIN drafts :
       /\ d \in 1 .. lastDraft
       /\ drafts[d].text \in Texts
       /\ drafts[d].gid \in 0 .. lastGmail
       /\ drafts[d].state \in States
       /\ drafts[d].state = "synced" => drafts[d].gid # None
  /\ armed \subseteq 1 .. lastDraft
  /\ \A i \in DOMAIN rows : rows[i].inflight => i = 1
  /\ run \in {"call", "applied"} <=> rows # <<>> /\ rows[1].inflight
  /\ \A g \in DOMAIN gmail : g \in 1 .. lastGmail /\ gmail[g].text \in Texts
  /\ \A s \in DOMAIN sends : sends[s].status \in SendStates
  /\ run \in {"idle", "drain", "call", "applied", "visit", "fetch", "stage"}
  /\ job # NoJob <=> run \in {"call", "applied"}
  /\ todo \subseteq DOMAIN seen.gmail
  /\ owed \cup theirs \subseteq Texts
  /\ stray \subseteq 1 .. lastGmail

(* A Gmail draft the app made is tied to a draft or a message here, or its *)
(* deletion is queued, or its answer is on the way (applyDraftUpsertAck,   *)
(* detachDraftForSend, discardDraft, releaseSends): nothing the app put in *)
(* Gmail is forgotten there.                                               *)
NoStrayDraft ==
  \A g \in DOMAIN gmail \ stray :
    \/ \E d \in DOMAIN drafts : drafts[d].gid = g
    \/ \E s \in DOMAIN sends : sends[s].gid = g /\ sends[s].status \in {"composing", "queued"}
    \/ \E i \in DOMAIN rows : rows[i].op = "delete" /\ rows[i].gid = g
    \/ run = "applied" /\ answer.gid = g

(* A reconcile ran, and a draft was sent: the two may have overlapped.     *)
SentAndListed == lists > 0 /\ sends # <<>>

(* A draft that reads SAVING has a debounce running, a row in the outbox,  *)
(* or an import under way (saveDraft, applyDraftUpsertAck, recover): it    *)
(* does not read so for good, unless its row failed with a dead token, or  *)
(* two rows are tied to its Gmail draft (a reconcile while it was being    *)
(* sent, an undo): the next reconcile drops the mirror of the one and      *)
(* imports into the other (localByGmail, upsertGmailDraft).                *)
SavingIsBacked ==
  ~Happened("auth") /\ (lists <= 1 \/ sends = <<>>) =>
    \A d \in DOMAIN drafts :
      drafts[d].state = "pending" =>
        d \in armed \/ HasOpenUpsert(rows, d) \/ (run = "stage" /\ LocalOf(seen.at) = d)

(* A draft that reads IN GMAIL, with nothing waiting to go up, is in Gmail *)
(* as it reads here (mirrorDraft, applyDraftUpsertAck).                    *)
InGmailIsInGmail ==
  \A d \in DOMAIN drafts :
    /\ drafts[d].state = "synced"
    /\ d \notin armed /\ ~HasOpenUpsert(rows, d)
    /\ drafts[d].gid \in DOMAIN gmail
    => gmail[drafts[d].gid].text = drafts[d].text

(* So it is, if nobody writes in Gmail, no call of the mirror is repeated, *)
(* the process lives, and no message is sent while a reconcile is under    *)
(* way.                                                                    *)
SyncedIsMirrored ==
  remote = 0 /\ ~Happened("error") /\ ~Happened("crash") /\ ~SentAndListed => InGmailIsInGmail

(* No two drafts here are one draft in Gmail, and none is the Gmail draft  *)
(* of a message waiting to go out (reconcileGmailDrafts, upsertGmailDraft, *)
(* queuedGmailDraftIds).                                                   *)
OneDraftOneGmail ==
  \A d \in Tied(drafts) :
    /\ \A e \in Tied(drafts) : drafts[d].gid = drafts[e].gid => d = e
    /\ \A s \in DOMAIN sends : sends[s].status = "queued" => sends[s].gid # drafts[d].gid

(* So it is, as long as no message is sent while a reconcile is under way. *)
LinkedOnce == ~SentAndListed => OneDraftOneGmail

(* The ties between the drafts here and those in Gmail hold: nothing the   *)
(* app made there is forgotten, and nothing is tied twice.                 *)
TiesHold == NoStrayDraft /\ LinkedOnce

(* The state a draft shows is true: SAVING has something behind it, and    *)
(* IN GMAIL is in Gmail, each but for what its part names.                 *)
StateIsTrue == SavingIsBacked /\ SyncedIsMirrored

(* An import never puts back a text this draft had before: what replaces a *)
(* row was written in Gmail (upsertGmailDraft), if no answer was lost and  *)
(* no message was sent and undone while a reconcile was under way.         *)
ImportBringsNews ==
  [][~Happened("error") /\ ~Happened("crash") /\ ~SentAndListed =>
       \A d \in DOMAIN drafts \cap DOMAIN drafts' :
         drafts'[d].text < drafts[d].text => drafts'[d].text \in theirs]_vars

(* A draft that reads SAVING reaches Gmail, fails with a reason, or goes   *)
(* away (the debounce, the outbox, recover).                               *)
SavedInTheEnd ==
  \A d \in 1 .. MaxDrafts :
    (Here(d) /\ drafts[d].state = "pending") ~>
      ~(Here(d) /\ drafts[d].state = "pending")

-----------------------------------------------------------------------------
(* What the comments of the code promise and the code does not keep.       *)

(* A text written here is in the drafts table or in the send queue until   *)
(* it is replaced or discarded, if nobody writes in Gmail.                 *)
TextKept ==
  \A t \in owed :
    \/ \E d \in DOMAIN drafts : drafts[d].text = t
    \/ \E s \in DOMAIN sends : sends[s].text = t /\ sends[s].status \notin {"refused", "returned"}

(* A text typed here within the last minute is only replaced by typing     *)
(* (LOCAL_WINS_MS).                                                        *)
LocalWinsAMinute ==
  [][\A d \in DOMAIN drafts :
       drafts[d].recent /\ d \in DOMAIN drafts' /\ drafts'[d].text # drafts[d].text =>
         lastText' # lastText]_vars

(* Of two mirrors of one draft the later one carries the later text        *)
(* (enqueueDraftUpsert), so that the last call leaves the last text.       *)
NewestLast ==
  \A i, j \in DOMAIN rows :
    i < j /\ rows[i].op = "upsert" /\ rows[j].op = "upsert" /\ rows[i].draft = rows[j].draft =>
      rows[i].text <= rows[j].text
=============================================================================
