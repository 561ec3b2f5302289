----------------------------- MODULE LabelSync -----------------------------
(***************************************************************************)
(* Labels, both ways: a change made here shows at once and waits in the    *)
(* outbox; a change made in Gmail comes in through history.list, or with a *)
(* thread that is fetched whole.                                           *)
(*                                                                         *)
(*   apps/desktop/electron/sync.ts           runOnce: backfill, poll, drain *)
(*   packages/store/src/queries/threads.ts   changeThreadLabels,           *)
(*                                           applyHistory, reapply masks   *)
(*   packages/store/src/queries/labels.ts    the pending masks             *)
(*   packages/gmail/src/history.ts, sync.ts  pullHistory, threads.get      *)
(*                                                                         *)
(* One account.  The run of the account is serial; the user acts at any    *)
(* moment, and so does Gmail.  What Gmail reads for an answer is split     *)
(* from what the program does with it.  A row of the outbox is its own     *)
(* mask (MaskedWhileOpen in Outbox.tla), and the settled rows are left     *)
(* out.  Labels by name, drafts, queues and everything a thread row shows  *)
(* beside its labels are left out.  Every thread here is a recent one, so  *)
(* both kinds of backfill list it.                                         *)
(***************************************************************************)
EXTENDS Naturals, Sequences, SequencesExt, FiniteSetsExt

CONSTANTS
  Threads,        \* The threads of the account.
  Messages,       \* The messages ever in it.
  ThreadOf,       \* The thread of each message.
  Labels,         \* The labels of interest.
  Old,            \* The messages Gmail holds when the account is added.
  Changes,        \* The changes the user may make to a thread.
  FetchAttempts,  \* THREAD_FETCH_ATTEMPTS, 5 in the code.
  MaxChanges,     \* Bound: changes made here.
  MaxRemote,      \* Bound: changes made in Gmail.
  MaxFaults,      \* Bound: faults of any kind.
  Faults          \* The kinds of fault that may happen.

ASSUME MailAssumption ==
  /\ ThreadOf \in [Messages -> Threads]
  /\ Old \subseteq Messages
  /\ Changes \subseteq [add : SUBSET Labels, remove : SUBSET Labels]
  /\ \A c \in Changes : c.add \cap c.remove = {}
  /\ IsFiniteSet(Messages)
ASSUME AttemptsAssumption == FetchAttempts \in Nat \ {0}

VARIABLES
  here,       \* The messages of the local store.
  local,      \* Their labels, messages.label_ids_json.
  rows,       \* The open label changes of the outbox, oldest first.
  sync,       \* accounts.sync_state; "new" as long as there is no cursor.
  watermark,  \* accounts.history_id
  cursor,     \* accounts.backfill_cursor: the threads still to be listed.
  there,      \* The messages Gmail holds.
  gmail,      \* Their labels in Gmail.
  log,        \* Gmail's history.
  run,        \* What the account's run is doing.
  upto,       \* The history id the last history.list gave.
  wanted,     \* The threads of the batch under way.
  reads,      \* What Gmail answered for each of them.
  retry,      \* retryFetch: failed attempts for each thread, 0 if it is not there.
  acked,      \* The threads whose change this drain delivered.
  changes, remote,  \* Counters.
  faults,     \* The faults that happened.
  refused     \* History: the labels, thread by thread, of changes that failed for good.

store == <<here, local, rows, sync, watermark, cursor>>
server == <<there, gmail, log>>
memory == <<upto, wanted, reads, retry, acked>>
counters == <<changes, remote, faults>>
vars == <<here, local, rows, sync, watermark, cursor, there, gmail, log, run,
          upto, wanted, reads, retry, acked, changes, remote, faults, refused>>

Of(t) == {m \in Messages : ThreadOf[m] = t}

Applied(c, labels) == (labels \ c.remove) \cup c.add

Touches(c, l) == l \in c.add \cup c.remove

-----------------------------------------------------------------------------
(* Pending masks. *)

OpenFor(t) == {i \in DOMAIN rows : rows[i].thread = t}

(* A fault: nothing is masked. *)
FaultyHasPendingMask(t) == FALSE

HasPendingMask(t) == OpenFor(t) # {}

(* Row i decides about label l in thread t: it is the youngest to touch it. *)
Decides(i, t, l) ==
  /\ Touches(rows[i], l)
  /\ \A j \in OpenFor(t) : Touches(rows[j], l) => j <= i

(* reapplyPendingMasks: the changes still open, oldest first. *)
Reapplied(t, labels) ==
  {l \in Labels :
     \/ \E i \in OpenFor(t) : Decides(i, t, l) /\ l \in rows[i].add
     \/ l \in labels /\ \A i \in OpenFor(t) : ~Touches(rows[i], l)}

-----------------------------------------------------------------------------
(* History. *)

Record(op, m, add, remove) == [op |-> op, msg |-> m, add |-> add, remove |-> remove]

(* The records of message m that the last history.list brought. *)
News(m) == {i \in watermark + 1 .. upto : log[i].msg = m}

(* messageDeleted is applied, mask or no mask. *)
Deleted == {m \in here : \E i \in News(m) : log[i].op = "deleted"}

(* A fault: a message that is not known yet is ignored. *)
FaultyUnknown == {}

(* The threads with news of a message that is not in the store. *)
Unknown == {ThreadOf[m] : m \in {m \in Messages \ here : \E i \in News(m) : log[i].op # "deleted"}}

(* Labels come and go in the order of history; messageAdded gives them all. *)
Replayed(m) ==
  {l \in Labels :
     LET is == {i \in News(m) : log[i].op = "added" \/ Touches(log[i], l)}
     IN  IF is = {} THEN l \in local[m] ELSE l \in log[Max(is)].add}

-----------------------------------------------------------------------------
(* Threads fetched whole. *)

NotRead == [how |-> "none", labels |-> <<>>]

(* threads.get: the messages of the thread, with their labels. *)
Answer(t) ==
  LET ms == Of(t) \cap there
  IN  IF ms = {} THEN [how |-> "gone", labels |-> <<>>]
      ELSE [how |-> "ok", labels |-> [m \in ms |-> gmail[m]]]

Got(t) == reads[t].how = "ok"

Listed(m) == m \in DOMAIN reads[ThreadOf[m]].labels

(* upsertThreadFromGmail for each thread of the batch: the answer is the   *)
(* whole truth about a thread, but for the changes still pending.          *)
WriteThreads ==
  /\ here' = {m \in Messages : IF Got(ThreadOf[m]) THEN Listed(m) ELSE m \in here}
  /\ local' = [m \in Messages |->
                 IF ~Got(ThreadOf[m]) THEN local[m]
                 ELSE IF Listed(m) THEN Reapplied(ThreadOf[m], reads[ThreadOf[m]].labels[m])
                 ELSE {}]

(* One more failed attempt; the last one gives the thread up. *)
AfterFailure(n) == IF n + 1 >= FetchAttempts THEN 0 ELSE n + 1

(* fetchThreads.  A thread that is gone neither landed nor failed. *)
KeepRetries ==
  retry' = [t \in Threads |->
              IF reads[t].how = "ok" THEN 0
              ELSE IF reads[t].how = "failed" THEN AfterFailure(retry[t])
              ELSE retry[t]]

NoBatch == wanted' = {} /\ reads' = [t \in Threads |-> NotRead]

AllRead == \A t \in wanted : reads[t].how # "none"

-----------------------------------------------------------------------------

Init ==
  /\ here = {}
  /\ local = [m \in Messages |-> {}]
  /\ rows = <<>>
  /\ sync = "new"
  /\ watermark = 0
  /\ cursor = {}
  /\ there = Old
  /\ gmail = [m \in Messages |-> IF m \in Old THEN Labels ELSE {}]
  /\ log = <<>>
  /\ run = "idle"
  /\ upto = 0
  /\ wanted = {}
  /\ reads = [t \in Threads |-> NotRead]
  /\ retry = [t \in Threads |-> 0]
  /\ acked = {}
  /\ changes = 0 /\ remote = 0 /\ faults = <<>>
  /\ refused = {}

Fault(kind) ==
  /\ kind \in Faults
  /\ Len(faults) < MaxFaults
  /\ faults' = Append(faults, kind)
  /\ UNCHANGED <<changes, remote>>

Happened(kind) == kind \in ToSet(faults)

(* changeThreadLabels: the labels, the outbox row and its mask, at once. *)
Change(t, c) ==
  /\ changes < MaxChanges
  /\ Of(t) \cap here # {}
  /\ changes' = changes + 1
  /\ local' = [m \in Messages |-> IF m \in here /\ ThreadOf[m] = t THEN Applied(c, local[m]) ELSE local[m]]
  /\ rows' = Append(rows, [thread |-> t, add |-> c.add, remove |-> c.remove, due |-> TRUE])
  /\ UNCHANGED <<here, sync, watermark, cursor, server, run, memory, remote, faults, refused>>

-----------------------------------------------------------------------------
(* Gmail's own side. *)

RemoteChange ==
  /\ remote < MaxRemote
  /\ remote' = remote + 1
  /\ UNCHANGED <<store, run, memory, changes, faults, refused>>

NeverSeen(m) == m \notin there /\ \A i \in DOMAIN log : log[i].msg # m

(* A message arrives. *)
GmailNew(m) ==
  /\ RemoteChange
  /\ NeverSeen(m)
  /\ there' = there \cup {m}
  /\ gmail' = [gmail EXCEPT ![m] = Labels]
  /\ log' = Append(log, Record("added", m, Labels, {}))

(* It is read on the phone, starred on the web. *)
GmailLabels(m, c) ==
  /\ RemoteChange
  /\ m \in there
  /\ Applied(c, gmail[m]) # gmail[m]
  /\ gmail' = [gmail EXCEPT ![m] = Applied(c, @)]
  /\ log' = Append(log, Record("labels", m, c.add \ gmail[m], c.remove \cap gmail[m]))
  /\ UNCHANGED there

GmailDelete(m) ==
  /\ RemoteChange
  /\ m \in there
  /\ there' = there \ {m}
  /\ gmail' = [gmail EXCEPT ![m] = {}]
  /\ log' = Append(log, Record("deleted", m, {}, {}))

-----------------------------------------------------------------------------
(* The run of the account: a backfill or a poll, then the drain. *)

StartRun ==
  /\ run = "idle"
  /\ run' = CASE sync = "live" -> "pull" [] sync = "new" -> "profile" [] OTHER -> "list"
  /\ UNCHANGED <<store, server, memory, counters, refused>>

(* getProfile: the watermark of a backfill is the history id before its    *)
(* first page.                                                             *)
Profile ==
  /\ run = "profile"
  /\ watermark' = Len(log)
  /\ run' = "list"
  /\ UNCHANGED <<here, local, rows, sync, cursor, server, memory, counters, refused>>

ThreadsThere == {ThreadOf[m] : m \in there}

(* threads.list: the first page, or the page at the cursor. *)
List ==
  /\ run = "list"
  /\ cursor' = IF sync = "new" THEN ThreadsThere ELSE cursor
  /\ \/ /\ cursor' = {}
        /\ sync' = "live"
        /\ run' = "drain"
        /\ UNCHANGED wanted
     \/ /\ wanted' \in SUBSET cursor' \ {{}}
        /\ run' = "page"
        /\ UNCHANGED sync
  /\ UNCHANGED <<here, local, rows, watermark, server, upto, reads, retry, acked, counters, refused>>

Fetching == run \in {"page", "fetch", "reread"}

(* One part of the batch is answered. *)
Read(t) ==
  /\ Fetching
  /\ t \in wanted
  /\ reads[t].how = "none"
  /\ reads' = [reads EXCEPT ![t] = Answer(t)]
  /\ UNCHANGED <<store, server, run, upto, wanted, retry, acked, counters, refused>>

(* One part of the batch fails, with something other than 404. *)
ReadFails(t) ==
  /\ Fetching
  /\ t \in wanted
  /\ reads[t].how = "none"
  /\ Fault("part")
  /\ reads' = [reads EXCEPT ![t] = [how |-> "failed", labels |-> <<>>]]
  /\ UNCHANGED <<store, server, run, upto, wanted, retry, acked, refused>>

(* A page of the backfill is written and the cursor moves. *)
LandPage ==
  /\ run = "page"
  /\ AllRead
  /\ \A t \in wanted : reads[t].how # "failed"
  /\ WriteThreads
  /\ cursor' = cursor \ wanted
  /\ sync' = IF cursor' = {} THEN "live" ELSE "backfill"
  /\ run' = IF cursor' = {} THEN "drain" ELSE "list"
  /\ NoBatch
  /\ UNCHANGED <<rows, watermark, server, upto, retry, acked, counters, refused>>

(* A failed part fails the page; the run ends and starts over later. *)
PageThrows ==
  /\ run = "page"
  /\ AllRead
  /\ \E t \in wanted : reads[t].how = "failed"
  /\ run' = "idle"
  /\ NoBatch
  /\ UNCHANGED <<store, server, upto, retry, acked, counters, refused>>

(* history.list answers with everything since the watermark. *)
Pull ==
  /\ run = "pull"
  /\ upto' = Len(log)
  /\ run' = "apply"
  /\ UNCHANGED <<store, server, wanted, reads, retry, acked, counters, refused>>

(* The poll throws: the watermark stays. *)
PullFails ==
  /\ run = "pull"
  /\ Fault("poll")
  /\ run' = "idle"
  /\ UNCHANGED <<store, server, memory, refused>>

(* The watermark is older than Gmail keeps: a backfill in the same run. *)
PullExpired ==
  /\ run = "pull"
  /\ watermark < Len(log)
  /\ Fault("expired")
  /\ sync' = "new"
  /\ run' = "profile"
  /\ UNCHANGED <<here, local, rows, watermark, cursor, server, memory, refused>>

(* applyHistory, in one transaction.  Without a thread to fetch the        *)
(* watermark moves at once.                                                *)
Apply ==
  /\ run = "apply"
  /\ here' = here \ Deleted
  /\ local' = [m \in Messages |->
                 IF m \in Deleted THEN {}
                 ELSE IF m \in here /\ ~HasPendingMask(ThreadOf[m]) THEN Replayed(m)
                 ELSE local[m]]
  /\ wanted' = Unknown \cup {t \in Threads : retry[t] > 0}
  /\ IF wanted' = {}
     THEN watermark' = upto /\ run' = "drain"
     ELSE run' = "fetch" /\ UNCHANGED watermark
  /\ UNCHANGED <<rows, sync, cursor, server, upto, reads, retry, acked, counters, refused>>

(* fetchThreads for the poll; then the watermark moves. *)
LandPoll ==
  /\ run = "fetch"
  /\ AllRead
  /\ WriteThreads
  /\ KeepRetries
  /\ watermark' = upto
  /\ run' = "drain"
  /\ NoBatch
  /\ UNCHANGED <<rows, sync, cursor, server, upto, acked, counters, refused>>

(* The whole batch throws: the poll ends here, and the watermark stays. *)
BatchThrows ==
  /\ run \in {"page", "fetch"}
  /\ Fault("poll")
  /\ run' = "idle"
  /\ NoBatch
  /\ UNCHANGED <<store, server, upto, retry, acked, refused>>

-----------------------------------------------------------------------------
(* The drain. *)

HeadIsDue == rows # <<>> /\ rows[1].due

(* next and markInflight. *)
TakeNext ==
  /\ run = "drain"
  /\ HeadIsDue
  /\ run' = "call"
  /\ UNCHANGED <<store, server, memory, counters, refused>>

(* The records of a threads.modify, message by message. *)
ModifyRecords(c, ms) ==
  LET changed == {m \in ms : Applied(c, gmail[m]) # gmail[m]}
  IN  SetToSeq({Record("labels", m, c.add \ gmail[m], c.remove \cap gmail[m]) : m \in changed})

(* threads.modify touches every message of the thread. *)
GmailModifies ==
  /\ run = "call"
  /\ LET c == rows[1]
         ms == Of(c.thread) \cap there
     IN  /\ ms # {}
         /\ gmail' = [m \in Messages |-> IF m \in ms THEN Applied(c, gmail[m]) ELSE gmail[m]]
         /\ log' = log \o ModifyRecords(c, ms)
  /\ run' = "applied"
  /\ UNCHANGED <<store, there, memory, counters, refused>>

Ack ==
  /\ run = "applied"
  /\ rows' = Tail(rows)
  /\ acked' = acked \cup {rows[1].thread}
  /\ run' = "drain"
  /\ UNCHANGED <<here, local, sync, watermark, cursor, server, upto, wanted, reads, retry, counters, refused>>

(* A retry: the row waits, and the drain is over. *)
FailRetry ==
  /\ run \in {"call", "applied"}
  /\ Fault("call")
  /\ rows' = [rows EXCEPT ![1].due = FALSE]
  /\ run' = "drained"
  /\ UNCHANGED <<here, local, sync, watermark, cursor, server, memory, refused>>

GiveUp ==
  /\ rows' = Tail(rows)
  /\ refused' = refused \cup {<<rows[1].thread, l>> : l \in rows[1].add \cup rows[1].remove}

(* Gmail refuses the change, or has no such thread any more. *)
FailTerminal ==
  /\ run = "call"
  /\ \/ Of(rows[1].thread) \cap there = {} /\ UNCHANGED counters
     \/ Fault("refused")
  /\ GiveUp
  /\ run' = "drain"
  /\ UNCHANGED <<here, local, sync, watermark, cursor, server, memory>>

(* The token is refused: the drain throws before it reads anything again. *)
FailAuth ==
  /\ run = "call"
  /\ Fault("auth")
  /\ GiveUp
  /\ acked' = {}
  /\ run' = "idle"
  /\ UNCHANGED <<here, local, sync, watermark, cursor, server, upto, wanted, reads, retry>>

(* A fault: nothing is read again. *)
FaultyReread == {}

(* The threads Gmail has all changes of: their history was masked. *)
Reread == {t \in acked : ~HasPendingMask(t)}

EndDrain ==
  /\ run = "drained" \/ (run = "drain" /\ ~HeadIsDue)
  /\ wanted' = Reread
  /\ acked' = {}
  /\ run' = IF wanted' = {} THEN "idle" ELSE "reread"
  /\ UNCHANGED <<store, server, upto, reads, retry, counters, refused>>

LandReread ==
  /\ run = "reread"
  /\ AllRead
  /\ WriteThreads
  /\ KeepRetries
  /\ run' = "idle"
  /\ NoBatch
  /\ UNCHANGED <<rows, sync, watermark, cursor, server, upto, acked, counters, refused>>

(* The batch throws; the catch logs it. *)
RereadThrows ==
  /\ run = "reread"
  /\ Fault("reread")
  /\ run' = "idle"
  /\ NoBatch
  /\ UNCHANGED <<store, server, upto, retry, acked, refused>>

(* The backoff of the first row passes. *)
BecomeDue ==
  /\ rows # <<>>
  /\ ~rows[1].due
  /\ rows' = [rows EXCEPT ![1].due = TRUE]
  /\ UNCHANGED <<here, local, sync, watermark, cursor, server, run, memory, counters, refused>>

(* The process dies and starts again with the store. *)
Crash ==
  /\ Fault("crash")
  /\ run' = "idle"
  /\ retry' = [t \in Threads |-> 0]
  /\ acked' = {}
  /\ NoBatch
  /\ UNCHANGED <<store, server, upto, refused>>

-----------------------------------------------------------------------------

User == \E t \in Threads, c \in Changes : Change(t, c)

Gmail == \E m \in Messages : GmailNew(m) \/ GmailDelete(m) \/ \E c \in Changes : GmailLabels(m, c)

Backfill == Profile \/ List \/ LandPage \/ PageThrows

Poll == Pull \/ Apply \/ LandPoll

Drain == TakeNext \/ GmailModifies \/ Ack \/ FailTerminal \/ EndDrain \/ LandReread

Reading == \E t \in wanted : Read(t)

Failing ==
  \/ \E t \in wanted : ReadFails(t)
  \/ PullFails \/ PullExpired \/ BatchThrows \/ FailRetry \/ FailAuth \/ RereadThrows \/ Crash

Next ==
  User \/ Gmail \/ StartRun \/ Backfill \/ Poll \/ Drain \/ Reading \/ BecomeDue \/ Failing

Spec == Init /\ [][Next]_vars

(* The poll timer starts runs, a run goes on, transport gives up on a      *)
(* silent server, and backoffs pass.  Faults are bounded.                  *)
FairSpec ==
  /\ Spec
  /\ WF_vars(StartRun)
  /\ WF_vars(Backfill \/ Poll \/ Drain)
  /\ WF_vars(Reading)
  /\ WF_vars(BecomeDue)

-----------------------------------------------------------------------------

(* The variables have their types. *)
TypeOK ==
  /\ here \subseteq Messages /\ there \subseteq Messages
  /\ local \in [Messages -> SUBSET Labels]
  /\ gmail \in [Messages -> SUBSET Labels]
  /\ \A i \in DOMAIN rows :
       rows[i] \in [thread : Threads, add : SUBSET Labels, remove : SUBSET Labels, due : BOOLEAN]
  /\ sync \in {"new", "backfill", "live"}
  /\ watermark \in 0 .. Len(log) /\ upto \in 0 .. Len(log)
  /\ cursor \subseteq Threads /\ wanted \subseteq Threads /\ acked \subseteq Threads
  /\ run \in {"idle", "profile", "list", "page", "pull", "apply", "fetch",
              "drain", "call", "applied", "drained", "reread"}
  /\ wanted # {} <=> Fetching
  /\ run \in {"call", "applied"} => rows # <<>>
  /\ \A t \in Threads : reads[t].how # "none" => t \in wanted
  /\ retry \in [Threads -> 0 .. FetchAttempts - 1]
  /\ refused \subseteq Threads \X Labels

(* A change made here and not yet delivered shows, on every message of its *)
(* thread: neither history nor a fetched thread undoes it (applyHistory,   *)
(* reapplyPendingMasks).  Of several the last one shows.                   *)
LocalWins ==
  \A m \in here : local[m] = Reapplied(ThreadOf[m], local[m])

(* Everything known is settled: no change waits here, no thread waits to   *)
(* be fetched, and history is read to its end.                             *)
CaughtUp ==
  /\ run = "idle" /\ sync = "live"
  /\ watermark = Len(log)
  /\ rows = <<>>
  /\ \A t \in Threads : retry[t] = 0

(* Once caught up, a message reads the same on both sides, but for the     *)
(* labels of a change that failed for good: what was masked while a change *)
(* waited is not lost (poll, drain, the read after the ack).               *)
SidesAgree ==
  CaughtUp =>
    \A m \in here \cap there, l \in Labels :
      <<ThreadOf[m], l>> \notin refused => (l \in local[m] <=> l \in gmail[m])

(* The faults after which a run forgets the threads it owes a fetch. *)
Forgetful == {"reread", "refused", "auth", "crash"}

(* No thread was given up after as many failed attempts as there are.      *)
NoneGivenUp == Len(faults) < FetchAttempts

Remembers == NoneGivenUp /\ \A kind \in Forgetful : ~Happened(kind)

(* So it is, if no fault made the run forget. *)
LabelsAgree == Remembers => SidesAgree

(* Once caught up, every message of Gmail is here (backfill, applyHistory, *)
(* fetchThreads).                                                          *)
AllHere == CaughtUp => there \subseteq here

(* So it is, if the process lives, since retryFetch is not kept, and no    *)
(* thread was given up.                                                    *)
NothingMissing == ~Happened("crash") /\ NoneGivenUp => AllHere

(* Once caught up, no message is here that Gmail has deleted, unless the   *)
(* watermark expired.                                                      *)
NoGhosts == CaughtUp /\ ~Happened("expired") => here \subseteq there

(* Once caught up, the two sides hold the same messages with the same      *)
(* labels, each part under the faults it names.                            *)
SidesMatch == LabelsAgree /\ NothingMissing /\ NoGhosts

(* The two sides agree in the end, when both stop changing (the poll       *)
(* timer, the drain, the read after the ack), under the same faults.       *)
Converges ==
  <>[](Remembers =>
         /\ there \subseteq here
         /\ ~Happened("expired") => here \subseteq there
         /\ \A m \in here \cap there : local[m] = gmail[m])

-----------------------------------------------------------------------------
(* What the comments of the code promise and the code does not keep.       *)

(* Once caught up, a thread whose changes all reached Gmail reads the same *)
(* on both sides (the read after the ack).                                 *)
DeliveredAgree ==
  CaughtUp =>
    \A m \in here \cap there :
      (\A l \in Labels : <<ThreadOf[m], l>> \notin refused) => local[m] = gmail[m]

(* A thread that cannot be fetched is dropped in the end, or fetched       *)
(* (THREAD_FETCH_ATTEMPTS).                                                *)
RetriesEnd == \A t \in Threads : retry[t] > 0 ~> retry[t] = 0

(* A thread is given up only after as many retries as the bound says, if   *)
(* the process lives (THREAD_FETCH_ATTEMPTS).                              *)
RetriedEnough ==
  [][\A t \in Threads :
       retry[t] > 0 /\ retry'[t] = 0 /\ reads[t].how = "failed" => retry[t] >= FetchAttempts]_vars
=============================================================================
