------------------------------ MODULE Replies ------------------------------
(***************************************************************************)
(* Answering in an open thread: whom a reply goes to, and the message      *)
(* shown below the thread until the sync brings it.                        *)
(*                                                                         *)
(*   apps/desktop/src/lib/compose.ts     recipientsFor, buildDraft,        *)
(*                                       sentMessage, mergePending         *)
(*   apps/desktop/src/state/store.ts     openCompose, sendCompose, undo,   *)
(*                                       refreshOpen                       *)
(*                                                                         *)
(* One thread, which stays open; its messages in the order of their dates. *)
(* A list of addresses is the set of them: their order is only looks.  The *)
(* send queue is in SendQueue.tla; here a message goes out, fails or is    *)
(* undone.  A send for later is not shown, and left out.                   *)
(***************************************************************************)
EXTENDS Naturals, Sequences, SequencesExt, FiniteSets

CONSTANTS
  Owners,    \* The addresses of the accounts signed in here.
  Others,    \* Everybody else's.
  First,     \* How the first message may be addressed: from, reply, to, cc.
  Near,      \* A message this much older still confirms a pending one: a minute.
  Keep,      \* A pending message is shown this long: fifteen minutes.
  MaxMails,  \* Bound: messages that are received.
  MaxSends,  \* Bound: messages that are sent.
  MaxClock   \* Bound: the clock.

People == Owners \cup Others

VARIABLES
  clock,
  thread,    \* The messages of the thread in the store.
  shown,     \* open.messages: those the pane shows, pending ones last.
  sends,     \* The messages sent from here: their date, and where they are.
  mails      \* Counter.

vars == <<clock, thread, shown, sends, mails>>

Mail(id, from, reply, to, cc) ==
  [id |-> id, from |-> from, reply |-> reply, to |-> to, cc |-> cc,
   at |-> clock, out |-> FALSE, pending |-> FALSE]

-----------------------------------------------------------------------------
(* lib/compose.ts *)

(* A note to oneself: nobody is left without the owner. *)
SelfOnly(m) == m.from \in Owners /\ m.to \ Owners = {}

(* A reply to one's own message goes where that one went. *)
To(m) ==
  IF SelfOnly(m) THEN m.to
  ELSE (IF m.from \in Owners THEN m.to ELSE {m.reply}) \ Owners

(* Reply all: everybody else on the message. *)
Copied(m) == ((m.to \cup m.cc) \ (IF SelfOnly(m) THEN {} ELSE Owners)) \ To(m)

(* buildDraft *)
Draft(mode, m) ==
  [to |-> To(m), cc |-> IF mode = "replyAll" THEN Copied(m) ELSE {}]

(* A fault: any message of ours confirms a pending one. *)
FaultyKept(p, fresh) ==
  /\ clock - p.at <= Keep
  /\ ~ \E i \in DOMAIN fresh : fresh[i].out

(* mergePending: given up, or confirmed by a message of ours. *)
Kept(p, fresh) ==
  /\ clock - p.at <= Keep
  /\ ~ \E i \in DOMAIN fresh : fresh[i].out /\ fresh[i].at + Near >= p.at

IsPending(m) == m.pending

MergePending(fresh, pending) == fresh \o SelectSeq(pending, LAMBDA p : Kept(p, fresh))

-----------------------------------------------------------------------------

(* A thread with one message, to the owner or from the owner. *)
Init ==
  /\ clock = 1
  /\ sends = <<>> /\ mails = 1
  /\ thread \in {<<[Mail(1, f.from, f.reply, f.to, f.cc) EXCEPT !.out = f.from \in Owners]>> : f \in First}
  /\ shown = thread

(* Ids: odd ones come in, even ones go out. *)
SendId(s) == 2 * s

(* Somebody writes; the sync brings it. *)
Receive ==
  /\ mails < MaxMails
  /\ mails' = mails + 1
  /\ \E f \in Others : thread' = Append(thread, Mail(2 * mails' - 1, f, f, Owners, Others \ {f}))
  /\ UNCHANGED <<clock, shown, sends>>

(* refreshOpen *)
Refresh ==
  /\ shown' = MergePending(thread, SelectSeq(shown, IsPending))
  /\ UNCHANGED <<clock, thread, sends, mails>>

(* openCompose with any message the pane shows, and sendCompose: the       *)
(* answer is shown at once, dated at the end of its undo window.           *)
Answer(mode) ==
  /\ Len(sends) < MaxSends
  /\ \E i \in DOMAIN shown :
       LET d == Draft(mode, shown[i])
           s == Len(sends) + 1
           me == CHOOSE o \in Owners : TRUE
           m == [Mail(SendId(s), me, me, d.to, d.cc) EXCEPT !.out = TRUE]
       IN  /\ d.to \cup d.cc # {}
           /\ sends' = Append(sends, [mail |-> m, pressed |-> clock, state |-> "queued"])
           /\ shown' = Append(shown, [m EXCEPT !.pending = TRUE])
  /\ UNCHANGED <<clock, thread, mails>>

(* undo: the pending message goes, the box is back. *)
Undo(s) ==
  /\ sends[s].state = "queued"
  /\ sends' = [sends EXCEPT ![s].state = "undone"]
  /\ shown' = SelectSeq(shown, LAMBDA m : ~(m.pending /\ m.id = SendId(s)))
  /\ UNCHANGED <<clock, thread, mails>>

(* It goes out, or comes back to the drafts. *)
GoesOut(s) ==
  /\ sends[s].state = "queued"
  /\ \E end \in {"out", "failed"} : sends' = [sends EXCEPT ![s].mail.at = clock, ![s].state = end]
  /\ UNCHANGED <<clock, thread, shown, mails>>

(* The sync brings it. *)
Arrive(s) ==
  /\ sends[s].state = "out"
  /\ sends' = [sends EXCEPT ![s].state = "here"]
  /\ thread' = SortSeq(Append(thread, sends[s].mail), LAMBDA a, b : a.at < b.at)
  /\ UNCHANGED <<clock, shown, mails>>

Pass ==
  /\ clock < MaxClock
  /\ clock' = clock + 1
  /\ UNCHANGED <<thread, shown, sends, mails>>

Next ==
  \/ Receive \/ Refresh \/ Pass
  \/ \E mode \in {"reply", "replyAll"} : Answer(mode)
  \/ \E s \in DOMAIN sends : Undo(s) \/ GoesOut(s) \/ Arrive(s)

Spec == Init /\ [][Next]_vars

-----------------------------------------------------------------------------

(* Those who were in the conversation with the owner at message m. *)
Audience(m) == ((IF m.from \in Owners THEN {} ELSE {m.reply}) \cup m.to \cup m.cc) \ Owners

(* A reply has an addressee, reply all leaves nobody out and names nobody  *)
(* twice, and neither comes back to the owner, but for a note to oneself   *)
(* and for a message that asks for answers at one of the owner's addresses *)
(* (recipientsFor).                                                        *)
Reaches ==
  \A i \in DOMAIN shown :
    LET m == shown[i]
        d == Draft("replyAll", m)
    IN  ~SelfOnly(m) /\ (m.from \in Owners \/ m.reply \notin Owners) =>
          /\ d.to # {}
          /\ (d.to \cup d.cc) \cap Owners = {}
          /\ d.to \cap d.cc = {}
          /\ d.to \cup d.cc = Audience(m)

Shows(s) == Len(SelectSeq(shown, LAMBDA m : m.id = SendId(s)))

(* Two messages sent within a minute of each other. *)
Close(s) ==
  \E i \in DOMAIN thread :
    thread[i].out /\ thread[i].id # SendId(s) /\ thread[i].at + Near >= sends[s].pressed

(* A message that was sent is shown once, first as pending and then as the *)
(* sync brought it, and one that was undone is not (sentMessage,           *)
(* mergePending), but for one that takes longer than Keep and for messages *)
(* sent within Near of each other.                                         *)
ShownOnce ==
  \A s \in DOMAIN sends :
    /\ sends[s].state = "undone" => Shows(s) = 0
    /\ Shows(s) <= 1
    /\ (/\ sends[s].state \in {"queued", "out", "here"}
        /\ clock - sends[s].pressed <= Keep
        /\ ~Close(s)) => Shows(s) = 1
=============================================================================
